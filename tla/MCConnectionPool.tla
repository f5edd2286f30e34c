-------------------------- MODULE MCConnectionPool --------------------------
(***************************************************************************)
(* ConnectionPool with more threads than connections, and a session that   *)
(* may outlive its pool.                                                   *)
(***************************************************************************)
EXTENDS ConnectionPool, TLC

Symmetry == Permutations(Thread) \cup Permutations(Conn)
=============================================================================
