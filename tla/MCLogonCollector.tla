-------------------------- MODULE MCLogonCollector --------------------------
(***************************************************************************)
(* LogonCollector as the only collector, over two files and two records in *)
(* all.                                                                    *)
(***************************************************************************)
EXTENDS LogonCollector

Collectors == {Logon}
=============================================================================
