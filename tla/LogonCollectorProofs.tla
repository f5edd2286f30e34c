------------------------ MODULE LogonCollectorProofs ------------------------
(***************************************************************************)
(* The agent's configuration and its logon collector, for any collectors,  *)
(* chunk size, number of policies, files and records: no collector runs    *)
(* that the pulled policy disables, and no record before an offset is      *)
(* passed over.                                                            *)
(***************************************************************************)
EXTENDS LogonCollector, FiniteSetTheorems, TLAPS

(***************************************************************************)
(* The configuration.  The version tells whether the collectors changed    *)
(* only because two copies of a policy with one version agree: the row,    *)
(* the agent's copy and an answer that was not swapped in yet.             *)
(***************************************************************************)
Agree(p, q) == p.version = q.version => p.enabled = q.enabled

PullFits ==
  /\ puller.pc = "asking" => puller.old = cached.version
  /\ puller.pc = "answered" =>
       /\ puller.old = cached.version /\ puller.got.version <= policy.version
       /\ Agree(puller.got, policy) /\ Agree(puller.got, cached)
  /\ (puller.pc = "pulled" /\ service = "up" /\ cached.version = puller.old)
       => running \subseteq cached.enabled

ConfigInv ==
  /\ ConfigTypeOK
  /\ service \in {"down", "starting", "saving"} => running = {}
  /\ cached.version <= policy.version /\ Agree(cached, policy)
  /\ PullFits
  /\ CollectorsObey

LEMMA ConfigStarts == ConfigInit => ConfigInv
  BY ConfigAssumption DEF ConfigInit, ConfigInv, ConfigTypeOK, PullFits, CollectorsObey,
     Agree, Policy, Default, Sleeping

\* What a pull does keeps the configuration's invariant.
LEMMA PullKeeps ==
  ASSUME ConfigInv, Pull
  PROVE  ConfigInv'
<1> USE ConfigAssumption DEF ConfigInv, ConfigTypeOK, PullFits, CollectorsObey, Agree,
      Policy, Sleeping
<1>1. CASE PullAnswered
  BY <1>1 DEF PullAnswered
<1>2. CASE PullSwaps
  BY <1>2 DEF PullSwaps
<1>3. CASE PullRetried
  BY <1>3 DEF PullRetried
<1>4. CASE PullFails
  BY <1>4 DEF PullFails
<1>5. CASE PullRevoked
  BY <1>5 DEF PullRevoked
<1>. QED  BY <1>1, <1>2, <1>3, <1>4, <1>5 DEF Pull

\* Every step of the service, of its pulls and of the administrator keeps it.
LEMMA ConfigKeeps ==
  ASSUME ConfigInv, [ConfigNext]_configVars
  PROVE  ConfigInv'
<1>1. CASE UNCHANGED configVars
  BY <1>1 DEF configVars, ConfigInv, ConfigTypeOK, PullFits, CollectorsObey, Agree
<1>2. CASE Pull
  BY <1>2, PullKeeps
<1> USE ConfigAssumption DEF ConfigInv, ConfigTypeOK, PullFits, CollectorsObey, Agree,
      Policy, Sleeping, Asking, Default
<1>3. ASSUME NEW enabled \in SUBSET Collector, UpdatePolicy(enabled)
      PROVE  ConfigInv'
  BY <1>3 DEF UpdatePolicy
<1>4. ASSUME NEW started \in SUBSET Collector, CollectorsStart(started)
      PROVE  ConfigInv'
  BY <1>4 DEF CollectorsStart
<1>5. CASE ServiceStarts
  BY <1>5 DEF ServiceStarts
<1>6. CASE BeginPull
  BY <1>6 DEF BeginPull
<1>7. CASE PolicyApplied
  BY <1>7 DEF PolicyApplied
<1>8. CASE Stop
  BY <1>8 DEF Stop
<1>9. CASE CollectorsStop
  BY <1>9 DEF CollectorsStop
<1>10. CASE Exit
  BY <1>10 DEF Exit
<1>11. CASE Crash
  BY <1>11 DEF Crash
<1>. QED
  BY <1>1, <1>2, <1>3, <1>4, <1>5, <1>6, <1>7, <1>8, <1>9, <1>10, <1>11 DEF ConfigNext

(***************************************************************************)
(* The configuration by itself, whatever collectors the agent has: however *)
(* the administrator's changes, pulls, retries, stops and crashes          *)
(* interleave, no collector runs between two pulls that the agent's copy   *)
(* does not enable (service.py:240, update_agent_policy).                  *)
(***************************************************************************)
THEOREM ConfigurationHolds == ConfigSpec => [](ConfigTypeOK /\ CollectorsObey)
<1>1. ConfigInv => ConfigTypeOK /\ CollectorsObey
  BY DEF ConfigInv
<1>. QED  BY <1>1, ConfigStarts, ConfigKeeps, PTL DEF ConfigSpec
-----------------------------------------------------------------------------
(***************************************************************************)
(* The files and the reader.  A scan may look at a file, open a later one  *)
(* and find a third at the path when it ends: inode <= fd <= file.         *)
(***************************************************************************)
Position == [pc : {"off", "idle", "opening"}, offset : Nat, inode : Nat]
              \cup [pc : {"reading"}, offset : Nat, inode : Nat, fd : File]
              \cup [pc : {"emitting"}, offset : Nat, inode : Nat, fd : File,
                    n : Nat, k : Nat]

MissedFits == missed \in [rotated : SUBSET Written, passed : SUBSET Written]

FilesTyped ==
  /\ size \in [File -> 0..MaxRecords] /\ half \in BOOLEAN /\ file \in File
  /\ \A f \in File : f > file => size[f] = 0
  /\ saved \in [offset : 0..MaxRecords, of : 0..file]
  /\ sent \subseteq Written /\ dropped \subseteq Written /\ MissedFits

ReaderFits ==
  /\ reader \in Position
  /\ reader.offset <= MaxRecords /\ reader.inode <= file
  /\ reader.pc \in {"reading", "emitting"} => reader.inode <= reader.fd /\ reader.fd <= file
  /\ reader.pc = "emitting" =>
       /\ reader.k <= reader.n
       /\ reader.offset + reader.n <= size[reader.fd]

(***************************************************************************)
(* Records.  Those of a file that is rotated away are accounted for, those *)
(* of the chunk that were emitted are, and no offset is beyond the records *)
(* of the current file, where new ones would appear before it.             *)
(***************************************************************************)
OldFilesAccounted == \A r \in Written : r[1] < file => r \in Past

ChunkAccounted ==
  reader.pc = "emitting" =>
    \A i \in 1..reader.k : <<reader.fd, reader.offset + i>> \in Past

OffsetsWithin ==
  /\ reader.inode = file => reader.offset <= size[file]
  /\ saved.of = file => saved.offset <= size[file]

\* A reader that looked at no file yet goes on where the saved offset is; one
\* in a scan looked at one.
ReaderResumes ==
  /\ Logon \in built /\ reader.inode = NoFile => reader.offset = saved.offset
  /\ Logon \notin built => reader.pc = "off" /\ reader.inode = NoFile
  /\ reader.pc \in {"opening", "reading", "emitting"} => reader.inode # NoFile

LogonInv ==
  /\ ConfigInv
  /\ FilesTyped /\ ReaderFits
  /\ OldFilesAccounted /\ ChunkAccounted /\ OffsetsWithin /\ ReaderResumes
  /\ RecordsAccounted

LEMMA LogonStarts == Init => LogonInv
<1> SUFFICES ASSUME Init PROVE LogonInv
  OBVIOUS
<1>1. ConfigInv
  BY ConfigStarts DEF Init
<1>2. Written = {}
  BY LogonAssumption DEF Init, Written, Record
<1>3. FilesTyped
  <2>1. /\ size = [f \in File |-> 0] /\ half = FALSE /\ file = 1
        /\ saved = [offset |-> 0, of |-> 0] /\ sent = {} /\ dropped = {}
        /\ missed = [rotated |-> {}, passed |-> {}]
    BY DEF Init, NoFile
  <2>2. size \in [File -> 0..MaxRecords] /\ \A f \in File : f > file => size[f] = 0
    BY <2>1, LogonAssumption
  <2>3. half \in BOOLEAN
    BY <2>1
  <2>6. file \in File
    BY <2>1, LogonAssumption DEF File
  <2>4. 0 \in 0..MaxRecords /\ 0 \in 0..file
    BY <2>1, LogonAssumption
  <2>5. saved \in [offset : 0..MaxRecords, of : 0..file]
    BY <2>1, <2>4
  <2>7. MissedFits
    BY <2>1 DEF MissedFits
  <2>. QED  BY <2>1, <2>2, <2>3, <2>5, <2>6, <2>7 DEF FilesTyped
<1>5. ReaderFits
  <2>1. reader = Off /\ file = 1
    BY DEF Init
  <2>2. reader \in Position
    BY <2>1 DEF Position, Off, NoFile
  <2>. QED  BY <2>1, <2>2, LogonAssumption DEF ReaderFits, Off, NoFile
<1>4. OldFilesAccounted /\ ChunkAccounted /\ OffsetsWithin /\ ReaderResumes /\ RecordsAccounted
  BY <1>2, LogonAssumption
  DEF Init, ConfigInit, OldFilesAccounted, ChunkAccounted, OffsetsWithin, ReaderResumes,
      RecordsAccounted, Accounted, Off, NoFile
<1>. QED  BY <1>1, <1>3, <1>4, <1>5 DEF LogonInv

\* The bound on all records bounds those of the current file.
LEMMA RoomForOneMore ==
  ASSUME FilesTyped, Cardinality(Written) < MaxRecords
  PROVE  size[file] < MaxRecords
<1> DEFINE f == [i \in 1..size[file] |-> <<file, i>>]
<1>1. size[file] \in Nat /\ size[file] <= MaxRecords /\ MaxRecords \in Nat /\ file \in File
  BY LogonAssumption DEF FilesTyped
<1>2. IsFiniteSet(Written)
  <2>1. IsFiniteSet(File) /\ IsFiniteSet(1..MaxRecords)
    BY FS_Interval, LogonAssumption DEF File
  <2>2. IsFiniteSet(Record)
    BY <2>1, FS_Product DEF Record
  <2>. QED  BY <2>2, FS_Subset DEF Written
<1>3. f \in Injection(1..size[file], Written)
  <2>1. \A i \in 1..size[file] : f[i] = <<file, i>> /\ <<file, i>> \in Written
    BY <1>1 DEF Written, Record
  <2>2. f \in [1..size[file] -> Written]
    BY <2>1
  <2>3. \A i, j \in 1..size[file] : f[i] = f[j] => i = j
    BY <2>1
  <2> HIDE DEF f
  <2>. QED  BY <2>2, <2>3 DEF Injection, IsInjective
<1>4. Cardinality(1..size[file]) = size[file]
  BY <1>1, FS_Interval
<1>5. Cardinality(1..size[file]) <= Cardinality(Written)
  BY <1>2, <1>3, FS_Injection
<1>6. Cardinality(Written) \in Nat
  BY <1>2, FS_CardinalityType
<1>. QED  BY <1>1, <1>4, <1>5, <1>6
-----------------------------------------------------------------------------
\* The system's steps on the files.
LEMMA RecordWritten ==
  ASSUME LogonInv, WriteRecord
  PROVE  (FilesTyped /\ ReaderFits /\ OldFilesAccounted /\ ChunkAccounted /\ OffsetsWithin
          /\ ReaderResumes /\ RecordsAccounted)'
<1>1. size[file] < MaxRecords
  BY RoomForOneMore DEF WriteRecord, LogonInv
<1> USE DEF LogonInv
<1>2. /\ file \in File /\ size' = [size EXCEPT ![file] = @ + 1] /\ half' = FALSE
      /\ size \in [File -> 0..MaxRecords]
      /\ UNCHANGED <<file, reader, saved, sent, dropped, missed>> /\ UNCHANGED configVars
  BY DEF WriteRecord, FilesTyped
<1>3. /\ size' \in [File -> 0..MaxRecords] /\ size'[file] = size[file] + 1
      /\ \A f \in File : f # file => size'[f] = size[f]
  BY <1>1, <1>2, LogonAssumption
<1>4. Written \subseteq Written'
  BY <1>2, <1>3, LogonAssumption DEF Written, Record
<1>5. \A r \in Written' : r \in Written \/ r = <<file, size[file] + 1>>
  BY <1>2, <1>3, LogonAssumption DEF Written, Record
<1>6. FilesTyped'
  <2>1. \A f \in File : f > file => size'[f] = 0
    BY <1>2, <1>3 DEF FilesTyped, File
  <2>2. sent' \subseteq Written' /\ dropped' \subseteq Written'
    BY <1>2, <1>4 DEF FilesTyped
  <2>4. MissedFits'
    <3>1. SUBSET Written \subseteq SUBSET Written'
      BY <1>4
    <3>. QED  BY <1>2, <3>1 DEF MissedFits, FilesTyped
  <2>3. saved' \in [offset : 0..MaxRecords, of : 0..file'] /\ half' \in BOOLEAN /\ file' \in File
    BY <1>2 DEF FilesTyped
  <2>. QED  BY <1>2, <1>3, <2>1, <2>2, <2>3, <2>4 DEF FilesTyped
<1>7. ReaderFits'
  <2>1. \A f \in File : size[f] \in Nat /\ size'[f] \in Nat /\ size[f] <= size'[f]
    BY <1>1, <1>2, <1>3, LogonAssumption DEF File
  <2>2. reader.pc = "emitting" => reader.fd \in File /\ reader.offset \in Nat /\ reader.n \in Nat
    BY DEF ReaderFits, Position
  <2>. QED  BY <1>2, <2>1, <2>2 DEF ReaderFits, Position
<1>8. OldFilesAccounted'
  BY <1>2, <1>5, LogonAssumption DEF OldFilesAccounted, Past, File
<1>9. (ChunkAccounted /\ ReaderResumes)'
  BY <1>2 DEF ChunkAccounted, ReaderResumes, Past, configVars
<1>10. OffsetsWithin'
  BY <1>2, <1>3, LogonAssumption DEF OffsetsWithin, ReaderFits, Position, FilesTyped, File
<1>11. ASSUME NEW g \in Nat, NEW o \in Nat, g = file => o <= size[file], Accounted(g, o)
       PROVE  Accounted(g, o)'
  BY <1>2, <1>5, <1>11, LogonAssumption DEF Accounted, File, Past
<1>12. RecordsAccounted'
  <2>1. reader.inode \in Nat /\ reader.offset \in Nat /\ saved.of \in Nat /\ saved.offset \in Nat
    BY LogonAssumption DEF ReaderFits, Position, FilesTyped, File
  <2>. QED  BY <1>2, <1>11, <2>1 DEF RecordsAccounted, OffsetsWithin
<1>. QED  BY <1>6, <1>7, <1>8, <1>9, <1>10, <1>12

LEMMA FileRotated ==
  ASSUME LogonInv, Rotate
  PROVE  (FilesTyped /\ ReaderFits /\ OldFilesAccounted /\ ChunkAccounted /\ OffsetsWithin
          /\ ReaderResumes /\ RecordsAccounted)'
<1> USE DEF LogonInv
<1> DEFINE unread == {r \in Written : r[1] = file /\ r \notin sent \cup dropped}
<1>1. /\ file \in File /\ file' = file + 1 /\ file' \in File
      /\ missed' = [missed EXCEPT !.rotated = @ \cup unread]
      /\ UNCHANGED <<size, half, reader, saved, sent, dropped>> /\ UNCHANGED configVars
  BY LogonAssumption DEF Rotate, FilesTyped, File
<1>9. /\ missed'.rotated = missed.rotated \cup unread /\ missed'.passed = missed.passed
      /\ missed' \in [rotated : SUBSET Written, passed : SUBSET Written]
  <2>1. missed \in [rotated : SUBSET Written, passed : SUBSET Written] /\ unread \subseteq Written
    BY DEF FilesTyped, MissedFits
  <2> HIDE DEF unread
  <2>. QED  BY <1>1, <2>1
<1>2. Written' = Written /\ Past \subseteq Past' /\ unread \subseteq Past' \cup sent \cup dropped
  <2> HIDE DEF unread
  <2>. QED  BY <1>1, <1>9 DEF Written, Past
<1>3. FilesTyped'
  <2>1. MissedFits'
    BY <1>2, <1>9 DEF MissedFits
  <2>. QED  BY <1>1, <1>2, <2>1 DEF FilesTyped, File
<1>4. ReaderFits'
  BY <1>1, LogonAssumption DEF ReaderFits, Position, File
<1>5. OldFilesAccounted'
  <2> SUFFICES ASSUME NEW r \in Written, r[1] < file + 1
               PROVE  r \in Past'
    BY <1>1, <1>2 DEF OldFilesAccounted
  <2>1. r[1] \in Nat /\ file \in Nat
    BY <1>1, LogonAssumption DEF Written, Record, File
  <2>2. CASE r[1] = file
    BY <1>1, <1>2, <2>2 DEF Past
  <2>3. CASE r[1] < file
    BY <1>2, <2>3 DEF OldFilesAccounted
  <2>. QED  BY <2>1, <2>2, <2>3
<1>6. (ChunkAccounted /\ ReaderResumes)'
  BY <1>1, <1>2 DEF ChunkAccounted, ReaderResumes, configVars
<1>7. OffsetsWithin'
  BY <1>1, LogonAssumption DEF OffsetsWithin, ReaderFits, Position, FilesTyped, File
<1>8. RecordsAccounted'
  BY <1>1, <1>2 DEF RecordsAccounted, Accounted, Past
<1>. QED  BY <1>3, <1>4, <1>5, <1>6, <1>7, <1>8
-----------------------------------------------------------------------------
(***************************************************************************)
(* The reader's steps leave the files and the saved offset alone.          *)
(***************************************************************************)
ReaderInv ==
  /\ ReaderFits /\ ChunkAccounted /\ ReaderResumes
  /\ reader.inode = file => reader.offset <= size[file]
  /\ reader.inode # NoFile => Accounted(reader.inode, reader.offset)

LEMMA ReaderSuffices ==
  ASSUME LogonInv, ReaderInv', UNCHANGED <<size, half, file, saved>>,
         Past \subseteq Past', sent' \subseteq Written, dropped' \subseteq Written, MissedFits'
  PROVE  (FilesTyped /\ ReaderFits /\ OldFilesAccounted /\ ChunkAccounted /\ OffsetsWithin
          /\ ReaderResumes /\ RecordsAccounted)'
<1> USE DEF LogonInv
<1>1. Written' = Written
  BY DEF Written
<1>2. FilesTyped'
  BY <1>1 DEF FilesTyped
<1>3. OldFilesAccounted'
  BY <1>1 DEF OldFilesAccounted
<1>4. OffsetsWithin'
  BY DEF OffsetsWithin, ReaderInv
<1>5. RecordsAccounted'
  BY <1>1 DEF RecordsAccounted, Accounted, ReaderInv, Past
<1>. QED  BY <1>2, <1>3, <1>4, <1>5 DEF ReaderInv

\* A look at the path: the offset stays, goes back to the start, or is about a
\* file that was not seen before.
LEMMA Scanned ==
  ASSUME LogonInv, Scan
  PROVE  (FilesTyped /\ ReaderFits /\ OldFilesAccounted /\ ChunkAccounted /\ OffsetsWithin
          /\ ReaderResumes /\ RecordsAccounted)'
<1> USE DEF LogonInv
<1> DEFINE from == IF Rotated THEN 0 ELSE reader.offset
           passed == {r \in Written : r[1] = file /\ r[2] <= from}
<1>1. /\ reader' = [pc |-> IF Unread(from) THEN "opening" ELSE "idle",
                    offset |-> from, inode |-> file]
      /\ missed' = IF reader.inode = NoFile /\ saved.of # file
                     THEN [missed EXCEPT !.passed = @ \cup passed] ELSE missed
      /\ UNCHANGED <<size, half, file, saved, sent, dropped>> /\ UNCHANGED configVars
      /\ Logon \in running
  BY DEF Scan
<1>2. /\ reader.offset \in Nat /\ reader.inode \in Nat /\ file \in File /\ file \in Nat \ {0}
      /\ saved.of \in Nat /\ saved.offset \in Nat /\ size[file] \in Nat
  BY LogonAssumption DEF ReaderFits, Position, FilesTyped, File
<1>3. from \in Nat /\ from <= size[file] /\ from <= MaxRecords
  BY <1>2, LogonAssumption DEF Rotated, FilesTyped
<1>4. Logon \in built
  BY <1>1 DEF ConfigInv, ConfigTypeOK
<1>15. /\ missed' \in [rotated : SUBSET Written, passed : SUBSET Written]
       /\ missed'.rotated = missed.rotated /\ missed.passed \subseteq missed'.passed
       /\ reader.inode = NoFile /\ saved.of # file => passed \subseteq missed'.passed
  <2>1. missed \in [rotated : SUBSET Written, passed : SUBSET Written] /\ passed \subseteq Written
    BY DEF FilesTyped, MissedFits
  <2> HIDE DEF passed
  <2>. QED  BY <1>1, <2>1
<1>5. Written' = Written /\ Past \subseteq Past'
  BY <1>1, <1>15 DEF Written, Past
<1>6. sent' \subseteq Written /\ dropped' \subseteq Written /\ MissedFits'
  BY <1>1, <1>5, <1>15 DEF FilesTyped, MissedFits
<1>7. ASSUME NEW i \in 1..from, <<file, i>> \in Written
      PROVE  <<file, i>> \in Past'
  <2>1. from # 0 /\ from = reader.offset /\ ~Rotated /\ i <= from
    BY <1>2, <1>3, <1>7
  <2>2. reader.inode = NoFile \/ reader.inode = file
    BY <2>1 DEF Rotated
  <2>3. CASE reader.inode = file
    BY <1>2, <1>5, <1>7, <2>1, <2>3 DEF RecordsAccounted, Accounted, NoFile, Past
  <2>4. CASE reader.inode = NoFile /\ saved.of = file
    <3>1. reader.offset = saved.offset
      BY <1>4, <2>4 DEF ReaderResumes
    <3>. QED  BY <1>2, <1>5, <1>7, <2>1, <2>4, <3>1 DEF RecordsAccounted, Accounted, NoFile, Past
  <2>5. CASE reader.inode = NoFile /\ saved.of # file
    <3>1. <<file, i>> \in passed
      BY <1>7, <2>1
    <3>. QED  BY <1>15, <2>5, <3>1 DEF Past
  <2>. QED  BY <2>2, <2>3, <2>4, <2>5
<1>8. reader'.pc \in {"idle", "opening"} /\ reader'.offset = from /\ reader'.inode = file
  BY <1>1
<1>9. ReaderFits'
  <2>1. reader' \in Position
    BY <1>1, <1>2, <1>3 DEF Position
  <2>. QED  BY <1>1, <1>2, <1>3, <1>8, <2>1 DEF ReaderFits
<1> HIDE DEF from
<1>11. ChunkAccounted'
  BY <1>8 DEF ChunkAccounted
<1>12. ReaderResumes'
  BY <1>1, <1>2, <1>4, <1>8 DEF ReaderResumes, NoFile, configVars
<1>13. Accounted(reader.inode, reader.offset)'
  BY <1>5, <1>7, <1>8 DEF Accounted, Past
<1>14. reader'.offset <= size'[file']
  BY <1>1, <1>3, <1>8
<1>10. ReaderInv'
  BY <1>9, <1>11, <1>12, <1>13, <1>14 DEF ReaderInv
<1>. QED  BY <1>1, <1>5, <1>6, <1>10, ReaderSuffices

\* Opening, reading and ending a scan move no offset.
LEMMA ScanContinued ==
  ASSUME LogonInv, Open \/ ReadChunk \/ ScanFails
  PROVE  (FilesTyped /\ ReaderFits /\ OldFilesAccounted /\ ChunkAccounted /\ OffsetsWithin
          /\ ReaderResumes /\ RecordsAccounted)'
<1> USE DEF LogonInv
<1>1. /\ UNCHANGED <<size, half, file, saved, sent, dropped, missed>> /\ UNCHANGED configVars
      /\ reader'.offset = reader.offset /\ reader'.inode = reader.inode
      /\ reader.pc \in {"opening", "reading", "emitting"}
  BY DEF Open, ReadChunk, ScanFails, Idle
<1>2. /\ reader.offset \in Nat /\ reader.inode \in Nat /\ file \in File /\ file \in Nat
      /\ size \in [File -> 0..MaxRecords] /\ MaxRecords \in Nat
  BY LogonAssumption DEF ReaderFits, Position, FilesTyped, File
<1>5. \A f \in File : size[f] \in Nat
  BY <1>2
<1>3. ReaderFits' /\ (reader'.pc = "emitting" => reader'.k = 0)
  <2>1. CASE Open
    <3>1. reader' = [pc |-> "reading", offset |-> reader.offset, inode |-> reader.inode,
                     fd |-> file]
      BY <2>1 DEF Open
    <3>. QED  BY <1>1, <1>2, <3>1 DEF ReaderFits, Position
  <2>2. CASE reader' = Idle(reader)
    BY <1>1, <1>2, <2>2 DEF Idle, ReaderFits, Position
  <2>3. CASE ReadChunk /\ Available # 0
    <3> DEFINE n == IF Available < Chunk THEN Available ELSE Chunk
    <3>1. /\ reader.pc = "reading"
          /\ reader' = [pc |-> "emitting", offset |-> reader.offset, inode |-> reader.inode,
                        fd |-> reader.fd, n |-> n, k |-> 0]
      BY <2>3 DEF ReadChunk
    <3> HIDE DEF n
    <3>5. reader.fd \in File
      BY <3>1 DEF ReaderFits, Position
    <3>2. reader.fd \in File /\ size[reader.fd] \in Nat
      BY <1>5, <3>5
    <3> USE DEF n
    <3>3. n \in Nat /\ reader.offset + n <= size[reader.fd]
      BY <1>2, <2>3, <3>2, LogonAssumption DEF Available
    <3> HIDE DEF n
    <3>4. reader' \in Position
      BY <1>2, <3>1, <3>2, <3>3 DEF Position
    <3>. QED  BY <1>1, <3>1, <3>3, <3>4 DEF ReaderFits
  <2>. QED  BY <2>1, <2>2, <2>3 DEF ReadChunk, ScanFails
<1>4. ReaderInv'
  <2>1. ChunkAccounted'
    BY <1>3 DEF ChunkAccounted
  <2>2. ReaderResumes'
    BY <1>1 DEF ReaderResumes, configVars
  <2>3. (reader'.inode = file' => reader'.offset <= size'[file'])
    BY <1>1 DEF OffsetsWithin
  <2>4. (reader.inode # NoFile => Accounted(reader.inode, reader.offset))'
    BY <1>1 DEF RecordsAccounted, Accounted, Written, Past
  <2>. QED  BY <1>3, <2>1, <2>2, <2>3, <2>4 DEF ReaderInv
<1>. QED  BY <1>1, <1>4, ReaderSuffices DEF FilesTyped, MissedFits, Written, Past

\* A record of the chunk goes to the sink, or is dropped.
LEMMA RecordEmitted ==
  ASSUME LogonInv, NEW ok \in BOOLEAN, Emit(ok)
  PROVE  (FilesTyped /\ ReaderFits /\ OldFilesAccounted /\ ChunkAccounted /\ OffsetsWithin
          /\ ReaderResumes /\ RecordsAccounted)'
<1> USE DEF LogonInv
<1> DEFINE r == <<reader.fd, reader.offset + reader.k + 1>>
<1>1. /\ reader.pc = "emitting" /\ reader.k < reader.n
      /\ reader' = [reader EXCEPT !.k = @ + 1]
      /\ UNCHANGED <<size, half, file, saved, missed>> /\ UNCHANGED configVars
      /\ \/ sent' = sent \cup {r} /\ dropped' = dropped
         \/ dropped' = dropped \cup {r} /\ sent' = sent
  BY DEF Emit
<1>2. reader \in [pc : {"emitting"}, offset : Nat, inode : Nat, fd : File, n : Nat, k : Nat]
  BY <1>1 DEF ReaderFits, Position
<1>3. /\ reader'.pc = "emitting" /\ reader'.k = reader.k + 1
      /\ reader'.offset = reader.offset /\ reader'.inode = reader.inode
      /\ reader'.fd = reader.fd /\ reader'.n = reader.n
      /\ reader' \in Position
  BY <1>1, <1>2 DEF Position
<1>4. \A f \in File : size[f] \in Nat /\ size[f] <= MaxRecords
  BY LogonAssumption DEF FilesTyped
<1>5. r \in Written
  <2>1. reader.offset + reader.k + 1 <= size[reader.fd]
    BY <1>1, <1>2, <1>4 DEF ReaderFits
  <2>2. r \in Record
    BY <1>2, <1>4, <2>1, LogonAssumption DEF Record
  <2>. QED  BY <2>1, <2>2 DEF Written
<1>6. Past' = Past \cup {r}
  BY <1>1 DEF Past
<1>7. sent' \subseteq Written /\ dropped' \subseteq Written /\ MissedFits'
  BY <1>1, <1>5 DEF FilesTyped, MissedFits, Written
<1>8. ReaderFits'
  BY <1>1, <1>2, <1>3 DEF ReaderFits
<1>9. ChunkAccounted'
  <2> SUFFICES ASSUME NEW i \in 1..(reader.k + 1)
               PROVE  <<reader.fd, reader.offset + i>> \in Past'
    BY <1>3 DEF ChunkAccounted
  <2>1. CASE i \in 1..reader.k
    BY <1>1, <1>6, <2>1 DEF ChunkAccounted
  <2>2. CASE i = reader.k + 1
    BY <1>2, <1>6, <2>2
  <2>. QED  BY <1>2, <2>1, <2>2
<1>10. ReaderResumes'
  BY <1>1, <1>3 DEF ReaderResumes, configVars
<1>11. reader'.inode = file' => reader'.offset <= size'[file']
  BY <1>1, <1>3 DEF OffsetsWithin
<1>12. (reader.inode # NoFile => Accounted(reader.inode, reader.offset))'
  BY <1>1, <1>3, <1>6 DEF RecordsAccounted, Accounted, Past, Written
<1>13. ReaderInv'
  BY <1>8, <1>9, <1>10, <1>11, <1>12 DEF ReaderInv
<1>. QED  BY <1>1, <1>6, <1>7, <1>13, ReaderSuffices

\* The offset moves over a chunk that was emitted.  If the chunk is of a later
\* file than the offset, the offset's file is an old one and all of it is
\* accounted for.
LEMMA ChunkPassed ==
  ASSUME LogonInv, ChunkDone
  PROVE  (FilesTyped /\ ReaderFits /\ OldFilesAccounted /\ ChunkAccounted /\ OffsetsWithin
          /\ ReaderResumes /\ RecordsAccounted)'
<1> USE DEF LogonInv
<1>1. /\ reader.pc = "emitting" /\ reader.k = reader.n
      /\ UNCHANGED <<size, half, file, saved, sent, dropped, missed>> /\ UNCHANGED configVars
  BY DEF ChunkDone
<1>2. reader \in [pc : {"emitting"}, offset : Nat, inode : Nat, fd : File, n : Nat, k : Nat]
  BY <1>1 DEF ReaderFits, Position
<1>3. \/ reader' = [pc |-> "idle", offset |-> reader.offset + reader.n,
                    inode |-> reader.inode]
      \/ reader' = [pc |-> "reading", offset |-> reader.offset + reader.n,
                    inode |-> reader.inode, fd |-> reader.fd]
  BY <1>2 DEF ChunkDone, Idle
<1>4. /\ reader'.offset = reader.offset + reader.n /\ reader'.inode = reader.inode
      /\ reader'.pc \in {"idle", "reading"} /\ (reader'.pc = "reading" => reader'.fd = reader.fd)
      /\ reader' \in Position
  BY <1>2, <1>3 DEF Position
<1>5. /\ \A f \in File : size[f] \in Nat /\ size[f] <= MaxRecords
      /\ file \in File /\ file \in Nat /\ reader.fd \in Nat /\ MaxRecords \in Nat
  BY <1>2, LogonAssumption DEF FilesTyped, File
<1>6. /\ reader.inode <= reader.fd /\ reader.fd <= file
      /\ reader.offset + reader.n <= size[reader.fd]
  BY <1>1 DEF ReaderFits
<1>7. ReaderFits'
  <2>1. reader'.offset <= MaxRecords
    BY <1>2, <1>4, <1>5, <1>6
  <2>. QED  BY <1>1, <1>2, <1>4, <1>6, <2>1 DEF ReaderFits
<1>8. ChunkAccounted'
  BY <1>4 DEF ChunkAccounted
<1>9. ReaderResumes'
  BY <1>1, <1>2, <1>4 DEF ReaderResumes, ConfigInv, configVars
<1>10. reader'.inode = file' => reader'.offset <= size'[file']
  <2>1. reader.inode = file => reader.fd = file
    BY <1>2, <1>5, <1>6
  <2>. QED  BY <1>1, <1>4, <1>6, <2>1
<1>11. (reader.inode # NoFile => Accounted(reader.inode, reader.offset))'
  <2> SUFFICES ASSUME reader.inode # NoFile, NEW i \in 1..(reader.offset + reader.n),
                      <<reader.inode, i>> \in Written
               PROVE  <<reader.inode, i>> \in Past
    BY <1>1, <1>4 DEF Accounted, Past, Written
  <2>1. CASE i \in 1..reader.offset
    BY <2>1 DEF RecordsAccounted, Accounted, Past
  <2>2. CASE reader.inode < reader.fd
    BY <1>2, <1>5, <1>6, <2>2 DEF OldFilesAccounted
  <2>3. CASE reader.inode = reader.fd /\ i \notin 1..reader.offset
    <3>1. i - reader.offset \in 1..reader.k /\ reader.offset + (i - reader.offset) = i
      BY <1>1, <1>2, <2>3
    <3>. QED  BY <1>1, <2>3, <3>1 DEF ChunkAccounted
  <2>. QED  BY <1>2, <1>5, <1>6, <2>1, <2>2, <2>3
<1>12. ReaderInv'
  BY <1>7, <1>8, <1>9, <1>10, <1>11 DEF ReaderInv
<1>. QED  BY <1>1, <1>12, ReaderSuffices DEF FilesTyped, MissedFits, Written, Past
-----------------------------------------------------------------------------
(***************************************************************************)
(* The service's steps on the collector.                                   *)
(***************************************************************************)
LogonParts ==
  /\ FilesTyped /\ ReaderFits /\ OldFilesAccounted /\ ChunkAccounted /\ OffsetsWithin
  /\ ReaderResumes /\ RecordsAccounted

\* A start restores the saved offset, of no file yet.
LEMMA Started ==
  ASSUME LogonInv, Starts
  PROVE  LogonParts'
<1> USE DEF LogonInv
<1>1. /\ UNCHANGED <<size, half, file, saved, sent, dropped, missed>>
      /\ reader'.pc \in {"idle", "off"} /\ reader'.inode = NoFile
      /\ reader'.offset \in {0, saved.offset}
      /\ reader' \in [pc : {"idle", "off"}, offset : {0, saved.offset}, inode : {NoFile}]
  BY DEF Starts, Off
<1>2. /\ built' = cached.enabled
      /\ Logon \in cached.enabled => reader'.offset = saved.offset
      /\ Logon \notin cached.enabled => reader'.pc = "off"
  BY DEF Starts, CollectorsStart, Off
<1>3. saved.offset \in 0..MaxRecords /\ file \in Nat /\ file # NoFile
  BY LogonAssumption DEF FilesTyped, File, NoFile
<1>4. ReaderFits'
  <2>1. reader' \in Position
    BY <1>1, <1>3, LogonAssumption DEF Position, NoFile
  <2>. QED  BY <1>1, <1>3, <2>1, LogonAssumption DEF ReaderFits, NoFile
<1>5. ReaderResumes'
  BY <1>1, <1>2 DEF ReaderResumes
<1>6. ChunkAccounted'
  BY <1>1 DEF ChunkAccounted
<1>7. ReaderInv'
  BY <1>1, <1>3, <1>4, <1>5, <1>6 DEF ReaderInv
<1>8. Past \subseteq Past' /\ sent' \subseteq Written /\ dropped' \subseteq Written /\ MissedFits'
  BY <1>1 DEF FilesTyped, MissedFits, Written, Past
<1>. QED  BY <1>1, <1>7, <1>8, ReaderSuffices DEF LogonParts

\* The process ends: the offset is saved, or (a crash) is not.
LEMMA Ended ==
  ASSUME LogonInv, Exits \/ Crashes
  PROVE  LogonParts'
<1> USE DEF LogonInv
<1>1. /\ UNCHANGED <<size, half, file, sent, dropped, missed>>
      /\ reader' = Off /\ built' = {}
  BY DEF Exits, Crashes, Exit, Crash
<1>2. /\ reader.offset \in 0..MaxRecords /\ reader.inode \in 0..file
      /\ saved \in [offset : 0..MaxRecords, of : 0..file]
      /\ file \in Nat /\ file # NoFile
  BY LogonAssumption DEF FilesTyped, ReaderFits, Position, File, NoFile
<1>3. /\ saved' \in [offset : 0..MaxRecords, of : 0..file]
      /\ saved'.of = file => saved'.offset <= size[file]
      /\ saved'.of # NoFile => Accounted(saved'.of, saved'.offset)
  <2>1. CASE saved' = saved
    BY <1>2, <2>1 DEF OffsetsWithin, RecordsAccounted
  <2>2. CASE /\ Exits /\ Logon \in built /\ reader.inode # NoFile
             /\ saved' = [offset |-> reader.offset, of |-> reader.inode]
    BY <1>2, <2>2 DEF OffsetsWithin, RecordsAccounted
  <2>3. CASE /\ Exits /\ Logon \in built /\ reader.inode = NoFile
             /\ saved' = [offset |-> reader.offset, of |-> saved.of]
    <3>1. reader.offset = saved.offset
      BY <2>3 DEF ReaderResumes
    <3>. QED  BY <1>2, <2>3, <3>1 DEF OffsetsWithin, RecordsAccounted
  <2>. QED  BY <2>1, <2>2, <2>3 DEF Exits, Crashes
<1>4. Written' = Written
  BY <1>1 DEF Written
<1>5. FilesTyped'
  BY <1>1, <1>3, <1>4 DEF FilesTyped, MissedFits
<1>6. (ReaderFits /\ ChunkAccounted /\ ReaderResumes)'
  BY <1>1, <1>2, LogonAssumption
  DEF ReaderFits, Position, ChunkAccounted, ReaderResumes, Off, NoFile
<1>7. OldFilesAccounted'
  BY <1>1, <1>4 DEF OldFilesAccounted, Past
<1>8. OffsetsWithin'
  BY <1>1, <1>2, <1>3 DEF OffsetsWithin, Off
<1>9. RecordsAccounted'
  BY <1>1, <1>3, <1>4 DEF RecordsAccounted, Accounted, Off, Past
<1>. QED  BY <1>5, <1>6, <1>7, <1>8, <1>9 DEF LogonParts

\* The configuration's other steps leave the collector alone.
LEMMA Configured ==
  ASSUME LogonInv, UNCHANGED <<size, file, reader, saved, sent, dropped, missed, built>>,
         half' \in BOOLEAN
  PROVE  LogonParts'
<1> USE DEF LogonInv
<1>1. Written' = Written /\ Past' = Past
  BY DEF Written, Past
<1>2. (FilesTyped /\ OldFilesAccounted)'
  BY <1>1 DEF FilesTyped, MissedFits, OldFilesAccounted
<1>3. (ReaderFits /\ ChunkAccounted /\ ReaderResumes /\ OffsetsWithin)'
  BY <1>1 DEF ReaderFits, ChunkAccounted, ReaderResumes, OffsetsWithin
<1>4. RecordsAccounted'
  BY <1>1 DEF RecordsAccounted, Accounted
<1>. QED  BY <1>2, <1>3, <1>4 DEF LogonParts

LEMMA LogonConfigures ==
  ASSUME [Next]_vars
  PROVE  [ConfigNext]_configVars
<1>1. CASE WriteHalf \/ WriteRecord \/ Rotate \/ Reading \/ ScanFails
  BY <1>1 DEF WriteHalf, WriteRecord, Rotate, Reading, Scan, Open, ReadChunk, Emit,
     ChunkDone, ScanFails
<1>2. CASE Starts \/ Exits \/ Crashes \/ Configures
  BY <1>2 DEF Starts, Exits, Crashes, Configures, ConfigNext
<1>. QED  BY <1>1, <1>2 DEF Next, vars

LEMMA LogonKeeps ==
  ASSUME LogonInv, [Next]_vars
  PROVE  LogonInv'
<1>1. [ConfigNext]_configVars
  BY LogonConfigures
<1>2. ConfigInv'
  BY <1>1, ConfigKeeps DEF LogonInv
<1>3. LogonParts'
  <2>1. CASE WriteHalf
    BY <2>1, Configured DEF WriteHalf, configVars
  <2>2. CASE WriteRecord
    BY <2>2, RecordWritten DEF LogonParts
  <2>3. CASE Rotate
    BY <2>3, FileRotated DEF LogonParts
  <2>4. CASE Scan
    BY <2>4, Scanned DEF LogonParts
  <2>5. CASE Open \/ ReadChunk \/ ScanFails
    BY <2>5, ScanContinued DEF LogonParts
  <2>6. ASSUME NEW ok \in BOOLEAN, Emit(ok)
        PROVE  LogonParts'
    BY <2>6, RecordEmitted DEF LogonParts
  <2>7. CASE ChunkDone
    BY <2>7, ChunkPassed DEF LogonParts
  <2>8. CASE Starts
    BY <2>8, Started
  <2>9. CASE Exits \/ Crashes
    BY <2>9, Ended
  <2>10. CASE Configures
    <3>1. built' = built
      BY <2>10
      DEF Configures, UpdatePolicy, ServiceStarts, BeginPull, Pull, PullAnswered, PullSwaps,
          PullRetried, PullFails, PullRevoked, PolicyApplied, Stop, CollectorsStop
    <3>2. UNCHANGED <<size, file, reader, saved, sent, dropped, missed>> /\ half' \in BOOLEAN
      BY <2>10 DEF Configures, logonVars, LogonInv, FilesTyped
    <3>. QED  BY <3>1, <3>2, Configured
  <2>11. CASE UNCHANGED vars
    BY <2>11, Configured DEF vars, logonVars, configVars, LogonInv, FilesTyped
  <2>. QED
    BY <2>1, <2>2, <2>3, <2>4, <2>5, <2>6, <2>7, <2>8, <2>9, <2>10, <2>11
    DEF Next, Reading
<1>. QED  BY <1>2, <1>3 DEF LogonInv, LogonParts

LEMMA LogonAlways == Spec => []LogonInv
  BY LogonStarts, LogonKeeps, PTL DEF Spec

(***************************************************************************)
(* The configuration, the wtmp files, the reader and the saved offset keep *)
(* their types: a chunk of records stays within its file (logon.py:205).   *)
(***************************************************************************)
THEOREM LogonTyped == Spec => []TypeOK
<1>1. LogonInv => TypeOK
  <2> SUFFICES ASSUME LogonInv PROVE TypeOK
    OBVIOUS
  <2>1. ConfigTypeOK
    BY DEF LogonInv, ConfigInv
  <2>2. /\ size \in [File -> 0..MaxRecords] /\ half \in BOOLEAN /\ file \in File
        /\ sent \subseteq Written /\ dropped \subseteq Written
        /\ missed \in [rotated : SUBSET Written, passed : SUBSET Written]
        /\ saved.offset \in 0..MaxRecords /\ saved.of \in 0..file
    BY DEF LogonInv, FilesTyped, MissedFits
  <2>3. 0..file \subseteq File \cup {NoFile}
    BY <2>2, LogonAssumption DEF File, NoFile
  <2>4. /\ reader.pc \in {"off", "idle", "opening", "reading", "emitting"}
        /\ reader.offset \in Nat /\ reader.inode \in Nat
    BY DEF LogonInv, ReaderFits, Position
  <2>5. reader.offset \in 0..MaxRecords /\ reader.inode \in 0..file
    BY <2>2, <2>4, LogonAssumption DEF LogonInv, ReaderFits, File
  <2>6. reader.pc \in {"reading", "emitting"} => reader.fd \in File
    BY DEF LogonInv, ReaderFits, Position
  <2>7. reader.pc = "emitting" =>
          reader.offset + reader.n <= size[reader.fd] /\ reader.k \in 0..reader.n
    BY DEF LogonInv, ReaderFits, Position
  <2>. QED  BY <2>1, <2>2, <2>3, <2>4, <2>5, <2>6, <2>7 DEF TypeOK
<1>. QED  BY <1>1, LogonAlways, PTL

(***************************************************************************)
(* The agent with its logon collector runs the configuration: whatever a   *)
(* reader is in the middle of, the collector takes part in a start, an     *)
(* exit and a crash and changes nothing else of it (AgentService).         *)
(***************************************************************************)
THEOREM LogonUsesConfiguration == Spec => ConfigSpec
<1>1. Init => ConfigInit
  BY DEF Init
<1>. QED  BY <1>1, LogonConfigures, PTL DEF Spec, ConfigSpec

(***************************************************************************)
(* No collector runs that the policy the agent last took in disables,      *)
(* whatever the order of pulls, changes, stops and crashes                 *)
(* (service.py:240).                                                       *)
(***************************************************************************)
THEOREM CollectorsObeyPolicy == Spec => []CollectorsObey
  BY LogonUsesConfiguration, ConfigurationHolds, PTL

(***************************************************************************)
(* Within a file the reader's offset and the saved one pass over no        *)
(* record: each before them went to the sink or was read and dropped,      *)
(* whatever the rotations, failed scans, stops, crashes and restarts       *)
(* between (logon.py:166, service.py:307).  Excepted by name are records   *)
(* unread when their file was rotated away, and the start of a file that a *)
(* restarted collector reads from an older file's offset (logon.py:155).   *)
(***************************************************************************)
THEOREM RecordsKept == Spec => []RecordsAccounted
  BY LogonAlways, PTL DEF LogonInv
=============================================================================
