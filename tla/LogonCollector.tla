--------------------------- MODULE LogonCollector ---------------------------
(***************************************************************************)
(* LinuxLogonCollector (agent/collectors/logon.py) under the agent's       *)
(* configuration: a thread that scans wtmp from an offset, which           *)
(* AgentService saves when it stops and restores when it starts.           *)
(*                                                                         *)
(* The system appends records, a whole one at a time or a part first, and  *)
(* rotates the file at any moment of a scan.  A record is named by its     *)
(* file and its place; files are numbered in the order of their creation.  *)
(* Which records are logons and what they say is left out.                 *)
(***************************************************************************)
EXTENDS AgentConfig, FiniteSets

CONSTANTS Logon,        \* the collector's name
          Chunk,        \* records read at once
          MaxFiles, MaxRecords  \* bounds: rotations, and records ever written

ASSUME LogonAssumption ==
  /\ Logon \in Collector /\ Chunk \in Nat \ {0}
  /\ MaxFiles \in Nat \ {0} /\ MaxRecords \in Nat

VARIABLES size,         \* whole records of each wtmp file
          half,         \* part of one more is written to the current file
          file,         \* the current file
          reader,       \* LinuxLogonCollector: _offset, _last_inode, _run
          saved         \* the offset file: an offset, and (history) of which file

\* History: records given to the sink, and records that were read and dropped,
\* by the policy, by sampling or by a sink that raised.
VARIABLES sent, dropped

\* History: records no one read, for two reasons.  rotated: they were unread
\* when their file was rotated away.  passed: the offset restored at a start
\* is of an older file, and the first scan applied it to theirs.
VARIABLE missed

logonVars == <<size, half, file, reader, saved, sent, dropped, missed>>
vars == <<configVars, logonVars>>

File == 1..MaxFiles
Record == File \X (1..MaxRecords)
Written == {r \in Record : r[2] <= size[r[1]]}

\* No file was looked at yet, or none is open.
NoFile == 0

Off == [pc |-> "off", offset |-> 0, inode |-> NoFile]

Init ==
  /\ ConfigInit
  /\ size = [f \in File |-> 0] /\ half = FALSE /\ file = 1
  /\ reader = Off /\ saved = [offset |-> 0, of |-> NoFile]
  /\ sent = {} /\ dropped = {} /\ missed = [rotated |-> {}, passed |-> {}]
-----------------------------------------------------------------------------
(***************************************************************************)
(* The system's login records                                              *)
(***************************************************************************)
WriteHalf ==
  /\ Cardinality(Written) < MaxRecords /\ ~half /\ half' = TRUE
  /\ UNCHANGED <<size, file, reader, saved, sent, dropped, missed>> /\ UNCHANGED configVars

WriteRecord ==
  /\ Cardinality(Written) < MaxRecords
  /\ size' = [size EXCEPT ![file] = @ + 1] /\ half' = FALSE
  /\ UNCHANGED <<file, reader, saved, sent, dropped, missed>> /\ UNCHANGED configVars

Rotate ==
  /\ file < MaxFiles /\ ~half /\ file' = file + 1
  /\ missed' = [missed EXCEPT !.rotated =
                  @ \cup {r \in Written : r[1] = file /\ r \notin sent \cup dropped}]
  /\ UNCHANGED <<size, half, reader, saved, sent, dropped>> /\ UNCHANGED configVars
-----------------------------------------------------------------------------
(***************************************************************************)
(* _scan_once                                                              *)
(***************************************************************************)
Idle(r) == [pc |-> "idle", offset |-> r.offset, inode |-> r.inode]

\* Mutated form: a new file is only noticed by its size.
RotatedBySize == size[file] < reader.offset

Rotated ==
  \/ reader.inode # NoFile /\ reader.inode # file
  \/ size[file] < reader.offset

\* Mutated form: the newest record is left for later.
UnreadButOne(offset) == size[file] > offset + 1

\* current_size <= self._offset, in bytes
Unread(offset) == size[file] > offset \/ half

\* Without an inode to compare, after a restart, an offset saved of an older
\* file is applied to a new one that has grown as long: its start is passed
\* over (unlike logon.py:14, which has a rotated file read from the start).
Scan ==
  /\ reader.pc = "idle" /\ Logon \in running
  /\ LET from == IF Rotated THEN 0 ELSE reader.offset
     IN  /\ reader' = [pc |-> IF Unread(from) THEN "opening" ELSE "idle",
                       offset |-> from, inode |-> file]
         /\ missed' = IF reader.inode = NoFile /\ saved.of # file
                        THEN [missed EXCEPT !.passed =
                                @ \cup {r \in Written : r[1] = file /\ r[2] <= from}]
                        ELSE missed
  /\ UNCHANGED <<size, half, file, saved, sent, dropped>> /\ UNCHANGED configVars

\* The path may lead to another file by now.
Open ==
  /\ reader.pc = "opening"
  /\ reader' = [pc |-> "reading", offset |-> reader.offset, inode |-> reader.inode,
                fd |-> file]
  /\ UNCHANGED <<size, half, file, saved, sent, dropped, missed>> /\ UNCHANGED configVars

Available == IF size[reader.fd] > reader.offset THEN size[reader.fd] - reader.offset ELSE 0

\* Whole records only; they are emitted one by one.
ReadChunk ==
  /\ reader.pc = "reading"
  /\ reader' =
       IF Available = 0 THEN Idle(reader)
       ELSE [pc |-> "emitting", offset |-> reader.offset, inode |-> reader.inode,
             fd |-> reader.fd, n |-> IF Available < Chunk THEN Available ELSE Chunk,
             k |-> 0]
  /\ UNCHANGED <<size, half, file, saved, sent, dropped, missed>> /\ UNCHANGED configVars

\* Collector.emit: refused if the copy of the policy does not enable the
\* collector, by sampling or by an error of the sink - and gone then.
Emit(accepted) ==
  /\ reader.pc = "emitting" /\ reader.k < reader.n
  /\ accepted => Logon \in cached.enabled
  /\ reader' = [reader EXCEPT !.k = @ + 1]
  /\ LET r == <<reader.fd, reader.offset + reader.k + 1>>
     IN  IF accepted THEN sent' = sent \cup {r} /\ UNCHANGED dropped
         ELSE dropped' = dropped \cup {r} /\ UNCHANGED sent
  /\ UNCHANGED <<size, half, file, saved, missed>> /\ UNCHANGED configVars

ChunkDone ==
  /\ reader.pc = "emitting" /\ reader.k = reader.n
  /\ LET r == [reader EXCEPT !.offset = @ + reader.n]
     IN  reader' = IF reader.n < Chunk THEN Idle(r)
                   ELSE [pc |-> "reading", offset |-> r.offset, inode |-> r.inode,
                         fd |-> r.fd]
  /\ UNCHANGED <<size, half, file, saved, sent, dropped, missed>> /\ UNCHANGED configVars

\* An OSError ends the scan; what the chunk emitted is emitted again.
ScanFails ==
  /\ reader.pc \in {"opening", "reading", "emitting"}
  /\ reader' = Idle(reader)
  /\ UNCHANGED <<size, half, file, saved, sent, dropped, missed>> /\ UNCHANGED configVars

Reading == Scan \/ Open \/ ReadChunk \/ (\E ok \in BOOLEAN : Emit(ok)) \/ ChunkDone
-----------------------------------------------------------------------------
(***************************************************************************)
(* AgentService with the collector                                         *)
(***************************************************************************)
\* set_offset, start: a collector that fails to start keeps its offset.
Starts ==
  \E started \in SUBSET Collector :
    /\ CollectorsStart(started)
    /\ reader' = IF Logon \in cached.enabled
                   THEN [pc |-> IF Logon \in started THEN "idle" ELSE "off",
                         offset |-> saved.offset, inode |-> NoFile]
                   ELSE Off
    /\ UNCHANGED <<size, half, file, saved, sent, dropped, missed>>

\* _save_wtmp_offset, also of a thread that is in a scan still; the process
\* ends.
Exits ==
  /\ Exit /\ reader' = Off
  /\ saved' = IF Logon \notin built THEN saved
              ELSE [offset |-> reader.offset,
                    of |-> IF reader.inode = NoFile THEN saved.of ELSE reader.inode]
  /\ UNCHANGED <<size, half, file, sent, dropped, missed>>

Crashes ==
  /\ Crash /\ reader' = Off
  /\ UNCHANGED <<size, half, file, saved, sent, dropped, missed>>

Configures ==
  /\ \/ \E enabled \in SUBSET Collector : UpdatePolicy(enabled)
     \/ ServiceStarts \/ BeginPull \/ Pull \/ PolicyApplied
     \/ Stop \/ CollectorsStop
  /\ UNCHANGED logonVars

Next ==
  \/ WriteHalf \/ WriteRecord \/ Rotate
  \/ Reading \/ ScanFails
  \/ Starts \/ Exits \/ Crashes \/ Configures

(***************************************************************************)
(* The supervisor starts the service (Restart=always), run goes on, the    *)
(* loop's pulls come to an end, and the collector's thread is scheduled.   *)
(***************************************************************************)
ServiceGoesOn ==
  \/ Starts \/ Exits
  \/ (ServiceStarts \/ BeginPull \/ Pull \/ PolicyApplied \/ CollectorsStop)
       /\ UNCHANGED logonVars

Spec ==
  Init /\ [][Next]_vars /\ WF_vars(ServiceGoesOn) /\ WF_vars(Reading)
-----------------------------------------------------------------------------
TypeOK ==
  /\ ConfigTypeOK
  /\ size \in [File -> 0..MaxRecords] /\ half \in BOOLEAN /\ file \in File
  /\ reader.pc \in {"off", "idle", "opening", "reading", "emitting"}
  /\ reader.offset \in 0..MaxRecords /\ reader.inode \in File \cup {NoFile}
  /\ reader.pc \in {"reading", "emitting"} => reader.fd \in File
  /\ reader.pc = "emitting" =>
       reader.offset + reader.n <= size[reader.fd] /\ reader.k \in 0..reader.n
  /\ saved.offset \in 0..MaxRecords /\ saved.of \in File \cup {NoFile}
  /\ sent \subseteq Written /\ dropped \subseteq Written
  /\ missed \in [rotated : SUBSET Written, passed : SUBSET Written]

Past == sent \cup dropped \cup missed.rotated \cup missed.passed

(***************************************************************************)
(* Within a file the offset is right: every record before it was given to  *)
(* the sink or read and dropped, whatever the rotations, failed scans,     *)
(* stops, crashes and restarts between (logon.py:166, service.py:307).     *)
(* Across files two losses are the code's and excepted by name: records    *)
(* unread when their file was rotated away, and the start of a file that   *)
(* an offset saved of an older one is applied to, which only a start can   *)
(* do: a running collector compares inodes (logon.py:155).                 *)
(***************************************************************************)
Accounted(f, offset) == \A i \in 1..offset : <<f, i>> \in Written => <<f, i>> \in Past

RecordsAccounted ==
  /\ reader.inode # NoFile => Accounted(reader.inode, reader.offset)
  /\ saved.of # NoFile => Accounted(saved.of, saved.offset)

(***************************************************************************)
(* A collector that stays disabled stops, once faults cease: its loop      *)
(* pulls the policy (config_client.py:5, service.py:236).                  *)
(***************************************************************************)
Fault == PullRetried \/ PullFails \/ PullRevoked \/ Crash

PolicyReaches ==
  \A c \in Collector :
    (<>[](c \notin policy.enabled) /\ <>[][~Fault]_vars) => <>[](c \notin running)

(***************************************************************************)
(* While the collector runs, no record stays unread in a file: each is     *)
(* given to the sink or dropped, or was lost to a rotation as above, once  *)
(* reads stop failing (logon.py:6).                                        *)
(***************************************************************************)
RecordsRead ==
  (<>[](Logon \in running) /\ <>[][~ScanFails]_vars) =>
    \A r \in Record : [](r \in Written => <>(r \in Past))
=============================================================================
