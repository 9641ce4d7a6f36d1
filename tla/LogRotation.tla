----------------------------- MODULE LogRotation -----------------------------
(***************************************************************************)
(* The log file that rotates itself: the file and its kept generations, as *)
(* they stand between any two calls to the file system, each of which may  *)
(* fail, and after a process that ended between them.                      *)
(*                                                                         *)
(* Writers take f.mu for the whole of Write, so one write is in progress   *)
(* at a time.  Records have one size.  A file is the set of the records it *)
(* holds, numbered as they were accepted.                                  *)
(***************************************************************************)
EXTENDS Integers, FiniteSets

CONSTANTS
  Retained,     \* logRetained
  Cap,          \* maxLogBytes, in records
  MaxRecords    \* bound: records ever accepted

ASSUME LogAssumption == Retained \in Nat \ {0} /\ Cap \in Nat \ {0} /\ MaxRecords \in Nat

VARIABLES
  logs,         \* logs[0] is the file, logs[n] its nth generation; or NoFile
  isOpen,       \* f.file is not nil
  size,         \* f.size
  isHeldOff,    \* now is before f.retryAt
  writer,       \* how far the write in progress is
  shifting,     \* the generation it is moving along
  failing,      \* rotate has failed
  accepted      \* history: how many records were written

logVars == <<logs, isOpen, size, isHeldOff, writer, shifting, failing, accepted>>

NoFile == {0}   \* no record has the number 0

LogInit ==
  /\ logs = [n \in 0 .. Retained |-> IF n = 0 THEN {} ELSE NoFile]
  /\ isOpen = TRUE /\ size = 0 /\ isHeldOff = FALSE
  /\ writer = "idle" /\ shifting = 0 /\ failing = FALSE
  /\ accepted = 0

\* What the next record would make of the file is too much.
IsFull == size > 0 /\ size + 1 > Cap

-----------------------------------------------------------------------------
(***************************************************************************)
(* Write.                                                                  *)
(***************************************************************************)

\* The size of what is on disk.
SizeOnDisk == IF logs[0] = NoFile THEN 0 ELSE Cardinality(logs[0])

\* reopen: a file that is not there is created.
Reopens ==
  /\ isOpen' = TRUE
  /\ size' = SizeOnDisk
  /\ logs' = [logs EXCEPT ![0] = IF @ = NoFile THEN {} ELSE @]

\* A missing handle is reopened first, or the record is lost.
BeginWrite ==
  /\ writer = "idle" /\ accepted < MaxRecords
  /\ \/ isOpen /\ writer' = "deciding" /\ UNCHANGED <<logs, isOpen, size>>
     \/ ~isOpen /\ Reopens /\ writer' = "deciding"
     \/ ~isOpen /\ UNCHANGED <<logs, isOpen, size, writer>>
  /\ UNCHANGED <<isHeldOff, shifting, failing, accepted>>

\* rotate, unless there is room or the last one failed too recently: the handle
\* is closed first.
Decide ==
  /\ writer = "deciding"
  /\ IF IsFull /\ ~isHeldOff
       THEN /\ isOpen' = FALSE
            /\ \/ writer' = "removing" /\ UNCHANGED <<failing, isHeldOff>>
               \/ writer' = "writing" /\ isHeldOff' = TRUE /\ UNCHANGED failing
       ELSE writer' = "writing" /\ UNCHANGED <<isOpen, failing, isHeldOff>>
  /\ UNCHANGED <<logs, size, shifting, accepted>>

\* A call of the rotation fails: the file is reopened all the same.
CallFails ==
  /\ writer \in {"removing", "shifting"}
  /\ writer' = "reopening" /\ failing' = TRUE /\ shifting' = 0
  /\ UNCHANGED <<logs, isOpen, size, isHeldOff, accepted>>

\* Variant: the kept generations stay where they are.
FirstShiftedNone == 0

\* The generation moved along first; every newer one follows.
FirstShifted == Retained - 1

\* The oldest generation is removed, if there is one.
RemoveOldest ==
  /\ writer = "removing"
  /\ logs' = [logs EXCEPT ![Retained] = NoFile]
  /\ writer' = "shifting" /\ shifting' = FirstShifted
  /\ UNCHANGED <<isOpen, size, isHeldOff, failing, accepted>>

\* Generation n becomes n + 1, replacing what is there; 0 is the file itself.
ShiftOne ==
  /\ writer = "shifting"
  /\ logs' = IF logs[shifting] = NoFile THEN logs
             ELSE [logs EXCEPT ![shifting + 1] = logs[shifting], ![shifting] = NoFile]
  /\ IF shifting > 0
       THEN shifting' = shifting - 1 /\ UNCHANGED writer
       ELSE writer' = "reopening" /\ UNCHANGED shifting
  /\ UNCHANGED <<isOpen, size, isHeldOff, failing, accepted>>

\* The end of rotate: a failure of it puts the next attempt off.
EndRotation ==
  /\ writer = "reopening"
  /\ \/ Reopens /\ isHeldOff' = failing
     \/ isHeldOff' = TRUE /\ UNCHANGED <<logs, isOpen, size>>
  /\ writer' = "writing" /\ failing' = FALSE
  /\ UNCHANGED <<shifting, accepted>>

\* One more attempt to open the file that rotate left closed.
Recovers == ~isOpen

Recover ==
  /\ writer = "writing" /\ Recovers
  /\ \/ Reopens /\ UNCHANGED writer
     \/ writer' = "idle" /\ UNCHANGED <<logs, isOpen, size>>
  /\ UNCHANGED <<isHeldOff, shifting, failing, accepted>>

\* The record is written, or without a file it is not.
Append1 ==
  /\ writer = "writing" /\ ~Recovers
  /\ IF isOpen
       THEN /\ accepted' = accepted + 1 /\ size' = size + 1
            /\ logs' = [logs EXCEPT ![0] = @ \union {accepted + 1}]
       ELSE UNCHANGED <<accepted, size, logs>>
  /\ writer' = "idle"
  /\ UNCHANGED <<isOpen, isHeldOff, shifting, failing>>

-----------------------------------------------------------------------------
\* retryAt passes.
RetryDue ==
  /\ isHeldOff /\ writer = "idle"
  /\ isHeldOff' = FALSE
  /\ UNCHANGED <<logs, isOpen, size, writer, shifting, failing, accepted>>

\* The process ends, between any two calls, and the next one opens the file.
RestartLog ==
  /\ Reopens
  /\ isHeldOff' = FALSE /\ writer' = "idle" /\ shifting' = 0 /\ failing' = FALSE
  /\ UNCHANGED accepted

LogNext ==
  \/ BeginWrite \/ Decide \/ CallFails \/ RemoveOldest \/ ShiftOne \/ EndRotation
  \/ Recover \/ Append1 \/ RetryDue \/ RestartLog

LogSpec == LogInit /\ [][LogNext]_logVars

-----------------------------------------------------------------------------
(***************************************************************************)
(* Properties.                                                             *)
(***************************************************************************)

Kept == (UNION {logs[n] : n \in 0 .. Retained}) \ NoFile

\* What the files hold together is the latest records without a gap, older ones
\* in higher generations.
HoldsLatest ==
  /\ \A r \in Kept : r .. accepted \subseteq Kept
  /\ \A newer, older \in 0 .. Retained : newer < older =>
       \A r \in logs[newer] \ NoFile, q \in logs[older] \ NoFile : q < r

\* So it is at every moment, and the one thing ever lost is the generation in
\* the oldest place, wherever a rotation fails or the process ends.
OnlyOldestLost == [][HoldsLatest' /\ Kept \ Kept' \subseteq logs[Retained]]_logVars

\* Every variable has its type.
LogTypeOK ==
  /\ accepted \in 0 .. MaxRecords /\ size \in 0 .. MaxRecords
  /\ shifting \in 0 .. Retained
  /\ \A n \in 0 .. Retained : logs[n] = NoFile \/ logs[n] \subseteq 1 .. accepted
  /\ writer \in {"idle", "deciding", "removing", "shifting", "reopening", "writing"}

=============================================================================
