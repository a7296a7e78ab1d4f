------------------------------- MODULE Backup -------------------------------
(***************************************************************************)
(* internal/backup: scheduled copies of the clips file.  Copies are named  *)
(* after the second they were begun in; only their order counts here, so   *)
(* they are a sequence, the newest name first.                             *)
(***************************************************************************)
EXTENDS Integers, Sequences

CONSTANTS
  Contents,    \* contents of the clips file
  None,        \* a missing file
  Keep,        \* how many copies to keep
  MaxChanges,  \* bound: changes of the clips file
  MaxFaults,   \* bound: errors of the file system
  MaxClock,    \* bound: times the clock does not go forward between two copies
  MaxCrashes   \* bound: restarts

\* backupFromEnv refuses to start otherwise.
ASSUME KeepAssumption == Keep \in Nat \ {0}
ASSUME BackupAssumption ==
  /\ None \notin Contents
  /\ MaxChanges \in Nat /\ MaxFaults \in Nat /\ MaxClock \in Nat /\ MaxCrashes \in Nat

VARIABLES
  file,    \* the clips file
  copies,  \* the copies, each with whether the current run is to delete it
  run,     \* the progress of the current run and the contents it has read
  last,    \* the outcome of the last run
  spent    \* what the environment has used of its bounds

vars == <<file, copies, run, last, spent>>

Copy(data, old) == [data |-> data, old |-> old]

Limit == [changes |-> MaxChanges, faults |-> MaxFaults, clock |-> MaxClock, crashes |-> MaxCrashes]
Spend(kind) == spent[kind] < Limit[kind] /\ spent' = [spent EXCEPT ![kind] = @ + 1]

Init ==
  /\ file \in Contents \cup {None}
  /\ copies = <<>>
  /\ run = [pc |-> "wait", data |-> None]
  /\ last = "none"
  /\ spent = [changes |-> 0, faults |-> 0, clock |-> 0, crashes |-> 0]

-----------------------------------------------------------------------------
\* Saved by the clip manager, edited by hand or deleted.
Change(c) ==
  /\ c # file
  /\ Spend("changes")
  /\ file' = c
  /\ UNCHANGED <<copies, run, last>>

\* The run ends; what it had listed is forgotten.
End(outcome) ==
  /\ run' = [run EXCEPT !.pc = "wait"]
  /\ last' = outcome
Forgotten == [i \in DOMAIN copies |-> Copy(copies[i].data, FALSE)]
Fail == Spend("faults") /\ End("failed") /\ copies' = Forgotten

\* Mutant: a missing file is copied like an empty one.
OnceMissing ==
  /\ run.pc = "wait"
  /\ run' = [pc |-> "compare", data |-> file] /\ UNCHANGED <<file, copies, last, spent>>

\* At the start and every Interval.  While there is no file there is nothing to copy.
Once ==
  /\ run.pc = "wait"
  /\ \/ /\ file = None
        /\ run' = [run EXCEPT !.data = None]
        /\ last' = "unchanged"
        /\ UNCHANGED <<copies, spent>>
     \/ /\ file # None
        /\ run' = [pc |-> "compare", data |-> file]
        /\ UNCHANGED <<copies, last, spent>>
     \/ Fail
  /\ UNCHANGED file

\* Mutant: the oldest copy is taken for the newest.
SameAsOldest == copies # <<>> /\ copies[Len(copies)].data = run.data

SameAsNewest == copies # <<>> /\ copies[1].data = run.data

\* A newest copy that cannot be read counts as different.
Compare ==
  /\ run.pc = "compare"
  /\ \/ /\ SameAsNewest
        /\ End("unchanged")
        /\ UNCHANGED <<copies, spent>>
     \/ /\ ~SameAsNewest
        /\ run' = [run EXCEPT !.pc = "write"]
        /\ UNCHANGED <<copies, last, spent>>
     \/ /\ copies # <<>>
        /\ Spend("faults")
        /\ run' = [run EXCEPT !.pc = "write"]
        /\ UNCHANGED <<copies, last>>
     \/ Fail
  /\ UNCHANGED file

\* Mutant: one copy too few is deleted.
DeletedNext(i) == i > Keep

\* Mutant: one copy too many is deleted.
DeletedEarly(i) == i >= Keep - 1

\* Of the copies listed before the write, the one at i is to be deleted: the new copy comes
\* first in the list, whatever its name.
Deleted(i) == i >= Keep

\* The new copy at place p; where the clock has not gone forward that is not the first
\* place, or the new copy takes the place of one with the same name.
Inserted(p) ==
  [i \in 1..(Len(copies) + 1) |->
     IF i = p THEN Copy(run.data, FALSE)
     ELSE LET j == IF i < p THEN i ELSE i - 1 IN Copy(copies[j].data, Deleted(j))]
Replaced(p) ==
  [i \in DOMAIN copies |-> Copy(IF i = p THEN run.data ELSE copies[i].data, Deleted(i))]

Write ==
  /\ run.pc = "write"
  /\ \/ /\ run' = [run EXCEPT !.pc = "prune"]
        /\ \/ copies' = Inserted(1) /\ UNCHANGED spent
           \/ /\ Spend("clock")
              /\ \/ \E p \in 2..(Len(copies) + 1) : copies' = Inserted(p)
                 \/ \E p \in DOMAIN copies : copies' = Replaced(p)
        /\ UNCHANGED last
     \/ Fail
  /\ UNCHANGED file

Without(i) == [j \in 1..(Len(copies) - 1) |-> IF j < i THEN copies[j] ELSE copies[j + 1]]

\* One copy is deleted, the newest of those that are to go; or the run is over.
Prune ==
  /\ run.pc = "prune"
  /\ \/ \E i \in DOMAIN copies :
          /\ copies[i].old /\ \A j \in 1..(i - 1) : ~copies[j].old
          /\ \/ copies' = Without(i) /\ UNCHANGED <<run, last, spent>>
             \/ Fail
     \/ /\ \A i \in DOMAIN copies : ~copies[i].old
        /\ End("written")
        /\ UNCHANGED <<copies, spent>>
  /\ UNCHANGED file

\* The process is restarted; the first run follows at once.
Crash ==
  /\ Spend("crashes")
  /\ run' = [pc |-> "wait", data |-> None]
  /\ last' = "none"
  /\ copies' = Forgotten
  /\ UNCHANGED file

-----------------------------------------------------------------------------
Run == Once \/ Compare \/ Write \/ Prune

Next == Run \/ Crash \/ \E c \in Contents \cup {None} : Change(c)

\* The ticker starts a run every Interval, and a run goes on.
Spec == Init /\ [][Next]_vars /\ WF_vars(Run)

-----------------------------------------------------------------------------
TypeOK ==
  /\ file \in Contents \cup {None}
  /\ copies \in Seq([data : Contents, old : BOOLEAN])
  /\ run \in [pc : {"wait", "compare", "write", "prune"}, data : Contents \cup {None}]
  /\ last \in {"none", "unchanged", "written", "failed"}
  /\ spent \in [DOMAIN Limit -> Nat]

\* A deletion never takes the newest copy, and leaves as many copies as are to be kept or,
\* where two copies had the same name, one less (Once).  With Keep = 1 two copies of the same
\* second leave none, or an older one.
NewestKept ==
  [][Len(copies') < Len(copies) /\ Keep > 1
       => copies'[1] = copies[1] /\ Len(copies') >= Keep - 1]_vars

\* Whatever failed before, a run that has written a copy and ends well leaves no more copies
\* than are to be kept (Once).
WithinKeep == last = "written" /\ run.pc # "prune" => Len(copies) <= Keep

\* After a run that went well the newest copy has what the run read, as long as the clock
\* goes forward (Once).
CopyIsCurrent ==
  run.pc = "wait" /\ run.data # None /\ last \in {"unchanged", "written"} /\ spent.clock = 0
    => copies # <<>> /\ copies[1].data = run.data

\* When the file is left alone, its contents come to be the newest copy, through restarts,
\* errors and clocks that go back (Run).
EventuallyBackedUp == <>[](file = None \/ (copies # <<>> /\ copies[1].data = file))
=============================================================================
