---------------------------- MODULE BackupProofs ----------------------------
(***************************************************************************)
(* Proofs about Backup: its types, that a deletion takes old copies only,  *)
(* that a run which ends well leaves no more copies than are to be kept,   *)
(* and that the newest copy is then what the run has read.                 *)
(***************************************************************************)
EXTENDS Backup, SequenceTheorems, TLAPS

Item == [data : Contents, old : BOOLEAN]
Copies == Seq(Item)
Phases == {"wait", "compare", "write", "prune"}
Runs == [pc : Phases, data : Contents \cup {None}]

TypeInv ==
  /\ file \in Contents \cup {None} /\ copies \in Copies /\ run \in Runs
  /\ last \in {"none", "unchanged", "written", "failed"} /\ spent \in [DOMAIN Limit -> Nat]

\* While a run deletes: it deletes none of the first Keep - 1, and of the others it leaves one.
\* Between runs nothing is to be deleted.
OldInv ==
  /\ \A i \in 1..Len(copies) : copies[i].old => i >= Keep
  /\ \A i, j \in 1..Len(copies) :
       run.pc = "prune" /\ i >= Keep /\ j >= Keep /\ ~copies[i].old /\ ~copies[j].old => i = j
  /\ run.pc # "prune" => \A i \in 1..Len(copies) : ~copies[i].old
KeptInv == run.pc # "prune" /\ last = "written" => Len(copies) <= Keep
\* The run in progress has read something.
DataInv == run.pc # "wait" => run.data # None
Current == Len(copies) > 0 /\ copies[1].data = run.data
CurrentInv ==
  spent.clock = 0 =>
    /\ run.pc = "prune" => Current /\ ~copies[1].old
    /\ run.pc = "wait" /\ run.data # None /\ last \in {"unchanged", "written"} => Current

Inv == TypeInv /\ OldInv /\ KeptInv /\ DataInv /\ CurrentInv

-----------------------------------------------------------------------------
(* Sequences of copies.                                                      *)

LEMMA CopyFacts ==
  \A c \in Contents, o \in BOOLEAN : Copy(c, o) \in Item /\ Copy(c, o).data = c /\ Copy(c, o).old = o
BY DEF Copy, Item

LEMMA CopiesFacts ==
  ASSUME NEW s \in Copies
  PROVE  /\ Len(s) \in Nat /\ s \in [1..Len(s) -> Item] /\ DOMAIN s = 1..Len(s)
         /\ \A i \in 1..Len(s) : s[i] \in Item /\ s[i].data \in Contents /\ s[i].old \in BOOLEAN
<1>1. Len(s) \in Nat /\ s \in [1..Len(s) -> Item] /\ DOMAIN s = 1..Len(s)
  BY LenProperties DEF Copies
<1> QED BY <1>1 DEF Item

LEMMA IsCopies ==
  ASSUME NEW n \in Nat, NEW f \in [1..n -> Item]
  PROVE  f \in Copies /\ Len(f) = n
<1>1. f \in Copies
  BY SeqDef DEF Copies
<1>2. Len(f) \in Nat /\ DOMAIN f = 1..Len(f) /\ DOMAIN f = 1..n
  BY <1>1, CopiesFacts
<1> QED BY <1>1, <1>2

LEMMA ForgottenFacts ==
  ASSUME copies \in Copies
  PROVE  /\ Forgotten \in Copies /\ Len(Forgotten) = Len(copies)
         /\ \A i \in 1..Len(copies) : Forgotten[i].data = copies[i].data /\ ~Forgotten[i].old
<1>1. \A i \in 1..Len(copies) : Forgotten[i] = Copy(copies[i].data, FALSE)
  BY CopiesFacts DEF Forgotten
<1>2. \A i \in 1..Len(copies) : /\ Copy(copies[i].data, FALSE) \in Item
                                /\ Copy(copies[i].data, FALSE).data = copies[i].data
                                /\ Copy(copies[i].data, FALSE).old = FALSE
  BY CopiesFacts, CopyFacts, Zenon
<1>3. DOMAIN copies = 1..Len(copies) /\ Len(copies) \in Nat
  BY CopiesFacts
<1>4. Forgotten \in [1..Len(copies) -> Item]
  BY <1>1, <1>2, <1>3, Zenon DEF Forgotten
<1> QED BY <1>1, <1>2, <1>3, <1>4, IsCopies

LEMMA InsertedFacts ==
  ASSUME copies \in Copies, run.data \in Contents, NEW p \in 1..(Len(copies) + 1)
  PROVE  /\ Inserted(p) \in Copies /\ Len(Inserted(p)) = Len(copies) + 1
         /\ Inserted(p)[p].data = run.data /\ ~Inserted(p)[p].old
         /\ \A i \in 1..(Len(copies) + 1) :
              /\ i < p => (Inserted(p)[i].old <=> i >= Keep)
              /\ i > p => (Inserted(p)[i].old <=> i - 1 >= Keep)
<1>1. Len(copies) \in Nat /\ \A i \in 1..Len(copies) : copies[i].data \in Contents
  BY CopiesFacts
<1>2. \A i \in 1..(Len(copies) + 1) :
        /\ i = p => Inserted(p)[i] = Copy(run.data, FALSE)
        /\ i < p => Inserted(p)[i] = Copy(copies[i].data, i >= Keep)
        /\ i > p => Inserted(p)[i] = Copy(copies[i - 1].data, i - 1 >= Keep)
  <2> TAKE i \in 1..(Len(copies) + 1)
  <2>1. CASE i = p
    <3>1. ~(i < p) /\ ~(i > p)
      BY <1>1, <2>1
    <3> QED BY <2>1, <3>1, Zenon DEF Inserted
  <2>2. CASE i < p
    <3>1. i # p /\ ~(i > p)
      BY <2>2
    <3> QED BY <2>2, <3>1, Zenon DEF Inserted, Deleted
  <2>3. CASE i > p
    <3>1. i # p /\ ~(i < p)
      BY <2>3
    <3> QED BY <2>3, <3>1, Zenon DEF Inserted, Deleted
  <2> QED BY <1>1, <2>1, <2>2, <2>3
<1>3. /\ Copy(run.data, FALSE) \in Item
      /\ Copy(run.data, FALSE).data = run.data /\ Copy(run.data, FALSE).old = FALSE
  BY CopyFacts, Zenon
<1>4. \A k \in 1..Len(copies) : /\ Copy(copies[k].data, k >= Keep) \in Item
                                /\ Copy(copies[k].data, k >= Keep).old <=> k >= Keep
  <2> TAKE k \in 1..Len(copies)
  <2>1. CASE k >= Keep
    <3>1. (k >= Keep) = TRUE
      BY <2>1, Zenon
    <3>2. Copy(copies[k].data, k >= Keep) = Copy(copies[k].data, TRUE)
      BY <3>1, Zenon
    <3> QED BY <1>1, <2>1, <3>2, CopyFacts, Zenon
  <2>2. CASE ~(k >= Keep)
    <3>1. (k >= Keep) = FALSE
      BY <1>1, <2>2, KeepAssumption
    <3>2. Copy(copies[k].data, k >= Keep) = Copy(copies[k].data, FALSE)
      BY <3>1, Zenon
    <3> QED BY <1>1, <2>2, <3>2, CopyFacts, Zenon
  <2> QED BY <2>1, <2>2
<1>5. \A i \in 1..(Len(copies) + 1) :
        /\ i = p \/ i < p \/ i > p
        /\ i < p => i \in 1..Len(copies)
        /\ i > p => i - 1 \in 1..Len(copies)
  BY <1>1
<1>6. \A i \in 1..(Len(copies) + 1) :
        /\ Inserted(p)[i] \in Item
        /\ i < p => (Inserted(p)[i].old <=> i >= Keep)
        /\ i > p => (Inserted(p)[i].old <=> i - 1 >= Keep)
  BY <1>2, <1>3, <1>4, <1>5, Zenon
<1>7. Inserted(p) \in [1..(Len(copies) + 1) -> Item]
  BY <1>6, Zenon DEF Inserted
<1>8. Inserted(p) \in Copies /\ Len(Inserted(p)) = Len(copies) + 1
  <2>1. Len(copies) + 1 \in Nat
    BY <1>1
  <2> QED BY <1>7, <2>1, IsCopies
<1>9. Inserted(p)[p].data = run.data /\ Inserted(p)[p].old = FALSE
  BY <1>2, <1>3, Zenon
<1> QED BY <1>6, <1>8, <1>9, Zenon

LEMMA ReplacedFacts ==
  ASSUME copies \in Copies, run.data \in Contents, NEW p \in 1..Len(copies)
  PROVE  /\ Replaced(p) \in Copies /\ Len(Replaced(p)) = Len(copies)
         /\ \A i \in 1..Len(copies) : Replaced(p)[i].old <=> i >= Keep
<1>1. /\ Len(copies) \in Nat /\ DOMAIN copies = 1..Len(copies)
      /\ \A i \in 1..Len(copies) : copies[i].data \in Contents
  BY CopiesFacts
<1>2. ASSUME NEW i \in 1..Len(copies)
      PROVE  Replaced(p)[i] \in Item /\ (Replaced(p)[i].old <=> i >= Keep)
  <2> DEFINE c == IF i = p THEN run.data ELSE copies[i].data
  <2>1. c \in Contents
    BY <1>1
  <2>2. CASE i >= Keep
    <3>1. Replaced(p)[i] = Copy(c, i >= Keep)
      BY <1>1, Zenon DEF Replaced, Deleted
    <3>2. (i >= Keep) = TRUE
      BY <2>2, Zenon
    <3> QED BY <2>1, <2>2, <3>1, <3>2, CopyFacts, Zenon
  <2>3. CASE ~(i >= Keep)
    <3>1. Replaced(p)[i] = Copy(c, i >= Keep)
      BY <1>1, Zenon DEF Replaced, Deleted
    <3>2. (i >= Keep) = FALSE
      BY <1>1, <2>3, KeepAssumption
    <3> QED BY <2>1, <2>3, <3>1, <3>2, CopyFacts, ZenonT(30)
  <2> QED BY <2>2, <2>3
<1>3. Replaced(p) \in [1..Len(copies) -> Item]
  BY <1>1, <1>2, Zenon DEF Replaced
<1> QED BY <1>1, <1>2, <1>3, IsCopies

LEMMA WithoutFacts ==
  ASSUME copies \in Copies, NEW i \in 1..Len(copies)
  PROVE  /\ Without(i) \in Copies /\ Len(Without(i)) = Len(copies) - 1
         /\ \A j \in 1..(Len(copies) - 1) : Without(i)[j] = IF j < i THEN copies[j] ELSE copies[j + 1]
<1>1. Len(copies) \in Nat /\ \A j \in 1..Len(copies) : copies[j] \in Item
  BY CopiesFacts
<1>2. \A j \in 1..(Len(copies) - 1) : Without(i)[j] = IF j < i THEN copies[j] ELSE copies[j + 1]
  BY DEF Without
<1>3. \A j \in 1..(Len(copies) - 1) : j \in 1..Len(copies) /\ j + 1 \in 1..Len(copies)
  BY <1>1
<1>4. \A j \in 1..(Len(copies) - 1) : (IF j < i THEN copies[j] ELSE copies[j + 1]) \in Item
  BY <1>1, <1>3
<1>5. Without(i) \in [1..(Len(copies) - 1) -> Item]
  BY <1>4 DEF Without
<1>6. Len(copies) - 1 \in Nat
  BY <1>1
<1> QED BY <1>2, <1>5, <1>6, IsCopies

LEMMA SpendFacts ==
  ASSUME spent \in [DOMAIN Limit -> Nat], NEW k \in DOMAIN Limit, Spend(k)
  PROVE  /\ spent' \in [DOMAIN Limit -> Nat]
         /\ spent'.clock = 0 => spent.clock = 0 /\ k # "clock"
BY DEF Spend, Limit

LEMMA RunFacts ==
  \A r \in Runs, x \in Phases :
    [r EXCEPT !.pc = x] \in Runs /\ [r EXCEPT !.pc = x].pc = x /\ [r EXCEPT !.pc = x].data = r.data
BY DEF Runs

LEMMA TypeFacts == TypeInv => TypeOK
BY DEF TypeInv, TypeOK, Copies, Item, Runs, Phases

-----------------------------------------------------------------------------
(* The steps.                                                                *)

\* A run moves on without an end, and without touching the copies.
LEMMA GoesOn ==
  ASSUME Inv, NEW x \in {"compare", "write"}, run'.pc = x, run' \in Runs, run'.data # None,
         run.pc # "prune", UNCHANGED <<file, copies, last>>,
         spent' \in [DOMAIN Limit -> Nat]
  PROVE  Inv'
BY DEF TypeInv, Inv, OldInv, KeptInv, DataInv, CurrentInv

LEMMA Fails ==
  ASSUME Inv, Fail, file' = file
  PROVE  Inv'
<1>1. run' \in Runs /\ run'.pc = "wait" /\ run'.data = run.data
  <2>1. run \in Runs /\ "wait" \in Phases
    BY DEF TypeInv, Inv, Phases
  <2>2. run' = [run EXCEPT !.pc = "wait"]
    BY DEF Fail, End
  <2> QED BY <2>1, <2>2, RunFacts, Zenon
<1>2. spent' \in [DOMAIN Limit -> Nat]
  BY SpendFacts DEF TypeInv, Fail, Limit, Inv
<1>3. copies' \in Copies /\ Len(copies') = Len(copies) /\ \A i \in 1..Len(copies') : ~copies'[i].old
  BY ForgottenFacts DEF TypeInv, Fail, Inv
<1>4. last' = "failed"
  BY DEF Fail, End
<1> QED BY <1>1, <1>2, <1>3, <1>4 DEF TypeInv, Inv, OldInv, KeptInv, DataInv, CurrentInv

LEMMA Keeps == Keep \in Nat /\ Keep >= 1
BY KeepAssumption

LEMMA ChangeStep == ASSUME Inv, NEW c \in Contents \cup {None}, Change(c) PROVE Inv'
<1>1. spent' \in [DOMAIN Limit -> Nat] /\ (spent'.clock = 0 => spent.clock = 0)
  BY SpendFacts DEF TypeInv, Change, Limit, Inv
<1> QED BY <1>1 DEF TypeInv, Change, Inv, OldInv, KeptInv, DataInv, CurrentInv, Current

LEMMA OnceStep == ASSUME Inv, Once PROVE Inv'
<1>1. CASE file = None /\ run' = [run EXCEPT !.data = None] /\ last' = "unchanged" /\ UNCHANGED <<copies, spent, file>>
  <2>1. run' \in Runs /\ run'.pc = "wait" /\ run'.data = None
    <3>1. run \in Runs /\ run.pc = "wait"
      BY DEF TypeInv, Inv, Once
    <3> QED BY <1>1, <3>1 DEF Runs, Phases
  <2> QED BY <1>1, <2>1 DEF TypeInv, Once, Inv, OldInv, KeptInv, DataInv, CurrentInv
<1>2. CASE file # None /\ run' = [pc |-> "compare", data |-> file] /\ UNCHANGED <<copies, last, spent, file>>
  <2>1. run' \in Runs /\ run'.pc = "compare" /\ run'.data # None
    BY <1>2 DEF TypeInv, Runs, Phases, Inv
  <2> QED BY <1>2, <2>1, GoesOn DEF TypeInv, Once, Inv
<1>3. CASE Fail /\ file' = file
  BY <1>3, Fails
<1> QED BY <1>1, <1>2, <1>3 DEF Once

LEMMA CompareStep == ASSUME Inv, Compare PROVE Inv'
<1>1. run \in Runs /\ run.pc = "compare" /\ run.data # None /\ copies \in Copies
  BY DEF TypeInv, Compare, Inv, DataInv
<1>2. CASE SameAsNewest /\ End("unchanged") /\ UNCHANGED <<copies, spent, file>>
  <2>1. run' \in Runs /\ run'.pc = "wait" /\ run'.data = run.data
    <3>1. run' = [run EXCEPT !.pc = "wait"] /\ "wait" \in Phases
      BY <1>2 DEF End, Phases
    <3> QED BY <1>1, <3>1, RunFacts, Zenon
  <2>2. Current'
    <3>1. Len(copies) > 0
      BY <1>1, <1>2, EmptySeq DEF SameAsNewest, Copies
    <3> QED BY <1>2, <2>1, <3>1 DEF SameAsNewest, Current
  <2>3. last' = "unchanged"
    BY <1>2 DEF End
  <2> QED BY <1>1, <1>2, <2>1, <2>2, <2>3 DEF TypeInv, Inv, OldInv, KeptInv, DataInv, CurrentInv
<1>3. CASE run' = [run EXCEPT !.pc = "write"] /\ UNCHANGED <<copies, last, file>>
           /\ (UNCHANGED spent \/ Spend("faults"))
  <2>1. run' \in Runs /\ run'.pc = "write" /\ run'.data = run.data
    <3>1. "write" \in Phases
      BY DEF Phases
    <3> QED BY <1>1, <1>3, <3>1, RunFacts, Zenon
  <2>2. spent' \in [DOMAIN Limit -> Nat]
    BY <1>3, SpendFacts DEF TypeInv, Limit, Inv
  <2> QED BY <1>1, <1>3, <2>1, <2>2, GoesOn
<1>4. CASE Fail /\ file' = file
  BY <1>4, Fails
<1> QED BY <1>2, <1>3, <1>4 DEF Compare

LEMMA WriteStep == ASSUME Inv, Write PROVE Inv'
<1>1. run \in Runs /\ run.pc = "write" /\ run.data \in Contents /\ copies \in Copies /\ Len(copies) \in Nat
  BY CopiesFacts DEF TypeInv, Write, Inv, DataInv, Runs
<1>2. CASE Fail /\ file' = file
  BY <1>2, Fails
<1>3. ASSUME run' = [run EXCEPT !.pc = "prune"], UNCHANGED <<last, file>>,
             \/ copies' = Inserted(1) /\ UNCHANGED spent
             \/ /\ Spend("clock")
                /\ \/ \E p \in 2..(Len(copies) + 1) : copies' = Inserted(p)
                   \/ \E p \in DOMAIN copies : copies' = Replaced(p)
      PROVE  Inv'
  <2>1. run' \in Runs /\ run'.pc = "prune" /\ run'.data = run.data
    <3>1. "prune" \in Phases
      BY DEF Phases
    <3> QED BY <1>1, <1>3, <3>1, RunFacts, Zenon
  <2>2. spent' \in [DOMAIN Limit -> Nat] /\ (spent'.clock = 0 => copies' = Inserted(1))
    <3>1. CASE UNCHANGED spent /\ copies' = Inserted(1)
      BY <3>1 DEF TypeInv, Inv
    <3>2. CASE Spend("clock")
      BY <3>2, SpendFacts DEF TypeInv, Limit, Inv
    <3> QED BY <1>3, <3>1, <3>2
  <2>3. copies' \in Copies /\ OldInv'
    <3>1. ASSUME NEW p \in 1..(Len(copies) + 1), copies' = Inserted(p) PROVE copies' \in Copies /\ OldInv'
      BY <1>1, <2>1, <3>1, InsertedFacts, Keeps DEF OldInv
    <3>2. ASSUME NEW p \in 1..Len(copies), copies' = Replaced(p) PROVE copies' \in Copies /\ OldInv'
      BY <1>1, <2>1, <3>2, ReplacedFacts, Keeps DEF OldInv
    <3>3. DOMAIN copies = 1..Len(copies) /\ 1 \in 1..(Len(copies) + 1)
          /\ \A p \in 2..(Len(copies) + 1) : p \in 1..(Len(copies) + 1)
      BY <1>1, CopiesFacts
    <3> QED BY <1>3, <3>1, <3>2, <3>3
  <2>4. copies' = Inserted(1) => Current' /\ ~copies'[1].old
    <3>1. 1 \in 1..(Len(copies) + 1)
      BY <1>1
    <3> QED BY <1>1, <2>1, <3>1, InsertedFacts DEF Current
  <2> QED BY <1>1, <1>3, <2>1, <2>2, <2>3, <2>4 DEF TypeInv, Inv, KeptInv, DataInv, CurrentInv
<1> QED BY <1>2, <1>3 DEF Write

\* A deletion leaves the copies to keep, and those before the one it takes.
LEMMA Deletes ==
  ASSUME Inv, run.pc = "prune", NEW i \in 1..Len(copies), copies[i].old, copies' = Without(i)
  PROVE  /\ copies' \in Copies /\ Len(copies') = Len(copies) - 1 /\ i >= Keep
         /\ \A k \in 1..Len(copies') : k < i => copies'[k] = copies[k]
         /\ \A k \in 1..Len(copies') : copies'[k].old => k >= Keep
         /\ \A k, m \in 1..Len(copies') :
              k >= Keep /\ m >= Keep /\ ~copies'[k].old /\ ~copies'[m].old => k = m
<1>1. copies \in Copies /\ Len(copies) \in Nat /\ i >= Keep
  BY CopiesFacts DEF TypeInv, Inv, OldInv
<1>2. /\ copies' \in Copies /\ Len(copies') = Len(copies) - 1
      /\ \A k \in 1..(Len(copies) - 1) : copies'[k] = IF k < i THEN copies[k] ELSE copies[k + 1]
  BY <1>1, WithoutFacts
<1> DEFINE f(k) == IF k < i THEN k ELSE k + 1
<1>3. \A k \in 1..Len(copies') : f(k) \in 1..Len(copies) /\ copies'[k] = copies[f(k)]
                               /\ (f(k) >= Keep /\ f(k) # i => k >= Keep) /\ f(k) # i /\ (k >= Keep => f(k) >= Keep)
  BY <1>1, <1>2, Keeps
<1>4. \A k, m \in 1..Len(copies') : f(k) = f(m) => k = m
  BY <1>1, <1>2
<1>5. \A k \in 1..Len(copies') : copies'[k].old => k >= Keep
  BY <1>3 DEF Inv, OldInv
<1>6. \A k, m \in 1..Len(copies') :
        k >= Keep /\ m >= Keep /\ ~copies'[k].old /\ ~copies'[m].old => k = m
  BY <1>3, <1>4 DEF Inv, OldInv
<1> QED BY <1>1, <1>2, <1>5, <1>6

LEMMA PruneStep == ASSUME Inv, Prune PROVE Inv'
<1>1. run \in Runs /\ run.pc = "prune" /\ copies \in Copies /\ Len(copies) \in Nat /\ DOMAIN copies = 1..Len(copies)
  BY CopiesFacts DEF TypeInv, Prune, Inv
<1>2. CASE Fail /\ file' = file
  BY <1>2, Fails
<1>3. ASSUME NEW i \in 1..Len(copies), copies[i].old, copies' = Without(i), UNCHANGED <<run, last, spent, file>>
      PROVE  Inv'
  <2>1. copies' \in Copies /\ OldInv'
    BY <1>1, <1>3, Deletes DEF OldInv
  <2>2. CurrentInv'
    <3>1. ASSUME spent.clock = 0 PROVE Current' /\ ~copies'[1].old
      <4>1. Current /\ ~copies[1].old
        BY <1>1, <3>1 DEF Inv, CurrentInv
      <4>2. i > 1
        BY <1>1, <1>3, <4>1
      <4>3. Len(copies') = Len(copies) - 1 /\ \A k \in 1..Len(copies') : k < i => copies'[k] = copies[k]
        BY <1>1, <1>3, Deletes
      <4>4. 1 \in 1..Len(copies') /\ copies'[1] = copies[1] /\ Len(copies') > 0
        BY <1>1, <4>2, <4>3
      <4> QED BY <1>3, <4>1, <4>4 DEF Current
    <3> QED BY <1>1, <1>3, <3>1 DEF CurrentInv
  <2> QED BY <1>1, <1>3, <2>1, <2>2 DEF TypeInv, Inv, KeptInv, DataInv
<1>4. ASSUME \A i \in 1..Len(copies) : ~copies[i].old, End("written"), UNCHANGED <<copies, spent, file>>
      PROVE  Inv'
  <2>1. run' \in Runs /\ run'.pc = "wait" /\ run'.data = run.data /\ last' = "written"
    <3>1. run' = [run EXCEPT !.pc = "wait"] /\ "wait" \in Phases /\ last' = "written"
      BY <1>4 DEF End, Phases
    <3> QED BY <1>1, <3>1, RunFacts, Zenon
  <2>2. Len(copies) <= Keep
    <3>1. ASSUME Len(copies) > Keep PROVE FALSE
      <4>1. Keep \in 1..Len(copies) /\ Keep + 1 \in 1..Len(copies)
        BY <1>1, <3>1, Keeps
      <4>2. Keep = Keep + 1
        BY <1>1, <1>4, <4>1, Keeps DEF Inv, OldInv
      <4> QED BY <4>2, Keeps
    <3> QED BY <1>1, <3>1, Keeps
  <2>3. CurrentInv'
    BY <1>1, <1>4, <2>1 DEF Inv, CurrentInv, Current
  <2> QED BY <1>4, <2>1, <2>2, <2>3 DEF TypeInv, Inv, OldInv, KeptInv, DataInv
<1> QED BY <1>1, <1>2, <1>3, <1>4 DEF Prune

LEMMA CrashStep == ASSUME Inv, Crash PROVE Inv'
<1>1. spent' \in [DOMAIN Limit -> Nat]
  BY SpendFacts DEF TypeInv, Crash, Limit, Inv
<1>2. copies' \in Copies /\ \A i \in 1..Len(copies') : ~copies'[i].old
  BY ForgottenFacts DEF TypeInv, Crash, Inv
<1>3. run' \in Runs /\ run'.pc = "wait" /\ run'.data = None
  BY DEF Crash, Runs, Phases
<1> QED BY <1>1, <1>2, <1>3 DEF TypeInv, Crash, Inv, OldInv, KeptInv, DataInv, CurrentInv

LEMMA InvInit == Init => Inv
<1> SUFFICES ASSUME Init PROVE Inv
  OBVIOUS
<1>1. copies \in Copies /\ Len(copies) = 0
  BY EmptySeq DEF Init, Copies
<1>2. run \in Runs
  BY DEF Init, Runs, Phases
<1>3. spent \in [DOMAIN Limit -> Nat]
  BY DEF Init, Limit
<1> QED BY <1>1, <1>2, <1>3, Keeps DEF TypeInv, Init, Inv, OldInv, KeptInv, DataInv, CurrentInv

LEMMA InvNext == Inv /\ [Next]_vars => Inv'
<1>1. ASSUME Inv, UNCHANGED vars PROVE Inv'
  BY <1>1 DEF vars, Inv, TypeInv, OldInv, KeptInv, DataInv, CurrentInv, Current
<1> QED BY <1>1, ChangeStep, OnceStep, CompareStep, WriteStep, PruneStep, CrashStep DEF Next, Run

-----------------------------------------------------------------------------
\* Everything has its type.
THEOREM Types == Spec => []TypeOK
<1>1. Inv => TypeOK
  BY TypeFacts DEF Inv
<1> QED BY <1>1, InvInit, InvNext, PTL DEF Spec

\* A run that has written a copy and ends well leaves no more than are to be kept (Once).
THEOREM CopiesWithinKeep == Spec => []WithinKeep
<1>1. Inv => WithinKeep
  BY DEF Inv, KeptInv, WithinKeep
<1> QED BY <1>1, InvInit, InvNext, PTL DEF Spec

\* After a run that went well the newest copy has what it read, while the clock goes
\* forward (Once).
THEOREM NewestIsCurrent == Spec => []CopyIsCurrent
<1>1. Inv => CopyIsCurrent
  <2> SUFFICES ASSUME Inv, run.pc = "wait", run.data # None, last \in {"unchanged", "written"}, spent.clock = 0
               PROVE  copies # <<>> /\ copies[1].data = run.data
    BY DEF CopyIsCurrent
  <2>1. Current
    BY DEF Inv, CurrentInv
  <2>2. copies # <<>>
    BY <2>1, EmptySeq DEF TypeInv, Current, Inv
  <2> QED BY <2>1, <2>2 DEF Current
<1> QED BY <1>1, InvInit, InvNext, PTL DEF Spec

\* A deletion never takes the newest copy, and leaves Keep copies or one less (Once).
THEOREM DeletesOldCopies == Spec => NewestKept
<1>1. Inv /\ [Next]_vars =>
        (Len(copies') < Len(copies) /\ Keep > 1 => copies'[1] = copies[1] /\ Len(copies') >= Keep - 1)
  <2> SUFFICES ASSUME Inv, [Next]_vars, Len(copies') < Len(copies), Keep > 1
               PROVE  copies'[1] = copies[1] /\ Len(copies') >= Keep - 1
    OBVIOUS
  <2>1. copies \in Copies /\ Len(copies) \in Nat /\ DOMAIN copies = 1..Len(copies) /\ run \in Runs
    BY CopiesFacts DEF TypeInv, Inv
  <2>2. Len(Forgotten) = Len(copies)
    BY <2>1, ForgottenFacts
  <2>3. ASSUME Write PROVE FALSE
    <3>1. run.data \in Contents
      BY <2>1, <2>3 DEF Write, Inv, DataInv, Runs
    <3>2. \A p \in 1..(Len(copies) + 1) : Len(Inserted(p)) = Len(copies) + 1
      BY <2>1, <3>1, InsertedFacts
    <3>3. \A p \in 1..Len(copies) : Len(Replaced(p)) = Len(copies)
      BY <2>1, <3>1, ReplacedFacts
    <3>4. 1 \in 1..(Len(copies) + 1) /\ \A p \in 2..(Len(copies) + 1) : p \in 1..(Len(copies) + 1)
      BY <2>1
    <3> QED BY <2>1, <2>2, <2>3, <3>2, <3>3, <3>4 DEF Write, Fail
  <2>4. PICK i \in 1..Len(copies) : copies[i].old /\ copies' = Without(i) /\ run.pc = "prune"
    BY <2>1, <2>2, <2>3 DEF Next, vars, Run, Once, Compare, Prune, Crash, Change, Fail
  <2>5. Len(copies') = Len(copies) - 1 /\ i >= Keep /\ \A k \in 1..Len(copies') : k < i => copies'[k] = copies[k]
    BY <2>4, Deletes
  <2> QED BY <2>1, <2>5, Keeps
<1> QED BY <1>1, InvInit, InvNext, PTL DEF Spec, NewestKept
=============================================================================
