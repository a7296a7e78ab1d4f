---------------------------- MODULE EditorProofs ----------------------------
(***************************************************************************)
(* Proofs about Editor: its types, that a save never overwrites what its   *)
(* browser has not seen, that a list without unsaved changes is the one of *)
(* its version, and that unsaved changes are kept.                         *)
(***************************************************************************)
EXTENDS Editor, TLAPS

-----------------------------------------------------------------------------
(* One request changes at a time. *)

OpenOK == DOMAIN open = Browsers /\ \A b \in Browsers : open[b] \in [Slots(b) -> Request \cup {None}]

SetRequest(b, s, r) == open' = [open EXCEPT ![b][s] = r]

\* The requests after one was set: that one, and the others as before.
LEMMA SetOne ==
  ASSUME OpenOK, NEW b \in Browsers, NEW s \in Slots(b), NEW r \in Request \cup {None},
         SetRequest(b, s, r)
  PROVE  /\ OpenOK'
         /\ open'[b][s] = r
         /\ \A c \in Browsers : \A t \in Slots(c) : c # b \/ t # s => open'[c][t] = open[c][t]
<1>1. DOMAIN open' = Browsers
  BY DEF OpenOK, SetRequest
<1>2. open'[b] = [open[b] EXCEPT ![s] = r] /\ \A c \in Browsers : c # b => open'[c] = open[c]
  BY DEF OpenOK, SetRequest
<1>3. open[b] \in [Slots(b) -> Request \cup {None}]
  BY DEF OpenOK
<1>4. open'[b] \in [Slots(b) -> Request \cup {None}]
  BY <1>2, <1>3
<1>5. open'[b][s] = r /\ \A t \in Slots(b) : t # s => open'[b][t] = open[b][t]
  BY <1>2, <1>3
<1>6. \A c \in Browsers : open'[c] \in [Slots(c) -> Request \cup {None}]
  BY <1>2, <1>4 DEF OpenOK
<1> QED BY <1>1, <1>2, <1>5, <1>6 DEF OpenOK, Slots

\* What the browsers and the server put into a slot is a request.
LEMMA Requests_ ==
  /\ \A k \in Kinds : Get(k) \in Request
  /\ \A l \in Lists \cup {None}, v \in Contents \cup {None} : Put(l, v) \in Request
  /\ \A r \in Request, a \in Answers : Answered(r, a) \in Request
  /\ \A r \in Request : [r EXCEPT !.at = "checked"] \in Request
<1>1. \A r \in Request, a \in Answers : Answered(r, a) \in Request
  BY DEF Request, Answered
<1>2. \A k \in Kinds : Get(k) \in Request
  BY DEF Request, Get
<1>3. \A l \in Lists \cup {None}, v \in Contents \cup {None} : Put(l, v) \in Request
  BY DEF Request, Put, Kinds
<1>4. \A r \in Request : [r EXCEPT !.at = "checked"] \in Request
  BY DEF Request
<1> QED BY <1>1, <1>2, <1>3, <1>4

\* An answer that is read gives a list, and its contents are a version.
LEMMA Answers_ ==
  ASSUME NEW r \in Request, r.answer # None, r.answer.ok
  PROVE  r.answer.file \in Contents /\ r.answer.file.list \in Lists
<1>1. r.answer \in Answers
  BY DEF Request
<1>2. r.answer # Failed
  BY DEF Failed
<1>3. PICK f \in {g \in Contents : g.list # None} : r.answer = Done(f)
  BY <1>1, <1>2 DEF Answers
<1>4. r.answer.file = f
  BY <1>3 DEF Done
<1> QED BY <1>3, <1>4 DEF Contents

\* A request that is answered has an answer, and one that is checked has a list to save.
Sane(r) == /\ r.at = "answered" => r.answer # None
           /\ r.at = "checked" => r.list \in Valid
SaneOpen == \A b \in Browsers : \A s \in Slots(b) : open[b][s] # None => Sane(open[b][s])
SaneLate == \A r \in late : Sane(r)

TypeInv == TypeOK /\ SaneOpen /\ SaneLate

LEMMA TypeOpen == TypeOK => OpenOK
BY DEF TypeOK, OpenOK

\* Sending uses a slot that is free.
LEMMA SendOne ==
  ASSUME OpenOK, NEW b \in Browsers, NEW r, Send(b, r)
  PROVE  \E s \in Slots(b) : open[b][s] = None /\ SetRequest(b, s, r)
BY DEF Send, FreeSlot, SetRequest

\* What the actions leave alone except the requests.
LEMMA TypeFrame ==
  ASSUME TypeInv, NEW b \in Browsers, NEW s \in Slots(b), NEW r \in Request \cup {None},
         SetRequest(b, s, r), r # None => Sane(r)
  PROVE  OpenOK' /\ SaneOpen'
<1>1. /\ OpenOK'
      /\ open'[b][s] = r
      /\ \A c \in Browsers : \A t \in Slots(c) : c # b \/ t # s => open'[c][t] = open[c][t]
  BY SetOne, TypeOpen DEF TypeInv
<1>2. SaneOpen'
  <2> SUFFICES ASSUME NEW c \in Browsers, NEW t \in Slots(c), open'[c][t] # None
               PROVE  Sane(open'[c][t])
    BY DEF SaneOpen, Slots, Sane
  <2>1. CASE c = b /\ t = s
    BY <2>1, <1>1
  <2>2. CASE c # b \/ t # s
    BY <2>2, <1>1 DEF TypeInv, SaneOpen
  <2> QED BY <2>1, <2>2
<1> QED BY <1>1, <1>2

LEMMA TypeInit == Init => TypeInv
<1> SUFFICES ASSUME Init PROVE TypeInv
  OBVIOUS
<1>1. \A b \in Browsers : open[b] = [s \in Slots(b) |-> IF s = 1 THEN Get("load") ELSE None]
  BY DEF Init
<1>2. DOMAIN open = Browsers /\ \A b \in Browsers : open[b] \in [Slots(b) -> Request \cup {None}]
  BY <1>1, Requests_ DEF Init, Kinds
<1>3. SaneOpen /\ SaneLate
  <2>1. Sane(Get("load"))
    BY DEF Get, Sane
  <2>2. \A b \in Browsers : \A s \in Slots(b) : open[b][s] \in {None, Get("load")}
    BY <1>1
  <2> QED BY <2>1, <2>2 DEF SaneOpen, SaneLate, Init
<1>4. file \in Contents
  BY EditorAssumption DEF Init, Contents
<1>5. spent \in [DOMAIN Limit -> Nat]
  BY DEF Init, Limit
<1> QED BY <1>2, <1>3, <1>4, <1>5 DEF Init, TypeInv, TypeOK

LEMMA TypeUser ==
  ASSUME TypeInv, NEW b \in Browsers, User(b) \/ Poll(b)
  PROVE  TypeInv'
<1>1. OpenOK /\ clips[b] \in Lists \cup {None} /\ version[b] \in Contents \cup {None}
  BY TypeOpen DEF TypeInv, TypeOK
<1>2. \A k \in {"edits", "reloads", "trouble"} : Spend(k) => spent' \in [DOMAIN Limit -> Nat]
  BY DEF Spend, Limit, TypeInv, TypeOK
<1>3. CASE \E l \in Lists : Edit(b, l)
  BY <1>2, <1>3 DEF Edit, SetDirty, TypeInv, TypeOK, SaneOpen, SaneLate, Slots, Sane
<1>4. CASE Save(b)
  <2>1. Put(clips[b], version[b]) \in Request /\ Sane(Put(clips[b], version[b]))
    BY <1>1, Requests_ DEF Put, Sane
  <2>2. OpenOK' /\ SaneOpen'
    BY <1>1, <1>4, <2>1, SendOne, TypeFrame DEF Save
  <2> QED BY <1>4, <2>2 DEF Save, TypeInv, TypeOK, OpenOK, SaneLate, Sane
<1>5. CASE Reload(b)
  <2>1. Get("load") \in Request /\ Sane(Get("load"))
    BY Requests_ DEF Get, Kinds, Sane
  <2>2. OpenOK' /\ SaneOpen'
    BY <1>1, <1>5, <2>1, SendOne, TypeFrame DEF Reload
  <2> QED BY <1>2, <1>5, <2>2 DEF Reload, TypeInv, TypeOK, OpenOK, SaneLate, Sane
<1>6. CASE Poll(b)
  <2>1. Get("poll") \in Request /\ Sane(Get("poll"))
    BY Requests_ DEF Get, Kinds, Sane
  <2>2. OpenOK' /\ SaneOpen'
    BY <1>1, <1>6, <2>1, SendOne, TypeFrame DEF Poll
  <2> QED BY <1>6, <2>2 DEF Poll, browser, TypeInv, TypeOK, OpenOK, SaneLate, Sane
<1> QED BY <1>3, <1>4, <1>5, <1>6 DEF User

LEMMA TypeAnswer ==
  ASSUME TypeInv, NEW b \in Browsers, NEW s \in Slots(b), Answer(b, s)
  PROVE  TypeInv'
<1> DEFINE r == open[b][s]
<1>1. OpenOK /\ r \in Request \cup {None} /\ clips \in [Browsers -> Lists \cup {None}]
      /\ version \in [Browsers -> Contents \cup {None}]
  BY TypeOpen DEF TypeInv, TypeOK, OpenOK
<1>2. r # None /\ r.at = "answered"
  BY DEF Answer, LoadAnswered, PollAnswered, PutAnswered, At
<1>3. r \in Request /\ r.answer # None
  BY <1>1, <1>2 DEF TypeInv, SaneOpen, Sane
<1>4. r.answer.ok => r.answer.file \in Contents /\ r.answer.file.list \in Lists
  BY <1>3, Answers_
<1>5. /\ \A k \in Kinds : Get(k) \in Request /\ Sane(Get(k))
      /\ Close(b, s) => SetRequest(b, s, None)
      /\ \A q : Follow(b, s, q) => SetRequest(b, s, q)
  BY Requests_ DEF Get, Close, Follow, SetRequest, Sane
<1>6. \/ Close(b, s)
      \/ \E k \in Kinds : Follow(b, s, Get(k))
  BY DEF Answer, LoadAnswered, PollAnswered, PutAnswered, Kinds
<1>7. OpenOK' /\ SaneOpen'
  BY <1>5, <1>6, TypeFrame
<1>8. CASE LoadAnswered(b, s)
  <2>1. missed' \in [Browsers -> BOOLEAN]
    <3>1. missed \in [Browsers -> BOOLEAN]
      BY DEF TypeInv, TypeOK
    <3>2. \E m \in BOOLEAN : missed' = [missed EXCEPT ![b] = m]
      BY <1>8, Zenon DEF LoadAnswered
    <3> QED BY <3>1, <3>2
  <2>2. CASE r.answer.ok
    BY <1>1, <1>4, <1>7, <1>8, <2>1, <2>2 DEF LoadAnswered, SetDirty, TypeInv, TypeOK, OpenOK, SaneLate, Sane
  <2>3. CASE ~r.answer.ok
    BY <1>1, <1>7, <1>8, <2>1, <2>3 DEF LoadAnswered, TypeInv, TypeOK, OpenOK, SaneLate, Sane
  <2> QED BY <2>2, <2>3
<1>9. CASE PollAnswered(b, s)
  BY <1>7, <1>9 DEF PollAnswered, browser, TypeInv, TypeOK, OpenOK, SaneLate, Sane
<1>10. CASE PutAnswered(b, s)
  BY <1>1, <1>4, <1>7, <1>10 DEF PutAnswered, SetDirty, TypeInv, TypeOK, OpenOK, SaneLate, Sane
<1> QED BY <1>8, <1>9, <1>10 DEF Answer

LEMMA AnsweredSane == \A r \in Request, a \in Answers : Sane(Answered(r, a))
<1> SUFFICES ASSUME NEW r \in Request, NEW a \in Answers PROVE Sane(Answered(r, a))
  OBVIOUS
<1>1. Answered(r, a).at = "answered" /\ Answered(r, a).answer = a
  BY DEF Answered, Request
<1> QED BY <1>1, NoneAssumption DEF Sane

LEMMA SavedContents ==
  \A r : r.list \in Lists => Saved(r) \in Contents /\ Done(Saved(r)) \in Answers
<1> SUFFICES ASSUME NEW r, r.list \in Lists PROVE Saved(r) \in Contents /\ Done(Saved(r)) \in Answers
  OBVIOUS
<1>1. Saved(r) \in Contents
  BY DEF Saved, Contents
<1>2. Saved(r).list # None
  BY EditorAssumption DEF Saved
<1> QED BY <1>1, <1>2 DEF Answers

\* A request the server works on, and the contents of its answers.
LEMMA TypeServe ==
  ASSUME TypeInv, NEW b \in Browsers, NEW s \in Slots(b), Serve(b, s)
  PROVE  TypeInv'
<1> DEFINE r == open[b][s]
<1>1. OpenOK /\ r \in Request \cup {None} /\ file \in Contents
  BY TypeOpen DEF TypeInv, TypeOK, OpenOK
<1>2. r \in Request
  BY <1>1 DEF Serve, getClips, PutCheck, PutSave
<1>3. Failed \in Answers /\ (Parses => Done(file) \in Answers)
  BY <1>1 DEF Parses, Answers
<1>4. \A q : open' = [open EXCEPT ![b][s] = q] => SetRequest(b, s, q)
  BY DEF SetRequest
<1>5. \A a \in Answers : Sane(Answered(r, a))
  BY <1>2, AnsweredSane
<1>6. r.list \in Valid => Sane([r EXCEPT !.at = "checked"])
  BY <1>2 DEF Request, Sane
<1>7. CASE getClips(b, s)
  <2>1. PICK a \in Answers : SetRequest(b, s, Answered(r, a))
    BY <1>3, <1>4, <1>7 DEF getClips
  <2>2. OpenOK' /\ SaneOpen'
    BY <1>2, <1>5, <1>6, <2>1, Requests_, TypeFrame
  <2> QED BY <1>7, <2>2 DEF getClips, browser, TypeInv, TypeOK, OpenOK, SaneLate, Sane
<1>8. CASE PutCheck(b, s)
  <2>1. \/ r.list \in Valid /\ SetRequest(b, s, [r EXCEPT !.at = "checked"])
        \/ SetRequest(b, s, Answered(r, Failed))
    BY <1>4, <1>8 DEF PutCheck, Accepts
  <2>2. OpenOK' /\ SaneOpen'
    BY <1>2, <1>3, <1>5, <1>6, <2>1, Requests_, TypeFrame
  <2> QED BY <1>8, <2>2 DEF PutCheck, browser, TypeInv, TypeOK, OpenOK, SaneLate, Sane
<1>9. CASE PutSave(b, s)
  <2>1. r.list \in Lists
    BY <1>9, EditorAssumption DEF PutSave, TypeInv, SaneOpen, Sane
  <2>2. Saved(r) \in Contents /\ Done(Saved(r)) \in Answers
    BY <2>1, SavedContents
  <2>3. SetRequest(b, s, Answered(r, Done(Saved(r)))) \/ SetRequest(b, s, Answered(r, Failed))
    BY <1>4, <1>9 DEF PutSave
  <2>4. OpenOK' /\ SaneOpen'
    BY <1>2, <1>3, <1>5, <1>6, <2>2, <2>3, Requests_, TypeFrame
  <2>5. file' \in Contents /\ spent' \in [DOMAIN Limit -> Nat]
    BY <1>1, <1>9, <2>2 DEF PutSave, Spend, Limit, TypeInv, TypeOK
  <2> QED BY <1>9, <2>4, <2>5 DEF PutSave, browser, TypeInv, TypeOK, OpenOK, SaneLate, Sane
<1> QED BY <1>7, <1>8, <1>9 DEF Serve

LEMMA TypeServeLate == TypeInv /\ ServeLate => TypeInv'
<1> SUFFICES ASSUME TypeInv, NEW r \in late, LateCheck(r) \/ LateSave(r) PROVE TypeInv'
  BY DEF ServeLate
<1>1. r \in Request /\ Sane(r)
  BY DEF TypeInv, TypeOK, SaneLate
<1>2. CASE LateCheck(r)
  <2>1. r.list \in Valid => Sane([r EXCEPT !.at = "checked"])
    BY <1>1 DEF Request, Sane
  <2>2. \A q \in late' : q \in Request /\ Sane(q)
    BY <1>1, <1>2, <2>1, Requests_ DEF LateCheck, Accepts, TypeInv, TypeOK, SaneLate
  <2> QED BY <1>2, <2>2 DEF LateCheck, browser, TypeInv, TypeOK, SaneOpen, SaneLate, Slots, Sane
<1>3. CASE LateSave(r)
  <2>1. file' \in Contents /\ spent' \in [DOMAIN Limit -> Nat]
    BY <1>1, <1>3, EditorAssumption, SavedContents DEF LateSave, Sane, Spend, Limit, TypeInv, TypeOK
  <2>2. late' \subseteq late
    BY <1>3 DEF LateSave
  <2> QED BY <1>3, <2>1, <2>2 DEF LateSave, browser, TypeInv, TypeOK, SaneOpen, SaneLate, Slots, Sane
<1> QED BY <1>2, <1>3

LEMMA TypeWorld == TypeInv /\ World => TypeInv'
<1> SUFFICES ASSUME TypeInv, World PROVE TypeInv'
  OBVIOUS
<1>1. \A k \in {"edits", "reloads", "trouble"} : Spend(k) => spent' \in [DOMAIN Limit -> Nat]
  BY DEF Spend, Limit, TypeInv, TypeOK
<1>2. ASSUME NEW l \in Lists \cup {None}, EditByHand(l) PROVE TypeInv'
  <2>1. file' \in Contents
    BY <1>2 DEF EditByHand, Contents
  <2> QED BY <1>1, <1>2, <2>1 DEF EditByHand, browser, TypeInv, TypeOK, SaneOpen, SaneLate, Slots, Sane
<1>3. ASSUME NEW b \in Browsers, NEW arrives \in BOOLEAN, NEW s \in Slots(b), Lose(b, s, arrives)
      PROVE  TypeInv'
  <2> DEFINE r == open[b][s]
  <2>1. r \in Request /\ Sane(r)
    BY <1>3, TypeOpen DEF Lose, TypeInv, OpenOK, SaneOpen
  <2>2. Answered(r, Failed) \in Request /\ Sane(Answered(r, Failed))
    BY <2>1, Requests_, AnsweredSane DEF Answers
  <2>3. SetRequest(b, s, Answered(r, Failed))
    BY <1>3 DEF Lose, SetRequest
  <2>4. OpenOK' /\ SaneOpen'
    BY <2>2, <2>3, TypeFrame
  <2>5. late' \subseteq Request /\ SaneLate'
    BY <1>3, <2>1 DEF Lose, SaneLate, Sane, TypeInv, TypeOK
  <2> QED BY <1>1, <1>3, <2>4, <2>5 DEF Lose, browser, TypeInv, TypeOK, OpenOK
<1> QED BY <1>2, <1>3 DEF World

LEMMA TypeNext == TypeInv /\ [Next]_vars => TypeInv'
<1> SUFFICES ASSUME TypeInv, [Next]_vars PROVE TypeInv'
  OBVIOUS
<1>1. CASE UNCHANGED vars
  BY <1>1 DEF vars, browser, TypeInv, TypeOK, SaneOpen, SaneLate, Slots, Sane
<1> QED BY <1>1, TypeUser, TypeAnswer, TypeServe, TypeServeLate, TypeWorld DEF Next

\* Everything has its type; what is in the slots are requests.
THEOREM Types == Spec => []TypeOK
<1>1. TypeInv => TypeOK
  BY DEF TypeInv
<1> QED BY <1>1, TypeInit, TypeNext, PTL DEF Spec

-----------------------------------------------------------------------------
(* The lock: one save at a time is between its check and its end, and it has *)
(* the contents that it replaces.                                            *)

HeldAt(b, s) == open[b][s] # None /\ open[b][s].at = "checked"
LockInv ==
  /\ \A b, c \in Browsers : \A s \in Slots(b), t \in Slots(c) :
       HeldAt(b, s) /\ HeldAt(c, t) => b = c /\ s = t
  /\ \A b \in Browsers : \A s \in Slots(b) : HeldAt(b, s) =>
       /\ Fresh(open[b][s])
       /\ \A r \in late : r.at # "checked"
  /\ \A r, q \in late : r.at = "checked" /\ q.at = "checked" => r = q
  /\ \A r \in late : r.at = "checked" => Fresh(r)

\* Which saves hold the lock after a step: those from before, or none.
Keeps == \A b \in Browsers : \A s \in Slots(b) : HeldAt(b, s)' => HeldAt(b, s) /\ open'[b][s] = open[b][s]
KeepsLate == \A r \in late' : r.at = "checked" => r \in late
Idle == /\ \A b \in Browsers : \A s \in Slots(b) : ~HeldAt(b, s)
        /\ \A r \in late : r.at # "checked"

LEMMA LockKept ==
  ASSUME LockInv, Keeps, KeepsLate, file' = file \/ file'.by = "hand" \/ Idle'
  PROVE  LockInv'
<1>1. CASE Idle'
  BY <1>1 DEF Idle, LockInv, Slots, HeldAt
<1>2. CASE file' = file \/ file'.by = "hand"
  <2>1. \A r : Fresh(r) => Fresh(r)'
    BY <1>2 DEF Fresh
  <2>2. \A b \in Browsers : \A s \in Slots(b) : HeldAt(b, s)' => Fresh(open[b][s])'
    <3> SUFFICES ASSUME NEW b \in Browsers, NEW s \in Slots(b), HeldAt(b, s)' PROVE Fresh(open[b][s])'
      BY DEF Slots
    <3>1. Fresh(open[b][s]) /\ open'[b][s] = open[b][s]
      BY DEF Keeps, LockInv
    <3> QED BY <1>2, <3>1 DEF Fresh
  <2> QED BY <2>1, <2>2 DEF LockInv, Keeps, KeepsLate, Slots
<1> QED BY <1>1, <1>2

\* A request that is set to something that does not hold the lock.
LEMMA KeepsSet ==
  ASSUME TypeInv, NEW b \in Browsers, NEW s \in Slots(b), NEW r \in Request \cup {None},
         SetRequest(b, s, r), r # None => r.at # "checked"
  PROVE  Keeps
<1>1. /\ open'[b][s] = r
      /\ \A c \in Browsers : \A t \in Slots(c) : c # b \/ t # s => open'[c][t] = open[c][t]
  BY SetOne, TypeOpen DEF TypeInv
<1> SUFFICES ASSUME NEW c \in Browsers, NEW t \in Slots(c), HeldAt(c, t)'
             PROVE  HeldAt(c, t) /\ open'[c][t] = open[c][t]
  BY DEF Keeps, Slots
<1>2. c # b \/ t # s
  BY <1>1 DEF HeldAt
<1> QED BY <1>1, <1>2 DEF HeldAt

LEMMA Unlocked_ == TypeInv /\ Unlocked => Idle
<1> SUFFICES ASSUME TypeInv, Unlocked PROVE Idle
  OBVIOUS
<1>1. \A r \in late : r.at # "checked"
  BY NoneAssumption DEF Unlocked, Requests, TypeInv, TypeOK
<1>2. ASSUME NEW b \in Browsers, NEW s \in Slots(b), HeldAt(b, s) PROVE FALSE
  <2>1. open[b][s] \in Requests \ {None}
    BY <1>2 DEF Requests, HeldAt
  <2> QED BY <1>2, <2>1 DEF Unlocked, HeldAt
<1> QED BY <1>1, <1>2 DEF Idle

LEMMA LockInit == Init => LockInv
<1> SUFFICES ASSUME Init PROVE LockInv
  OBVIOUS
<1>1. \A b \in Browsers : \A s \in Slots(b) : ~HeldAt(b, s)
  BY DEF Init, HeldAt, Get
<1> QED BY <1>1 DEF LockInv, Init

LEMMA LockUser ==
  ASSUME TypeInv, LockInv, NEW b \in Browsers, User(b) \/ Poll(b)
  PROVE  LockInv'
<1>1. file' = file /\ late' = late
  BY DEF User, Poll, Edit, Save, Reload
<1>2. Keeps
  <2>1. CASE UNCHANGED open
    BY <2>1 DEF Keeps, HeldAt
  <2>2. CASE \E r \in Request : r.at = "sent" /\ Send(b, r)
    BY <2>2, SendOne, TypeOpen, KeepsSet DEF TypeInv
  <2>3. \A k \in Kinds : Get(k) \in Request /\ Get(k).at = "sent"
    BY Requests_ DEF Get
  <2>4. Put(clips[b], version[b]) \in Request /\ Put(clips[b], version[b]).at = "sent"
    BY Requests_ DEF Put, TypeInv, TypeOK
  <2>5. \/ UNCHANGED open
        \/ Send(b, Put(clips[b], version[b]))
        \/ \E k \in Kinds : Send(b, Get(k))
    BY DEF User, Poll, Edit, Save, Reload, Kinds
  <2> QED BY <2>1, <2>2, <2>3, <2>4, <2>5
<1> QED BY <1>1, <1>2, LockKept DEF KeepsLate

LEMMA LockAnswer ==
  ASSUME TypeInv, LockInv, NEW b \in Browsers, NEW s \in Slots(b), Answer(b, s)
  PROVE  LockInv'
<1>1. file' = file /\ late' = late
  BY DEF Answer, LoadAnswered, PollAnswered, PutAnswered
<1>2. \E r \in Request \cup {None} : SetRequest(b, s, r) /\ (r # None => r.at # "checked")
  <2>1. \A k \in Kinds : Get(k) \in Request /\ Get(k).at = "sent"
    BY Requests_ DEF Get
  <2>2. SetRequest(b, s, None) \/ \E k \in Kinds : SetRequest(b, s, Get(k))
    BY DEF Answer, LoadAnswered, PollAnswered, PutAnswered, Close, Follow, SetRequest, Kinds
  <2> QED BY <2>1, <2>2
<1>3. Keeps
  BY <1>2, KeepsSet
<1> QED BY <1>1, <1>3, LockKept DEF KeepsLate

LEMMA LockServe ==
  ASSUME TypeInv, LockInv, NEW b \in Browsers, NEW s \in Slots(b), Serve(b, s)
  PROVE  LockInv'
<1> DEFINE r == open[b][s]
<1>1. r \in Request /\ late' = late
  BY TypeOpen DEF Serve, getClips, PutCheck, PutSave, browser, TypeInv, OpenOK
<1>2. \A a \in Answers : /\ Answered(r, a) \in Request
                         /\ Answered(r, a).at = "answered"
                         /\ SetRequest(b, s, Answered(r, a)) => Keeps
  <2>1. \A a \in Answers : Answered(r, a) \in Request /\ Answered(r, a).at = "answered"
    BY <1>1, Requests_ DEF Answered, Request
  <2> QED BY <2>1, KeepsSet
<1>3. Failed \in Answers
  BY DEF Answers
<1>4. CASE getClips(b, s)
  <2>1. \E a \in Answers : SetRequest(b, s, Answered(r, a))
    BY <1>3, <1>4 DEF getClips, SetRequest, Answers, Parses, TypeInv, TypeOK
  <2> QED BY <1>1, <1>2, <1>4, <2>1, LockKept DEF getClips, KeepsLate
<1>5. CASE PutCheck(b, s)
  <2>1. Idle /\ file' = file
    BY <1>5, Unlocked_ DEF PutCheck
  <2>2. CASE SetRequest(b, s, Answered(r, Failed))
    BY <1>1, <1>2, <1>3, <2>1, <2>2, LockKept DEF KeepsLate
  <2>3. CASE r.base = file /\ SetRequest(b, s, [r EXCEPT !.at = "checked"])
    <3> DEFINE q == [r EXCEPT !.at = "checked"]
    <3>1. q \in Request /\ q.base = r.base
      BY <1>1, Requests_ DEF Request
    <3>2. open'[b][s] = q /\ \A c \in Browsers : \A t \in Slots(c) : c # b \/ t # s => open'[c][t] = open[c][t]
      BY <2>3, <3>1, SetOne, TypeOpen DEF TypeInv
    <3>3. \A c \in Browsers : \A t \in Slots(c) : HeldAt(c, t)' => c = b /\ t = s
      BY <2>1, <3>2 DEF Idle, HeldAt
    <3>4. Fresh(open[b][s])'
      BY <2>1, <2>3, <3>1, <3>2 DEF Fresh
    <3>5. \A q2 \in late' : q2.at # "checked"
      BY <1>1, <2>1 DEF Idle
    <3> QED BY <3>3, <3>4, <3>5 DEF LockInv, Slots
  <2> QED BY <1>5, <2>2, <2>3 DEF PutCheck, Accepts, SetRequest
<1>6. CASE PutSave(b, s)
  <2>1. HeldAt(b, s)
    BY <1>6 DEF PutSave, HeldAt
  <2>2. r.list \in Lists
    BY <1>6, EditorAssumption DEF PutSave, TypeInv, SaneOpen, Sane
  <2>3. PICK a \in Answers : SetRequest(b, s, Answered(r, a))
    BY <1>3, <1>6, <2>2, SavedContents DEF PutSave, SetRequest
  <2>4. Keeps
    BY <1>2, <2>3
  <2>5. ~HeldAt(b, s)'
    <3>1. open'[b][s] = Answered(r, a)
      BY <1>2, <2>3, SetOne, TypeOpen DEF TypeInv
    <3> QED BY <1>2, <3>1 DEF HeldAt
  <2>6. Idle'
    BY <1>1, <2>1, <2>4, <2>5 DEF Idle, Keeps, LockInv, Slots
  <2> QED BY <1>1, <2>4, <2>6, LockKept DEF KeepsLate
<1> QED BY <1>4, <1>5, <1>6 DEF Serve

LEMMA LockServeLate == TypeInv /\ LockInv /\ ServeLate => LockInv'
<1> SUFFICES ASSUME TypeInv, LockInv, NEW r \in late, LateCheck(r) \/ LateSave(r) PROVE LockInv'
  BY DEF ServeLate
<1>1. r \in Request
  BY DEF TypeInv, TypeOK
<1>2. Keeps
  BY DEF LateCheck, LateSave, Keeps, HeldAt
<1>3. CASE LateCheck(r)
  <2>1. Idle /\ file' = file /\ open' = open
    BY <1>3, Unlocked_ DEF LateCheck
  <2>2. CASE ~Accepts(r)
    <3>1. late' \subseteq late
      BY <1>3, <2>2 DEF LateCheck
    <3> QED BY <1>2, <2>1, <3>1, LockKept DEF KeepsLate
  <2>3. CASE Accepts(r)
    <3> DEFINE q == [r EXCEPT !.at = "checked"]
    <3>1. q.base = file
      BY <1>1, <2>3 DEF Request, Accepts
    <3>2. late' = (late \ {r}) \cup {q}
      BY <1>3, <2>3 DEF LateCheck
    <3>3. \A p \in late' : p.at = "checked" => p = q
      BY <2>1, <3>2 DEF Idle
    <3>4. \A c \in Browsers : \A t \in Slots(c) : ~HeldAt(c, t)'
      BY <2>1 DEF Idle, HeldAt
    <3>5. \A p \in late' : p.at = "checked" => Fresh(p)'
      BY <2>1, <3>1, <3>3 DEF Fresh
    <3> QED BY <3>3, <3>4, <3>5 DEF LockInv, Slots
  <2> QED BY <2>2, <2>3
<1>4. CASE LateSave(r)
  <2>1. late' = late \ {r} /\ open' = open
    BY <1>4 DEF LateSave
  <2>2. \A p \in late' : p.at # "checked"
    BY <1>4, <2>1 DEF LateSave, LockInv
  <2>3. \A c \in Browsers : \A t \in Slots(c) : ~HeldAt(c, t)'
    BY <1>4, <2>1 DEF LateSave, LockInv, HeldAt
  <2> QED BY <1>2, <2>1, <2>2, <2>3, LockKept DEF Idle, KeepsLate, Slots
<1> QED BY <1>3, <1>4

LEMMA LockWorld == TypeInv /\ LockInv /\ World => LockInv'
<1> SUFFICES ASSUME TypeInv, LockInv, World PROVE LockInv'
  OBVIOUS
<1>1. ASSUME NEW l \in Lists \cup {None}, EditByHand(l) PROVE LockInv'
  <2>1. file'.by = "hand" /\ late' = late /\ open' = open
    BY <1>1 DEF EditByHand
  <2> QED BY <2>1, LockKept DEF Keeps, KeepsLate, HeldAt
<1>2. ASSUME NEW b \in Browsers, NEW arrives \in BOOLEAN, NEW s \in Slots(b), Lose(b, s, arrives)
      PROVE  LockInv'
  <2> DEFINE r == open[b][s]
  <2>1. r \in Request
    BY <1>2, TypeOpen DEF Lose, TypeInv, OpenOK
  <2>2. Answered(r, Failed) \in Request /\ Answered(r, Failed).at = "answered"
    BY <2>1, Requests_ DEF Answered, Request, Answers
  <2>3. Keeps
    BY <1>2, <2>2, KeepsSet DEF Lose, SetRequest
  <2>4. KeepsLate /\ file' = file
    BY <1>2 DEF Lose, KeepsLate
  <2> QED BY <2>3, <2>4, LockKept
<1> QED BY <1>1, <1>2 DEF World

LEMMA LockNext == TypeInv /\ LockInv /\ [Next]_vars => LockInv'
<1> SUFFICES ASSUME TypeInv, LockInv, [Next]_vars PROVE LockInv'
  OBVIOUS
<1>1. CASE UNCHANGED vars
  BY <1>1, LockKept DEF vars, browser, Keeps, KeepsLate, HeldAt
<1> QED BY <1>1, LockUser, LockAnswer, LockServe, LockServeLate, LockWorld DEF Next

\* A save replaces the contents its browser has seen or saved, unless the file was edited by
\* hand between its check and its write: the lock holds from the check to the end.
THEOREM SavesAreFresh == Spec => NoLostUpdate
<1> DEFINE Step == /\ \A b \in Browsers : \A s \in Slots(b) :
                        PutSave(b, s) /\ file' # file => Fresh(open[b][s])
                   /\ \A r \in late : LateSave(r) => Fresh(r)
<1>1. LockInv => Step
  BY DEF LockInv, PutSave, LateSave, HeldAt
<1> QED BY <1>1, TypeInit, TypeNext, LockInit, LockNext, PTL DEF Spec, NoLostUpdate

-----------------------------------------------------------------------------
(* What a browser shows. Nobody else changes it, and the server answers its  *)
(* requests without changing what they ask.                                  *)

SameRequest(r, q) == IF r = None THEN q = None ELSE q # None /\ q.kind = r.kind /\ q.list = r.list
Quiet(b) ==
  /\ clips'[b] = clips[b] /\ version'[b] = version[b] /\ dirty'[b] = dirty[b]
  /\ unsaved'[b] = unsaved[b] /\ missed'[b] = missed[b]
  /\ \A s \in Slots(b) : SameRequest(open[b][s], open'[b][s])

LEMMA QuietServer ==
  ASSUME TypeInv, NEW b \in Browsers,
         UNCHANGED vars \/ ServeLate \/ World \/ \E c \in Browsers : \E s \in Slots(c) : Serve(c, s)
  PROVE  Quiet(b)
<1>1. UNCHANGED browser => /\ clips'[b] = clips[b] /\ version'[b] = version[b] /\ dirty'[b] = dirty[b]
                           /\ unsaved'[b] = unsaved[b] /\ missed'[b] = missed[b]
  BY DEF browser
<1>2. UNCHANGED browser
  <2>1. UNCHANGED vars => UNCHANGED browser
    BY DEF vars
  <2>2. ServeLate => UNCHANGED browser
    BY DEF ServeLate, LateCheck, LateSave
  <2>3. World => UNCHANGED browser
    BY DEF World, EditByHand, Lose
  <2>4. (\E c \in Browsers : \E s \in Slots(c) : Serve(c, s)) => UNCHANGED browser
    BY DEF Serve, getClips, PutCheck, PutSave
  <2> QED BY <2>1, <2>2, <2>3, <2>4
<1>3. CASE UNCHANGED open
  BY <1>1, <1>2, <1>3 DEF Quiet, SameRequest
<1>4. ASSUME NEW c \in Browsers, NEW s \in Slots(c), Serve(c, s) \/ \E arrives \in BOOLEAN : Lose(c, s, arrives)
      PROVE  Quiet(b)
  <2> DEFINE r == open[c][s]
  <2>1. r # None /\ r \in Request
    BY <1>4, TypeOpen DEF Serve, getClips, PutCheck, PutSave, Lose, TypeInv, OpenOK
  <2>2. \A a \in Answers : Answered(r, a) \in Request /\ SameRequest(r, Answered(r, a))
    <3> SUFFICES ASSUME NEW a \in Answers PROVE Answered(r, a) \in Request /\ SameRequest(r, Answered(r, a))
      OBVIOUS
    <3>1. Answered(r, a) \in Request /\ Answered(r, a) # None
      BY <2>1, Requests_, NoneAssumption
    <3>2. Answered(r, a).kind = r.kind /\ Answered(r, a).list = r.list
      BY <2>1 DEF Answered, Request
    <3> QED BY <2>1, <3>1, <3>2 DEF SameRequest
  <2>3. [r EXCEPT !.at = "checked"] \in Request /\ SameRequest(r, [r EXCEPT !.at = "checked"])
    BY <2>1, Requests_, NoneAssumption DEF Request, SameRequest
  <2>4. PICK q \in Request : SetRequest(c, s, q) /\ SameRequest(r, q)
    <3>1. Failed \in Answers
      BY DEF Answers
    <3>2. CASE getClips(c, s)
      <4>1. \E a \in Answers : SetRequest(c, s, Answered(r, a))
        BY <3>1, <3>2 DEF getClips, SetRequest, Answers, Parses, TypeInv, TypeOK
      <4> QED BY <2>2, <4>1
    <3>3. CASE PutCheck(c, s)
      BY <2>2, <2>3, <3>1, <3>3 DEF PutCheck, SetRequest
    <3>4. CASE PutSave(c, s)
      <4>1. r.list \in Lists
        BY <3>4, EditorAssumption DEF PutSave, TypeInv, SaneOpen, Sane
      <4>2. \E a \in Answers : SetRequest(c, s, Answered(r, a))
        BY <3>1, <3>4, <4>1, SavedContents DEF PutSave, SetRequest
      <4> QED BY <2>2, <4>2
    <3>5. CASE \E arrives \in BOOLEAN : Lose(c, s, arrives)
      BY <2>2, <3>1, <3>5 DEF Lose, SetRequest
    <3> QED BY <1>4, <3>2, <3>3, <3>4, <3>5 DEF Serve
  <2>5. /\ open'[c][s] = q
        /\ \A d \in Browsers : \A t \in Slots(d) : d # c \/ t # s => open'[d][t] = open[d][t]
    BY <2>4, SetOne, TypeOpen DEF TypeInv
  <2>6. \A t \in Slots(b) : SameRequest(open[b][t], open'[b][t])
    BY <2>4, <2>5 DEF SameRequest
  <2> QED BY <1>1, <1>2, <2>6 DEF Quiet
<1>5. \/ UNCHANGED open
      \/ \E c \in Browsers : \E s \in Slots(c) : Serve(c, s) \/ \E arrives \in BOOLEAN : Lose(c, s, arrives)
  BY DEF vars, ServeLate, LateCheck, LateSave, World, EditByHand
<1> QED BY <1>3, <1>4, <1>5

\* A browser's own steps set at most one of its requests.
LEMMA OwnRequest ==
  ASSUME TypeInv, NEW b \in Browsers,
         User(b) \/ Poll(b) \/ \E s \in Slots(b) : Answer(b, s)
  PROVE  UNCHANGED open \/ \E s \in Slots(b), r \in Request \cup {None} : SetRequest(b, s, r)
<1>1. CASE User(b) \/ Poll(b)
  <2>1. \A k \in Kinds : Get(k) \in Request
    BY Requests_
  <2>2. Put(clips[b], version[b]) \in Request
    BY Requests_ DEF TypeInv, TypeOK
  <2>3. \/ UNCHANGED open
        \/ Send(b, Put(clips[b], version[b]))
        \/ \E k \in Kinds : Send(b, Get(k))
    BY <1>1 DEF User, Poll, Edit, Save, Reload, Kinds
  <2> QED BY <2>1, <2>2, <2>3, SendOne, TypeOpen DEF TypeInv
<1>2. CASE \E s \in Slots(b) : Answer(b, s)
  <2>1. PICK s \in Slots(b) : SetRequest(b, s, None) \/ \E k \in Kinds : SetRequest(b, s, Get(k))
    BY <1>2 DEF Answer, LoadAnswered, PollAnswered, PutAnswered, Close, Follow, SetRequest, Kinds
  <2> QED BY <2>1, Requests_
<1> QED BY <1>1, <1>2

LEMMA QuietOther ==
  ASSUME TypeInv, NEW b \in Browsers, NEW c \in Browsers, b # c,
         User(b) \/ Poll(b) \/ \E s \in Slots(b) : Answer(b, s)
  PROVE  Quiet(c)
<1>1. \A s \in Slots(c) : open'[c][s] = open[c][s]
  BY OwnRequest, SetOne, TypeOpen DEF TypeInv
<1>2. /\ \A f, x : [f EXCEPT ![b] = x][c] = f[c] \/ c \notin DOMAIN f
      /\ c \in DOMAIN clips /\ c \in DOMAIN version /\ c \in DOMAIN dirty
      /\ c \in DOMAIN unsaved /\ c \in DOMAIN missed
  BY DEF TypeInv, TypeOK
<1>3. /\ clips'[c] = clips[c] /\ version'[c] = version[c] /\ dirty'[c] = dirty[c]
      /\ unsaved'[c] = unsaved[c] /\ missed'[c] = missed[c]
  BY <1>2, Zenon DEF User, Poll, Answer, Edit, Save, Reload, LoadAnswered, PollAnswered, PutAnswered,
                     SetDirty, browser
<1> QED BY <1>1, <1>3 DEF Quiet, SameRequest

-----------------------------------------------------------------------------
(* A list without unsaved changes is the one of its version. *)

AfterSave(b) == \E s \in Slots(b) : open[b][s] # None /\ open[b][s].kind = "afterSave"
Clean(b) == ~dirty[b] /\ version[b] # None /\ ~missed[b] /\ ~AfterSave(b) => clips[b] = version[b].list

LEMMA CleanIs == CleanIsVersion <=> \A b \in Browsers : Clean(b)
BY DEF CleanIsVersion, Clean, AfterSave, Open

LEMMA CleanQuiet == ASSUME NEW b \in Browsers, Clean(b), Quiet(b) PROVE Clean(b)'
<1>1. AfterSave(b) => AfterSave(b)'
  BY DEF AfterSave, Quiet, SameRequest, Slots
<1> QED BY <1>1 DEF Clean, Quiet

\* A load that follows a save is open until it is answered.
LEMMA AfterSaveKept ==
  ASSUME TypeInv, NEW b \in Browsers, NEW s \in Slots(b), NEW r \in Request \cup {None},
         SetRequest(b, s, r), open[b][s] = None \/ open[b][s].kind # "afterSave"
  PROVE  AfterSave(b) => AfterSave(b)'
<1>1. \A t \in Slots(b) : t # s => open'[b][t] = open[b][t]
  BY SetOne, TypeOpen DEF TypeInv
<1> QED BY <1>1 DEF AfterSave, Slots

LEMMA CleanUser ==
  ASSUME TypeInv, NEW b \in Browsers, Clean(b), User(b) \/ Poll(b)
  PROVE  Clean(b)'
<1>1. CASE \E l \in Lists : Edit(b, l)
  <2>1. dirty'[b]
    BY <1>1, Zenon DEF Edit, SetDirty, TypeInv, TypeOK
  <2> QED BY <2>1 DEF Clean
<1>2. CASE Save(b) \/ Reload(b) \/ Poll(b)
  <2>1. UNCHANGED <<clips, version, dirty, missed>>
    BY <1>2 DEF Save, Reload, Poll, browser
  <2>2. \E s \in Slots(b), r \in Request : open[b][s] = None /\ SetRequest(b, s, r)
    <3>1. \A k \in Kinds : Get(k) \in Request
      BY Requests_
    <3>2. Put(clips[b], version[b]) \in Request
      BY Requests_ DEF TypeInv, TypeOK
    <3>3. Send(b, Put(clips[b], version[b])) \/ \E k \in Kinds : Send(b, Get(k))
      BY <1>2 DEF Save, Reload, Poll, Kinds
    <3> QED BY <3>1, <3>2, <3>3, SendOne, TypeOpen DEF TypeInv
  <2>3. AfterSave(b) => AfterSave(b)'
    BY <2>2, AfterSaveKept
  <2> QED BY <2>1, <2>3 DEF Clean
<1> QED BY <1>1, <1>2 DEF User

LEMMA CleanAnswer ==
  ASSUME TypeInv, NEW b \in Browsers, NEW s \in Slots(b), Clean(b), Answer(b, s)
  PROVE  Clean(b)'
<1> DEFINE r == open[b][s]
<1>1. r # None
  BY DEF Answer, LoadAnswered, PollAnswered, PutAnswered, At
<1>2. Get("load") \in Request /\ Get("afterSave") \in Request
  BY Requests_ DEF Kinds
<1>3. CASE LoadAnswered(b, s)
  <2>1. CASE r.answer.ok
    BY <1>3, <2>1 DEF LoadAnswered, Clean, TypeInv, TypeOK
  <2>2. CASE ~r.answer.ok /\ r.kind = "afterSave"
    <3>1. missed'[b]
      BY <1>3, <2>2, Zenon DEF LoadAnswered, TypeInv, TypeOK
    <3> QED BY <3>1 DEF Clean
  <2>3. CASE ~r.answer.ok /\ r.kind # "afterSave"
    <3>1. AfterSave(b) => AfterSave(b)'
      BY <1>3, <2>3, AfterSaveKept DEF LoadAnswered, Close, SetRequest
    <3>2. missed'[b] = missed[b]
      BY <1>3, <2>3, Zenon DEF LoadAnswered, TypeInv, TypeOK
    <3>3. UNCHANGED <<clips, version, dirty>>
      BY <1>3, <2>3 DEF LoadAnswered
    <3> QED BY <3>1, <3>2, <3>3 DEF Clean
  <2> QED BY <2>1, <2>2, <2>3
<1>4. CASE PollAnswered(b, s)
  <2>1. r.kind # "afterSave"
    BY <1>4 DEF PollAnswered, At
  <2>2. \E q \in Request \cup {None} : SetRequest(b, s, q)
    BY <1>2, <1>4 DEF PollAnswered, Close, Follow, SetRequest
  <2>3. AfterSave(b) => AfterSave(b)'
    BY <2>1, <2>2, AfterSaveKept
  <2> QED BY <1>4, <2>3 DEF PollAnswered, browser, Clean
<1>5. CASE PutAnswered(b, s)
  <2>1. CASE r.answer.ok
    <3>1. SetRequest(b, s, Get("afterSave"))
      BY <1>5, <2>1 DEF PutAnswered, Follow, SetRequest
    <3>2. open'[b][s] = Get("afterSave")
      BY <1>2, <3>1, SetOne, TypeOpen DEF TypeInv
    <3>3. AfterSave(b)'
      BY <1>2, <3>2, NoneAssumption DEF AfterSave, Get, Slots
    <3> QED BY <3>3 DEF Clean
  <2>2. CASE ~r.answer.ok
    <3>1. dirty'[b]
      BY <1>5, <2>2, Zenon DEF PutAnswered, SetDirty, TypeInv, TypeOK
    <3> QED BY <3>1 DEF Clean
  <2> QED BY <2>1, <2>2
<1> QED BY <1>3, <1>4, <1>5 DEF Answer

LEMMA CleanNext == TypeInv /\ CleanIsVersion /\ [Next]_vars => CleanIsVersion'
<1> SUFFICES ASSUME TypeInv, CleanIsVersion, [Next]_vars, NEW c \in Browsers PROVE Clean(c)'
  BY CleanIs DEF CleanIsVersion, Clean, AfterSave, Open, Slots
<1>1. Clean(c)
  BY CleanIs
<1>2. CASE UNCHANGED vars \/ ServeLate \/ World \/ \E b \in Browsers : \E s \in Slots(b) : Serve(b, s)
  BY <1>1, <1>2, QuietServer, CleanQuiet
<1>3. ASSUME NEW b \in Browsers, User(b) \/ Poll(b) \/ \E s \in Slots(b) : Answer(b, s)
      PROVE  Clean(c)'
  <2>1. CASE b # c
    BY <1>1, <1>3, <2>1, QuietOther, CleanQuiet
  <2>2. CASE b = c
    BY <1>1, <1>3, <2>2, CleanUser, CleanAnswer
  <2> QED BY <2>1, <2>2
<1> QED BY <1>2, <1>3 DEF Next

\* A list without unsaved changes is the one its version names, from the answer to a save to
\* the load that follows it, and a failure of that load, excepted (load, save).
THEOREM CleanLists == Spec => []CleanIsVersion
<1>1. Init => CleanIsVersion
  BY DEF Init, CleanIsVersion
<1> QED BY <1>1, CleanNext, TypeInit, TypeNext, PTL DEF Spec

-----------------------------------------------------------------------------
(* Edits made while nothing was being loaded or saved: no load is open, and  *)
(* a save that is open saves them.                                           *)

Calm(b) ==
  unsaved[b] = "calm" =>
    /\ dirty[b]
    /\ \A s \in Slots(b) : open[b][s] # None =>
         /\ open[b][s].kind \notin {"load", "afterSave"}
         /\ open[b][s].kind = "put" => open[b][s].list = clips[b]
CalmInv == \A b \in Browsers : Calm(b)

LEMMA CalmQuiet == ASSUME NEW b \in Browsers, Calm(b), Quiet(b) PROVE Calm(b)'
BY DEF Calm, Quiet, SameRequest, Slots

\* A request is set that neither loads nor saves another list.
LEMMA CalmSet ==
  ASSUME TypeInv, NEW b \in Browsers, Calm(b), NEW s \in Slots(b), NEW r \in Request \cup {None},
         SetRequest(b, s, r), clips'[b] = clips[b], unsaved'[b] = unsaved[b], dirty'[b] = dirty[b],
         unsaved[b] = "calm" => r = None \/ r.kind = "poll" \/ (r.kind = "put" /\ r.list = clips[b])
  PROVE  Calm(b)'
<1>1. open'[b][s] = r /\ \A t \in Slots(b) : t # s => open'[b][t] = open[b][t]
  BY SetOne, TypeOpen DEF TypeInv
<1> SUFFICES ASSUME unsaved[b] = "calm", NEW t \in Slots(b), open'[b][t] # None
             PROVE  /\ open'[b][t].kind \notin {"load", "afterSave"}
                    /\ open'[b][t].kind = "put" => open'[b][t].list = clips[b]
  BY DEF Calm, Slots
<1>2. CASE t = s
  BY <1>1, <1>2
<1>3. CASE t # s
  BY <1>1, <1>3 DEF Calm
<1> QED BY <1>2, <1>3

LEMMA CalmUser ==
  ASSUME TypeInv, NEW b \in Browsers, Calm(b), User(b) \/ Poll(b)
  PROVE  Calm(b)'
<1>1. CASE \E l \in Lists : Edit(b, l)
  <2>1. dirty'[b]
    BY <1>1, Zenon DEF Edit, SetDirty, TypeInv, TypeOK
  <2>2. unsaved'[b] = IF Open(b, {"load", "afterSave", "put"}) THEN "racing" ELSE "calm"
    BY <1>1 DEF Edit, TypeInv, TypeOK
  <2>3. open' = open
    BY <1>1 DEF Edit
  <2> QED BY <2>1, <2>2, <2>3 DEF Calm, Open, Slots
<1>2. CASE Save(b)
  <2>1. Put(clips[b], version[b]) \in Request
    BY Requests_ DEF TypeInv, TypeOK
  <2>2. PICK s \in Slots(b) : SetRequest(b, s, Put(clips[b], version[b]))
    BY <1>2, SendOne, TypeOpen DEF Save, TypeInv
  <2>3. clips' = clips /\ dirty' = dirty /\ unsaved' = unsaved
    BY <1>2 DEF Save
  <2>4. Put(clips[b], version[b]).kind = "put" /\ Put(clips[b], version[b]).list = clips[b]
    BY DEF Put
  <2> QED BY <2>1, <2>2, <2>3, <2>4, CalmSet
<1>3. CASE Reload(b)
  <2>1. unsaved'[b] = "none"
    BY <1>3 DEF Reload, TypeInv, TypeOK
  <2> QED BY <2>1 DEF Calm
<1>4. CASE Poll(b)
  <2>1. Get("poll") \in Request /\ Get("poll").kind = "poll"
    BY Requests_ DEF Kinds, Get
  <2>2. PICK s \in Slots(b) : SetRequest(b, s, Get("poll"))
    BY <1>4, SendOne, TypeOpen DEF Poll, TypeInv
  <2>3. clips' = clips /\ dirty' = dirty /\ unsaved' = unsaved
    BY <1>4 DEF Poll, browser
  <2> QED BY <2>1, <2>2, <2>3, CalmSet
<1> QED BY <1>1, <1>2, <1>3, <1>4 DEF User

LEMMA CalmAnswer ==
  ASSUME TypeInv, NEW b \in Browsers, Calm(b), NEW s \in Slots(b), Answer(b, s)
  PROVE  Calm(b)'
<1> DEFINE r == open[b][s]
<1>1. r # None
  BY DEF Answer, LoadAnswered, PollAnswered, PutAnswered, At
<1>2. CASE LoadAnswered(b, s)
  <2>1. unsaved[b] # "calm"
    BY <1>1, <1>2 DEF Calm, LoadAnswered, At
  <2>2. unsaved'[b] = "none" \/ unsaved'[b] = unsaved[b]
    BY <1>2 DEF LoadAnswered, TypeInv, TypeOK
  <2> QED BY <2>1, <2>2 DEF Calm
<1>3. CASE PollAnswered(b, s)
  <2>1. clips' = clips /\ dirty' = dirty /\ unsaved' = unsaved
    BY <1>3 DEF PollAnswered, browser
  <2>2. CASE Outdated(b, r.answer)
    BY <2>1, <2>2 DEF Calm, Outdated
  <2>3. CASE ~Outdated(b, r.answer)
    <3>1. SetRequest(b, s, None)
      BY <1>3, <2>3 DEF PollAnswered, Close, SetRequest
    <3> QED BY <2>1, <3>1, CalmSet
  <2> QED BY <2>2, <2>3
<1>4. CASE PutAnswered(b, s)
  <2>1. CASE r.answer.ok
    <3>1. unsaved'[b] # "calm"
      BY <1>4, <2>1 DEF PutAnswered, TypeInv, TypeOK
    <3> QED BY <3>1 DEF Calm
  <2>2. CASE ~r.answer.ok
    <3>1. SetRequest(b, s, None) /\ clips' = clips /\ unsaved' = unsaved
      BY <1>4, <2>2 DEF PutAnswered, Close, SetRequest
    <3>2. dirty'[b]
      BY <1>4, <2>2, Zenon DEF PutAnswered, SetDirty, TypeInv, TypeOK
    <3>3. CASE unsaved[b] = "calm"
      <4>1. open'[b][s] = None /\ \A t \in Slots(b) : t # s => open'[b][t] = open[b][t]
        BY <3>1, SetOne, TypeOpen DEF TypeInv
      <4> QED BY <3>1, <3>2, <3>3, <4>1 DEF Calm, Slots
    <3>4. CASE unsaved[b] # "calm"
      BY <3>1, <3>4 DEF Calm
    <3> QED BY <3>3, <3>4
  <2> QED BY <2>1, <2>2
<1> QED BY <1>2, <1>3, <1>4 DEF Answer

LEMMA CalmNext == TypeInv /\ CalmInv /\ [Next]_vars => CalmInv'
<1> SUFFICES ASSUME TypeInv, CalmInv, [Next]_vars, NEW c \in Browsers PROVE Calm(c)'
  BY DEF CalmInv
<1>1. Calm(c)
  BY DEF CalmInv
<1>2. CASE UNCHANGED vars \/ ServeLate \/ World \/ \E b \in Browsers : \E s \in Slots(b) : Serve(b, s)
  BY <1>1, <1>2, QuietServer, CalmQuiet
<1>3. ASSUME NEW b \in Browsers, User(b) \/ Poll(b) \/ \E s \in Slots(b) : Answer(b, s)
      PROVE  Calm(c)'
  <2>1. CASE b # c
    BY <1>1, <1>3, <2>1, QuietOther, CalmQuiet
  <2>2. CASE b = c
    BY <1>1, <1>3, <2>2, CalmUser, CalmAnswer
  <2> QED BY <2>1, <2>2
<1> QED BY <1>2, <1>3 DEF Next

\* What a step may do to a browser whose edits are calm.
Kept(b) ==
  unsaved[b] = "calm" =>
    /\ clips'[b] # clips[b] => \E l \in Lists : Edit(b, l)
    /\ unsaved'[b] = "none" =>
         \/ Reload(b)
         \/ \E s \in Slots(b) : PutAnswered(b, s) /\ open[b][s].list = clips[b]

LEMMA KeptNext == TypeInv /\ CalmInv /\ [Next]_vars => \A b \in Browsers : Kept(b)
<1> SUFFICES ASSUME TypeInv, CalmInv, [Next]_vars, NEW c \in Browsers, unsaved[c] = "calm" PROVE Kept(c)
  BY DEF Kept
<1>1. Quiet(c) => Kept(c)
  BY DEF Quiet, Kept
<1>2. CASE UNCHANGED vars \/ ServeLate \/ World \/ \E b \in Browsers : \E s \in Slots(b) : Serve(b, s)
  BY <1>1, <1>2, QuietServer
<1>3. ASSUME NEW b \in Browsers, User(b) \/ Poll(b) \/ \E s \in Slots(b) : Answer(b, s)
      PROVE  Kept(c)
  <2>1. CASE b # c
    BY <1>1, <1>3, <2>1, QuietOther
  <2>2. CASE b = c /\ \E l \in Lists : Edit(b, l)
    BY <2>2 DEF Kept, Edit, TypeInv, TypeOK
  <2>3. CASE b = c /\ Reload(b)
    BY <2>3 DEF Kept, Reload
  <2>4. CASE b = c /\ (Save(b) \/ Poll(b) \/ \E s \in Slots(b) : PollAnswered(b, s))
    BY <2>4 DEF Kept, Save, Poll, PollAnswered, browser
  <2>5. CASE b = c /\ \E s \in Slots(b) : LoadAnswered(b, s)
    BY <2>5 DEF Kept, LoadAnswered, At, CalmInv, Calm
  <2>6. CASE b = c /\ \E s \in Slots(b) : PutAnswered(b, s)
    <3>1. PICK s \in Slots(b) : PutAnswered(b, s)
      BY <2>6
    <3>2. open[b][s].list = clips[b]
      BY <2>6, <3>1 DEF PutAnswered, At, CalmInv, Calm
    <3>3. clips' = clips
      BY <3>1 DEF PutAnswered
    <3> QED BY <2>6, <3>1, <3>2, <3>3 DEF Kept
  <2> QED BY <1>3, <2>1, <2>2, <2>3, <2>4, <2>5, <2>6 DEF User, Answer
<1> QED BY <1>2, <1>3 DEF Next

\* Unsaved changes made while nothing was loaded or saved are shown until they are saved,
\* edited again, or discarded by the user (refreshStatus, save).
THEOREM UnsavedIsKept == Spec => UnsavedKept
<1>1. Init => CalmInv
  BY DEF Init, CalmInv, Calm
<1>2. TypeInv /\ CalmInv /\ [Next]_vars => \A b \in Browsers : Kept(b)
  BY KeptNext
<1>3. (\A b \in Browsers : Kept(b)) =>
        \A b \in Browsers : unsaved[b] = "calm" =>
          /\ clips'[b] # clips[b] => \E l \in Lists : Edit(b, l)
          /\ unsaved'[b] = "none" =>
               \/ Reload(b)
               \/ \E s \in Slots(b) : PutAnswered(b, s) /\ open[b][s].list = clips[b]
  BY DEF Kept
<1> QED BY <1>1, <1>2, <1>3, CalmNext, TypeInit, TypeNext, PTL DEF Spec, UnsavedKept
=============================================================================
