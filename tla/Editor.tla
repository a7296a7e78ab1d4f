------------------------------- MODULE Editor -------------------------------
(***************************************************************************)
(* The clip manager: browsers that show and edit the list of clips         *)
(* (internal/ui/static/app.js), the server that reads and saves it         *)
(* (internal/ui/server.go), and people who edit the clips file by hand.    *)
(* Requests and answers may overtake each other, and connections break.    *)
(***************************************************************************)
EXTENDS Integers, FiniteSets

CONSTANTS
  Browsers,
  Lists,      \* lists of clips
  Valid,      \* the lists Validate accepts
  None,       \* nothing: a list that does not parse, no version, no request, no answer
  MaxOpen,    \* bound: how many requests of each browser are open at a time
  MaxEdits,   \* bound: edits in the browsers
  MaxReloads, \* bound: loads a user asks for
  MaxTrouble  \* bound: broken connections, failing writes and edits of the file by hand

ASSUME EditorAssumption ==
  /\ Valid \subseteq Lists /\ None \notin Lists
  /\ MaxOpen \in [Browsers -> Nat \ {0}] /\ MaxEdits \in Nat /\ MaxReloads \in Nat /\ MaxTrouble \in Nat

VARIABLES
  file,     \* the contents of the clips file, which are also its version (a hash of them)
  clips,    \* the list each browser shows
  version,  \* and the version it has for it
  dirty,    \* "Unsaved changes" is shown
  button,   \* Save can be pressed
  open,     \* the requests of each browser, by slot
  late,     \* saves whose connection broke on the way to the server
  unsaved,  \* what is known of the edits that are shown and not saved (a history variable):
            \* "calm": no load or save was open when they were made; "racing": one was
  missed,   \* the load after the browser's last save failed (a history variable)
  spent     \* what users and the network have used of their bounds

browser == <<clips, version, dirty, button, unsaved, missed>>
vars == <<file, browser, open, late, spent>>

-----------------------------------------------------------------------------
\* The same list has other bytes when it is written by hand.
Contents == [list : Lists \cup {None}, by : {"save", "hand"}]
Failed == [ok |-> FALSE]
Done(contents) == [ok |-> TRUE, file |-> contents]
Answers == {Failed} \cup {Done(f) : f \in {g \in Contents : g.list # None}}

\* A load after a save differs from others only in what its failure means.
Kinds == {"load", "afterSave", "poll", "put"}
Request == [kind : Kinds, at : {"sent", "checked", "answered"}, list : Lists \cup {None},
            base : Contents \cup {None}, answer : Answers \cup {None}]

ASSUME NoneAssumption == None \notin Request \cup Contents \cup Answers

Slots(b) == 1..MaxOpen[b]

Get(kind) == [kind |-> kind, at |-> "sent", list |-> None, base |-> None, answer |-> None]
Put(list, base) == [kind |-> "put", at |-> "sent", list |-> list, base |-> base, answer |-> None]
Answered(r, a) == [r EXCEPT !.at = "answered", !.answer = a]

Open(b, kinds) == \E s \in Slots(b) : open[b][s] # None /\ open[b][s].kind \in kinds

\* The first free slot; a slot is free for the request that follows an answer, too.
FreeSlot(b, s) == open[b][s] = None /\ \A t \in 1..(s - 1) : open[b][t] # None
Send(b, r) == \E s \in Slots(b) : FreeSlot(b, s) /\ open' = [open EXCEPT ![b][s] = r]
Close(b, s) == open' = [open EXCEPT ![b][s] = None]
Follow(b, s, r) == open' = [open EXCEPT ![b][s] = r]

Limit == [edits |-> MaxEdits, reloads |-> MaxReloads, trouble |-> MaxTrouble]
Spend(kind) == spent[kind] < Limit[kind] /\ spent' = [spent EXCEPT ![kind] = @ + 1]

\* Every page begins with a load.
Init ==
  /\ file \in [list : Valid, by : {"save"}]
  /\ clips = [b \in Browsers |-> None]
  /\ version = [b \in Browsers |-> None]
  /\ dirty = [b \in Browsers |-> FALSE]
  /\ button = [b \in Browsers |-> FALSE]
  /\ open = [b \in Browsers |-> [s \in Slots(b) |-> IF s = 1 THEN Get("load") ELSE None]]
  /\ late = {}
  /\ unsaved = [b \in Browsers |-> "none"]
  /\ missed = [b \in Browsers |-> FALSE]
  /\ spent = [edits |-> 0, reloads |-> 0, trouble |-> 0]

-----------------------------------------------------------------------------
(* A user. *)

SetDirty(b, d) == dirty' = [dirty EXCEPT ![b] = d] /\ button' = [button EXCEPT ![b] = d]

\* A clip is added, changed or deleted: the list becomes another one.
Edit(b, l) ==
  /\ l # clips[b]
  /\ Spend("edits")
  /\ clips' = [clips EXCEPT ![b] = l]
  /\ SetDirty(b, TRUE)
  /\ unsaved' = [unsaved EXCEPT ![b] = IF Open(b, {"load", "afterSave", "put"}) THEN "racing" ELSE "calm"]
  /\ UNCHANGED <<file, version, open, late, missed>>

Save(b) ==
  /\ button[b]
  /\ button' = [button EXCEPT ![b] = FALSE]
  /\ Send(b, Put(clips[b], version[b]))
  /\ UNCHANGED <<file, clips, version, dirty, late, unsaved, missed, spent>>

\* With unsaved changes the user has to confirm that they are discarded.
Reload(b) ==
  /\ Spend("reloads")
  /\ Send(b, Get("load"))
  /\ unsaved' = [unsaved EXCEPT ![b] = "none"]
  /\ UNCHANGED <<file, clips, version, dirty, button, late, missed>>

-----------------------------------------------------------------------------
(* The browser. *)

\* Bound: one poll of a browser is open at a time.
Poll(b) ==
  /\ ~Open(b, {"poll"})
  /\ Send(b, Get("poll"))
  /\ UNCHANGED <<file, browser, late, spent>>

At(b, s, kinds) == open[b][s] # None /\ open[b][s].at = "answered" /\ open[b][s].kind \in kinds

LoadAnswered(b, s) ==
  LET r == open[b][s]
  IN  /\ At(b, s, {"load", "afterSave"})
      /\ Close(b, s)
      /\ \/ /\ r.answer.ok
            /\ clips' = [clips EXCEPT ![b] = r.answer.file.list]
            /\ version' = [version EXCEPT ![b] = r.answer.file]
            /\ SetDirty(b, FALSE)
            /\ unsaved' = [unsaved EXCEPT ![b] = "none"]
            /\ missed' = [missed EXCEPT ![b] = FALSE]
         \/ /\ ~r.answer.ok
            /\ missed' = [missed EXCEPT ![b] = @ \/ r.kind = "afterSave"]
            /\ UNCHANGED <<clips, version, dirty, button, unsaved>>
      /\ UNCHANGED <<file, late, spent>>

\* Mutant: unsaved changes do not keep a poll from loading.
OutdatedOrDirty(b, answer) == answer.ok /\ answer.file # version[b]

\* A poll that finds another version loads it, unless there are unsaved changes.
Outdated(b, answer) == answer.ok /\ ~dirty[b] /\ answer.file # version[b]

\* Mutant: a poll takes the version over before the list is loaded.
PollAnsweredNotes(b, s) ==
  LET a == open[b][s].answer
  IN  /\ At(b, s, {"poll"})
      /\ \/ /\ Outdated(b, a)
            /\ Follow(b, s, Get("load"))
            /\ version' = [version EXCEPT ![b] = a.file]
         \/ ~Outdated(b, a) /\ Close(b, s) /\ UNCHANGED version
      /\ UNCHANGED <<file, clips, dirty, button, unsaved, missed, late, spent>>

PollAnswered(b, s) ==
  /\ At(b, s, {"poll"})
  /\ \/ Outdated(b, open[b][s].answer) /\ Follow(b, s, Get("load"))
     \/ ~Outdated(b, open[b][s].answer) /\ Close(b, s)
  /\ UNCHANGED <<file, browser, late, spent>>

\* The version after a save, and then the list: edits made meanwhile are given up.
PutAnswered(b, s) ==
  LET r == open[b][s]
  IN  /\ At(b, s, {"put"})
      /\ \/ /\ r.answer.ok
            /\ version' = [version EXCEPT ![b] = r.answer.file]
            /\ Follow(b, s, Get("afterSave"))
            /\ unsaved' = [unsaved EXCEPT ![b] = IF @ = "calm" THEN "none" ELSE @]
            /\ UNCHANGED <<dirty, button>>
         \/ /\ ~r.answer.ok
            /\ Close(b, s)
            /\ SetDirty(b, TRUE)
            /\ UNCHANGED <<version, unsaved>>
      /\ UNCHANGED <<file, clips, late, missed, spent>>

-----------------------------------------------------------------------------
(* The server. *)

\* Mutant: a file that does not parse is served.
AlwaysParses == TRUE

Parses == file.list # None

getClips(b, s) ==
  LET r == open[b][s]
  IN  /\ r # None /\ r.at = "sent" /\ r.kind # "put"
      /\ open' = [open EXCEPT ![b][s] = Answered(r, IF Parses THEN Done(file) ELSE Failed)]
      /\ UNCHANGED <<file, browser, late, spent>>

\* Mutant: a save does not take the lock.
AlwaysUnlocked == TRUE

\* A save holds the lock from its check to its end.
Requests == late \cup UNION {{open[b][s] : s \in Slots(b)} : b \in Browsers}
Unlocked == \A r \in Requests \ {None} : r.at # "checked"

\* What putClips decides before it writes.
Accepts(r) == r.list \in Valid /\ Parses /\ r.base = file

PutCheck(b, s) ==
  LET r == open[b][s]
  IN  /\ r # None /\ r.at = "sent" /\ r.kind = "put"
      /\ Unlocked
      /\ open' = [open EXCEPT ![b][s] =
                    IF Accepts(r) THEN [r EXCEPT !.at = "checked"] ELSE Answered(r, Failed)]
      /\ UNCHANGED <<file, browser, late, spent>>

Saved(r) == [list |-> r.list, by |-> "save"]

\* The write may fail.
PutSave(b, s) ==
  LET r == open[b][s]
  IN  /\ r # None /\ r.at = "checked"
      /\ \/ /\ file' = Saved(r)
            /\ open' = [open EXCEPT ![b][s] = Answered(r, Done(Saved(r)))]
            /\ UNCHANGED spent
         \/ /\ Spend("trouble")
            /\ open' = [open EXCEPT ![b][s] = Answered(r, Failed)]
            /\ UNCHANGED file
      /\ UNCHANGED <<browser, late>>

\* The same for a save nobody waits for any more.
LateCheck(r) ==
  /\ r \in late /\ r.at = "sent"
  /\ Unlocked
  /\ late' = (late \ {r}) \cup (IF Accepts(r) THEN {[r EXCEPT !.at = "checked"]} ELSE {})
  /\ UNCHANGED <<file, browser, open, spent>>

LateSave(r) ==
  /\ r \in late /\ r.at = "checked"
  /\ late' = late \ {r}
  /\ \/ file' = Saved(r) /\ UNCHANGED spent
     \/ Spend("trouble") /\ UNCHANGED file
  /\ UNCHANGED <<browser, open>>

-----------------------------------------------------------------------------
(* The rest of the world. *)

EditByHand(l) ==
  /\ file # [list |-> l, by |-> "hand"]
  /\ Spend("trouble")
  /\ file' = [list |-> l, by |-> "hand"]
  /\ UNCHANGED <<browser, open, late>>

\* A connection breaks: the browser sees an error, whether the server has the request or not.
Lose(b, s, arrives) ==
  LET r == open[b][s]
  IN  /\ r # None
      /\ r.at = "sent" \/ (r.at = "answered" /\ r.answer.ok /\ ~arrives)
      /\ Spend("trouble")
      /\ open' = [open EXCEPT ![b][s] = Answered(r, Failed)]
      /\ late' = IF arrives /\ r.kind = "put" THEN late \cup {r} ELSE late
      /\ UNCHANGED <<file, browser>>

-----------------------------------------------------------------------------
User(b) == Save(b) \/ Reload(b) \/ \E l \in Lists : Edit(b, l)
Answer(b, s) == LoadAnswered(b, s) \/ PollAnswered(b, s) \/ PutAnswered(b, s)
Serve(b, s) == getClips(b, s) \/ PutCheck(b, s) \/ PutSave(b, s)
ServeLate == \E r \in late : LateCheck(r) \/ LateSave(r)
World ==
  \/ \E l \in Lists \cup {None} : EditByHand(l)
  \/ \E b \in Browsers, arrives \in BOOLEAN : \E s \in Slots(b) : Lose(b, s, arrives)

Next ==
  \/ \E b \in Browsers : User(b) \/ Poll(b) \/ \E s \in Slots(b) : Answer(b, s) \/ Serve(b, s)
  \/ ServeLate
  \/ World

Spec == Init /\ [][Next]_vars

-----------------------------------------------------------------------------
TypeOK ==
  /\ file \in Contents
  /\ clips \in [Browsers -> Lists \cup {None}]
  /\ version \in [Browsers -> Contents \cup {None}]
  /\ dirty \in [Browsers -> BOOLEAN] /\ button \in [Browsers -> BOOLEAN]
  /\ DOMAIN open = Browsers /\ \A b \in Browsers : open[b] \in [Slots(b) -> Request \cup {None}]
  /\ late \subseteq Request
  /\ unsaved \in [Browsers -> {"none", "calm", "racing"}]
  /\ missed \in [Browsers -> BOOLEAN]
  /\ spent \in [DOMAIN Limit -> Nat]

Fresh(r) == file = r.base \/ file.by = "hand"

\* A save replaces the contents its browser has seen or saved itself, unless someone edited
\* the file by hand between the check of the version and the write (putClips, which says so:
\* "the clips were changed elsewhere; reload and reapply your edits").
NoLostUpdate ==
  [][/\ \A b \in Browsers : \A s \in Slots(b) :
          PutSave(b, s) /\ file' # file => Fresh(open[b][s])
     /\ \A r \in late : LateSave(r) => Fresh(r)]_vars

\* A list without unsaved changes is the one its version names, except from the answer to a
\* save to the load that follows it, and after such a load has failed (load, save).
CleanIsVersion ==
  \A b \in Browsers :
    ~dirty[b] /\ version[b] # None /\ ~missed[b] /\ ~Open(b, {"afterSave"})
      => clips[b] = version[b].list

\* Edits made while nothing was being loaded or saved are shown until they are saved, or the
\* user edits again or confirms that they are discarded (refreshStatus, save).
UnsavedKept ==
  [][\A b \in Browsers : unsaved[b] = "calm" =>
       /\ clips'[b] # clips[b] => \E l \in Lists : Edit(b, l)
       /\ unsaved'[b] = "none" =>
            \/ Reload(b)
            \/ \E s \in Slots(b) : PutAnswered(b, s) /\ open[b][s].list = clips[b]]_vars
=============================================================================
