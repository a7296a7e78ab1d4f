------------------------------- MODULE Engine -------------------------------
(***************************************************************************)
(* internal/engine: the goroutines that turn the clips file into layouts   *)
(* published to the filesystem.  The watcher (main.go) and every Recheck   *)
(* apply a configuration under the engine's mutex, workers build queued    *)
(* clips outside it, and the housekeeper writes the status file and        *)
(* deletes unused cache entries.  Media files, the clips file and the      *)
(* process itself change at any time.                                      *)
(***************************************************************************)
EXTENDS ClipsConfig, FiniteSets

CONSTANTS
  Contents,    \* what the clips file may hold
  Clippable,   \* <<f, cut>> that mkv can cut by byte ranges; the others are remuxed
  Workers,
  Openers,     \* goroutines started by Invalidate, bounding how many run at once
  RecheckOn,   \* whether RecheckPeriod is positive
  QueueCap,    \* capacity of the queue channel
  MaxGen,      \* bound: identities a remuxed file can have at the same time
  MaxEdits, MaxChanges, MaxFaults, MaxCrashes  \* bounds: what the environment does

ASSUME EngineAssumption ==
  /\ Contents \subseteq Seq(Clip)
  /\ Clippable \subseteq Files \X Cuts
  /\ RecheckOn \in BOOLEAN
  /\ QueueCap \in Nat /\ MaxGen \in Nat /\ MaxEdits \in Nat
  /\ MaxChanges \in Nat /\ MaxFaults \in Nat /\ MaxCrashes \in Nat

VARIABLES
  \* Files: they survive a crash.
  media,      \* version of each media file, 0 when it is missing
  clipsFile,  \* clips.json: contents and a count of its edits
  index,      \* <cache>/index/<key>.json: the data file of the saved layout, or None
  remux,      \* <cache>/remux/<key>.mkv: identity of the file, 0 when missing
  tmps,       \* <cache>/remux/.<key>.tmp.mkv, in the same form
  status,     \* status.json, as of the last write
  \* The engine's memory; mutex is the critical section of Apply, or None.
  file, clips, queue, queued, dirty, started, mutex,
  sink,       \* clipfs.Root.entries
  \* Goroutines.
  loaded,     \* the configuration each caller of Apply is about to apply
  job,        \* each worker's progress
  hk,         \* the housekeeper's progress through cleanCache
  spent       \* what the environment has used of its bounds

disk == <<media, clipsFile, index, remux, tmps, status>>
memory == <<file, clips, queue, queued, dirty, started, mutex, sink>>
vars == <<disk, memory, loaded, job, hk, spent>>

-----------------------------------------------------------------------------
Key == [file : Files, ver : Versions, cut : Cuts]
Gens == 1..MaxGen
Layout == [key : Key, gen : {0} \cup Gens]  \* gen 0: byte ranges of the origin
Entry == [layout : Layout, nfo : Metas \cup {None}]
ClipState == [meta : Metas \cup {None}, key : Key \cup {None},
              state : {"pending", "ready", "error"},
              err : {"none", "invalid", "input", "build"},
              ready : Layout \cup {None}]
Status == [state : {"pending", "ready", "error"},
           err : {"none", "invalid", "input", "build"},
           source : Files \cup {None}]
Config == [ver : Nat, list : Contents]
Appliers == {"watcher", "housekeeper"} \cup Openers
Job == [pc : {"idle", "taken", "open", "ffmpeg", "rename", "stat", "save", "done", "failed"},
        path : Paths \cup {None}, key : Key \cup {None}, out : Layout \cup {None}]

ASSUME NoneAssumption ==
  None \notin Key \cup Layout \cup Entry \cup ClipState \cup Status \cup Config
                \cup [by : Appliers, todo : SUBSET Clip]

Kinds == {"edits", "changes", "faults", "crashes"}
Limit == [edits |-> MaxEdits, changes |-> MaxChanges, faults |-> MaxFaults,
          crashes |-> MaxCrashes]

IdleJob == [pc |-> "idle", path |-> None, key |-> None, out |-> None]
IdleHk == [pc |-> "wait", cleaned |-> FALSE, keep |-> {}, list |-> None]

Origin(key) == <<key.file, key.ver>>

ClipKey(c, f) == [file |-> f, ver |-> media[f], cut |-> c.cut]

\* The file a layout's byte ranges refer to is unchanged.
DataValid(l) ==
  IF l.gen = 0 THEN media[l.key.file] = l.key.ver ELSE remux[l.key] = l.gen

Building == {w \in Workers : job[w].pc \notin {"idle", "taken"}}
Idle == queued = {} /\ Building = {}

\* A mutex nobody holds; critical sections other than Apply are single actions.
Free == mutex = None
Calling(a) == loaded[a] # None \/ (mutex # None /\ mutex.by = a)

-----------------------------------------------------------------------------
\* Init: the engine has not started; the cache and the status file are empty.
Init ==
  /\ media = [f \in Files |-> 1]
  /\ clipsFile \in [ver : {1}, list : Contents]
  /\ index = [k \in Key |-> None]
  /\ remux = [k \in Key |-> 0]
  /\ tmps = [k \in Key |-> 0]
  /\ status = [p \in Paths |-> None]
  /\ file = None
  /\ clips = [p \in Paths |-> None]
  /\ queue = <<>>
  /\ queued = {}
  /\ dirty = FALSE
  /\ started = FALSE
  /\ mutex = None
  /\ sink = [p \in Paths |-> None]
  /\ loaded = [a \in Appliers |-> None]
  /\ job = [w \in Workers |-> IdleJob]
  /\ hk = IdleHk
  /\ spent = [kind \in Kinds |-> 0]

\* The environment does something that is bounded.
Spend(kind) ==
  /\ spent[kind] < Limit[kind]
  /\ spent' = [spent EXCEPT ![kind] = @ + 1]

\* The clips file is saved by the UI or by hand.
EditClips ==
  /\ Spend("edits")
  /\ \E list \in Contents \ {clipsFile.list} :
       clipsFile' = [ver |-> clipsFile.ver + 1, list |-> list]
  /\ UNCHANGED <<media, index, remux, tmps, status, memory, loaded, job, hk>>

\* A media file is replaced, removed or restored.
ChangeMedia(f) ==
  /\ Spend("changes")
  /\ \E v \in (0..MaxVersion) \ {media[f]} : media' = [media EXCEPT ![f] = v]
  /\ UNCHANGED <<clipsFile, index, remux, tmps, status, memory, loaded, job, hk>>

\* The process dies, and every file stays as it is.
Crash ==
  /\ file # None
  /\ Spend("crashes")
  /\ file' = None
  /\ clips' = [p \in Paths |-> None]
  /\ queue' = <<>>
  /\ queued' = {}
  /\ dirty' = FALSE
  /\ started' = FALSE
  /\ mutex' = None
  /\ sink' = [p \in Paths |-> None]
  /\ loaded' = [a \in Appliers |-> None]
  /\ job' = [w \in Workers |-> IdleJob]
  /\ hk' = IdleHk
  /\ UNCHANGED disk

-----------------------------------------------------------------------------
\* runMount loads the clips file before Start; watchConfig loads it on every
\* change, and periodically when it has not changed.
LoadConfig ==
  /\ ~Calling("watcher")
  /\ started \/ file = None
  /\ loaded' = [loaded EXCEPT !["watcher"] = clipsFile]
  /\ UNCHANGED <<disk, memory, job, hk, spent>>

HousekeeperWaits == started /\ hk.pc = "wait" /\ ~Calling("housekeeper")

\* Recheck reads the current file under the mutex and applies it after
\* releasing it: called by the housekeeper's ticker ...
PeriodicRecheck ==
  /\ RecheckOn
  /\ HousekeeperWaits
  /\ Free
  /\ loaded' = [loaded EXCEPT !["housekeeper"] = file]
  /\ UNCHANGED <<disk, memory, job, hk, spent>>

\* Opening the clip served at p finds that its data file is missing or changed.
Stale(p) == sink[p] # None /\ ~DataValid(sink[p].layout)

\* ... and by Invalidate, when such a clip is opened; finding it stale and reading
\* the file in the goroutine it starts are one step.
InvalidateRecheck(a) ==
  /\ ~Calling(a)
  /\ Free
  /\ \E p \in Paths : Stale(p)
  /\ loaded' = [loaded EXCEPT ![a] = file]
  /\ UNCHANGED <<disk, memory, job, hk, spent>>

-----------------------------------------------------------------------------
\* Apply, from here to ApplyEnd, holds the mutex and takes the clips one at a
\* time in any order (a Go map's); the file system changes between the steps.
InvalidClip == [meta |-> None, key |-> None, state |-> "error", err |-> "invalid",
                ready |-> None]

\* A clipState that applyClip has just allocated.
NoClip == [meta |-> None, key |-> None, state |-> "none", err |-> "none", ready |-> None]

StateOf(p) == IF clips[p] = None THEN NoClip ELSE clips[p]

\* Mutant: a clip that is no longer configured stays in the filesystem.
ForgetKeepingServed(keep) == sink

\* Sink.RemoveClip for the published clips that are not in keep.
Forget(keep) ==
  [p \in Paths |-> IF p \notin keep /\ StateOf(p).ready # None THEN None ELSE sink[p]]

\* The new file is current; clips it no longer has are removed, and the invalid
\* ones are reported.
ApplyBegin(a) ==
  /\ Free
  /\ loaded[a] # None
  /\ file' = loaded[a]
  /\ loaded' = [loaded EXCEPT ![a] = None]
  /\ LET want == Wanted(media, loaded[a].list)
         keep == PathsOf(want)
         invalid == Invalid(media, loaded[a].list)
     IN  /\ sink' = Forget(keep)
         /\ clips' = [p \in Paths |-> IF p \in keep THEN clips[p]
                                      ELSE IF p \in invalid THEN InvalidClip ELSE None]
         /\ mutex' = [by |-> a, todo |-> want]
  /\ UNCHANGED <<disk, queue, queued, dirty, started, job, hk, spent>>

\* applyClip is done with c, leaving the clip's state st.
Applied(c, st) ==
  /\ clips' = [clips EXCEPT ![c.path] = st]
  /\ mutex' = [mutex EXCEPT !.todo = @ \ {c}]
  /\ UNCHANGED <<disk, file, dirty, started, loaded, job, hk, spent>>

Publish(p, l, meta) == sink' = [sink EXCEPT ![p] = [layout |-> l, nfo |-> meta]]
Withdraw(p) == sink' = [sink EXCEPT ![p] = None]

\* The input is missing and has no replacement.
ApplyMissing(c) ==
  /\ Resolved(media, c.input) = {}
  /\ IF StateOf(c.path).ready # None THEN Withdraw(c.path) ELSE UNCHANGED sink
  /\ Applied(c, [meta |-> c.meta, key |-> None, state |-> "error", err |-> "input",
                 ready |-> None])
  /\ UNCHANGED <<queue, queued>>

\* Mutant: a clip that could not be built is not tried again.
KeepsFailed(st, key) == st.key = key /\ (st.ready # None => DataValid(st.ready))

\* Mutant: the data of a published clip is not looked at.
KeepsUnchecked(st, key) == st.key = key /\ st.state # "error"

\* The clip is unchanged and its data, if it is published, still valid.
Keeps(st, key) ==
  /\ st.key = key
  /\ st.state # "error"
  /\ st.ready # None => DataValid(st.ready)

ApplyKept(c) ==
  \E f \in Resolved(media, c.input) :
    LET st == StateOf(c.path)
    IN  /\ Keeps(st, ClipKey(c, f))
        /\ IF st.ready # None /\ st.meta # c.meta
             THEN Publish(c.path, st.ready, c.meta)
             ELSE UNCHANGED sink
        /\ Applied(c, [st EXCEPT !.meta = c.meta])
        /\ UNCHANGED <<queue, queued>>

\* Mutant: an index entry that cannot be loaded is used all the same.
AlwaysIndexed(key) == TRUE

\* The layout is in the index, built by this process or an earlier one.
Indexed(key) == index[key] # None /\ DataValid([key |-> key, gen |-> index[key]])

ApplyIndexed(c) ==
  \E f \in Resolved(media, c.input) :
    LET key == ClipKey(c, f)
        l == [key |-> key, gen |-> index[key]]
    IN  /\ ~Keeps(StateOf(c.path), key)
        /\ Indexed(key)
        /\ Publish(c.path, l, c.meta)  \* a clip of a replaced origin is removed just before
        /\ Applied(c, [meta |-> c.meta, key |-> key, state |-> "ready", err |-> "none",
                       ready |-> l])
        /\ UNCHANGED <<queue, queued>>

\* Mutant: the previous layout is served whatever it was cut from.
KeptOfAnySource(st, key) == st.ready

\* Mutant: the previous layout is withdrawn as soon as the clip changes.
KeptIfSameKey(st, key) == IF st.ready # None /\ st.key # key THEN None ELSE st.ready

\* The layout served until the new one is built: the previous one, unless the
\* source was replaced.
Kept(st, key) ==
  IF st.ready # None /\ Origin(st.ready.key) # Origin(key) THEN None ELSE st.ready

\* Mutant: a path is sent whether or not it is in the channel.
EnqueueAgain(p) == queue' = Append(queue, p) /\ queued' = queued \cup {p}

\* Mutant: a path that is being built is not sent again.
EnqueueUnlessBuilding(p) ==
  IF p \in queued \/ \E w \in Building : job[w].path = p
    THEN UNCHANGED <<queue, queued>>
    ELSE queue' = Append(queue, p) /\ queued' = queued \cup {p}

\* A path is in the channel once; sending to a full channel blocks.
Enqueue(p) ==
  IF p \in queued THEN UNCHANGED <<queue, queued>>
  ELSE /\ Len(queue) < QueueCap
       /\ queue' = Append(queue, p)
       /\ queued' = queued \cup {p}

\* The clip is queued for the workers.
ApplyQueued(c) ==
  \E f \in Resolved(media, c.input) :
    LET st == StateOf(c.path)
        key == ClipKey(c, f)
    IN  /\ ~Keeps(st, key)
        /\ ~Indexed(key)
        /\ IF st.ready # None /\ Kept(st, key) = None THEN Withdraw(c.path)
                                                      ELSE UNCHANGED sink
        /\ Applied(c, [meta |-> c.meta, key |-> key, state |-> "pending", err |-> "none",
                       ready |-> Kept(st, key)])
        /\ Enqueue(c.path)

ApplyClip ==
  /\ mutex # None
  /\ \E c \in mutex.todo :
       ApplyMissing(c) \/ ApplyKept(c) \/ ApplyIndexed(c) \/ ApplyQueued(c)

ApplyEnd ==
  /\ mutex # None
  /\ mutex.todo = {}
  /\ dirty' = TRUE
  /\ mutex' = None
  /\ UNCHANGED <<disk, file, clips, queue, queued, started, sink, loaded, job, hk, spent>>

\* Start deletes what an interrupted remux left and starts the goroutines.
Start ==
  /\ ~started
  /\ file # None
  /\ ~Calling("watcher")
  /\ Free
  /\ started' = TRUE
  /\ tmps' = [k \in Key |-> 0]
  /\ UNCHANGED <<media, clipsFile, index, remux, status, file, clips, queue, queued, dirty,
                 mutex, sink, loaded, job, hk, spent>>

-----------------------------------------------------------------------------
\* A worker receives a path from the channel, before it has the mutex.
TakeJob(w) ==
  /\ started
  /\ job[w].pc = "idle"
  /\ queue # <<>>
  /\ queue' = Tail(queue)
  /\ job' = [job EXCEPT ![w] = [IdleJob EXCEPT !.pc = "taken", !.path = Head(queue)]]
  /\ UNCHANGED <<disk, file, clips, queued, dirty, started, mutex, sink, loaded, hk, spent>>

\* Under the mutex: the clip is no longer queued, and what to build is copied.
StartJob(w) ==
  LET p == job[w].path
  IN  /\ job[w].pc = "taken"
      /\ Free
      /\ queued' = queued \ {p}
      /\ job' = [job EXCEPT ![w] =
                   IF clips[p] = None THEN IdleJob
                   ELSE [@ EXCEPT !.pc = "open", !.key = clips[p].key]]
      /\ UNCHANGED <<disk, file, clips, queue, dirty, started, mutex, sink, loaded, hk, spent>>

JobStep(w, from, new) ==
  /\ job[w].pc = from
  /\ job' = [job EXCEPT ![w] = new]
  /\ UNCHANGED <<media, clipsFile, status, memory, loaded, hk>>

\* The source can be opened and is the version the key was computed from.
SourceIsKey(key) == key # None /\ media[key.file] = key.ver

\* build's checks, then mkv.BuildClip for the cuts it can make.
OpenSource(w) ==
  LET key == job[w].key
  IN  /\ JobStep(w, "open",
           IF ~SourceIsKey(key) THEN [job[w] EXCEPT !.pc = "failed"]
           ELSE IF <<key.file, key.cut>> \in Clippable
             THEN [job[w] EXCEPT !.pc = "save", !.out = [key |-> key, gen |-> 0]]
             ELSE [job[w] EXCEPT !.pc = "ffmpeg"])
      /\ UNCHANGED <<index, remux, tmps, spent>>

\* A cut that can be made fails this time, for instance on a read error: the clip
\* is remuxed as if it could not.
CutFails(w) ==
  LET key == job[w].key
  IN  /\ SourceIsKey(key)
      /\ <<key.file, key.cut>> \in Clippable
      /\ Spend("faults")
      /\ JobStep(w, "open", [job[w] EXCEPT !.pc = "ffmpeg"])
      /\ UNCHANGED <<index, remux, tmps>>

\* Identities of the remuxed files of key that something still refers to.
GensInUse(key) ==
  {remux[key], tmps[key], index[key]}
    \cup {clips[p].ready.gen : p \in {q \in Paths : clips[q] # None /\ clips[q].ready # None
                                                     /\ clips[q].ready.key = key}}
    \cup {job[w].out.gen : w \in {v \in Workers : job[v].out # None /\ job[v].out.key = key}}

\* ffmpeg writes the temporary file, which every build of the key shares.  Two runs
\* on it at once are told apart only by which of them ended last: what the bytes
\* then are is left out.
RunFFmpeg(w) ==
  LET key == job[w].key
      fresh == Gens \ GensInUse(key)
  IN  /\ job[w].pc = "ffmpeg"
      /\ IF media[key.file] = 0
           THEN /\ JobStep(w, "ffmpeg", [job[w] EXCEPT !.pc = "failed"])
                /\ tmps' = [tmps EXCEPT ![key] = 0]
           ELSE /\ JobStep(w, "ffmpeg", [job[w] EXCEPT !.pc = "rename"])
                /\ \E g \in fresh : /\ \A h \in fresh : g <= h
                                    /\ tmps' = [tmps EXCEPT ![key] = g]
      /\ UNCHANGED <<index, remux, spent>>

RenameTmp(w) ==
  LET key == job[w].key
  IN  /\ JobStep(w, "rename", [job[w] EXCEPT !.pc = IF tmps[key] # 0 THEN "stat" ELSE "failed"])
      /\ remux' = IF tmps[key] # 0 THEN [remux EXCEPT ![key] = tmps[key]] ELSE remux
      /\ tmps' = [tmps EXCEPT ![key] = 0]
      /\ UNCHANGED <<index, spent>>

\* layout.Stat of the renamed file gives the identity the layout refers to.
StatRemux(w) ==
  LET key == job[w].key
      gone == remux[key] = 0
  IN  /\ JobStep(w, "stat",
           IF gone THEN [job[w] EXCEPT !.pc = "failed"]
           ELSE [job[w] EXCEPT !.pc = "save", !.out = [key |-> key, gen |-> remux[key]]])
      /\ tmps' = IF gone THEN [tmps EXCEPT ![key] = 0] ELSE tmps  \* the deferred Remove
      /\ UNCHANGED <<index, remux, spent>>

\* The layout is saved in the index; a remux then removes its temporary file.
SaveIndex(w) ==
  LET out == job[w].out
  IN  /\ JobStep(w, "save", [job[w] EXCEPT !.pc = "done"])
      /\ index' = [index EXCEPT ![out.key] = out.gen]
      /\ tmps' = IF out.gen # 0 THEN [tmps EXCEPT ![out.key] = 0] ELSE tmps
      /\ UNCHANGED <<remux, spent>>

\* Any step of a build fails: the source cannot be read, ffmpeg fails or runs
\* out of time, the cache cannot be written.
BuildFails(w) ==
  /\ Spend("faults")
  /\ \E pc \in {"open", "ffmpeg", "rename", "stat", "save"} :
       /\ JobStep(w, pc, [job[w] EXCEPT !.pc = "failed", !.out = None])
       /\ tmps' = IF pc = "open" \/ (pc = "save" /\ job[w].out.gen = 0) THEN tmps
                  ELSE [tmps EXCEPT ![job[w].key] = 0]
  /\ UNCHANGED <<index, remux>>

\* Mutant: a finished build is published whatever the clip has become.
StillConfigured(w) == clips[job[w].path] # None

\* The clip was not removed or changed while it was built.
StillCurrent(w) ==
  /\ clips[job[w].path] # None
  /\ clips[job[w].path].key = job[w].key

\* Under the mutex: the result of the build is published.
FinishJob(w) ==
  LET p == job[w].path
  IN  /\ job[w].pc \in {"done", "failed"}
      /\ Free
      /\ dirty' = TRUE
      /\ job' = [job EXCEPT ![w] = IdleJob]
      /\ IF ~StillCurrent(w) THEN UNCHANGED <<clips, sink>>
         ELSE IF job[w].pc = "failed"
           THEN /\ clips' = [clips EXCEPT ![p].state = "error", ![p].err = "build",
                                          ![p].ready = None]
                /\ IF clips[p].ready # None THEN Withdraw(p) ELSE UNCHANGED sink
           ELSE /\ clips' = [clips EXCEPT ![p].state = "ready", ![p].err = "none",
                                          ![p].ready = job[w].out]
                /\ Publish(p, job[w].out, clips[p].meta)
      /\ UNCHANGED <<disk, file, queue, queued, started, mutex, loaded, hk, spent>>

-----------------------------------------------------------------------------
\* What status.json says of the clips.
StatusOf(st) ==
  [state |-> st.state, err |-> st.err,
   source |-> IF st.state = "ready" THEN st.ready.key.file ELSE None]

CurrentStatus == [p \in Paths |-> IF clips[p] = None THEN None ELSE StatusOf(clips[p])]

\* Mutant: what the file says of a removed clip is left there.
WrittenMerged == [p \in Paths |-> IF clips[p] = None THEN status[p] ELSE StatusOf(clips[p])]

Written == CurrentStatus

\* Mutant: once cleaned, the cache is not cleaned again.
CleanedForever == hk.cleaned

\* Nothing has changed since the cache was cleaned.
StillClean == hk.cleaned /\ ~dirty

\* The tick of every second: the status file is written when something changed,
\* and the cache is cleaned once when nothing is queued or being built.
StatusTick ==
  /\ HousekeeperWaits
  /\ Free
  /\ dirty \/ (Idle /\ ~hk.cleaned)
  /\ dirty' = FALSE
  /\ \/ /\ status' = IF dirty THEN Written ELSE status
        /\ UNCHANGED spent
     \/ dirty /\ Spend("faults") /\ UNCHANGED status  \* writeStatus fails: only logged
  /\ hk' = [hk EXCEPT !.cleaned = StillClean,
                      !.pc = IF Idle /\ ~StillClean THEN "keep" ELSE "wait"]
  /\ UNCHANGED <<media, clipsFile, index, remux, tmps, file, clips, queue, queued, started,
                 mutex, sink, loaded, job>>

CleanerStep(pc, new) ==
  /\ hk.pc = pc
  /\ hk' = new
  /\ UNCHANGED <<media, clipsFile, tmps, status, memory, loaded, job, spent>>

\* cleanCache notes the keys in use under the mutex, ...
CleanKeep ==
  /\ Free
  /\ LET used == {clips[p].key : p \in {q \in Paths : clips[q] # None}}
     IN  CleanerStep("keep", [hk EXCEPT !.pc = "index", !.keep = used])
  /\ UNCHANGED <<index, remux>>

Entries(dir) == IF dir = "index" THEN {k \in Key : index[k] # None}
                                 ELSE {k \in Key : remux[k] # 0}

\* ... then, without it, lists each directory and removes the other entries.
CleanList ==
  \E dir \in {"index", "remux"} :
    /\ hk.list = None
    /\ CleanerStep(dir, [hk EXCEPT !.list = Entries(dir) \ hk.keep])
    /\ UNCHANGED <<index, remux>>

CleanRemove ==
  \E dir \in {"index", "remux"} :
    /\ hk.list # None
    /\ \E k \in hk.list :
         /\ CleanerStep(dir, [hk EXCEPT !.list = @ \ {k}])
         /\ index' = IF dir = "index" THEN [index EXCEPT ![k] = None] ELSE index
         /\ remux' = IF dir = "remux" THEN [remux EXCEPT ![k] = 0] ELSE remux

CleanNext ==
  /\ hk.list = {}
  /\ \/ CleanerStep("index", [hk EXCEPT !.pc = "remux", !.list = None])
     \/ CleanerStep("remux", [IdleHk EXCEPT !.cleaned = TRUE])
  /\ UNCHANGED <<index, remux>>

-----------------------------------------------------------------------------
Environment == EditClips \/ (\E f \in Files : ChangeMedia(f)) \/ Crash

Rechecking == PeriodicRecheck \/ (\E a \in Openers : InvalidateRecheck(a))

Applying == (\E a \in Appliers : ApplyBegin(a)) \/ ApplyClip \/ ApplyEnd

Build(w) == OpenSource(w) \/ RunFFmpeg(w) \/ RenameTmp(w) \/ StatRemux(w) \/ SaveIndex(w)

BuildTroubled(w) == CutFails(w) \/ BuildFails(w)

Working(w) == TakeJob(w) \/ StartJob(w) \/ Build(w) \/ BuildTroubled(w) \/ FinishJob(w)

Housekeeping == StatusTick \/ CleanKeep \/ CleanList \/ CleanRemove \/ CleanNext

Next ==
  \/ Environment
  \/ LoadConfig \/ Rechecking \/ Applying \/ Start
  \/ \E w \in Workers : Working(w)
  \/ Housekeeping

Spec == Init /\ [][Next]_vars

\* Every goroutine keeps running and Go's mutex starves nobody, so a step that
\* needs it is taken if the mutex is free again and again; the periodic reload
\* is a ticker.  Steps of one goroutine that are never enabled together share a
\* conjunct.  Nothing is assumed of the environment or of rechecks.
Fairness ==
  /\ WF_vars(LoadConfig) /\ WF_vars(Start)
  /\ \A a \in Appliers : SF_vars(ApplyBegin(a))
  /\ WF_vars(ApplyClip \/ ApplyEnd)
  /\ \A w \in Workers : WF_vars(TakeJob(w) \/ Build(w)) /\ SF_vars(StartJob(w) \/ FinishJob(w))
  /\ SF_vars(StatusTick \/ CleanKeep)
  /\ WF_vars(CleanList \/ CleanRemove \/ CleanNext)

FairSpec == Spec /\ Fairness
=============================================================================
