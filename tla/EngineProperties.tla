-------------------------- MODULE EngineProperties --------------------------
(***************************************************************************)
(* What the engine promises: invariants, action properties and, under      *)
(* FairSpec, convergence.                                                   *)
(***************************************************************************)
EXTENDS Engine

\* Every variable has its type; bounds hold.
TypeOK ==
  /\ media \in [Files -> 0..MaxVersion]
  /\ clipsFile \in Config
  /\ index \in [Key -> {0, None} \cup Gens]
  /\ remux \in [Key -> {0} \cup Gens]
  /\ tmps \in [Key -> {0} \cup Gens]
  /\ status \in [Paths -> Status \cup {None}]
  /\ file \in Config \cup {None}
  /\ clips \in [Paths -> ClipState \cup {None}]
  /\ queue \in Seq(Paths)
  /\ queued \subseteq Paths
  /\ dirty \in BOOLEAN
  /\ started \in BOOLEAN
  /\ mutex \in [by : Appliers, todo : SUBSET Clip] \cup {None}
  /\ sink \in [Paths -> Entry \cup {None}]
  /\ loaded \in [Appliers -> Config \cup {None}]
  /\ job \in [Workers -> Job]
  /\ hk \in [pc : {"wait", "keep", "index", "remux"}, cleaned : BOOLEAN,
             keep : SUBSET (Key \cup {None}), list : (SUBSET Key) \cup {None}]
  /\ spent \in [Kinds -> Nat] /\ \A kind \in Kinds : spent[kind] <= Limit[kind]

-----------------------------------------------------------------------------
\* The filesystem serves exactly the layouts the engine holds as ready (engine.go:71,
\* "keeps the Sink in sync"): no clip is left behind when its state is replaced.
SinkInSync ==
  \A p \in Paths :
    LET ready == StateOf(p).ready
    IN  IF sink[p] = None THEN ready = None ELSE ready = sink[p].layout

\* A clip reported ready is served with the layout of its own key and its own NFO,
\* a failed one is not served, and while a clip is pending what is served still
\* is cut from the version of the source it is to be built from (engine.go:205).
ServedIsCurrent ==
  \A p \in Paths : clips[p] # None =>
    LET st == clips[p]
    IN  CASE st.state = "ready" -> /\ sink[p] # None
                                   /\ sink[p].layout.key = st.key
                                   /\ sink[p].nfo = st.meta
          [] st.state = "error" -> sink[p] = None
          [] st.state = "pending" ->
               /\ st.key # None
               /\ sink[p] # None => Origin(sink[p].layout.key) = Origin(st.key)

\* No two clips are served under paths that differ in case only (config.go:162),
\* whatever order clips come and go in.
NoCaseClash ==
  \A p, q \in Paths : sink[p] # None /\ sink[q] # None /\ Folded[p] = Folded[q] => p = q

\* A worker holds the path p without having started.
Taken(p) == \E w \in Workers : job[w].pc = "taken" /\ job[w].path = p

\* No build is lost: a pending clip is in the queue, or in the hands of a worker
\* that will find it pending or is building its key.
PendingHasJob ==
  \A p \in Paths : clips[p] # None /\ clips[p].state = "pending" =>
    \/ p \in queued
    \/ \E w \in Building : job[w].path = p /\ job[w].key = clips[p].key

\* queued is the paths in the channel and those received but not yet started, each
\* once: so the channel never holds more than the clips there are.
QueueInv ==
  /\ \A i, j \in 1..Len(queue) : queue[i] = queue[j] => i = j
  /\ \A p \in Paths : (p \in queued) = (Taken(p) \/ \E i \in 1..Len(queue) : queue[i] = p)
  /\ \A w \in Workers, i \in 1..Len(queue) : job[w].pc = "taken" => queue[i] # job[w].path
  /\ \A v, w \in Workers : job[v].pc = "taken" /\ job[w].pc = "taken" /\ job[v].path = job[w].path
                             => v = w

\* Apply sends to the channel while it holds the mutex (engine.go:263): with a
\* channel as large as there are paths, a path that is not queued always fits.
SendNeverBlocks == \A p \in Paths : p \in queued \/ Len(queue) < QueueCap

\* A clip disappears from the filesystem only when it is no longer wanted, fails,
\* loses its source or the process dies: the previous version is served until
\* the new one is built (engine.go:224), and a hot reload blanks nothing.
ServedUntilReplaced ==
  [][\A p \in Paths : sink[p] # None /\ sink'[p] = None =>
       \/ clips'[p] = None
       \/ clips'[p].state = "error"
       \/ Origin(clips'[p].key) # Origin(sink[p].layout.key)]_vars

-----------------------------------------------------------------------------
\* The engine and the filesystem implement the library a media server sees.
WantedKeys == [p \in Paths |-> StateOf(p).key]
ServedKeys == [p \in Paths |-> IF sink[p] = None THEN None ELSE sink[p].layout.key]

Lib == INSTANCE Library WITH
  Clips <- Key, Source <- Origin, wanted <- WantedKeys, served <- ServedKeys

\* Whatever is interleaved, a clip is put in service only under the key that is
\* wanted, and replaced, withdrawn and forgotten as Library says.
ImplementsLibrary == Lib!Spec

-----------------------------------------------------------------------------
\* What the file system and the clips file, as they are now, ask to be served at p.
Synced(p) ==
  LET want == {c \in Wanted(media, clipsFile.list) : c.path = p}
  IN  IF want = {} THEN sink[p] = None
      ELSE \E c \in want : \E f \in Resolved(media, c.input) :
             /\ sink[p] # None
             /\ sink[p].layout.key = [file |-> f, ver |-> media[f], cut |-> c.cut]
             /\ sink[p].nfo = c.meta
             /\ DataValid(sink[p].layout)

\* An Apply puts an older clips file back: a Recheck had read the engine's file
\* before the watcher applied the next one (NoStaleApply shows that it happens).
GoesBack == file # None /\ file' # None /\ file'.ver < file.ver

\* The proviso of what follows.  A Recheck that falls on both sides of every single
\* reload undoes it for ever, and no fairness of the scheduler's forbids that: so
\* let rechecks undo reloads as often as they like, but not for ever.
ReloadsPrevail == <>[][~GoesBack]_file

\* Once nothing changes any more, the filesystem ends up serving exactly the
\* valid clips of the clips file, each cut from the current version of its source,
\* with rechecks by the ticker and by Invalidate going on at any time.
Converges == ReloadsPrevail => <>[](\A p \in Paths : Synced(p))

\* The same, unless the workers are busy for ever: reloads that arrive between a
\* remux replacing the file and its layout being published queue the clip again.
ConvergesUnlessBusy == ReloadsPrevail /\ []<>Idle => <>[](\A p \in Paths : Synced(p))

\* Once nothing changes any more, status.json ends up describing the engine's
\* clips, whatever write of it failed or process died before (engine.go:307), with
\* both provisos: a build that is repeated for ever changes a clip's state for ever.
StatusConverges == ReloadsPrevail /\ []<>Idle => <>[](status = CurrentStatus)

\* Once nothing changes any more, the cache ends up with no index entry, no remuxed
\* file and no temporary one of a key that no clip uses (engine.go:487), so that
\* abandoned remuxes do not fill the disk; the cleaner waits for idle workers.
CacheConverges ==
  ReloadsPrevail /\ []<>Idle =>
    <>[](\A k \in Key : index[k] # None \/ remux[k] # 0 \/ tmps[k] # 0
                          => \E p \in Paths : StateOf(p).key = k)

-----------------------------------------------------------------------------
\* engine.go:323 "Recheck re-applies the current file": the file applied never
\* goes back to an older one.
NoStaleApply == [][file # None /\ file' # None => file'.ver >= file.ver]_file

\* engine.go:487 "deletes index entries and remuxed files no current clip uses".
CleanSparesUsed ==
  [][\A k \in Key : remux[k] # 0 /\ remux'[k] = 0 => \A p \in Paths : StateOf(p).key # k]_remux

\* README.md:147 "Invalid clips ... are skipped and reported in the log and the UI":
\* what is reported of a clip that has no key stays what Apply found wrong with
\* it, as only clips with a key are built.
InvalidStaysReported ==
  \A p \in Paths : clips[p] # None /\ clips[p].key = None => clips[p].err # "build"

\* A worker has ffmpeg write the temporary file, or is about to rename it.
Remuxing(w) == job[w].pc \in {"ffmpeg", "rename"}

\* README.md:34 "each clip is remuxed into the cache once": no two workers are
\* remuxing one clip, with the same cut of the same source, at the same time.
RemuxedOnce ==
  \A v, w \in Workers :
    Remuxing(v) /\ Remuxing(w) /\ job[v].path = job[w].path /\ job[v].key = job[w].key => v = w
=============================================================================
