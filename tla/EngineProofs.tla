---------------------------- MODULE EngineProofs ----------------------------
(***************************************************************************)
(* Proofs, for every value of the constants, of the engine's invariants:   *)
(* the types, what a worker holds, that what the filesystem serves is what *)
(* the engine holds, that no two clips clash, that the engine and the      *)
(* filesystem implement Library, that the queue channel never holds a path *)
(* twice and that no build of a pending clip is lost.                      *)
(***************************************************************************)
EXTENDS EngineProperties, SequenceTheorems, FiniteSetTheorems, TLAPS

\* What a worker holds at each point of a build.
JobInv ==
  \A w \in Workers :
    /\ job[w].pc # "idle" => job[w].path \in Paths
    /\ job[w].pc \in {"ffmpeg", "rename", "stat", "save", "done"} => job[w].key \in Key
    /\ job[w].pc \in {"save", "done"} => job[w].out \in Layout /\ job[w].out.key = job[w].key

\* A clip's state says what its key and its layout are.
ClipInv ==
  \A p \in Paths : clips[p] # None =>
    LET st == clips[p]
    IN  /\ st.state = "ready" => st.ready # None /\ st.key # None /\ st.ready.key = st.key
        /\ st.state = "error" => st.ready = None
        /\ st.state = "pending" => /\ st.key # None
                                   /\ st.ready # None => Origin(st.ready.key) = Origin(st.key)

BaseInv == TypeOK /\ JobInv /\ ClipInv

-----------------------------------------------------------------------------
\* The file an input resolves to exists, so the clip has a key.
LEMMA ResolvedKey ==
  ASSUME media \in [Files -> 0..MaxVersion], NEW c \in Clip, NEW f \in Resolved(media, c.input)
  PROVE  f \in Files /\ ClipKey(c, f) \in Key
BY ConfigAssumption DEF ConfigAssumption, Resolved, ClipKey, Key, Clip, Versions

\* Only clips of the list are wanted.
LEMMA WantedClips ==
  ASSUME NEW m, NEW list \in Contents
  PROVE  Wanted(m, list) \subseteq Clip
BY EngineAssumption DEF EngineAssumption, Wanted

\* What the environment has used stays within its bounds.
LEMMA SpendType ==
  ASSUME TypeOK, NEW kind \in Kinds, Spend(kind)
  PROVE  spent' \in [Kinds -> Nat] /\ \A k \in Kinds : spent'[k] <= Limit[k]
<1>1. Limit[kind] \in Nat
  BY EngineAssumption DEF EngineAssumption, Limit, Kinds
<1> QED BY <1>1 DEF TypeOK, Spend

\* The initial states of a worker and of the housekeeper have their types.
LEMMA IdleTypes ==
  /\ IdleJob \in Job
  /\ IdleHk \in [pc : {"wait", "keep", "index", "remux"}, cleaned : BOOLEAN,
                 keep : SUBSET (Key \cup {None}), list : (SUBSET Key) \cup {None}]
BY DEF Job, IdleJob, IdleHk

\* The invariant holds initially.
LEMMA BaseInit == Init => BaseInv
<1> SUFFICES ASSUME Init PROVE BaseInv OBVIOUS
<1>1. spent \in [Kinds -> Nat] /\ \A kind \in Kinds : spent[kind] <= Limit[kind]
  BY EngineAssumption DEF EngineAssumption, Init, Limit, Kinds
<1>2. media \in [Files -> 0..MaxVersion]
  BY ConfigAssumption DEF ConfigAssumption, Init
<1>3. clipsFile \in Config /\ queue \in Seq(Paths)
  BY DEF Init, Config
<1>4. TypeOK
  BY <1>1, <1>2, <1>3, IdleTypes DEF Init, TypeOK
<1>5. JobInv /\ ClipInv
  BY DEF Init, JobInv, ClipInv, IdleJob
<1> QED BY <1>4, <1>5 DEF BaseInv

\* Edits, media changes and crashes keep it; a crash forgets everything it is about.
LEMMA BaseEnvironment ==
  ASSUME BaseInv, Environment PROVE BaseInv'
<1>1. CASE EditClips
  <2>1. TypeOK'
    BY <1>1, SpendType DEF EditClips, BaseInv, TypeOK, Config, Kinds, disk, memory
  <2>2. JobInv' /\ ClipInv'
    BY <1>1 DEF EditClips, BaseInv, JobInv, ClipInv, memory
  <2> QED BY <2>1, <2>2 DEF BaseInv
<1>2. ASSUME NEW f \in Files, ChangeMedia(f) PROVE BaseInv'
  <2>1. TypeOK'
    BY <1>2, SpendType DEF ChangeMedia, BaseInv, TypeOK, Kinds, disk, memory
  <2>2. JobInv' /\ ClipInv'
    BY <1>2 DEF ChangeMedia, BaseInv, JobInv, ClipInv, memory
  <2> QED BY <2>1, <2>2 DEF BaseInv
<1>3. CASE Crash
  <2>1. spent' \in [Kinds -> Nat] /\ \A k \in Kinds : spent'[k] <= Limit[k]
    BY <1>3, SpendType DEF Crash, BaseInv, Kinds
  <2>2. TypeOK'
    <3>1. /\ queue' \in Seq(Paths)
          /\ clips' \in [Paths -> ClipState \cup {None}]
          /\ sink' \in [Paths -> Entry \cup {None}]
          /\ loaded' \in [Appliers -> Config \cup {None}]
          /\ job' \in [Workers -> Job]
      BY <1>3, IdleTypes DEF Crash
    <3>2. /\ queued' = {} /\ dirty' = FALSE /\ started' = FALSE
          /\ mutex' = None /\ file' = None /\ hk' = IdleHk
      BY <1>3 DEF Crash
    <3>3. UNCHANGED disk
      BY <1>3 DEF Crash
    <3> QED BY <2>1, <3>1, <3>2, <3>3, IdleTypes DEF BaseInv, TypeOK, disk
  <2>3. JobInv' /\ ClipInv'
    BY <1>3 DEF Crash, JobInv, ClipInv, IdleJob
  <2> QED BY <2>2, <2>3 DEF BaseInv
<1> QED BY <1>1, <1>2, <1>3 DEF Environment

\* Loading a configuration keeps it.
LEMMA BaseRecheck ==
  ASSUME BaseInv, LoadConfig \/ Rechecking PROVE BaseInv'
<1>1. PICK a : loaded' = [loaded EXCEPT ![a] = clipsFile] \/ loaded' = [loaded EXCEPT ![a] = file]
  BY DEF LoadConfig, Rechecking, PeriodicRecheck, InvalidateRecheck
<1>2. loaded' \in [Appliers -> Config \cup {None}]
  BY <1>1 DEF BaseInv, TypeOK
<1>3. UNCHANGED <<disk, memory, job, hk, spent>>
  BY DEF LoadConfig, Rechecking, PeriodicRecheck, InvalidateRecheck
<1>4. TypeOK'
  BY <1>2, <1>3 DEF BaseInv, TypeOK, disk, memory
<1> QED BY <1>3, <1>4 DEF BaseInv, JobInv, ClipInv, memory

\* Replacing the current file keeps it: a clip left over has no layout.
LEMMA BaseApplyBegin ==
  ASSUME BaseInv, NEW a \in Appliers, ApplyBegin(a) PROVE BaseInv'
<1> DEFINE want == Wanted(media, loaded[a].list)
<1>1. loaded[a] \in Config
  BY DEF BaseInv, TypeOK, ApplyBegin
<1>2. want \subseteq Clip
  BY <1>1, WantedClips DEF Config
<1>3. mutex' = [by |-> a, todo |-> want]
  BY DEF ApplyBegin
<1>4. InvalidClip \in ClipState
  BY DEF InvalidClip, ClipState
<1>5. clips' \in [Paths -> ClipState \cup {None}]
  BY <1>4 DEF BaseInv, TypeOK, ApplyBegin
<1>6. sink' \in [Paths -> Entry \cup {None}]
  BY DEF BaseInv, TypeOK, ApplyBegin, Forget
<1>7. loaded' \in [Appliers -> Config \cup {None}] /\ file' \in Config
  BY <1>1 DEF BaseInv, TypeOK, ApplyBegin
<1>8. UNCHANGED <<disk, queue, queued, dirty, started, job, hk, spent>>
  BY DEF ApplyBegin
<1>9. TypeOK'
  BY <1>2, <1>3, <1>5, <1>6, <1>7, <1>8 DEF BaseInv, TypeOK, disk
<1>10. JobInv'
  BY <1>8 DEF BaseInv, JobInv
<1>11. ClipInv'
  BY DEF ApplyBegin, BaseInv, ClipInv, InvalidClip
<1> QED BY <1>9, <1>10, <1>11 DEF BaseInv

\* What every case of applyClip needs.
LEMMA BaseApplied ==
  ASSUME BaseInv, NEW c \in Clip, NEW st \in ClipState, Applied(c, st), mutex # None,
         sink' \in [Paths -> Entry \cup {None}],
         queue' \in Seq(Paths), queued' \subseteq Paths,
         st.state = "ready" => st.ready # None /\ st.key # None /\ st.ready.key = st.key,
         st.state = "error" => st.ready = None,
         st.state = "pending" => /\ st.key # None
                                 /\ st.ready # None => Origin(st.ready.key) = Origin(st.key)
  PROVE  BaseInv'
<1>1. c.path \in Paths
  BY DEF Clip
<1>2. clips' \in [Paths -> ClipState \cup {None}]
  BY <1>1 DEF Applied, BaseInv, TypeOK
<1>3. mutex' \in [by : Appliers, todo : SUBSET Clip]
  BY DEF Applied, BaseInv, TypeOK
<1>4. UNCHANGED <<disk, file, dirty, started, loaded, job, hk, spent>>
  BY DEF Applied
<1>5. TypeOK'
  BY <1>2, <1>3, <1>4 DEF BaseInv, TypeOK, disk
<1>6. JobInv'
  BY <1>4 DEF BaseInv, JobInv
<1>7. ClipInv'
  BY <1>1 DEF Applied, BaseInv, TypeOK, ClipInv
<1> QED BY <1>5, <1>6, <1>7 DEF BaseInv

\* The state applyClip starts from.
LEMMA StateOfType ==
  ASSUME TypeOK, NEW p \in Paths
  PROVE  /\ clips[p] = None => StateOf(p) = NoClip
         /\ clips[p] # None => StateOf(p) = clips[p] /\ StateOf(p) \in ClipState
         /\ StateOf(p).ready \in Layout \cup {None}
         /\ StateOf(p).key \in Key \cup {None}
         /\ StateOf(p).meta \in Metas \cup {None}
<1>1. CASE clips[p] = None
  BY <1>1 DEF StateOf, NoClip
<1>2. CASE clips[p] # None
  <2>1. clips[p] \in ClipState
    BY <1>2 DEF TypeOK
  <2> QED BY <1>2, <2>1 DEF StateOf, ClipState
<1> QED BY <1>1, <1>2

\* What is published has the type of an entry.
LEMMA PublishType ==
  ASSUME TypeOK, NEW p \in Paths, NEW l \in Layout, NEW meta \in Metas \cup {None},
         Publish(p, l, meta)
  PROVE  sink' \in [Paths -> Entry \cup {None}]
BY DEF TypeOK, Publish, Entry

\* Withdrawing a clip keeps the type of the filesystem's entries.
LEMMA WithdrawType ==
  ASSUME TypeOK, NEW p \in Paths, Withdraw(p) \/ UNCHANGED sink
  PROVE  sink' \in [Paths -> Entry \cup {None}]
BY DEF TypeOK, Withdraw

\* Queueing a path keeps the types of the channel and of queued.
LEMMA EnqueueType ==
  ASSUME TypeOK, NEW p \in Paths, Enqueue(p)
  PROVE  queue' \in Seq(Paths) /\ queued' \subseteq Paths
<1>1. queue \in Seq(Paths) /\ queued \subseteq Paths
  BY DEF TypeOK
<1>2. Append(queue, p) \in Seq(Paths)
  BY <1>1, AppendProperties
<1> QED BY <1>1, <1>2 DEF Enqueue

\* Each of applyClip's outcomes keeps it.
LEMMA BaseApplyClip ==
  ASSUME BaseInv, ApplyClip PROVE BaseInv'
<1>1. PICK c \in mutex.todo : ApplyMissing(c) \/ ApplyKept(c) \/ ApplyIndexed(c) \/ ApplyQueued(c)
  BY DEF ApplyClip
<1>2. mutex # None /\ c \in Clip /\ c.path \in Paths /\ c.meta \in Metas \cup {None}
  BY DEF ApplyClip, BaseInv, TypeOK, Clip
<1>3. TypeOK
  BY DEF BaseInv
<1> DEFINE st == StateOf(c.path)
<1>4. /\ st.ready \in Layout \cup {None}
      /\ clips[c.path] = None => st = NoClip
      /\ clips[c.path] # None => st = clips[c.path] /\ st \in ClipState
  BY <1>2, <1>3, StateOfType
<1>5. CASE ApplyMissing(c)
  <2> DEFINE new == [meta |-> c.meta, key |-> None, state |-> "error", err |-> "input",
                     ready |-> None]
  <2>1. new \in ClipState /\ new.state = "error" /\ new.ready = None
    BY <1>2 DEF ClipState
  <2>2. Applied(c, new) /\ UNCHANGED <<queue, queued>>
    BY <1>5 DEF ApplyMissing
  <2>3. sink' \in [Paths -> Entry \cup {None}]
    BY <1>2, <1>3, <1>5, WithdrawType DEF ApplyMissing
  <2>4. queue' \in Seq(Paths) /\ queued' \subseteq Paths
    BY <1>3, <2>2 DEF TypeOK
  <2> QED BY <1>2, <2>1, <2>2, <2>3, <2>4, BaseApplied
<1>6. CASE ApplyKept(c)
  <2>1. PICK f \in Resolved(media, c.input) :
          /\ Keeps(st, ClipKey(c, f))
          /\ Applied(c, [st EXCEPT !.meta = c.meta])
          /\ UNCHANGED <<queue, queued>>
          /\ (Publish(c.path, st.ready, c.meta) /\ st.ready # None) \/ UNCHANGED sink
    BY <1>6 DEF ApplyKept
  <2>2. ClipKey(c, f) \in Key
    BY <1>2, <1>3, ResolvedKey DEF TypeOK
  <2>3. clips[c.path] # None
    BY <1>2, <1>4, <2>1, <2>2, NoneAssumption DEF Keeps, NoClip, NoneAssumption
  <2>4. st \in ClipState
    BY <1>4, <2>3
  <2> DEFINE new == [st EXCEPT !.meta = c.meta]
  <2>5. /\ new \in ClipState
        /\ new.state = st.state /\ new.ready = st.ready /\ new.key = st.key
    BY <1>2, <2>4 DEF ClipState
  <2>6. sink' \in [Paths -> Entry \cup {None}]
    BY <1>2, <1>3, <1>4, <2>1, WithdrawType, PublishType
  <2>7. queue' \in Seq(Paths) /\ queued' \subseteq Paths
    BY <1>3, <2>1 DEF TypeOK
  <2>8. /\ new.state = "ready" => new.ready # None /\ new.key # None /\ new.ready.key = new.key
        /\ new.state = "error" => new.ready = None
        /\ new.state = "pending" => /\ new.key # None
                                    /\ new.ready # None => Origin(new.ready.key) = Origin(new.key)
    BY <1>2, <1>4, <2>3, <2>5 DEF BaseInv, ClipInv
  <2> QED BY <1>2, <2>1, <2>5, <2>6, <2>7, <2>8, BaseApplied
<1>7. CASE ApplyIndexed(c)
  <2>1. PICK f \in Resolved(media, c.input) :
          LET key == ClipKey(c, f)
              l == [key |-> key, gen |-> index[key]]
          IN  /\ Indexed(key)
              /\ Publish(c.path, l, c.meta)
              /\ Applied(c, [meta |-> c.meta, key |-> key, state |-> "ready", err |-> "none",
                             ready |-> l])
              /\ UNCHANGED <<queue, queued>>
    BY <1>7 DEF ApplyIndexed
  <2> DEFINE key == ClipKey(c, f)
             l == [key |-> key, gen |-> index[key]]
             new == [meta |-> c.meta, key |-> key, state |-> "ready", err |-> "none", ready |-> l]
  <2>2. key \in Key
    BY <1>2, <1>3, ResolvedKey DEF TypeOK
  <2>3. index[key] \in {0} \cup Gens
    BY <1>3, <2>1, <2>2 DEF TypeOK, Indexed
  <2>4. l \in Layout
    BY <2>2, <2>3 DEF Layout
  <2>5. /\ new \in ClipState /\ new.state = "ready" /\ new.ready = l /\ new.key = key
        /\ l.key = key /\ l # None /\ key # None
    BY <1>2, <2>2, <2>4, NoneAssumption DEF ClipState, NoneAssumption
  <2>6. sink' \in [Paths -> Entry \cup {None}]
    BY <1>2, <1>3, <2>1, <2>4, PublishType
  <2>7. queue' \in Seq(Paths) /\ queued' \subseteq Paths
    BY <1>3, <2>1 DEF TypeOK
  <2>8. Applied(c, new)
    BY <2>1
  <2> QED
    <3> HIDE DEF new, l, key
    <3> QED BY <1>2, <2>5, <2>6, <2>7, <2>8, BaseApplied
<1>8. CASE ApplyQueued(c)
  <2>1. PICK f \in Resolved(media, c.input) :
          /\ Withdraw(c.path) \/ UNCHANGED sink
          /\ Applied(c, [meta |-> c.meta, key |-> ClipKey(c, f), state |-> "pending",
                         err |-> "none", ready |-> Kept(st, ClipKey(c, f))])
          /\ Enqueue(c.path)
    BY <1>8 DEF ApplyQueued
  <2> DEFINE key == ClipKey(c, f)
             new == [meta |-> c.meta, key |-> key, state |-> "pending", err |-> "none",
                     ready |-> Kept(st, key)]
  <2>2. key \in Key /\ key # None
    BY <1>2, <1>3, ResolvedKey, NoneAssumption DEF TypeOK, NoneAssumption
  <2>3. /\ Kept(st, key) \in Layout \cup {None}
        /\ Kept(st, key) # None => Origin(Kept(st, key).key) = Origin(key)
    BY <1>4 DEF Kept
  <2>4. /\ new \in ClipState /\ new.state = "pending" /\ new.key # None
        /\ new.ready # None => Origin(new.ready.key) = Origin(new.key)
    <3> HIDE DEF key
    <3> QED BY <1>2, <2>2, <2>3 DEF ClipState
  <2>5. sink' \in [Paths -> Entry \cup {None}]
    BY <1>2, <1>3, <2>1, WithdrawType
  <2>6. queue' \in Seq(Paths) /\ queued' \subseteq Paths
    BY <1>2, <1>3, <2>1, EnqueueType
  <2>7. Applied(c, new)
    BY <2>1
  <2> QED
    <3> HIDE DEF new
    <3> QED BY <1>2, <2>4, <2>5, <2>6, <2>7, BaseApplied
<1> QED BY <1>1, <1>5, <1>6, <1>7, <1>8

\* The end of Apply, and Start, change nothing it is about.
LEMMA BaseApplyEnd ==
  ASSUME BaseInv, ApplyEnd \/ Start PROVE BaseInv'
<1>1. CASE ApplyEnd
  BY <1>1 DEF ApplyEnd, BaseInv, TypeOK, JobInv, ClipInv, disk
<1>2. CASE Start
  BY <1>2 DEF Start, BaseInv, TypeOK, JobInv, ClipInv
<1> QED BY <1>1, <1>2

-----------------------------------------------------------------------------
\* A worker takes a path from the channel, which holds nothing else.
LEMMA BaseTake ==
  ASSUME BaseInv, NEW w \in Workers, TakeJob(w) PROVE BaseInv'
<1>1. queue \in Seq(Paths) /\ queue # <<>>
  BY DEF BaseInv, TypeOK, TakeJob
<1>2. Tail(queue) \in Seq(Paths) /\ Head(queue) \in Paths
  BY <1>1, HeadTailProperties
<1> DEFINE new == [IdleJob EXCEPT !.pc = "taken", !.path = Head(queue)]
<1>3. new \in Job /\ new.pc = "taken" /\ new.path \in Paths
  BY <1>2 DEF Job, IdleJob
<1>4. job' = [job EXCEPT ![w] = new] /\ queue' = Tail(queue)
  BY DEF TakeJob
<1>5. UNCHANGED <<disk, file, clips, queued, dirty, started, mutex, sink, loaded, hk, spent>>
  BY DEF TakeJob
<1> HIDE DEF new
<1>6. job' \in [Workers -> Job]
  BY <1>3, <1>4 DEF BaseInv, TypeOK
<1>7. TypeOK'
  BY <1>2, <1>4, <1>5, <1>6 DEF BaseInv, TypeOK, disk
<1>8. JobInv'
  BY <1>3, <1>4 DEF BaseInv, TypeOK, JobInv
<1>9. ClipInv'
  BY <1>5 DEF BaseInv, ClipInv
<1> QED BY <1>7, <1>8, <1>9 DEF BaseInv

\* The key a worker copies is the clip's.
LEMMA BaseStartJob ==
  ASSUME BaseInv, NEW w \in Workers, StartJob(w) PROVE BaseInv'
<1> DEFINE p == job[w].path
           new == IF clips[p] = None THEN IdleJob
                  ELSE [job[w] EXCEPT !.pc = "open", !.key = clips[p].key]
<1>1. p \in Paths /\ job[w] \in Job
  BY DEF BaseInv, TypeOK, JobInv, StartJob
<1>2. clips[p] # None => clips[p].key \in Key \cup {None}
  BY <1>1 DEF BaseInv, TypeOK, ClipState
<1>3. new \in Job /\ new.pc \in {"idle", "open"} /\ (new.pc # "idle" => new.path \in Paths)
  BY <1>1, <1>2, IdleTypes DEF Job, IdleJob
<1>4. job' = [job EXCEPT ![w] = new] /\ queued' = queued \ {p}
  BY DEF StartJob
<1>5. UNCHANGED <<disk, file, clips, queue, dirty, started, mutex, sink, loaded, hk, spent>>
  BY DEF StartJob
<1> HIDE DEF new, p
<1>6. job' \in [Workers -> Job]
  BY <1>3, <1>4 DEF BaseInv, TypeOK
<1>7. TypeOK'
  BY <1>4, <1>5, <1>6 DEF BaseInv, TypeOK, disk
<1>8. JobInv'
  BY <1>3, <1>4 DEF BaseInv, TypeOK, JobInv
<1>9. ClipInv'
  BY <1>5 DEF BaseInv, ClipInv
<1> QED BY <1>7, <1>8, <1>9 DEF BaseInv

\* What every step of a build needs.
LEMMA BaseJobStep ==
  ASSUME BaseInv, NEW w \in Workers, NEW from, NEW new \in Job, JobStep(w, from, new),
         new.pc # "idle", new.path = job[w].path, from # "idle",
         new.pc \in {"ffmpeg", "rename", "stat", "save", "done"} => new.key \in Key,
         new.pc \in {"save", "done"} => new.out \in Layout /\ new.out.key = new.key,
         index' \in [Key -> {0, None} \cup Gens],
         remux' \in [Key -> {0} \cup Gens],
         tmps' \in [Key -> {0} \cup Gens],
         spent' \in [Kinds -> Nat] /\ \A kind \in Kinds : spent'[kind] <= Limit[kind]
  PROVE  BaseInv'
<1>1. job' = [job EXCEPT ![w] = new] /\ job[w].pc # "idle"
  BY DEF JobStep
<1>2. UNCHANGED <<media, clipsFile, status, memory, loaded, hk>>
  BY DEF JobStep
<1>3. job' \in [Workers -> Job]
  BY <1>1 DEF BaseInv, TypeOK
<1>4. TypeOK'
  BY <1>2, <1>3 DEF BaseInv, TypeOK, memory
<1>5. JobInv'
  BY <1>1 DEF BaseInv, TypeOK, JobInv
<1>6. ClipInv'
  BY <1>2 DEF BaseInv, ClipInv, memory
<1> QED BY <1>4, <1>5, <1>6 DEF BaseInv

\* Each step of a build keeps what the worker holds in line with its progress.
LEMMA BaseBuild ==
  ASSUME BaseInv, NEW w \in Workers, Build(w) \/ BuildTroubled(w) PROVE BaseInv'
<1> DEFINE key == job[w].key
<1>1. /\ job[w] \in Job
      /\ index \in [Key -> {0, None} \cup Gens]
      /\ remux \in [Key -> {0} \cup Gens]
      /\ tmps \in [Key -> {0} \cup Gens]
      /\ spent \in [Kinds -> Nat] /\ \A kind \in Kinds : spent[kind] <= Limit[kind]
  BY DEF BaseInv, TypeOK
<1>2. /\ job[w].pc \in {"ffmpeg", "rename", "stat", "save", "done"} => job[w].key \in Key
      /\ job[w].pc \in {"save", "done"} => job[w].out \in Layout /\ job[w].out.key = job[w].key
  BY DEF BaseInv, JobInv
<1>3. CASE OpenSource(w)
  <2> DEFINE new == IF ~SourceIsKey(key) THEN [job[w] EXCEPT !.pc = "failed"]
                    ELSE IF <<key.file, key.cut>> \in Clippable
                      THEN [job[w] EXCEPT !.pc = "save", !.out = [key |-> key, gen |-> 0]]
                      ELSE [job[w] EXCEPT !.pc = "ffmpeg"]
  <2>1. JobStep(w, "open", new) /\ UNCHANGED <<index, remux, tmps, spent>>
    BY <1>3 DEF OpenSource
  <2>2. CASE ~SourceIsKey(key)
    <3>1. new = [job[w] EXCEPT !.pc = "failed"]
      BY <2>2
    <3>2. new \in Job /\ new.pc = "failed" /\ new.path = job[w].path
      BY <1>1, <3>1 DEF Job
    <3> QED BY <1>1, <2>1, <3>2, BaseJobStep
  <2>3. CASE SourceIsKey(key) /\ <<key.file, key.cut>> \in Clippable
    <3>1. key \in Key
      BY <1>1, <2>3 DEF SourceIsKey, Job
    <3>2. new = [job[w] EXCEPT !.pc = "save", !.out = [key |-> key, gen |-> 0]]
      BY <2>3
    <3>3. [key |-> key, gen |-> 0] \in Layout
      BY <3>1 DEF Layout
    <3>4. /\ new \in Job /\ new.pc = "save" /\ new.path = job[w].path /\ new.key = key
          /\ new.out \in Layout /\ new.out.key = key
      BY <1>1, <3>2, <3>3 DEF Job
    <3> HIDE DEF new
    <3> QED BY <1>1, <2>1, <3>1, <3>3, <3>4, BaseJobStep
  <2>4. CASE SourceIsKey(key) /\ <<key.file, key.cut>> \notin Clippable
    <3>1. key \in Key
      BY <1>1, <2>4 DEF SourceIsKey, Job
    <3>2. new = [job[w] EXCEPT !.pc = "ffmpeg"]
      BY <2>4
    <3>3. new \in Job /\ new.pc = "ffmpeg" /\ new.path = job[w].path /\ new.key = key
      BY <1>1, <3>2 DEF Job
    <3> QED BY <1>1, <2>1, <3>1, <3>3, BaseJobStep
  <2> QED BY <2>2, <2>3, <2>4
<1>4. CASE RunFFmpeg(w)
  <2>1. PICK pc \in {"failed", "rename"}, g \in {0} \cup Gens :
          /\ JobStep(w, "ffmpeg", [job[w] EXCEPT !.pc = pc])
          /\ tmps' = [tmps EXCEPT ![key] = g]
          /\ UNCHANGED <<index, remux, spent>>
    BY <1>4 DEF RunFFmpeg
  <2> DEFINE new == [job[w] EXCEPT !.pc = pc]
  <2>2. key \in Key
    BY <1>2, <2>1 DEF JobStep
  <2>3. new \in Job /\ new.pc = pc /\ new.path = job[w].path /\ new.key = key
    BY <1>1 DEF Job
  <2>4. tmps' \in [Key -> {0} \cup Gens]
    BY <1>1, <2>1
  <2> QED
    <3> HIDE DEF new
    <3> QED BY <1>1, <2>1, <2>2, <2>3, <2>4, BaseJobStep DEF new
<1>5. CASE RenameTmp(w)
  <2>1. PICK pc \in {"failed", "stat"} :
          /\ JobStep(w, "rename", [job[w] EXCEPT !.pc = pc])
          /\ tmps' = [tmps EXCEPT ![key] = 0]
          /\ remux' = [remux EXCEPT ![key] = tmps[key]] \/ remux' = remux
          /\ UNCHANGED <<index, spent>>
    BY <1>5 DEF RenameTmp
  <2> DEFINE new == [job[w] EXCEPT !.pc = pc]
  <2>2. key \in Key
    BY <1>2, <2>1 DEF JobStep
  <2>3. new \in Job /\ new.pc = pc /\ new.path = job[w].path /\ new.key = key
    BY <1>1 DEF Job
  <2>4. tmps' \in [Key -> {0} \cup Gens] /\ remux' \in [Key -> {0} \cup Gens]
    BY <1>1, <2>1, <2>2
  <2> QED
    <3> HIDE DEF new
    <3> QED BY <1>1, <2>1, <2>2, <2>3, <2>4, BaseJobStep DEF new
<1>6. CASE StatRemux(w)
  <2>1. key \in Key
    BY <1>2, <1>6 DEF StatRemux, JobStep
  <2>2. tmps' \in [Key -> {0} \cup Gens] /\ UNCHANGED <<index, remux, spent>>
    BY <1>1, <1>6 DEF StatRemux
  <2>3. CASE remux[key] = 0
    <3> DEFINE new == [job[w] EXCEPT !.pc = "failed"]
    <3>1. JobStep(w, "stat", new)
      BY <1>6, <2>3 DEF StatRemux
    <3>2. new \in Job /\ new.pc = "failed" /\ new.path = job[w].path
      BY <1>1 DEF Job
    <3> HIDE DEF new
    <3> QED BY <1>1, <2>2, <3>1, <3>2, BaseJobStep
  <2>4. CASE remux[key] # 0
    <3> DEFINE new == [job[w] EXCEPT !.pc = "save", !.out = [key |-> key, gen |-> remux[key]]]
    <3>1. JobStep(w, "stat", new)
      BY <1>6, <2>4 DEF StatRemux
    <3>2. [key |-> key, gen |-> remux[key]] \in Layout
      BY <1>1, <2>1 DEF Layout
    <3>3. /\ new \in Job /\ new.pc = "save" /\ new.path = job[w].path /\ new.key = key
          /\ new.out \in Layout /\ new.out.key = key
      BY <1>1, <3>2 DEF Job
    <3> HIDE DEF new
    <3> QED BY <1>1, <2>1, <2>2, <3>1, <3>3, BaseJobStep
  <2> QED BY <2>3, <2>4
<1>7. CASE SaveIndex(w)
  <2> DEFINE new == [job[w] EXCEPT !.pc = "done"]
  <2>1. JobStep(w, "save", new) /\ UNCHANGED <<remux, spent>>
    BY <1>7 DEF SaveIndex
  <2>2. job[w].out \in Layout /\ job[w].out.key = key /\ key \in Key
    BY <1>2, <2>1 DEF JobStep
  <2>3. index' \in [Key -> {0, None} \cup Gens] /\ tmps' \in [Key -> {0} \cup Gens]
    BY <1>1, <1>7, <2>2 DEF SaveIndex, Layout
  <2>4. /\ new \in Job /\ new.pc = "done" /\ new.path = job[w].path /\ new.key = key
        /\ new.out = job[w].out
    BY <1>1 DEF Job
  <2> HIDE DEF new
  <2> QED BY <1>1, <2>1, <2>2, <2>3, <2>4, BaseJobStep
<1>8. CASE BuildFails(w)
  <2> DEFINE new == [job[w] EXCEPT !.pc = "failed", !.out = None]
  <2>1. PICK pc \in {"open", "ffmpeg", "rename", "stat", "save"} : JobStep(w, pc, new)
    BY <1>8 DEF BuildFails
  <2>2. new \in Job /\ new.pc = "failed" /\ new.path = job[w].path
    BY <1>1 DEF Job
  <2>3. tmps' \in [Key -> {0} \cup Gens] /\ UNCHANGED <<index, remux>>
    BY <1>1, <1>8 DEF BuildFails
  <2>4. spent' \in [Kinds -> Nat] /\ \A kind \in Kinds : spent'[kind] <= Limit[kind]
    BY <1>8, SpendType DEF BuildFails, BaseInv, Kinds
  <2> HIDE DEF new
  <2> QED BY <1>1, <2>1, <2>2, <2>3, <2>4, BaseJobStep
<1>9. CASE CutFails(w)
  <2> DEFINE new == [job[w] EXCEPT !.pc = "ffmpeg"]
  <2>1. JobStep(w, "open", new) /\ UNCHANGED <<index, remux, tmps>>
    BY <1>9 DEF CutFails
  <2>2. key \in Key
    BY <1>1, <1>9 DEF CutFails, SourceIsKey, Job
  <2>3. new \in Job /\ new.pc = "ffmpeg" /\ new.path = job[w].path /\ new.key = key
    BY <1>1 DEF Job
  <2>4. spent' \in [Kinds -> Nat] /\ \A kind \in Kinds : spent'[kind] <= Limit[kind]
    BY <1>9, SpendType DEF CutFails, BaseInv, Kinds
  <2> HIDE DEF new
  <2> QED BY <1>1, <2>1, <2>2, <2>3, <2>4, BaseJobStep
<1> QED BY <1>3, <1>4, <1>5, <1>6, <1>7, <1>8, <1>9 DEF Build, BuildTroubled

\* Publishing the result of a build keeps it: the layout has the clip's key.
LEMMA BaseFinishJob ==
  ASSUME BaseInv, NEW w \in Workers, FinishJob(w) PROVE BaseInv'
<1> DEFINE p == job[w].path
<1>1. /\ p \in Paths
      /\ job' = [job EXCEPT ![w] = IdleJob] /\ dirty' = TRUE
      /\ UNCHANGED <<disk, file, queue, queued, started, mutex, loaded, hk, spent>>
  BY DEF FinishJob, BaseInv, JobInv
<1>2. job' \in [Workers -> Job]
  BY <1>1, IdleTypes DEF BaseInv, TypeOK
<1>3. JobInv'
  BY <1>1 DEF BaseInv, TypeOK, JobInv, IdleJob
<1>4. clips' \in [Paths -> ClipState \cup {None}] /\ sink' \in [Paths -> Entry \cup {None}]
         /\ ClipInv'
  <2>1. CASE ~StillCurrent(w)
    BY <2>1 DEF FinishJob, BaseInv, TypeOK, ClipInv
  <2>2. CASE StillCurrent(w) /\ job[w].pc = "failed"
    <3> DEFINE new == [clips[p] EXCEPT !.state = "error", !.err = "build", !.ready = None]
    <3>1. clips' = [clips EXCEPT ![p] = new] /\ (Withdraw(p) \/ UNCHANGED sink)
      BY <2>2 DEF FinishJob
    <3>2. clips[p] \in ClipState
      BY <1>1, <2>2 DEF StillCurrent, BaseInv, TypeOK
    <3>3. new \in ClipState /\ new.state = "error" /\ new.ready = None
      BY <3>2 DEF ClipState
    <3> HIDE DEF new, p
    <3> QED BY <1>1, <3>1, <3>3, WithdrawType DEF BaseInv, TypeOK, ClipInv
  <2>3. CASE StillCurrent(w) /\ job[w].pc = "done"
    <3> DEFINE new == [clips[p] EXCEPT !.state = "ready", !.err = "none", !.ready = job[w].out]
    <3>1. clips' = [clips EXCEPT ![p] = new] /\ Publish(p, job[w].out, clips[p].meta)
      BY <2>3 DEF FinishJob
    <3>2. clips[p] \in ClipState /\ clips[p].key = job[w].key
      BY <1>1, <2>3 DEF StillCurrent, BaseInv, TypeOK
    <3>3. job[w].out \in Layout /\ job[w].out.key = job[w].key /\ job[w].key \in Key
      BY <2>3 DEF BaseInv, JobInv
    <3>4. job[w].out # None /\ job[w].key # None
      BY <3>3, NoneAssumption DEF NoneAssumption
    <3>5. /\ new \in ClipState /\ new.state = "ready" /\ new.key = job[w].key
          /\ new.ready = job[w].out
      BY <3>2, <3>3 DEF ClipState
    <3>6. clips[p].meta \in Metas \cup {None}
      BY <3>2 DEF ClipState
    <3> HIDE DEF new, p
    <3>7. sink' \in [Paths -> Entry \cup {None}]
      BY <1>1, <3>1, <3>3, <3>6, PublishType DEF BaseInv
    <3> QED BY <1>1, <3>1, <3>3, <3>4, <3>5, <3>7 DEF BaseInv, TypeOK, ClipInv
  <2> QED BY <2>1, <2>2, <2>3 DEF FinishJob
<1>5. TypeOK'
  BY <1>1, <1>2, <1>4 DEF BaseInv, TypeOK, disk
<1> QED BY <1>3, <1>4, <1>5 DEF BaseInv

\* The status file can be written: a ready clip has a layout to take the source from.
LEMMA CurrentStatusType ==
  ASSUME BaseInv PROVE CurrentStatus \in [Paths -> Status \cup {None}]
<1>1. ASSUME NEW p \in Paths, clips[p] # None PROVE StatusOf(clips[p]) \in Status
  <2>1. clips[p] \in ClipState
    BY <1>1 DEF BaseInv, TypeOK
  <2>2. clips[p].state = "ready" => clips[p].ready.key.file \in Files
    BY <1>1, <2>1 DEF BaseInv, ClipInv, ClipState, Layout, Key
  <2> QED BY <2>1, <2>2 DEF StatusOf, Status, ClipState
<1> QED BY <1>1 DEF CurrentStatus

\* The housekeeper only writes the status file and deletes cache entries.
LEMMA BaseHousekeeping ==
  ASSUME BaseInv, Housekeeping PROVE BaseInv'
<1> DEFINE HkType == [pc : {"wait", "keep", "index", "remux"}, cleaned : BOOLEAN,
                      keep : SUBSET (Key \cup {None}), list : (SUBSET Key) \cup {None}]
<1>1. UNCHANGED <<media, clipsFile, tmps, file, clips, queue, queued, started, mutex, sink,
                  loaded, job>>
  BY DEF Housekeeping, StatusTick, CleanKeep, CleanList, CleanRemove, CleanNext, CleanerStep,
         memory
<1>2. hk \in HkType
  BY DEF BaseInv, TypeOK
<1>3. /\ hk' \in HkType /\ dirty' \in BOOLEAN
      /\ status' \in [Paths -> Status \cup {None}]
      /\ index' \in [Key -> {0, None} \cup Gens] /\ remux' \in [Key -> {0} \cup Gens]
      /\ spent' \in [Kinds -> Nat] /\ \A kind \in Kinds : spent'[kind] <= Limit[kind]
  <2>1. CASE StatusTick
    <3>1. spent' \in [Kinds -> Nat] /\ \A kind \in Kinds : spent'[kind] <= Limit[kind]
      BY <2>1, SpendType DEF StatusTick, BaseInv, TypeOK, Kinds
    <3>2. status' \in [Paths -> Status \cup {None}]
      BY <2>1, CurrentStatusType DEF StatusTick, Written, BaseInv, TypeOK
    <3>3. hk' \in HkType
      BY <1>2, <2>1 DEF StatusTick, StillClean, BaseInv, TypeOK
    <3> QED BY <2>1, <3>1, <3>2, <3>3 DEF StatusTick, BaseInv, TypeOK
  <2>2. CASE CleanKeep \/ CleanList \/ CleanRemove \/ CleanNext
    <3>1. UNCHANGED <<dirty, status, spent>>
      BY <2>2 DEF CleanKeep, CleanList, CleanRemove, CleanNext, CleanerStep, memory
    <3>2. index' \in [Key -> {0, None} \cup Gens] /\ remux' \in [Key -> {0} \cup Gens]
      BY <2>2 DEF CleanKeep, CleanList, CleanRemove, CleanNext, BaseInv, TypeOK
    <3>3. hk' \in HkType
      <4>1. CASE CleanKeep
        <5>1. {clips[p].key : p \in {q \in Paths : clips[q] # None}} \subseteq Key \cup {None}
          BY DEF BaseInv, TypeOK, ClipState
        <5> QED BY <1>2, <4>1, <5>1 DEF CleanKeep, CleanerStep
      <4>2. CASE CleanList
        BY <1>2, <4>2 DEF CleanList, CleanerStep, Entries
      <4>3. CASE CleanRemove
        BY <1>2, <4>3 DEF CleanRemove, CleanerStep
      <4>4. CASE CleanNext
        BY <1>2, <4>4 DEF CleanNext, CleanerStep, IdleHk
      <4> QED BY <2>2, <4>1, <4>2, <4>3, <4>4
    <3> QED BY <3>1, <3>2, <3>3 DEF BaseInv, TypeOK
  <2> QED BY <2>1, <2>2 DEF Housekeeping
<1>4. TypeOK'
  BY <1>1, <1>3 DEF BaseInv, TypeOK
<1> QED BY <1>1, <1>4 DEF BaseInv, JobInv, ClipInv

\* Every step keeps it.
LEMMA BaseNext == BaseInv /\ [Next]_vars => BaseInv'
<1> SUFFICES ASSUME BaseInv, [Next]_vars PROVE BaseInv' OBVIOUS
<1>1. CASE UNCHANGED vars
  BY <1>1 DEF BaseInv, TypeOK, JobInv, ClipInv, vars, disk, memory
<1>2. CASE Next
  BY <1>2, BaseEnvironment, BaseRecheck, BaseApplyBegin, BaseApplyClip, BaseApplyEnd,
     BaseTake, BaseStartJob, BaseBuild, BaseFinishJob, BaseHousekeeping
     DEF Next, Applying, Working
<1> QED BY <1>1, <1>2

\* Every variable keeps its type.
THEOREM TypeCorrect == Spec => []TypeOK
<1>1. BaseInv => TypeOK
  BY DEF BaseInv
<1> QED BY BaseInit, BaseNext, <1>1, PTL DEF Spec

\* It holds in every reachable state.
LEMMA BaseAlways == Spec => []BaseInv
BY BaseInit, BaseNext, PTL DEF Spec

-----------------------------------------------------------------------------
(* What the filesystem serves, and the queue.                                *)

\* The entry served at p is the layout and, once it is up to date, the NFO of
\* the clip's state.
SinkInvAt(p) ==
  LET st == StateOf(p)
  IN  IF sink[p] = None THEN st.ready = None
      ELSE /\ st.ready = sink[p].layout
           /\ st.state = "ready" => sink[p].nfo = st.meta

SinkInv == \A p \in Paths : SinkInvAt(p)

-----------------------------------------------------------------------------
\* The steps that touch the state of a clip or what is served.
LEMMA ClipSteps ==
  ASSUME [Next]_vars
  PROVE  \/ Crash
         \/ \E a \in Appliers : ApplyBegin(a)
         \/ ApplyClip
         \/ \E w \in Workers : FinishJob(w)
         \/ UNCHANGED <<clips, sink>>
<1>1. CASE UNCHANGED vars
  BY <1>1 DEF vars, memory
<1>2. CASE Environment
  BY <1>2 DEF Environment, EditClips, ChangeMedia, memory
<1>3. CASE LoadConfig \/ Rechecking
  BY <1>3 DEF LoadConfig, Rechecking, PeriodicRecheck, InvalidateRecheck, memory
<1>4. CASE Applying \/ Start
  BY <1>4 DEF Applying, ApplyEnd, Start
<1>5. ASSUME NEW w \in Workers, Working(w)
      PROVE  FinishJob(w) \/ UNCHANGED <<clips, sink>>
  BY <1>5 DEF Working, TakeJob, StartJob, Build, BuildTroubled, CutFails, BuildFails, OpenSource,
     RunFFmpeg, RenameTmp, StatRemux, SaveIndex, JobStep, memory
<1>6. CASE Housekeeping
  BY <1>6 DEF Housekeeping, StatusTick, CleanKeep, CleanList, CleanRemove, CleanNext,
     CleanerStep, memory
<1> QED BY <1>1, <1>2, <1>3, <1>4, <1>5, <1>6 DEF Next

\* What applyClip does to the state of one clip and what is served there.
LEMMA SinkApplied ==
  ASSUME BaseInv, SinkInv, NEW c \in Clip, NEW st \in ClipState, Applied(c, st),
         \/ /\ UNCHANGED sink
            /\ StateOf(c.path).ready = st.ready
            /\ st.ready # None /\ st.state = "ready" => /\ StateOf(c.path).state = "ready"
                                                        /\ StateOf(c.path).meta = st.meta
         \/ Withdraw(c.path) /\ st.ready = None
         \/ st.ready # None /\ Publish(c.path, st.ready, st.meta)
  PROVE  SinkInv'
<1> DEFINE q == c.path
<1>1. /\ q \in Paths /\ clips' = [clips EXCEPT ![q] = st]
      /\ clips \in [Paths -> ClipState \cup {None}] /\ sink \in [Paths -> Entry \cup {None}]
  BY DEF Clip, Applied, BaseInv, TypeOK
<1>2. st # None /\ StateOf(q)' = st
  BY <1>1, NoneAssumption DEF StateOf, NoneAssumption
<1>3. ASSUME NEW p \in Paths, p # q PROVE SinkInvAt(p)'
  <2>1. StateOf(p)' = StateOf(p) /\ sink'[p] = sink[p]
    BY <1>1, <1>3 DEF StateOf, Withdraw, Publish
  <2> QED BY <2>1 DEF SinkInv, SinkInvAt
<1>4. SinkInvAt(q)'
  <2>1. CASE /\ UNCHANGED sink
             /\ StateOf(q).ready = st.ready
             /\ st.ready # None /\ st.state = "ready" => /\ StateOf(q).state = "ready"
                                                         /\ StateOf(q).meta = st.meta
    <3>1. SinkInvAt(q) /\ (sink[q] # None => sink[q].layout # None)
      BY <1>1, NoneAssumption DEF SinkInv, NoneAssumption, Entry
    <3> QED BY <1>2, <2>1, <3>1 DEF SinkInvAt
  <2>2. CASE Withdraw(q) /\ st.ready = None
    BY <1>1, <1>2, <2>2 DEF SinkInvAt, Withdraw
  <2>3. CASE st.ready # None /\ Publish(q, st.ready, st.meta)
    <3> DEFINE new == [layout |-> st.ready, nfo |-> st.meta]
    <3>1. new \in Entry /\ new # None /\ sink'[q] = new
      BY <1>1, <2>3, NoneAssumption DEF NoneAssumption, Publish, Entry, ClipState
    <3> QED BY <1>2, <3>1 DEF SinkInvAt
  <2> QED BY <2>1, <2>2, <2>3
<1> QED BY <1>3, <1>4 DEF SinkInv

\* Clips that are no longer wanted leave the filesystem with their state.
LEMMA SinkApplyBegin ==
  ASSUME BaseInv, SinkInv, NEW a \in Appliers, ApplyBegin(a) PROVE SinkInv'
<1> DEFINE keep == PathsOf(Wanted(media, loaded[a].list))
<1>1. sink' = Forget(keep) /\ \A p \in Paths :
        /\ p \in keep => clips'[p] = clips[p]
        /\ p \notin keep => clips'[p] = InvalidClip \/ clips'[p] = None
  BY DEF ApplyBegin
<1>2. ASSUME NEW p \in Paths, p \in keep PROVE SinkInvAt(p)'
  <2>1. StateOf(p)' = StateOf(p) /\ sink'[p] = sink[p]
    BY <1>1, <1>2 DEF StateOf, Forget
  <2> QED BY <2>1 DEF SinkInv, SinkInvAt
<1>3. ASSUME NEW p \in Paths, p \notin keep PROVE SinkInvAt(p)'
  <2>1. sink'[p] = None
    BY <1>1, <1>3, NoneAssumption DEF Forget, SinkInv, SinkInvAt, BaseInv, TypeOK, Entry,
       NoneAssumption
  <2>2. (StateOf(p).ready)' = None
    BY <1>1, <1>3 DEF StateOf, InvalidClip, NoClip
  <2> QED BY <2>1, <2>2 DEF SinkInvAt
<1> QED BY <1>2, <1>3 DEF SinkInv

\* The result of a build is published, or the clip withdrawn, with its state.
LEMMA SinkFinishJob ==
  ASSUME BaseInv, SinkInv, NEW w \in Workers, FinishJob(w) PROVE SinkInv'
<1>0. PICK q \in Paths : q = job[w].path
  BY DEF FinishJob, BaseInv, JobInv
<1>1. /\ clips \in [Paths -> ClipState \cup {None}] /\ sink \in [Paths -> Entry \cup {None}]
  BY DEF BaseInv, TypeOK
<1>2. CASE ~StillCurrent(w)
  BY <1>2 DEF FinishJob, SinkInv, SinkInvAt, StateOf
<1>3. CASE StillCurrent(w)
  <2>1. PICK new \in ClipState :
          /\ clips' = [clips EXCEPT ![q] = new]
          /\ \/ new.ready = None /\ (Withdraw(q) \/ (sink' = sink /\ clips[q].ready = None))
             \/ new.ready \in Layout /\ Publish(q, new.ready, new.meta)
    <3>1. clips[q] \in ClipState
      BY <1>0, <1>1, <1>3 DEF StillCurrent
    <3>2. CASE job[w].pc = "failed"
      <4> DEFINE new == [clips[q] EXCEPT !.state = "error", !.err = "build", !.ready = None]
      <4>1. new \in ClipState /\ new.ready = None
        BY <3>1 DEF ClipState
      <4>2. clips' = [clips EXCEPT ![q] = new]
        BY <1>0, <1>3, <3>2 DEF FinishJob
      <4>3. Withdraw(q) \/ (sink' = sink /\ clips[q].ready = None)
        BY <1>0, <1>3, <3>2 DEF FinishJob
      <4> HIDE DEF new
      <4> QED BY <4>1, <4>2, <4>3
    <3>3. CASE job[w].pc = "done"
      <4> DEFINE new == [clips[q] EXCEPT !.state = "ready", !.err = "none", !.ready = job[w].out]
      <4>1. job[w].out \in Layout
        BY <3>3 DEF BaseInv, JobInv
      <4>2. new \in ClipState /\ new.ready = job[w].out /\ new.meta = clips[q].meta
        BY <3>1, <4>1 DEF ClipState
      <4>3. clips' = [clips EXCEPT ![q] = new] /\ Publish(q, job[w].out, clips[q].meta)
        BY <1>0, <1>3, <3>3 DEF FinishJob
      <4> HIDE DEF new
      <4> QED BY <4>1, <4>2, <4>3
    <3> QED BY <3>2, <3>3 DEF FinishJob
  <2>2. new # None /\ StateOf(q)' = new
    BY <1>1, <2>1, NoneAssumption DEF StateOf, NoneAssumption
  <2>3. ASSUME NEW p \in Paths, p # q PROVE SinkInvAt(p)'
    <3>1. StateOf(p)' = StateOf(p) /\ sink'[p] = sink[p]
      BY <1>1, <2>1, <2>3 DEF StateOf, Withdraw, Publish
    <3> QED BY <3>1 DEF SinkInv, SinkInvAt
  <2>4. SinkInvAt(q)'
    <3>1. CASE new.ready = None
      <4>1. sink'[q] = None
        <5>1. SinkInvAt(q) /\ (sink[q] # None => sink[q].layout # None)
          BY <1>1, NoneAssumption DEF SinkInv, NoneAssumption, Entry
        <5>2. clips[q] # None
          BY <1>0, <1>3 DEF StillCurrent
        <5> QED BY <1>1, <2>1, <3>1, <5>1, <5>2, NoneAssumption
                DEF SinkInvAt, StateOf, Withdraw, NoneAssumption
      <4> QED BY <2>2, <3>1, <4>1 DEF SinkInvAt
    <3>2. CASE new.ready \in Layout /\ Publish(q, new.ready, new.meta)
      <4> DEFINE entry == [layout |-> new.ready, nfo |-> new.meta]
      <4>1. entry \in Entry /\ entry # None /\ sink'[q] = entry
        BY <1>1, <3>2, NoneAssumption DEF NoneAssumption, Publish, Entry, ClipState
      <4> QED BY <2>2, <4>1 DEF SinkInvAt
    <3> QED BY <2>1, <3>1, <3>2
  <2> QED BY <2>3, <2>4 DEF SinkInv
<1> QED BY <1>2, <1>3

\* Each outcome of applyClip keeps the filesystem in line with the clip's state.
LEMMA SinkApplyClip ==
  ASSUME BaseInv, SinkInv, ApplyClip PROVE SinkInv'
<1>1. PICK c \in mutex.todo : ApplyMissing(c) \/ ApplyKept(c) \/ ApplyIndexed(c) \/ ApplyQueued(c)
  BY DEF ApplyClip
<1>2. c \in Clip /\ c.path \in Paths /\ c.meta \in Metas \cup {None} /\ TypeOK
  BY DEF ApplyClip, BaseInv, TypeOK, Clip
<1> DEFINE st == StateOf(c.path)
<1>3. /\ st.ready \in Layout \cup {None}
      /\ clips[c.path] = None => st = NoClip
      /\ clips[c.path] # None => st = clips[c.path] /\ st \in ClipState
  BY <1>2, StateOfType
<1>4. CASE ApplyMissing(c)
  <2> DEFINE new == [meta |-> c.meta, key |-> None, state |-> "error", err |-> "input",
                     ready |-> None]
  <2>1. new \in ClipState /\ new.ready = None /\ new.state = "error"
    BY <1>2 DEF ClipState
  <2>2. Applied(c, new) /\ (Withdraw(c.path) \/ (UNCHANGED sink /\ st.ready = None))
    BY <1>4 DEF ApplyMissing
  <2> HIDE DEF new
  <2> QED BY <1>2, <2>1, <2>2, SinkApplied
<1>5. CASE ApplyKept(c)
  <2>1. PICK f \in Resolved(media, c.input) :
          /\ Keeps(st, ClipKey(c, f))
          /\ Applied(c, [st EXCEPT !.meta = c.meta])
          /\ IF st.ready # None /\ st.meta # c.meta THEN Publish(c.path, st.ready, c.meta)
                                                    ELSE UNCHANGED sink
    BY <1>5 DEF ApplyKept
  <2> DEFINE new == [st EXCEPT !.meta = c.meta]
  <2>2. ClipKey(c, f) \in Key
    BY <1>2, ResolvedKey DEF TypeOK
  <2>3. clips[c.path] # None
    BY <1>3, <2>1, <2>2, NoneAssumption DEF Keeps, NoClip, NoneAssumption
  <2>4. st \in ClipState
    BY <1>3, <2>3
  <2>5. /\ new \in ClipState /\ new.state = st.state /\ new.ready = st.ready
        /\ new.meta = c.meta
    BY <1>2, <2>4 DEF ClipState
  <2>6. Applied(c, new)
    BY <2>1
  <2>7. CASE st.ready # None /\ st.meta # c.meta
    <3>1. Publish(c.path, new.ready, new.meta) /\ new.ready # None
      BY <2>1, <2>5, <2>7
    <3> HIDE DEF new
    <3> QED BY <1>2, <2>5, <2>6, <3>1, SinkApplied
  <2>8. CASE ~(st.ready # None /\ st.meta # c.meta)
    <3>1. /\ UNCHANGED sink /\ st.ready = new.ready
          /\ new.ready # None /\ new.state = "ready" => st.state = "ready" /\ st.meta = new.meta
      BY <2>1, <2>5, <2>8
    <3> HIDE DEF new
    <3> QED BY <1>2, <2>5, <2>6, <3>1, SinkApplied
  <2> QED BY <2>7, <2>8
<1>6. CASE ApplyIndexed(c)
  <2>1. PICK f \in Resolved(media, c.input) :
          LET key == ClipKey(c, f)
              l == [key |-> key, gen |-> index[key]]
          IN  /\ Indexed(key)
              /\ Publish(c.path, l, c.meta)
              /\ Applied(c, [meta |-> c.meta, key |-> key, state |-> "ready", err |-> "none",
                             ready |-> l])
    BY <1>6 DEF ApplyIndexed
  <2> DEFINE key == ClipKey(c, f)
             l == [key |-> key, gen |-> index[key]]
             new == [meta |-> c.meta, key |-> key, state |-> "ready", err |-> "none", ready |-> l]
  <2>2. key \in Key
    BY <1>2, ResolvedKey DEF TypeOK
  <2>3. l \in Layout
    BY <1>2, <2>1, <2>2 DEF TypeOK, Indexed, Layout
  <2>4. new \in ClipState /\ new.ready = l /\ new.meta = c.meta /\ l # None
    BY <1>2, <2>2, <2>3, NoneAssumption DEF ClipState, NoneAssumption
  <2>5. Applied(c, new) /\ Publish(c.path, l, c.meta)
    BY <2>1
  <2> HIDE DEF new, l
  <2> QED BY <1>2, <2>4, <2>5, SinkApplied
<1>7. CASE ApplyQueued(c)
  <2>1. PICK f \in Resolved(media, c.input) :
          LET key == ClipKey(c, f)
          IN  /\ IF st.ready # None /\ Kept(st, key) = None THEN Withdraw(c.path)
                                                            ELSE UNCHANGED sink
              /\ Applied(c, [meta |-> c.meta, key |-> key, state |-> "pending", err |-> "none",
                             ready |-> Kept(st, key)])
    BY <1>7 DEF ApplyQueued
  <2> DEFINE key == ClipKey(c, f)
             new == [meta |-> c.meta, key |-> key, state |-> "pending", err |-> "none",
                     ready |-> Kept(st, key)]
  <2>2. key \in Key
    BY <1>2, ResolvedKey DEF TypeOK
  <2>3. Kept(st, key) \in {st.ready, None}
    BY DEF Kept
  <2>4. new \in ClipState /\ new.ready = Kept(st, key) /\ new.state = "pending"
    <3> HIDE DEF key
    <3> QED BY <1>2, <1>3, <2>2, <2>3 DEF ClipState
  <2>5. /\ Applied(c, new)
        /\ \/ Withdraw(c.path) /\ Kept(st, key) = None
           \/ UNCHANGED sink /\ st.ready = Kept(st, key)
    BY <2>1, <2>3
  <2> HIDE DEF new, key
  <2> QED BY <1>2, <2>4, <2>5, SinkApplied
<1> QED BY <1>1, <1>4, <1>5, <1>6, <1>7

\* Every step keeps the filesystem in line with the clips' states.
LEMMA SinkNext == BaseInv /\ SinkInv /\ [Next]_vars => SinkInv'
<1> SUFFICES ASSUME BaseInv, SinkInv, [Next]_vars PROVE SinkInv' OBVIOUS
<1>1. CASE Crash
  BY <1>1 DEF Crash, SinkInv, SinkInvAt, StateOf, NoClip
<1>2. CASE UNCHANGED <<clips, sink>>
  BY <1>2 DEF SinkInv, SinkInvAt, StateOf
<1> QED BY <1>1, <1>2, ClipSteps, SinkApplyBegin, SinkApplyClip, SinkFinishJob

\* It is so in every reachable state.
LEMMA SinkAlways == Spec => []SinkInv
<1>1. Init => SinkInv
  BY DEF Init, SinkInv, SinkInvAt, StateOf, NoClip
<1> QED BY <1>1, SinkNext, BaseAlways, PTL DEF Spec

\* The invariant gives the first property ...
LEMMA SinkInSyncFromInv == BaseInv /\ SinkInv => SinkInSync
BY DEF SinkInv, SinkInvAt, SinkInSync

\* ... and, with what is known of the states themselves, the second.
LEMMA ServedFromInv == BaseInv /\ SinkInv => ServedIsCurrent
<1> SUFFICES ASSUME BaseInv, SinkInv, NEW p \in Paths, clips[p] # None
             PROVE  LET st == clips[p]
                    IN  CASE st.state = "ready" -> /\ sink[p] # None
                                                   /\ sink[p].layout.key = st.key
                                                   /\ sink[p].nfo = st.meta
                          [] st.state = "error" -> sink[p] = None
                          [] st.state = "pending" ->
                               /\ st.key # None
                               /\ sink[p] # None => Origin(sink[p].layout.key) = Origin(st.key)
  BY DEF ServedIsCurrent
<1>1. StateOf(p) = clips[p] /\ SinkInvAt(p)
  BY DEF StateOf, SinkInv
<1>2. sink[p] # None => sink[p].layout # None
  BY NoneAssumption DEF BaseInv, TypeOK, Entry, NoneAssumption
<1>3. clips[p].state \in {"pending", "ready", "error"}
  BY DEF BaseInv, TypeOK, ClipState
<1> QED BY <1>1, <1>2, <1>3 DEF BaseInv, ClipInv, SinkInvAt

\* The filesystem serves exactly the layouts the engine holds as ready.
THEOREM SinkAlwaysInSync == Spec => []SinkInSync
BY SinkAlways, BaseAlways, SinkInSyncFromInv, PTL

\* What is served at a path is what the clip's state says is served there.
THEOREM AlwaysServedIsCurrent == Spec => []ServedIsCurrent
BY SinkAlways, BaseAlways, ServedFromInv, PTL

-----------------------------------------------------------------------------
\* What one step of applyClip or FinishJob may not do to what is served at p.
LEMMA WithdrawnFor ==
  ASSUME BaseInv, SinkInv, [Next]_vars, NEW p \in Paths, sink[p] # None, sink'[p] = None
  PROVE  \/ clips'[p] = None
         \/ clips'[p].state = "error"
         \/ Origin(clips'[p].key) # Origin(sink[p].layout.key)
<1>1. /\ TypeOK /\ clips \in [Paths -> ClipState \cup {None}]
      /\ sink \in [Paths -> Entry \cup {None}]
  BY DEF BaseInv, TypeOK
<1>2. StateOf(p).ready = sink[p].layout /\ StateOf(p).ready # None
  BY <1>1, NoneAssumption DEF SinkInv, SinkInvAt, Entry, NoneAssumption
<1>3. CASE Crash
  BY <1>3 DEF Crash
<1>4. ASSUME NEW a \in Appliers, ApplyBegin(a)
      PROVE  clips'[p] = None \/ clips'[p].state = "error"
  BY <1>4 DEF ApplyBegin, Forget, InvalidClip
<1>5. ASSUME NEW w \in Workers, FinishJob(w) PROVE clips'[p].state = "error"
  <2>1. PICK q \in Paths : q = job[w].path
    BY <1>5 DEF FinishJob, BaseInv, JobInv
  <2>2. StillCurrent(w)
    BY <1>5 DEF FinishJob
  <2>3. ASSUME job[w].pc = "done" PROVE FALSE
    <3> DEFINE entry == [layout |-> job[w].out, nfo |-> clips[q].meta]
    <3>1. Publish(q, job[w].out, clips[q].meta)
      BY <1>5, <2>1, <2>2, <2>3 DEF FinishJob
    <3>2. entry \in Entry
      BY <1>1, <2>1, <2>2, <2>3 DEF StillCurrent, BaseInv, JobInv, Entry, ClipState
    <3>3. entry # None
      BY <3>2, NoneAssumption DEF NoneAssumption
    <3> QED BY <1>1, <3>1, <3>3 DEF Publish
  <2>4. p = q /\ job[w].pc = "failed"
    BY <1>1, <1>5, <2>1, <2>2, <2>3 DEF FinishJob, Withdraw
  <2> QED BY <1>1, <1>5, <2>1, <2>2, <2>4 DEF FinishJob, StillCurrent, ClipState
<1>6. CASE ApplyClip
  <2>1. PICK c \in mutex.todo :
          ApplyMissing(c) \/ ApplyKept(c) \/ ApplyIndexed(c) \/ ApplyQueued(c)
    BY <1>6 DEF ApplyClip
  <2>2. c \in Clip /\ c.path \in Paths /\ c.meta \in Metas \cup {None}
    BY <1>1, <1>6 DEF ApplyClip, TypeOK, Clip
  <2>3. ASSUME NEW l \in Layout, Publish(c.path, l, c.meta) PROVE FALSE
    <3>1. [layout |-> l, nfo |-> c.meta] \in Entry
      BY <2>2 DEF Entry
    <3>2. [layout |-> l, nfo |-> c.meta] # None
      BY <3>1, NoneAssumption DEF NoneAssumption
    <3> QED BY <1>1, <2>3, <3>2 DEF Publish
  <2>4. CASE ApplyMissing(c)
    BY <1>1, <2>2, <2>4 DEF ApplyMissing, Applied, Withdraw
  <2>5. CASE ApplyKept(c)
    BY <1>1, <2>2, <2>3, <2>5, StateOfType DEF ApplyKept
  <2>6. CASE ApplyIndexed(c)
    <3>1. PICK f \in Resolved(media, c.input) :
            /\ Indexed(ClipKey(c, f))
            /\ Publish(c.path, [key |-> ClipKey(c, f), gen |-> index[ClipKey(c, f)]], c.meta)
      BY <2>6 DEF ApplyIndexed
    <3>2. ClipKey(c, f) \in Key
      BY <1>1, <2>2, ResolvedKey DEF TypeOK
    <3>3. [key |-> ClipKey(c, f), gen |-> index[ClipKey(c, f)]] \in Layout
      BY <1>1, <3>1, <3>2 DEF TypeOK, Indexed, Layout
    <3> QED BY <2>3, <3>1, <3>3
  <2>7. CASE ApplyQueued(c)
    <3>1. PICK f \in Resolved(media, c.input) :
            /\ IF StateOf(c.path).ready # None /\ Kept(StateOf(c.path), ClipKey(c, f)) = None
                 THEN Withdraw(c.path) ELSE UNCHANGED sink
            /\ Applied(c, [meta |-> c.meta, key |-> ClipKey(c, f), state |-> "pending",
                           err |-> "none", ready |-> Kept(StateOf(c.path), ClipKey(c, f))])
      BY <2>7 DEF ApplyQueued
    <3>2. p = c.path /\ Kept(StateOf(p), ClipKey(c, f)) = None
      BY <1>1, <2>2, <3>1 DEF Withdraw
    <3>3. clips'[p].key = ClipKey(c, f)
      BY <1>1, <3>1, <3>2 DEF Applied
    <3>4. Origin(StateOf(p).ready.key) # Origin(ClipKey(c, f))
      BY <1>2, <3>2 DEF Kept
    <3> QED BY <1>2, <3>3, <3>4 DEF Origin
  <2> QED BY <2>1, <2>4, <2>5, <2>6, <2>7
<1>7. ~UNCHANGED <<clips, sink>>
  OBVIOUS
<1> QED BY <1>3, <1>4, <1>5, <1>6, <1>7, ClipSteps

\* A hot reload, a rebuild or a failure elsewhere never blanks a clip that could
\* still be served.
THEOREM AlwaysServedUntilReplaced == Spec => ServedUntilReplaced
<1>1. BaseInv /\ SinkInv /\ [Next]_vars =>
        [\A p \in Paths : sink[p] # None /\ sink'[p] = None =>
           \/ clips'[p] = None
           \/ clips'[p].state = "error"
           \/ Origin(clips'[p].key) # Origin(sink[p].layout.key)]_vars
  BY WithdrawnFor
<1> QED BY <1>1, BaseAlways, SinkAlways, PTL DEF Spec, ServedUntilReplaced

-----------------------------------------------------------------------------
\* The paths that Apply is about to handle, or whose clip may be built or served.
Live(p) ==
  \/ mutex # None /\ p \in PathsOf(mutex.todo)
  \/ clips[p] # None /\ clips[p].key # None

LiveClash == \A p, q \in Paths : Live(p) /\ Live(q) /\ Folded[p] = Folded[q] => p = q

\* Validate leaves no two clips whose paths differ in case only.
LEMMA WantedClash ==
  ASSUME NEW m, NEW list \in Contents,
         NEW p \in PathsOf(Wanted(m, list)), NEW q \in PathsOf(Wanted(m, list)),
         Folded[p] = Folded[q]
  PROVE  p = q
<1>1. list \in Seq(Clip) /\ DOMAIN list = 1..Len(list) /\ Len(list) \in Nat
  BY EngineAssumption, LenProperties DEF EngineAssumption
<1>2. PICK i \in 1..Len(list), j \in 1..Len(list) :
        /\ list[i].path = p /\ ~Problem(m, list, i)
        /\ list[j].path = q /\ ~Problem(m, list, j)
  BY <1>1 DEF PathsOf, Wanted
<1>3. ~(i < j) /\ ~(j < i)
  <2>1. ASSUME i < j PROVE Duplicate(list, j)
    <3>1. i \in 1..(j - 1)
      BY <1>1, <2>1
    <3> QED BY <1>2, <3>1 DEF Duplicate
  <2>2. ASSUME j < i PROVE Duplicate(list, i)
    <3>1. j \in 1..(i - 1)
      BY <1>1, <2>2
    <3> QED BY <1>2, <3>1 DEF Duplicate
  <2> QED BY <1>2, <2>1, <2>2 DEF Problem
<1>4. i = j
  BY <1>1, <1>3
<1> QED BY <1>2, <1>4

\* Every step keeps live paths apart: a path becomes live only when Apply begins.
LEMMA LiveNext == BaseInv /\ LiveClash /\ [Next]_vars => LiveClash'
<1> SUFFICES ASSUME BaseInv, LiveClash, [Next]_vars PROVE LiveClash' OBVIOUS
<1>1. ASSUME \A p \in Paths : Live(p)' => Live(p) PROVE LiveClash'
  BY <1>1 DEF LiveClash
<1>2. CASE Crash
  BY <1>1, <1>2 DEF Crash, Live
<1>3. ASSUME NEW a \in Appliers, ApplyBegin(a) PROVE LiveClash'
  <2>1. PICK want : /\ want = Wanted(media, loaded[a].list)
                    /\ mutex' = [by |-> a, todo |-> want]
                    /\ clips' = [p \in Paths |-> IF p \in PathsOf(want) THEN clips[p]
                                                 ELSE IF p \in Invalid(media, loaded[a].list)
                                                   THEN InvalidClip ELSE None]
    BY <1>3 DEF ApplyBegin
  <2>2. loaded[a].list \in Contents
    BY <1>3 DEF ApplyBegin, BaseInv, TypeOK, Config
  <2>3. \A p \in Paths : Live(p)' => p \in PathsOf(want)
    <3>1. (mutex # None => mutex.todo = want)'
      BY <2>1
    <3>2. \A p \in Paths : p \notin PathsOf(want) => clips'[p] \in {None, InvalidClip}
      BY <2>1
    <3> QED BY <3>1, <3>2 DEF Live, InvalidClip, PathsOf
  <2> QED BY <2>1, <2>2, <2>3, WantedClash DEF LiveClash
<1>4. CASE ApplyClip
  <2>1. PICK c \in mutex.todo : mutex # None /\ \E new : Applied(c, new)
    BY <1>4 DEF ApplyClip, ApplyMissing, ApplyKept, ApplyIndexed, ApplyQueued
  <2>2. c.path \in Paths /\ clips \in [Paths -> ClipState \cup {None}]
    BY <2>1 DEF BaseInv, TypeOK, Clip
  <2>3. \A p \in Paths : p # c.path => clips'[p] = clips[p]
    BY <2>1, <2>2 DEF Applied
  <2>4. mutex'.todo \subseteq mutex.todo
    BY <2>1 DEF Applied, BaseInv, TypeOK
  <2>5. Live(c.path)
    BY <2>1 DEF Live, PathsOf
  <2>6. ASSUME NEW p \in Paths, Live(p)' PROVE Live(p)
    BY <2>1, <2>3, <2>4, <2>5, <2>6 DEF Live, PathsOf
  <2> QED BY <1>1, <2>6
<1>5. CASE ApplyEnd
  BY <1>1, <1>5 DEF ApplyEnd, Live
<1>6. ASSUME NEW w \in Workers, FinishJob(w) PROVE LiveClash'
  <2>1. UNCHANGED mutex
    BY <1>6 DEF FinishJob
  <2>2. \A p \in Paths : \/ clips'[p] = clips[p]
                         \/ clips[p] # None /\ clips'[p].key = clips[p].key
    BY <1>6 DEF FinishJob, StillCurrent, BaseInv, TypeOK, ClipState
  <2> QED BY <1>1, <2>1, <2>2 DEF Live
<1>7. CASE UNCHANGED <<mutex, clips>>
  BY <1>1, <1>7 DEF Live
<1>8. \/ UNCHANGED <<mutex, clips>>
      \/ Crash \/ ApplyClip \/ ApplyEnd
      \/ \E a \in Appliers : ApplyBegin(a)
      \/ \E w \in Workers : FinishJob(w)
  BY DEF Next, vars, disk, memory, Environment, EditClips, ChangeMedia, LoadConfig, Rechecking,
     PeriodicRecheck, InvalidateRecheck, Applying, Start, Working, TakeJob, StartJob, Build,
     BuildTroubled, CutFails, BuildFails, OpenSource, RunFFmpeg, RenameTmp, StatRemux,
     SaveIndex, JobStep, Housekeeping,
     StatusTick, CleanKeep, CleanList, CleanRemove, CleanNext, CleanerStep
<1> QED BY <1>2, <1>3, <1>4, <1>5, <1>6, <1>7, <1>8

\* A served path is live.
LEMMA ClashFromInv == BaseInv /\ SinkInv /\ LiveClash => NoCaseClash
<1> SUFFICES ASSUME BaseInv, SinkInv, LiveClash PROVE NoCaseClash OBVIOUS
<1>1. ASSUME NEW p \in Paths, sink[p] # None PROVE Live(p)
  <2>1. StateOf(p).ready # None
    BY <1>1, NoneAssumption DEF SinkInv, SinkInvAt, BaseInv, TypeOK, Entry, NoneAssumption
  <2>2. clips[p] # None /\ clips[p] \in ClipState /\ clips[p].ready # None
    BY <2>1 DEF StateOf, NoClip, BaseInv, TypeOK
  <2> QED BY <2>2 DEF Live, BaseInv, ClipInv, ClipState
<1> QED BY <1>1 DEF NoCaseClash, LiveClash

\* Whatever order clips come and go in, two clips whose paths differ in case only
\* are never served together.
THEOREM NeverCaseClash == Spec => []NoCaseClash
<1>1. Init => LiveClash
  BY DEF Init, LiveClash, Live
<1> QED BY <1>1, LiveNext, ClashFromInv, BaseAlways, SinkAlways, PTL DEF Spec

-----------------------------------------------------------------------------
(* Every step maps to a step of Library, or changes neither what is wanted *)
(* nor what is served.                                                     *)

\* The key served at p is the one of the layout that the clip's state holds.
LEMMA ServedKey ==
  BaseInv /\ SinkInv =>
    \A p \in Paths :
      /\ ServedKeys[p] = IF StateOf(p).ready = None THEN None ELSE StateOf(p).ready.key
      /\ ServedKeys[p] # None <=> StateOf(p).ready # None
<1> SUFFICES ASSUME BaseInv, SinkInv, NEW p \in Paths
             PROVE  /\ ServedKeys[p] = IF StateOf(p).ready = None THEN None
                                       ELSE StateOf(p).ready.key
                    /\ ServedKeys[p] # None <=> StateOf(p).ready # None
  OBVIOUS
<1>1. StateOf(p).ready \in Layout \cup {None}
  BY StateOfType DEF BaseInv
<1>2. StateOf(p).ready # None => StateOf(p).ready.key \in Key
  BY <1>1 DEF Layout
<1>3. sink[p] # None => sink[p].layout # None
  BY NoneAssumption DEF BaseInv, TypeOK, Entry, NoneAssumption
<1>4. sink[p] = None <=> StateOf(p).ready = None
  BY <1>3 DEF SinkInv, SinkInvAt
<1> QED BY <1>2, <1>3, <1>4, NoneAssumption DEF SinkInv, SinkInvAt, ServedKeys, NoneAssumption

\* The engine starts as the library does, with nothing wanted.
LEMMA LibInit == Init => Lib!Init
BY DEF Init, Lib!Init, WantedKeys, ServedKeys, StateOf, NoClip

\* The death of the process forgets every path.
LEMMA LibCrash == ASSUME Crash PROVE Lib!Forget(Paths)
<1>1. \A p \in Paths : StateOf(p)'.key = None /\ sink'[p] = None
  BY DEF Crash, StateOf, NoClip
<1> QED BY <1>1 DEF Lib!Forget, WantedKeys, ServedKeys

\* Replacing the current file forgets the paths that are no longer wanted.
LEMMA LibApplyBegin ==
  ASSUME BaseInv, SinkInv, NEW a \in Appliers, ApplyBegin(a)
  PROVE  \E P \in SUBSET Paths : Lib!Forget(P)
<1> DEFINE P == Paths \ PathsOf(Wanted(media, loaded[a].list))
<1>1. \A p \in Paths : p \notin P => clips'[p] = clips[p] /\ sink'[p] = sink[p]
  BY DEF ApplyBegin, Forget
<1>2. \A p \in P : clips'[p] \in {None, InvalidClip}
  BY DEF ApplyBegin
<1>3. \A p \in P : sink'[p] = None
  BY NoneAssumption DEF ApplyBegin, Forget, SinkInv, SinkInvAt, BaseInv, TypeOK, Entry,
     NoneAssumption
<1> HIDE DEF P
<1>4. WantedKeys' = [p \in Paths |-> IF p \in P THEN None ELSE WantedKeys[p]]
  BY <1>1, <1>2 DEF WantedKeys, StateOf, NoClip, InvalidClip
<1>5. ServedKeys' = [p \in Paths |-> IF p \in P THEN None ELSE ServedKeys[p]]
  BY <1>1, <1>3 DEF ServedKeys
<1>6. P \in SUBSET Paths
  BY DEF P
<1> QED BY <1>4, <1>5, <1>6 DEF Lib!Forget

\* A step makes k the key wanted at q, s the one served there, and changes no
\* other path.
KeysBecome(q, k, s) ==
  /\ WantedKeys' = [WantedKeys EXCEPT ![q] = k]
  /\ ServedKeys' = [ServedKeys EXCEPT ![q] = s]

\* A step that changes one path only.
LEMMA LibOnePath ==
  ASSUME BaseInv, SinkInv, BaseInv', SinkInv', NEW q \in Paths, NEW st \in ClipState,
         clips' = [clips EXCEPT ![q] = st],
         \A p \in Paths : p # q => sink'[p] = sink[p]
  PROVE  KeysBecome(q, st.key, IF st.ready = None THEN None ELSE st.ready.key)
<1>1. clips \in [Paths -> ClipState \cup {None}] /\ st # None
  BY NoneAssumption DEF BaseInv, TypeOK, NoneAssumption
<1>2. StateOf(q)' = st /\ \A p \in Paths : p # q => StateOf(p)' = StateOf(p)
  BY <1>1 DEF StateOf
<1>3. ServedKeys'[q] = IF st.ready = None THEN None ELSE st.ready.key
  <2>1. (\A p \in Paths :
           /\ ServedKeys[p] = IF StateOf(p).ready = None THEN None ELSE StateOf(p).ready.key
           /\ ServedKeys[p] # None <=> StateOf(p).ready # None)'
    BY ServedKey, PTL
  <2> QED BY <1>2, <2>1
<1>4. WantedKeys' = [WantedKeys EXCEPT ![q] = st.key]
  BY <1>2 DEF WantedKeys
<1>5. ServedKeys' = [ServedKeys EXCEPT ![q] = ServedKeys'[q]]
  BY DEF ServedKeys
<1> QED BY <1>3, <1>4, <1>5 DEF KeysBecome

\* Each outcome of applyClip is a step of Library or changes neither map.
LEMMA LibApplyClip ==
  ASSUME BaseInv, SinkInv, BaseInv', SinkInv', ApplyClip
  PROVE  [Lib!Next]_<<WantedKeys, ServedKeys>>
<1>1. PICK c \in mutex.todo : ApplyMissing(c) \/ ApplyKept(c) \/ ApplyIndexed(c) \/ ApplyQueued(c)
  BY DEF ApplyClip
<1>2. c \in Clip /\ c.path \in Paths /\ c.meta \in Metas \cup {None} /\ TypeOK
  BY DEF ApplyClip, BaseInv, TypeOK, Clip
<1> DEFINE q == c.path
           st == StateOf(q)
<1>3. /\ st.ready \in Layout \cup {None}
      /\ clips[q] = None => st = NoClip
      /\ clips[q] # None => st = clips[q] /\ st \in ClipState
  BY <1>2, StateOfType
<1>4. /\ WantedKeys[q] = st.key
      /\ ServedKeys[q] = IF st.ready = None THEN None ELSE st.ready.key
      /\ ServedKeys[q] # None <=> st.ready # None
  BY <1>2, ServedKey DEF WantedKeys
<1>5. \A p \in Paths : p # q => sink'[p] = sink[p]
  BY <1>1, <1>2 DEF ApplyMissing, ApplyKept, ApplyIndexed, ApplyQueued, Publish, Withdraw,
     BaseInv, TypeOK
<1>6. CASE ApplyMissing(c)
  <2> DEFINE new == [meta |-> c.meta, key |-> None, state |-> "error", err |-> "input",
                     ready |-> None]
  <2>1. new \in ClipState /\ clips' = [clips EXCEPT ![q] = new] /\ new.key = None /\ new.ready = None
    BY <1>2, <1>6 DEF ClipState, ApplyMissing, Applied
  <2> HIDE DEF new
  <2>2. KeysBecome(q, new.key, IF new.ready = None THEN None ELSE new.ready.key)
    BY <1>2, <1>5, <2>1, LibOnePath
  <2>3. Lib!Forget({q})
    BY <2>1, <2>2 DEF Lib!Forget, KeysBecome, WantedKeys, ServedKeys
  <2>4. {q} \in SUBSET Paths
    BY <1>2
  <2> QED BY <2>3, <2>4 DEF Lib!Next
<1>7. CASE ApplyKept(c)
  <2>1. PICK f \in Resolved(media, c.input) :
          Keeps(st, ClipKey(c, f)) /\ Applied(c, [st EXCEPT !.meta = c.meta])
    BY <1>7 DEF ApplyKept
  <2> DEFINE new == [st EXCEPT !.meta = c.meta]
  <2>2. ClipKey(c, f) # None
    BY <1>2, ResolvedKey, NoneAssumption DEF TypeOK, NoneAssumption
  <2>3. clips[q] # None /\ st \in ClipState
    BY <1>3, <2>1, <2>2 DEF Keeps, NoClip
  <2>4. /\ new \in ClipState /\ new.key = st.key /\ new.ready = st.ready
        /\ clips' = [clips EXCEPT ![q] = new]
    BY <1>2, <2>1, <2>3 DEF ClipState, Applied
  <2> HIDE DEF new
  <2>5. KeysBecome(q, new.key, IF new.ready = None THEN None ELSE new.ready.key)
    BY <1>2, <1>5, <2>4, LibOnePath
  <2> QED BY <1>4, <2>4, <2>5 DEF KeysBecome, WantedKeys, ServedKeys
<1>8. CASE ApplyIndexed(c)
  <2>1. PICK f \in Resolved(media, c.input) :
          /\ Indexed(ClipKey(c, f))
          /\ clips' = [clips EXCEPT ![q] =
               [meta |-> c.meta, key |-> ClipKey(c, f), state |-> "ready", err |-> "none",
                ready |-> [key |-> ClipKey(c, f), gen |-> index[ClipKey(c, f)]]]]
    BY <1>8 DEF ApplyIndexed, Applied
  <2> DEFINE l == [key |-> ClipKey(c, f), gen |-> index[ClipKey(c, f)]]
             new == [meta |-> c.meta, key |-> ClipKey(c, f), state |-> "ready", err |-> "none",
                     ready |-> l]
  <2>2. ClipKey(c, f) \in Key
    BY <1>2, ResolvedKey DEF TypeOK
  <2>3. l \in Layout /\ l # None
    BY <1>2, <2>1, <2>2, NoneAssumption DEF TypeOK, Indexed, Layout, NoneAssumption
  <2>4. new \in ClipState /\ clips' = [clips EXCEPT ![q] = new]
    BY <1>2, <2>1, <2>2, <2>3 DEF ClipState
  <2>5. new.key = ClipKey(c, f) /\ new.ready = l /\ l.key = ClipKey(c, f)
    OBVIOUS
  <2> HIDE DEF new, l
  <2>6. KeysBecome(q, new.key, IF new.ready = None THEN None ELSE new.ready.key)
    BY <1>2, <1>5, <2>4, LibOnePath
  <2>7. Lib!Serve(q, ClipKey(c, f))
    BY <2>3, <2>5, <2>6 DEF Lib!Serve, KeysBecome
  <2> QED BY <1>2, <2>2, <2>7 DEF Lib!Next
<1>9. CASE ApplyQueued(c)
  <2>1. PICK f \in Resolved(media, c.input) :
          clips' = [clips EXCEPT ![q] =
               [meta |-> c.meta, key |-> ClipKey(c, f), state |-> "pending", err |-> "none",
                ready |-> Kept(st, ClipKey(c, f))]]
    BY <1>9 DEF ApplyQueued, Applied
  <2> DEFINE key == ClipKey(c, f)
             new == [meta |-> c.meta, key |-> key, state |-> "pending", err |-> "none",
                     ready |-> Kept(st, key)]
  <2>2. key \in Key
    BY <1>2, ResolvedKey DEF TypeOK
  <2> HIDE DEF key
  <2>3. Kept(st, key) \in {st.ready, None}
    BY DEF Kept
  <2>4. new \in ClipState /\ new.key = key /\ new.ready = Kept(st, key)
    BY <1>2, <1>3, <2>2, <2>3 DEF ClipState
  <2>5. clips' = [clips EXCEPT ![q] = new]
    BY <2>1 DEF key
  <2>6. KeysBecome(q, new.key, IF new.ready = None THEN None ELSE new.ready.key)
    <3> HIDE DEF new
    <3> QED BY <1>2, <1>5, <2>4, <2>5, LibOnePath
  <2>7. (IF Kept(st, key) = None THEN None ELSE Kept(st, key).key)
          = IF ServedKeys[q] # None /\ Origin(ServedKeys[q]) = Origin(key) THEN ServedKeys[q]
            ELSE None
    BY <1>4 DEF Kept
  <2>8. Lib!Request(q, key)
    BY <2>4, <2>6, <2>7 DEF Lib!Request, KeysBecome
  <2> QED BY <1>2, <2>2, <2>8 DEF Lib!Next
<1> QED BY <1>1, <1>6, <1>7, <1>8, <1>9

\* A build that ends serves or withdraws its clip, or is dropped.
LEMMA LibFinishJob ==
  ASSUME BaseInv, SinkInv, BaseInv', SinkInv', NEW w \in Workers, FinishJob(w)
  PROVE  [Lib!Next]_<<WantedKeys, ServedKeys>>
<1>1. PICK q \in Paths : q = job[w].path
  BY DEF FinishJob, BaseInv, JobInv
<1>2. clips \in [Paths -> ClipState \cup {None}] /\ sink \in [Paths -> Entry \cup {None}]
  BY DEF BaseInv, TypeOK
<1>3. CASE ~StillCurrent(w)
  BY <1>3 DEF FinishJob, WantedKeys, ServedKeys, StateOf
<1>4. CASE StillCurrent(w)
  <2>1. /\ clips[q] # None /\ clips[q] \in ClipState /\ clips[q].key = job[w].key
        /\ WantedKeys[q] = clips[q].key
    BY <1>1, <1>2, <1>4 DEF StillCurrent, WantedKeys, StateOf
  <2>2. \A p \in Paths : p # q => sink'[p] = sink[p]
    BY <1>1, <1>2 DEF FinishJob, Publish, Withdraw
  <2>3. CASE job[w].pc = "failed"
    <3> DEFINE new == [clips[q] EXCEPT !.state = "error", !.err = "build", !.ready = None]
    <3>1. clips' = [clips EXCEPT ![q] = new]
      BY <1>1, <1>4, <2>3 DEF FinishJob
    <3>2. new \in ClipState /\ new.key = clips[q].key /\ new.ready = None
      BY <2>1 DEF ClipState
    <3> HIDE DEF new
    <3>3. KeysBecome(q, new.key, IF new.ready = None THEN None ELSE new.ready.key)
      BY <2>2, <3>1, <3>2, LibOnePath
    <3>4. Lib!Withdraw(q)
      BY <2>1, <3>2, <3>3 DEF Lib!Withdraw, KeysBecome, WantedKeys
    <3> QED BY <3>4 DEF Lib!Next
  <2>4. CASE job[w].pc = "done"
    <3> DEFINE new == [clips[q] EXCEPT !.state = "ready", !.err = "none", !.ready = job[w].out]
    <3>1. clips' = [clips EXCEPT ![q] = new]
      BY <1>1, <1>4, <2>4 DEF FinishJob
    <3>2. /\ job[w].out \in Layout /\ job[w].out # None /\ job[w].out.key = job[w].key
          /\ job[w].key \in Key
      BY <2>4, NoneAssumption DEF BaseInv, JobInv, NoneAssumption
    <3>3. new \in ClipState /\ new.key = clips[q].key /\ new.ready = job[w].out
      BY <2>1, <3>2 DEF ClipState
    <3> HIDE DEF new
    <3>4. KeysBecome(q, new.key, IF new.ready = None THEN None ELSE new.ready.key)
      BY <2>2, <3>1, <3>3, LibOnePath
    <3>5. Lib!Serve(q, job[w].key)
      BY <2>1, <3>2, <3>3, <3>4 DEF Lib!Serve, KeysBecome
    <3> QED BY <3>2, <3>5 DEF Lib!Next
  <2> QED BY <2>3, <2>4 DEF FinishJob
<1> QED BY <1>3, <1>4

\* Every step of the engine is a step of Library or changes neither map.
LEMMA LibNext ==
  BaseInv /\ SinkInv /\ [Next]_vars /\ BaseInv' /\ SinkInv'
    => [Lib!Next]_<<WantedKeys, ServedKeys>>
<1> SUFFICES ASSUME BaseInv, SinkInv, [Next]_vars, BaseInv', SinkInv'
             PROVE  [Lib!Next]_<<WantedKeys, ServedKeys>>
  OBVIOUS
<1>1. CASE Crash
  BY <1>1, LibCrash DEF Lib!Next
<1>2. ASSUME NEW a \in Appliers, ApplyBegin(a) PROVE Lib!Next
  BY <1>2, LibApplyBegin DEF Lib!Next
<1>3. CASE UNCHANGED <<clips, sink>>
  BY <1>3 DEF WantedKeys, ServedKeys, StateOf
<1> QED BY <1>1, <1>2, <1>3, ClipSteps, LibApplyClip, LibFinishJob

\* Whatever is interleaved, what the filesystem serves follows what is wanted as
\* Library says.
THEOREM EngineImplementsLibrary == Spec => ImplementsLibrary
BY LibInit, LibNext, BaseAlways, SinkAlways, PTL DEF Spec, ImplementsLibrary, Lib!Spec

-----------------------------------------------------------------------------
(* The queue.                                                                *)

\* A step of a build changes neither what is built nor who builds it.
LEMMA BuildStep ==
  ASSUME BaseInv, NEW w \in Workers, Build(w) \/ BuildTroubled(w)
  PROVE  /\ UNCHANGED memory
         /\ job[w].pc \notin {"idle", "taken"} /\ job'[w].pc \notin {"idle", "taken"}
         /\ job'[w].path = job[w].path /\ job'[w].key = job[w].key
         /\ \A v \in Workers : v # w => job'[v] = job[v]
<1>1. job[w] \in Job /\ job \in [Workers -> Job]
  BY DEF BaseInv, TypeOK
<1>2. PICK from \in {"open", "ffmpeg", "rename", "stat", "save"},
           pc \in {"ffmpeg", "rename", "stat", "save", "done", "failed"} :
        \E out : JobStep(w, from, [job[w] EXCEPT !.pc = pc, !.out = out])
  <2>1. ASSUME NEW pc PROVE [job[w] EXCEPT !.pc = pc] = [job[w] EXCEPT !.pc = pc, !.out = job[w].out]
    BY <1>1 DEF Job
  <2>2. CASE OpenSource(w)
    <3>1. \/ JobStep(w, "open", [job[w] EXCEPT !.pc = "failed"])
          \/ JobStep(w, "open", [job[w] EXCEPT !.pc = "ffmpeg"])
          \/ JobStep(w, "open", [job[w] EXCEPT !.pc = "save", !.out = [key |-> job[w].key, gen |-> 0]])
      BY <2>2 DEF OpenSource
    <3> QED BY <2>1, <3>1
  <2>3. CASE RunFFmpeg(w)
    <3>1. \/ JobStep(w, "ffmpeg", [job[w] EXCEPT !.pc = "failed"])
          \/ JobStep(w, "ffmpeg", [job[w] EXCEPT !.pc = "rename"])
      BY <2>3 DEF RunFFmpeg
    <3> QED BY <2>1, <3>1
  <2>4. CASE RenameTmp(w)
    <3>1. \/ JobStep(w, "rename", [job[w] EXCEPT !.pc = "failed"])
          \/ JobStep(w, "rename", [job[w] EXCEPT !.pc = "stat"])
      BY <2>4 DEF RenameTmp
    <3> QED BY <2>1, <3>1
  <2>5. CASE StatRemux(w)
    <3>1. \/ JobStep(w, "stat", [job[w] EXCEPT !.pc = "failed"])
          \/ JobStep(w, "stat", [job[w] EXCEPT !.pc = "save",
                                               !.out = [key |-> job[w].key, gen |-> remux[job[w].key]]])
      BY <2>5 DEF StatRemux
    <3> QED BY <2>1, <3>1
  <2>6. CASE SaveIndex(w)
    <3>1. JobStep(w, "save", [job[w] EXCEPT !.pc = "done"])
      BY <2>6 DEF SaveIndex
    <3> QED BY <2>1, <3>1
  <2>7. CASE BuildFails(w)
    BY <2>7 DEF BuildFails
  <2>8. CASE CutFails(w)
    <3>1. JobStep(w, "open", [job[w] EXCEPT !.pc = "ffmpeg"])
      BY <2>8 DEF CutFails
    <3> QED BY <2>1, <3>1
  <2> QED BY <2>2, <2>3, <2>4, <2>5, <2>6, <2>7, <2>8 DEF Build, BuildTroubled
<1> QED BY <1>1, <1>2 DEF JobStep, Job

\* The steps that touch the queue or a worker.
LEMMA QueueSteps ==
  ASSUME [Next]_vars
  PROVE  \/ Crash
         \/ ApplyClip
         \/ \E w \in Workers : TakeJob(w) \/ StartJob(w) \/ Build(w) \/ BuildTroubled(w) \/ FinishJob(w)
         \/ UNCHANGED <<queue, queued, job>>
<1>1. CASE UNCHANGED vars
  BY <1>1 DEF vars, memory
<1>2. CASE Environment
  BY <1>2 DEF Environment, EditClips, ChangeMedia, memory
<1>3. CASE LoadConfig \/ Rechecking
  BY <1>3 DEF LoadConfig, Rechecking, PeriodicRecheck, InvalidateRecheck, memory
<1>4. CASE Applying \/ Start
  BY <1>4 DEF Applying, ApplyBegin, ApplyEnd, Start
<1>5. CASE Housekeeping
  BY <1>5 DEF Housekeeping, StatusTick, CleanKeep, CleanList, CleanRemove, CleanNext,
     CleanerStep, memory
<1> QED BY <1>1, <1>2, <1>3, <1>4, <1>5 DEF Next, Working

\* What applyClip does to the queue.
LEMMA ApplyClipQueue ==
  ASSUME BaseInv, ApplyClip
  PROVE  /\ UNCHANGED job
         /\ UNCHANGED <<queue, queued>> \/ \E p \in Paths : Enqueue(p)
<1>1. PICK c \in mutex.todo : ApplyMissing(c) \/ ApplyKept(c) \/ ApplyIndexed(c) \/ ApplyQueued(c)
  BY DEF ApplyClip
<1>2. c.path \in Paths
  BY DEF ApplyClip, BaseInv, TypeOK, Clip
<1> QED BY <1>1, <1>2 DEF ApplyMissing, ApplyKept, ApplyIndexed, ApplyQueued, Applied

-----------------------------------------------------------------------------
\* Steps of workers that take nothing from the channel and start nothing.
LEMMA QueueFrame ==
  ASSUME QueueInv, UNCHANGED <<queue, queued>>,
         \A w \in Workers : /\ job'[w].pc = "taken" <=> job[w].pc = "taken"
                            /\ job[w].pc = "taken" => job'[w].path = job[w].path
  PROVE  QueueInv'
BY DEF QueueInv, Taken

\* Sending a path that is not queued keeps the channel free of repetitions.
LEMMA QueueEnqueue ==
  ASSUME BaseInv, QueueInv, UNCHANGED job, NEW p \in Paths, Enqueue(p)
  PROVE  QueueInv'
<1>1. CASE p \in queued
  BY <1>1, QueueFrame DEF Enqueue
<1>2. CASE p \notin queued
  <2>1. queue \in Seq(Paths) /\ queue' = Append(queue, p) /\ queued' = queued \cup {p}
    BY <1>2 DEF Enqueue, BaseInv, TypeOK
  <2>2. /\ Len(queue') = Len(queue) + 1 /\ Len(queue) \in Nat
        /\ \A i \in 1..Len(queue) : queue'[i] = queue[i]
        /\ queue'[Len(queue) + 1] = p
    BY <2>1, AppendProperties
  <2>3. ~Taken(p) /\ \A i \in 1..Len(queue) : queue[i] # p
    BY <1>2 DEF QueueInv
  <2>4. \A i \in 1..Len(queue') : i \in 1..Len(queue) \/ i = Len(queue) + 1
    BY <2>2
  <2>5. \A i, j \in 1..Len(queue') : queue'[i] = queue'[j] => i = j
    BY <2>2, <2>3, <2>4 DEF QueueInv
  <2>6. \A q \in Paths : (q \in queued') = (Taken(q)' \/ \E i \in 1..Len(queue') : queue'[i] = q)
    <3>1. \A q \in Paths : (\E i \in 1..Len(queue') : queue'[i] = q)
                             <=> q = p \/ \E i \in 1..Len(queue) : queue[i] = q
      BY <2>2, <2>4
    <3> QED BY <2>1, <3>1 DEF QueueInv, Taken
  <2>7. \A w \in Workers, i \in 1..Len(queue') : job'[w].pc = "taken" => queue'[i] # job'[w].path
    BY <2>2, <2>3, <2>4 DEF QueueInv, Taken
  <2> QED BY <2>5, <2>6, <2>7 DEF QueueInv
<1> QED BY <1>1, <1>2

\* A path received from the channel is in the hands of one worker only.
LEMMA QueueTake ==
  ASSUME BaseInv, QueueInv, NEW w \in Workers, TakeJob(w)
  PROVE  QueueInv'
<1>1. /\ queue \in Seq(Paths) /\ queue # <<>> /\ queue' = Tail(queue) /\ queued' = queued
      /\ job \in [Workers -> Job] /\ job[w].pc = "idle"
      /\ job' = [job EXCEPT ![w] = [IdleJob EXCEPT !.pc = "taken", !.path = Head(queue)]]
  BY DEF BaseInv, TypeOK, TakeJob
<1>2. /\ Len(queue) \in Nat \ {0} /\ Len(queue') = Len(queue) - 1
      /\ Head(queue) = queue[1] /\ Head(queue) \in Paths
      /\ \A i \in 1..Len(queue') : queue'[i] = queue[i + 1]
  BY <1>1, HeadTailProperties, EmptySeq, LenProperties
<1>3. \A i \in 1..Len(queue') : i + 1 \in 1..Len(queue) /\ i + 1 # 1
  BY <1>2
<1>4. \A i \in 1..Len(queue) : i = 1 \/ (i - 1 \in 1..Len(queue') /\ queue'[i - 1] = queue[i])
  BY <1>2
<1>5. /\ job'[w].pc = "taken" /\ job'[w].path = Head(queue)
      /\ \A v \in Workers : v # w => job'[v] = job[v]
  BY <1>1 DEF IdleJob
<1>6. \A i, j \in 1..Len(queue') : queue'[i] = queue'[j] => i = j
  <2>1. ASSUME NEW i \in 1..Len(queue'), NEW j \in 1..Len(queue'), queue'[i] = queue'[j]
        PROVE  i = j
    <3>1. i + 1 = j + 1
      BY <1>2, <1>3, <2>1 DEF QueueInv
    <3> QED BY <1>2, <3>1
  <2> QED BY <2>1
<1>7. 1 \in 1..Len(queue) /\ \A i \in 1..Len(queue') : queue'[i] # Head(queue)
  <2>1. 1 \in 1..Len(queue)
    BY <1>2
  <2> QED BY <1>2, <1>3, <2>1 DEF QueueInv
<1>8. \A v \in Workers, i \in 1..Len(queue') : job'[v].pc = "taken" => queue'[i] # job'[v].path
  BY <1>2, <1>3, <1>5, <1>7 DEF QueueInv
<1>9. \A v \in Workers : v # w /\ job[v].pc = "taken" => job[v].path # Head(queue)
  BY <1>2, <1>7 DEF QueueInv
<1>10. \A u, v \in Workers :
         job'[u].pc = "taken" /\ job'[v].pc = "taken" /\ job'[u].path = job'[v].path => u = v
  <2> SUFFICES ASSUME NEW u \in Workers, NEW v \in Workers,
                      job'[u].pc = "taken", job'[v].pc = "taken", job'[u].path = job'[v].path
               PROVE  u = v
    OBVIOUS
  <2>1. \A x \in Workers : x # w /\ job'[x].pc = "taken" =>
          job[x].pc = "taken" /\ job'[x].path = job[x].path /\ job[x].path # Head(queue)
    BY <1>5, <1>9
  <2>2. CASE u # w /\ v # w
    BY <2>1, <2>2 DEF QueueInv
  <2> QED BY <1>5, <2>1, <2>2
<1>11. \A p \in Paths : (p \in queued') = (Taken(p)' \/ \E i \in 1..Len(queue') : queue'[i] = p)
  <2>1. ASSUME NEW p \in Paths
        PROVE  /\ Taken(p)' <=> Taken(p) \/ p = Head(queue)
               /\ (\E i \in 1..Len(queue) : queue[i] = p)
                    <=> p = Head(queue) \/ \E i \in 1..Len(queue') : queue'[i] = p
    <3>1. Taken(p)' <=> Taken(p) \/ p = Head(queue)
      BY <1>1, <1>5 DEF Taken
    <3>2. (\E i \in 1..Len(queue) : queue[i] = p)
            <=> p = Head(queue) \/ \E i \in 1..Len(queue') : queue'[i] = p
      BY <1>2, <1>3, <1>4, <1>7
    <3> QED BY <3>1, <3>2
  <2> QED BY <1>1, <2>1 DEF QueueInv
<1> QED BY <1>6, <1>8, <1>10, <1>11 DEF QueueInv

\* A worker that starts removes its own path from queued.
LEMMA QueueStart ==
  ASSUME BaseInv, QueueInv, NEW w \in Workers, StartJob(w)
  PROVE  QueueInv'
<1>1. /\ job \in [Workers -> Job] /\ job[w].pc = "taken" /\ job[w].path \in Paths
      /\ queue' = queue /\ queued' = queued \ {job[w].path}
  BY DEF BaseInv, TypeOK, JobInv, StartJob
<1>2. job'[w].pc # "taken" /\ \A v \in Workers : v # w => job'[v] = job[v]
  BY <1>1 DEF StartJob, IdleJob, Job
<1>3. \A p \in Paths : Taken(p)' <=> Taken(p) /\ p # job[w].path
  BY <1>1, <1>2 DEF QueueInv, Taken
<1>4. \A p \in Paths : (p \in queued') = (Taken(p)' \/ \E i \in 1..Len(queue') : queue'[i] = p)
  BY <1>1, <1>3 DEF QueueInv
<1> QED BY <1>1, <1>2, <1>4 DEF QueueInv

\* Every step keeps the queue consistent.
LEMMA QueueNext == BaseInv /\ QueueInv /\ [Next]_vars => QueueInv'
<1> SUFFICES ASSUME BaseInv, QueueInv, [Next]_vars PROVE QueueInv' OBVIOUS
<1>1. CASE Crash
  <2>1. Len(queue') = 0 /\ queued' = {} /\ \A w \in Workers : job'[w].pc = "idle"
    BY <1>1 DEF Crash, IdleJob
  <2> QED BY <2>1 DEF QueueInv, Taken
<1>2. CASE ApplyClip
  BY <1>2, ApplyClipQueue, QueueEnqueue, QueueFrame
<1>3. ASSUME NEW w \in Workers, Build(w) \/ BuildTroubled(w) PROVE QueueInv'
  BY <1>3, BuildStep, QueueFrame DEF memory
<1>4. ASSUME NEW w \in Workers, FinishJob(w) PROVE QueueInv'
  BY <1>4, QueueFrame DEF FinishJob, IdleJob, BaseInv, TypeOK
<1>5. CASE UNCHANGED <<queue, queued, job>>
  BY <1>5, QueueFrame
<1> QED BY <1>1, <1>2, <1>3, <1>4, <1>5, QueueSteps, QueueTake, QueueStart

\* A path is in the channel or taken at most once, so that the channel never
\* holds more paths than there are and the send under the mutex cannot block.
THEOREM QueueCorrect == Spec => []QueueInv
<1>1. Init => QueueInv
  BY DEF Init, QueueInv, Taken, IdleJob
<1> QED BY <1>1, QueueNext, BaseAlways, PTL DEF Spec

\* With a channel as large as there are paths, Apply and Recheck never block on
\* it while they hold the mutex.
THEOREM NeverBlocksOnSend ==
  ASSUME IsFiniteSet(Paths), Cardinality(Paths) <= QueueCap
  PROVE  Spec => []SendNeverBlocks
<1>1. TypeOK /\ QueueInv => SendNeverBlocks
  <2> SUFFICES ASSUME TypeOK, QueueInv, NEW p \in Paths, p \notin queued
               PROVE  Len(queue) < QueueCap
    BY DEF SendNeverBlocks
  <2> DEFINE S == 1..Len(queue)
             T == Paths \ {p}
  <2>1. Len(queue) \in Nat /\ QueueCap \in Nat
    BY EngineAssumption DEF TypeOK, EngineAssumption
  <2>2. IsFiniteSet(S) /\ Cardinality(S) = Len(queue)
    <3>1. 1 \in Int /\ Len(queue) \in Int
      BY <2>1
    <3>2. IsFiniteSet(1..Len(queue))
          /\ Cardinality(1..Len(queue)) = IF 1 > Len(queue) THEN 0 ELSE Len(queue) - 1 + 1
      BY <3>1, FS_Interval
    <3> QED BY <2>1, <3>2
  <2>3. IsFiniteSet(T) /\ Cardinality(T) = Cardinality(Paths) - 1
    BY FS_RemoveElement
  <2>4. Cardinality(Paths) \in Nat
    BY FS_CardinalityType
  <2>5. queue \in [S -> T]
    <3>1. queue \in [S -> Paths]
      BY ElementOfSeq, LenProperties DEF TypeOK
    <3>2. \A i \in S : queue[i] # p
      BY DEF QueueInv
    <3> QED BY <3>1, <3>2
  <2>6. \A i, j \in S : queue[i] = queue[j] => i = j
    BY DEF QueueInv
  <2>7. ~(Cardinality(T) < Cardinality(S))
    BY <2>2, <2>3, <2>5, <2>6, FS_PigeonHole
  <2> QED BY <2>1, <2>2, <2>3, <2>4, <2>7
<1> QED BY <1>1, QueueCorrect, TypeCorrect, PTL

-----------------------------------------------------------------------------
\* applyClip leaves a clip pending only if it was, with that key, or is queued.
LEMMA PendingApply ==
  ASSUME BaseInv, PendingHasJob, ApplyClip PROVE PendingHasJob'
<1>1. PICK c \in mutex.todo : ApplyMissing(c) \/ ApplyKept(c) \/ ApplyIndexed(c) \/ ApplyQueued(c)
  BY DEF ApplyClip
<1>2. c \in Clip /\ c.path \in Paths /\ TypeOK /\ clips \in [Paths -> ClipState \cup {None}]
  BY DEF ApplyClip, BaseInv, TypeOK, Clip
<1> DEFINE q == c.path
           st == StateOf(q)
<1>3. UNCHANGED job /\ queued \subseteq queued' /\ \A p \in Paths : p # q => clips'[p] = clips[p]
  BY <1>1, <1>2 DEF ApplyMissing, ApplyKept, ApplyIndexed, ApplyQueued, Applied, Enqueue
<1>4. \/ clips'[q] # None /\ clips'[q].state = "pending" =>
           /\ clips[q] # None /\ clips[q].state = "pending" /\ clips[q].key = clips'[q].key
      \/ q \in queued'
  <2>0. CASE ApplyMissing(c)
    BY <1>2, <2>0 DEF ApplyMissing, Applied
  <2>1. CASE ApplyIndexed(c)
    <3>1. PICK f \in Resolved(media, c.input) :
            Applied(c, [meta |-> c.meta, key |-> ClipKey(c, f), state |-> "ready", err |-> "none",
                        ready |-> [key |-> ClipKey(c, f), gen |-> index[ClipKey(c, f)]]])
      BY <2>1 DEF ApplyIndexed
    <3>2. clips'[q].state = "ready"
      BY <1>2, <3>1 DEF Applied
    <3> QED BY <3>2
  <2>2. CASE ApplyKept(c)
    <3>1. PICK f \in Resolved(media, c.input) :
            Keeps(st, ClipKey(c, f)) /\ Applied(c, [st EXCEPT !.meta = c.meta])
      BY <2>2 DEF ApplyKept
    <3>2. ClipKey(c, f) # None
      BY <1>2, ResolvedKey, NoneAssumption DEF TypeOK, NoneAssumption
    <3>3. clips[q] # None /\ st = clips[q] /\ st \in ClipState
      BY <1>2, <3>1, <3>2, StateOfType DEF Keeps, NoClip
    <3>4. clips'[q].key = st.key /\ clips'[q].state = st.state
      BY <1>2, <3>1, <3>3 DEF Applied, ClipState
    <3> QED BY <3>3, <3>4
  <2>3. CASE ApplyQueued(c)
    BY <2>3 DEF ApplyQueued, Enqueue
  <2> QED BY <1>1, <2>0, <2>1, <2>2, <2>3
<1> QED BY <1>2, <1>3, <1>4 DEF PendingHasJob, Building

\* Every step keeps a build for each pending clip.
LEMMA PendingNext == BaseInv /\ PendingHasJob /\ [Next]_vars => PendingHasJob'
<1> SUFFICES ASSUME BaseInv, PendingHasJob, [Next]_vars PROVE PendingHasJob' OBVIOUS
<1>1. CASE Crash
  BY <1>1 DEF Crash, PendingHasJob
<1>2. CASE ApplyClip
  BY <1>2, PendingApply
<1>3. ASSUME NEW w \in Workers, TakeJob(w) PROVE PendingHasJob'
  <2>1. /\ UNCHANGED <<clips, queued>> /\ job[w].pc = "idle"
        /\ \A v \in Workers : v # w => job'[v] = job[v]
    BY <1>3 DEF TakeJob, BaseInv, TypeOK
  <2> QED BY <2>1 DEF PendingHasJob, Building
<1>4. ASSUME NEW w \in Workers, StartJob(w) PROVE PendingHasJob'
  <2>1. /\ UNCHANGED clips /\ job[w].pc = "taken" /\ queued' = queued \ {job[w].path}
        /\ \A v \in Workers : v # w => job'[v] = job[v]
        /\ clips[job[w].path] # None => /\ job'[w].pc = "open" /\ job'[w].path = job[w].path
                                        /\ job'[w].key = clips[job[w].path].key
    BY <1>4 DEF StartJob, BaseInv, TypeOK, Job
  <2> QED BY <2>1 DEF PendingHasJob, Building
<1>5. ASSUME NEW w \in Workers, Build(w) \/ BuildTroubled(w) PROVE PendingHasJob'
  <2>1. /\ UNCHANGED <<clips, queued>>
        /\ job'[w].pc \notin {"idle", "taken"}
        /\ job'[w].path = job[w].path /\ job'[w].key = job[w].key
        /\ \A v \in Workers : v # w => job'[v] = job[v]
    BY <1>5, BuildStep DEF memory
  <2> QED BY <2>1 DEF PendingHasJob, Building
<1>6. ASSUME NEW w \in Workers, FinishJob(w) PROVE PendingHasJob'
  <2>1. PICK q \in Paths : q = job[w].path
    BY <1>6 DEF FinishJob, BaseInv, JobInv
  <2>2. /\ UNCHANGED queued /\ \A v \in Workers : v # w => job'[v] = job[v]
        /\ \A p \in Paths : p # q => clips'[p] = clips[p]
    BY <1>6, <2>1 DEF FinishJob, BaseInv, TypeOK
  <2>3. CASE StillCurrent(w)
    <3>1. clips[q] # None /\ clips[q] \in ClipState
      BY <2>1, <2>3 DEF StillCurrent, BaseInv, TypeOK
    <3>2. clips'[q].state \in {"error", "ready"}
      BY <1>6, <2>1, <2>3, <3>1 DEF FinishJob, BaseInv, TypeOK, ClipState
    <3> QED BY <2>1, <2>2, <3>2 DEF PendingHasJob, Building
  <2>4. CASE ~StillCurrent(w)
    BY <1>6, <2>1, <2>2, <2>4 DEF FinishJob, StillCurrent, PendingHasJob, Building
  <2> QED BY <2>3, <2>4
<1>7. ASSUME NEW a \in Appliers, ApplyBegin(a) PROVE PendingHasJob'
  <2>1. /\ UNCHANGED <<queued, job>>
        /\ \A p \in Paths : clips'[p] \in {clips[p], None, InvalidClip}
    BY <1>7 DEF ApplyBegin
  <2> QED BY <2>1 DEF PendingHasJob, Building, InvalidClip
<1>8. CASE UNCHANGED <<clips, queued, job>>
  BY <1>8 DEF PendingHasJob, Building
<1> QED BY <1>1, <1>2, <1>3, <1>4, <1>5, <1>6, <1>7, <1>8, QueueSteps, ClipSteps

\* No build is lost, whatever is applied while it waits or runs.
THEOREM PendingAlwaysHasJob == Spec => []PendingHasJob
<1>1. Init => PendingHasJob
  BY DEF Init, PendingHasJob
<1> QED BY <1>1, PendingNext, BaseAlways, PTL DEF Spec
=============================================================================
