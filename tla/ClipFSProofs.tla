---------------------------- MODULE ClipFSProofs ----------------------------
(***************************************************************************)
(* Proofs about ClipFS: its types, that the kernel never keeps an answer   *)
(* that is no longer true, that a clip is in the tree for as long as it is *)
(* asked for, and that between calls the tree is what the entries ask for. *)
(***************************************************************************)
EXTENDS ClipFS, FiniteSetTheorems, TLAPS

-----------------------------------------------------------------------------
(* Trees. *)

Trees == [Nodes -> Inode \cup {None}]
\* What is in a folder is below folders that exist.
ClosedTree(t) == \A n \in Nodes : t[n] # None => \A m \in Above[n] : t[m] # None
\* Only the node q and what is below it differ.
SameBut(t, u, q) == \A n \in Nodes : n # q /\ q \notin Above[n] => u[n] = t[n]

LEMMA AboveFacts ==
  /\ \A n \in Nodes : Above[n] \subseteq Nodes /\ n \notin Above[n]
  /\ \A n \in Nodes : \A m \in Above[n] : Above[m] \subseteq Above[n]
  /\ \A p \in Paths : /\ Video[p] \in Nodes /\ Info[p] \in Nodes
                      /\ Dirs(p) = Above[Video[p]] /\ Dirs(p) = Above[Info[p]]
                      /\ Dirs(p) \subseteq Nodes
                      /\ \A d \in Dirs(p) : Above[d] \subseteq Dirs(p)
                      /\ Video[p] \notin Dirs(p) /\ Info[p] \notin Dirs(p) /\ Video[p] # Info[p]
BY PathsAssumption DEF Dirs

LEMMA InodeFacts ==
  /\ Folder \in Inode /\ None \notin Inode
  /\ \A p \in Paths, l \in Layouts : clipNode(p, l) \in Inode
  /\ \A p \in Paths, m \in Metas : staticNode(p, m) \in Inode
  /\ \A e \in Entry : e.layout \in Layouts /\ e.nfo \in Metas \cup {None} /\ e # None
BY NoneAssumption DEF Inode, clipNode, staticNode, Entry

LEMMA WithoutFacts ==
  ASSUME NEW t \in Trees, NEW q \in Nodes
  PROVE  /\ Without(t, q) \in Trees
         /\ ClosedTree(t) => ClosedTree(Without(t, q))
         /\ SameBut(t, Without(t, q), q)
         /\ Without(t, q)[q] = None
         /\ ClosedTree(t) /\ t[q] = None => Without(t, q) = t
         /\ \A n \in Nodes : Without(t, q)[n] # None => Without(t, q)[n] = t[n]
<1>1. Without(t, q) \in Trees
  BY DEF Without, Trees
<1>2. \A n \in Nodes : Without(t, q)[n] = IF n = q \/ q \in Above[n] THEN None ELSE t[n]
  BY DEF Without
<1>3. ASSUME ClosedTree(t) PROVE ClosedTree(Without(t, q))
  <2> SUFFICES ASSUME NEW n \in Nodes, Without(t, q)[n] # None, NEW m \in Above[n]
               PROVE  Without(t, q)[m] # None
    BY DEF ClosedTree
  <2>1. m \in Nodes /\ Above[m] \subseteq Above[n]
    BY AboveFacts
  <2>2. t[n] # None /\ q \notin Above[n]
    BY <1>2
  <2>3. m # q /\ q \notin Above[m] /\ t[m] # None
    BY <1>3, <2>1, <2>2 DEF ClosedTree
  <2> QED BY <1>2, <2>1, <2>3
<1>4. ASSUME ClosedTree(t), t[q] = None PROVE Without(t, q) = t
  BY <1>4 DEF ClosedTree, Without, Trees
<1> QED BY <1>1, <1>2, <1>3, <1>4 DEF SameBut

LEMMA PutFacts ==
  ASSUME NEW t \in Trees, NEW q \in Nodes, NEW i \in Inode
  PROVE  /\ Put(t, q, i) \in Trees
         /\ ClosedTree(t) /\ (\A d \in Above[q] : t[d] # None) => ClosedTree(Put(t, q, i))
         /\ SameBut(t, Put(t, q, i), q)
         /\ Put(t, q, i)[q] = i
         /\ \A n \in Nodes : n # q /\ Put(t, q, i)[n] # None => Put(t, q, i)[n] = t[n]
<1>1. Without(t, q) \in Trees /\ DOMAIN Without(t, q) = Nodes
  BY WithoutFacts DEF Trees
<1>2. Put(t, q, i) \in Trees
  BY <1>1 DEF Put, Trees
<1>3. Put(t, q, i)[q] = i /\ \A n \in Nodes : n # q => Put(t, q, i)[n] = Without(t, q)[n]
  BY <1>1 DEF Put
<1>4. ASSUME ClosedTree(t), \A d \in Above[q] : t[d] # None PROVE ClosedTree(Put(t, q, i))
  <2> SUFFICES ASSUME NEW n \in Nodes, Put(t, q, i)[n] # None, NEW m \in Above[n]
               PROVE  Put(t, q, i)[m] # None
    BY DEF ClosedTree
  <2>1. m \in Nodes /\ Above[m] \subseteq Above[n]
    BY AboveFacts
  <2>2. CASE m = q
    BY <1>3, <2>2, InodeFacts
  <2>3. CASE n = q /\ m # q
    <3>1. t[m] # None /\ q \notin Above[m]
      BY <1>4, <2>1, <2>3, AboveFacts
    <3> QED BY <1>3, <2>1, <2>3, <3>1 DEF Without
  <2>4. CASE n # q /\ m # q
    <3>1. Without(t, q)[n] # None /\ ClosedTree(Without(t, q))
      BY <1>3, <1>4, <2>4, WithoutFacts
    <3> QED BY <1>3, <2>1, <2>4, <3>1 DEF ClosedTree
  <2> QED BY <2>2, <2>3, <2>4
<1>5. SameBut(t, Put(t, q, i), q)
  BY <1>3, WithoutFacts DEF SameBut
<1>6. \A n \in Nodes : n # q /\ Put(t, q, i)[n] # None => Put(t, q, i)[n] = t[n]
  BY <1>3, WithoutFacts
<1> QED BY <1>2, <1>3, <1>4, <1>5, <1>6

LEMMA FoldersFacts ==
  ASSUME NEW t \in Trees, NEW p \in Paths
  PROVE  /\ WithFolders(t, p) \in Trees
         /\ ClosedTree(t) => ClosedTree(WithFolders(t, p))
         /\ \A d \in Dirs(p) : WithFolders(t, p)[d] # None
         /\ \A n \in Nodes : t[n] # None \/ n \notin Dirs(p) => WithFolders(t, p)[n] = t[n]
         /\ \A n \in Nodes : t[n] = None /\ n \in Dirs(p) => WithFolders(t, p)[n] = Folder
<1>1. \A n \in Nodes : WithFolders(t, p)[n] = IF n \in Dirs(p) /\ t[n] = None THEN Folder ELSE t[n]
  BY DEF WithFolders
<1>2. WithFolders(t, p) \in Trees
  BY InodeFacts DEF WithFolders, Trees
<1>3. \A d \in Dirs(p) : WithFolders(t, p)[d] # None
  BY <1>1, InodeFacts, AboveFacts
<1>4. ASSUME ClosedTree(t) PROVE ClosedTree(WithFolders(t, p))
  <2> SUFFICES ASSUME NEW n \in Nodes, WithFolders(t, p)[n] # None, NEW m \in Above[n]
               PROVE  WithFolders(t, p)[m] # None
    BY DEF ClosedTree
  <2>1. m \in Nodes
    BY AboveFacts
  <2>2. CASE n \in Dirs(p)
    BY <1>3, <2>2, AboveFacts
  <2>3. CASE n \notin Dirs(p)
    <3>1. t[m] # None
      BY <1>1, <1>4, <2>3 DEF ClosedTree
    <3> QED BY <1>1, <2>1, <3>1
  <2> QED BY <2>2, <2>3
<1> QED BY <1>1, <1>2, <1>3, <1>4

LEMMA InfoFacts ==
  ASSUME NEW t \in Trees, NEW p \in Paths, NEW e \in Entry
  PROVE  /\ WithInfo(t, p, e) \in Trees
         /\ ClosedTree(t) /\ (\A d \in Dirs(p) : t[d] # None) => ClosedTree(WithInfo(t, p, e))
         /\ SameBut(t, WithInfo(t, p, e), Info[p])
         /\ WithInfo(t, p, e)[Info[p]] = IF e.nfo = None THEN None ELSE staticNode(p, e.nfo)
         /\ ClosedTree(t) /\ e.nfo = None /\ t[Info[p]] = None => WithInfo(t, p, e) = t
         /\ \A n \in Nodes : n # Info[p] /\ WithInfo(t, p, e)[n] # None => WithInfo(t, p, e)[n] = t[n]
<1>1. CASE e.nfo = None
  BY <1>1, WithoutFacts, AboveFacts DEF WithInfo
<1>2. CASE e.nfo # None
  <2>1. staticNode(p, e.nfo) \in Inode
    BY <1>2, InodeFacts
  <2> QED BY <1>2, <2>1, PutFacts, AboveFacts DEF WithInfo
<1> QED BY <1>1, <1>2

\* Between a node and a folder above it there is a child of the folder.
LEMMA ChildBetween ==
  ASSUME NEW v \in Nodes, NEW d \in Above[v]
  PROVE  \E n \in Above[v] \cup {v} : Above[n] = Above[d] \cup {d}
<1> DEFINE S == {n \in Above[v] \cup {v} : d \in Above[n]}
           T == {Above[n] : n \in S}
<1>1. S \subseteq Nodes /\ v \in S
  BY AboveFacts
<1>2. T \subseteq FiniteSubsetsOf(Nodes) /\ T # {}
  BY <1>1, AboveFacts, PathsAssumption DEF FiniteSubsetsOf
<1>3. PICK x \in T : \A y \in T : ~(<<y, x>> \in StrictSubsetOrdering(Nodes))
  <2> HIDE DEF T
  <2> QED BY <1>2, WFMin, FS_StrictSubsetOrderingWellFounded
<1>4. PICK n \in S : x = Above[n]
  BY <1>3
<1>5. n \in Nodes /\ d \in Nodes /\ d \in Above[n] /\ Above[d] \subseteq Above[n]
  BY <1>1, <1>4, AboveFacts
<1>6. ASSUME NEW m \in Above[n], m # d PROVE m \in Above[d]
  <2>1. m \in Above[d] \/ d \in Above[m]
    BY <1>5, <1>6, PathsAssumption
  <2>2. ASSUME d \in Above[m] PROVE FALSE
    <3>1. m \in Nodes /\ m \in S
      BY <1>1, <1>4, <1>5, <2>2, AboveFacts
    <3>2. Above[m] \in T /\ Above[m] \subseteq Above[n] /\ Above[m] # Above[n]
      BY <1>5, <1>6, <3>1, AboveFacts
    <3>3. <<Above[m], Above[n]>> \in StrictSubsetOrdering(Nodes)
      BY <1>5, <3>1, <3>2, AboveFacts DEF StrictSubsetOrdering
    <3> QED BY <1>3, <1>4, <3>2, <3>3
  <2> QED BY <2>1, <2>2
<1> QED BY <1>4, <1>5, <1>6

\* A folder without children has nothing below it at all.
LEMMA EmptyBelow ==
  ASSUME NEW t \in Trees, ClosedTree(t), NEW d \in Nodes, Children(t, d) = {},
         NEW n \in Nodes, d \in Above[n]
  PROVE  t[n] = None
<1>1. PICK m \in Above[n] \cup {n} : Above[m] = Above[d] \cup {d}
  BY ChildBetween
<1>2. m \in Nodes /\ t[m] = None
  BY <1>1, AboveFacts DEF Children
<1> QED BY <1>1, <1>2 DEF ClosedTree

-----------------------------------------------------------------------------
(* The types, and how far a call has come.                                   *)

OpInv ==
  op # None =>
    /\ op.pc = "info" => \A d \in Dirs(op.path) : tree[d] # None
    /\ op.pc \in {"folders", "info"} => entries[op.path] # None
    /\ op.pc \in {"unvideo", "uninfo", "prune"} => entries[op.path] = None /\ op.up \subseteq Dirs(op.path)
Unmounted ==
  mounted # "yes" => DOMAIN cache = {} /\ asked = None /\ op = None /\ pending = None
Base ==
  /\ TypeOK
  /\ ClosedTree(tree)
  /\ mounted # "adding" => todo = {}
  /\ mounted = "no" => \A n \in Nodes : tree[n] = None
  /\ Unmounted
  /\ OpInv

LEMMA OpFacts == None \notin Op /\ \A o \in Op : o.path \in Paths /\ o.up \subseteq Nodes /\ o # None
BY NoneAssumption DEF Op

LEMMA OpGoes ==
  ASSUME NEW o \in Op, NEW pc \in {"folders", "info", "unvideo", "uninfo", "prune", "return"}
  PROVE  /\ [o EXCEPT !.pc = pc] \in Op
         /\ [o EXCEPT !.pc = pc].pc = pc
         /\ [o EXCEPT !.pc = pc].path = o.path
         /\ [o EXCEPT !.pc = pc].up = o.up
BY DEF Op

LEMMA OpUp ==
  ASSUME NEW o \in Op, NEW up \in SUBSET Nodes
  PROVE  /\ [o EXCEPT !.up = up] \in Op
         /\ [o EXCEPT !.up = up].pc = o.pc
         /\ [o EXCEPT !.up = up].path = o.path
         /\ [o EXCEPT !.up = up].up = up
BY DEF Op

LEMMA BaseInit == Init => Base
BY InodeFacts DEF Init, Base, TypeOK, ClosedTree, Unmounted, OpInv

\* The step of a call that changes the tree at q and tells the kernel.
LEMMA BaseGoes ==
  ASSUME Base, op # None, NEW pc \in {"folders", "info", "uninfo", "prune", "return"},
         NEW q \in Nodes \cup {None}, Goes(pc, q), tree' \in Trees, ClosedTree(tree'),
         pc = "info" => \A d \in Dirs(op.path) : tree'[d] # None,
         pc \in {"folders", "info"} => op.pc \in {"folders", "info"},
         pc \in {"uninfo", "prune"} => op.pc \in {"unvideo", "uninfo", "prune"}
  PROVE  Base'
<1>1. op \in Op /\ op' \in Op /\ op'.pc = pc /\ op'.path = op.path /\ op'.up = op.up
  <2>1. op \in Op
    BY DEF Base, TypeOK
  <2>2. op' = [op EXCEPT !.pc = pc]
    BY DEF Goes
  <2>3. pc \in {"folders", "info", "unvideo", "uninfo", "prune", "return"}
    OBVIOUS
  <2> QED BY <2>1, <2>2, <2>3, OpGoes, Zenon
<1>2. mounted = "yes"
  BY DEF Base, Unmounted
<1>3. TypeOK'
  BY <1>1 DEF Goes, Base, TypeOK, Trees
<1>4. OpInv'
  BY <1>1 DEF Goes, Base, OpInv, Dirs
<1> QED BY <1>2, <1>3, <1>4 DEF Goes, Base, Unmounted, ClosedTree

LEMMA BaseMounting == Base /\ Mounting => Base'
<1> SUFFICES ASSUME Base, Mounting PROVE Base'
  OBVIOUS
<1>1. CASE OnAdd \/ OnAddEnd
  BY <1>1 DEF OnAdd, OnAddEnd, Free, Base, TypeOK, ClosedTree, Unmounted, OpInv
<1>2. ASSUME NEW p \in Paths, OnAddPlace(p) PROVE Base'
  <2> DEFINE t == WithFolders(tree, p)
             u == Put(t, Video[p], clipNode(p, entries[p].layout))
  <2>1. entries[p] \in Entry /\ clipNode(p, entries[p].layout) \in Inode /\ tree \in Trees
    BY <1>2, InodeFacts DEF OnAddPlace, Base, TypeOK, Trees
  <2>2. t \in Trees /\ ClosedTree(t) /\ \A d \in Dirs(p) : t[d] # None
    BY <2>1, FoldersFacts DEF Base
  <2>3. u \in Trees /\ ClosedTree(u) /\ SameBut(t, u, Video[p])
    BY <2>1, <2>2, PutFacts, AboveFacts
  <2>4. \A d \in Dirs(p) : u[d] # None
    BY <2>2, <2>3, AboveFacts DEF SameBut
  <2>5. tree' \in Trees /\ ClosedTree(tree')
    BY <1>2, <2>1, <2>3, <2>4, InfoFacts DEF OnAddPlace
  <2> QED BY <1>2, <2>5 DEF OnAddPlace, Base, TypeOK, Trees, Unmounted, OpInv
<1> QED BY <1>1, <1>2 DEF Mounting

LEMMA BaseCalls == Base /\ Calls => Base'
<1> SUFFICES ASSUME Base, Calls PROVE Base'
  OBVIOUS
<1>1. ASSUME NEW p \in Paths, NEW e \in Entry, SetClip(p, e) PROVE Base'
  <2>1. e # None /\ entries' \in [Paths -> Entry \cup {None}] /\ entries'[p] = e /\ todo = {}
    BY <1>1, InodeFacts DEF SetClip, Free, Base, TypeOK
  <2>2. [pc |-> "folders", path |-> p, up |-> {}] \in Op
    BY DEF Op
  <2>3. CASE mounted = "yes"
    BY <1>1, <2>1, <2>2, <2>3 DEF SetClip, Base, TypeOK, ClosedTree, Unmounted, OpInv
  <2>4. CASE mounted # "yes"
    BY <1>1, <2>1, <2>4 DEF SetClip, Base, TypeOK, ClosedTree, Unmounted, OpInv
  <2> QED BY <2>3, <2>4
<1>2. ASSUME NEW p \in Paths, RemoveClip(p) PROVE Base'
  <2>1. entries' \in [Paths -> Entry \cup {None}] /\ entries'[p] = None /\ todo = {}
    BY <1>2 DEF RemoveClip, Free, Base, TypeOK
  <2>2. [pc |-> "unvideo", path |-> p, up |-> Dirs(p)] \in Op
    BY AboveFacts DEF Op
  <2>3. CASE mounted = "yes" /\ \A d \in Dirs(p) : tree[d] # None
    BY <1>2, <2>1, <2>2, <2>3 DEF RemoveClip, Base, TypeOK, ClosedTree, Unmounted, OpInv
  <2>4. CASE ~(mounted = "yes" /\ \A d \in Dirs(p) : tree[d] # None)
    BY <1>2, <2>1, <2>4 DEF RemoveClip, Base, TypeOK, ClosedTree, Unmounted, OpInv
  <2> QED BY <2>3, <2>4
<1> QED BY <1>1, <1>2 DEF Calls

LEMMA BasePlacing == Base /\ Placing => Base'
<1> SUFFICES ASSUME Base, Placing PROVE Base'
  OBVIOUS
<1>1. op # None /\ op \in Op /\ op.path \in Paths /\ tree \in Trees /\ ClosedTree(tree)
  BY OpFacts DEF Placing, PlaceFolder, PlaceVideo, PlaceInfo, At, Base, TypeOK, Trees
<1>2. ASSUME op.pc \in {"folders", "info"} PROVE entries[op.path] \in Entry
  BY <1>1, <1>2 DEF Base, OpInv, TypeOK
<1>3. ASSUME NEW d \in Nodes, PlaceFolder(d) PROVE Base'
  <2>1. tree' \in Trees /\ ClosedTree(tree')
    BY <1>1, <1>3, InodeFacts, AboveFacts DEF PlaceFolder, Trees, ClosedTree
  <2> QED BY <1>1, <1>3, <2>1, BaseGoes DEF PlaceFolder, At
<1>4. CASE PlaceVideo
  <2>1. op.pc = "folders" /\ clipNode(op.path, entries[op.path].layout) \in Inode
    BY <1>1, <1>2, <1>4, InodeFacts DEF PlaceVideo, At
  <2>2. tree' \in Trees /\ ClosedTree(tree') /\ SameBut(tree, tree', Video[op.path])
    BY <1>1, <1>4, <2>1, PutFacts, AboveFacts DEF PlaceVideo
  <2>3. \A d \in Dirs(op.path) : tree'[d] # None
    BY <1>1, <1>4, <2>2, AboveFacts DEF PlaceVideo, SameBut
  <2> QED BY <1>1, <1>4, <2>1, <2>2, <2>3, BaseGoes, AboveFacts DEF PlaceVideo
<1>5. CASE PlaceInfo
  <2>1. op.pc = "info" /\ entries[op.path] \in Entry
    BY <1>1, <1>2, <1>5 DEF PlaceInfo, At
  <2>2. tree' \in Trees /\ ClosedTree(tree')
    BY <1>1, <1>5, <2>1, InfoFacts DEF PlaceInfo, Base, OpInv
  <2>3. PICK q \in Nodes \cup {None} : Goes("return", q)
    BY <1>1, <1>5, AboveFacts DEF PlaceInfo
  <2> QED BY <1>1, <2>2, <2>3, BaseGoes
<1> QED BY <1>3, <1>4, <1>5 DEF Placing

LEMMA BaseRemoving == Base /\ Removing => Base'
<1> SUFFICES ASSUME Base, Removing PROVE Base'
  OBVIOUS
<1>1. op # None /\ op \in Op /\ op.path \in Paths /\ tree \in Trees /\ ClosedTree(tree)
  BY OpFacts DEF Removing, RemoveVideo, RemoveInfo, RemoveFile, Prune, PruneEnd, At, Base, TypeOK, Trees
<1>2. CASE RemoveVideo
  <2>1. tree' \in Trees /\ ClosedTree(tree') /\ op.pc = "unvideo"
    BY <1>1, <1>2, WithoutFacts, AboveFacts DEF RemoveVideo, RemoveFile, At
  <2>2. PICK q \in Nodes \cup {None} : Goes("uninfo", q)
    BY <1>1, <1>2, AboveFacts DEF RemoveVideo, RemoveFile
  <2> QED BY <1>1, <2>1, <2>2, BaseGoes
<1>3. CASE RemoveInfo
  <2>1. tree' \in Trees /\ ClosedTree(tree') /\ op.pc = "uninfo"
    BY <1>1, <1>3, WithoutFacts, AboveFacts DEF RemoveInfo, RemoveFile, At
  <2>2. PICK q \in Nodes \cup {None} : Goes("prune", q)
    BY <1>1, <1>3, AboveFacts DEF RemoveInfo, RemoveFile
  <2> QED BY <1>1, <2>1, <2>2, BaseGoes
<1>4. CASE PruneEnd
  BY <1>1, <1>4, BaseGoes DEF PruneEnd
<1>5. ASSUME NEW d \in Nodes, Prune(d) PROVE Base'
  <2>1. tree' \in Trees /\ ClosedTree(tree')
    BY <1>1, <1>5, WithoutFacts DEF Prune
  <2>2. Above[d] \subseteq Nodes /\ Above[d] \subseteq op.up
    BY <1>5, AboveFacts DEF Prune
  <2>3. op' \in Op /\ op'.pc = op.pc /\ op'.path = op.path /\ op'.up = Above[d] /\ op.pc = "prune"
    <3>1. op' = [op EXCEPT !.up = Above[d]] /\ op.pc = "prune"
      BY <1>5 DEF Prune, At
    <3> QED BY <1>1, <2>2, <3>1, OpUp, Zenon
  <2>4. OpInv'
    BY <1>1, <1>5, <2>2, <2>3 DEF Prune, OpInv, Base, Dirs
  <2>5. mounted = "yes"
    BY <1>1 DEF Base, Unmounted
  <2>6. TypeOK'
    BY <1>5, <2>1, <2>3 DEF Prune, Base, TypeOK, Trees
  <2> QED BY <1>5, <2>1, <2>4, <2>5, <2>6 DEF Prune, Base, Unmounted, ClosedTree
<1> QED BY <1>2, <1>3, <1>4, <1>5 DEF Removing

LEMMA BaseOthers == Base /\ (Return \/ NotifyEntry \/ Kernel \/ UNCHANGED vars) => Base'
<1> SUFFICES ASSUME Base, Return \/ NotifyEntry \/ Kernel \/ UNCHANGED vars PROVE Base'
  OBVIOUS
<1>1. CASE Return
  BY <1>1 DEF Return, At, Base, TypeOK, ClosedTree, Unmounted, OpInv
<1>2. CASE NotifyEntry
  <2>1. DOMAIN cache' \subseteq DOMAIN cache /\ \A n \in DOMAIN cache' : cache'[n] = cache[n]
    BY <1>2 DEF NotifyEntry, Forgotten
  <2>2. TypeOK'
    BY <1>2, <2>1 DEF NotifyEntry, Base, TypeOK
  <2> QED BY <1>2, <2>1, <2>2 DEF NotifyEntry, Base, ClosedTree, Unmounted, OpInv
<1>3. CASE Answer
  <2>1. asked.node \in Nodes /\ asked.inode \in Inode \cup {None} /\ mounted = "yes"
    BY <1>3 DEF Answer, Base, TypeOK, Unmounted
  <2>2. TypeOK'
    BY <1>3, <2>1 DEF Answer, Base, TypeOK
  <2> QED BY <1>3, <2>1, <2>2 DEF Answer, Base, ClosedTree, Unmounted, OpInv
<1>4. ASSUME NEW q \in Nodes, Lookup(q) PROVE Base'
  <2>1. tree[q] \in Inode \cup {None}
    BY DEF Base, TypeOK
  <2>2. TypeOK'
    BY <1>4, <2>1 DEF Lookup, Base, TypeOK
  <2> QED BY <1>4, <2>2 DEF Lookup, Base, ClosedTree, Unmounted, OpInv
<1>5. ASSUME NEW q \in Nodes, Expire(q) PROVE Base'
  <2>1. DOMAIN cache' \subseteq DOMAIN cache /\ \A n \in DOMAIN cache' : cache'[n] = cache[n]
    BY <1>5 DEF Expire, Forgotten
  <2>2. TypeOK'
    BY <1>5, <2>1 DEF Expire, Base, TypeOK
  <2> QED BY <1>5, <2>1, <2>2 DEF Expire, Base, ClosedTree, Unmounted, OpInv
<1>6. CASE UNCHANGED vars
  BY <1>6 DEF vars, Base, TypeOK, ClosedTree, Unmounted, OpInv
<1> QED BY <1>1, <1>2, <1>3, <1>4, <1>5, <1>6 DEF Kernel

LEMMA BaseNext == Base /\ [Next]_vars => Base'
BY BaseMounting, BaseCalls, BasePlacing, BaseRemoving, BaseOthers DEF Next

\* Everything has its type.
THEOREM Types == Spec => []TypeOK
<1>1. Base => TypeOK
  BY DEF Base
<1> QED BY <1>1, BaseInit, BaseNext, PTL DEF Spec

-----------------------------------------------------------------------------
(* What the kernel remembers, and the answer it waits for.                   *)

Covered(n) == pending # None /\ (n = pending \/ pending \in Above[n])
FreshInv ==
  /\ \A n \in DOMAIN cache : cache[n] = tree[n] \/ Covered(n)
  /\ asked # None => asked.inode = tree[asked.node] \/ Covered(asked.node)

\* A call that changes the tree at q has nothing left to tell, and tells of q next.
LEMMA FreshChange ==
  ASSUME Base, FreshInv, pending = None, UNCHANGED <<cache, asked>>, NEW q \in Nodes,
         SameBut(tree, tree', q), pending' = q \/ tree' = tree
  PROVE  FreshInv'
<1>1. \A n \in Nodes : tree'[n] = tree[n] \/ Covered(n)'
  BY NoneAssumption DEF SameBut, Covered
<1>2. DOMAIN cache \subseteq Nodes /\ (asked # None => asked.node \in Nodes)
  BY DEF Base, TypeOK
<1>3. \A n \in DOMAIN cache : cache[n] = tree[n]
  BY DEF FreshInv, Covered
<1>4. asked # None => asked.inode = tree[asked.node]
  BY DEF FreshInv, Covered
<1> QED BY <1>1, <1>2, <1>3, <1>4 DEF FreshInv

LEMMA FreshNext == Base /\ FreshInv /\ [Next]_vars => FreshInv'
<1> SUFFICES ASSUME Base, FreshInv, [Next]_vars PROVE FreshInv'
  OBVIOUS
<1>1. CASE Mounting
  BY <1>1 DEF Mounting, OnAdd, OnAddEnd, OnAddPlace, Free, Base, Unmounted, FreshInv
<1>2. CASE Calls \/ Return \/ PruneEnd \/ UNCHANGED vars
  BY <1>2 DEF Calls, SetClip, RemoveClip, Return, PruneEnd, Goes, At, vars, FreshInv, Covered
<1>3. CASE Placing \/ RemoveVideo \/ RemoveInfo \/ \E d \in Nodes : Prune(d)
  <2>1. op # None /\ op \in Op /\ op.path \in Paths /\ tree \in Trees /\ ClosedTree(tree)
        /\ pending = None /\ UNCHANGED <<cache, asked>>
    BY <1>3, OpFacts DEF Placing, PlaceFolder, PlaceVideo, PlaceInfo, RemoveVideo, RemoveInfo, RemoveFile,
                         Prune, Goes, At, Base, TypeOK, Trees
  <2>2. Video[op.path] \in Nodes /\ Info[op.path] \in Nodes
    BY <2>1, AboveFacts
  <2>3. ASSUME NEW d \in Nodes, PlaceFolder(d) PROVE FreshInv'
    <3>1. SameBut(tree, tree', d) /\ pending' = d
      BY <2>1, <2>3 DEF PlaceFolder, Goes, SameBut, Trees
    <3> QED BY <2>1, <3>1, FreshChange
  <2>4. ASSUME PlaceVideo PROVE FreshInv'
    <3>1. clipNode(op.path, entries[op.path].layout) \in Inode
      BY <2>1, <2>4, InodeFacts DEF PlaceVideo, At, Base, OpInv, TypeOK
    <3>2. SameBut(tree, tree', Video[op.path]) /\ pending' = Video[op.path]
      BY <2>1, <2>2, <2>4, <3>1, PutFacts DEF PlaceVideo, Goes
    <3> QED BY <2>1, <2>2, <3>2, FreshChange
  <2>5. ASSUME PlaceInfo PROVE FreshInv'
    <3>1. entries[op.path] \in Entry
      BY <2>1, <2>5 DEF PlaceInfo, At, Base, OpInv, TypeOK
    <3>2. SameBut(tree, tree', Info[op.path]) /\ (pending' = Info[op.path] \/ tree' = tree)
      BY <2>1, <2>5, <3>1, InfoFacts DEF PlaceInfo, Goes
    <3> QED BY <2>1, <2>2, <3>2, FreshChange
  <2>6. ASSUME NEW q \in Nodes, NEW from, NEW to, RemoveFile(from, q, to) PROVE FreshInv'
    <3>1. SameBut(tree, tree', q) /\ (pending' = q \/ tree' = tree)
      BY <2>1, <2>6, WithoutFacts DEF RemoveFile, Goes
    <3> QED BY <2>1, <3>1, FreshChange
  <2>7. ASSUME NEW d \in Nodes, Prune(d) PROVE FreshInv'
    <3>1. SameBut(tree, tree', d) /\ pending' = d
      BY <2>1, <2>7, WithoutFacts DEF Prune
    <3> QED BY <2>1, <3>1, FreshChange
  <2> QED BY <1>3, <2>2, <2>3, <2>4, <2>5, <2>6, <2>7 DEF Placing, RemoveVideo, RemoveInfo
<1>4. CASE NotifyEntry
  <2>1. ASSUME NEW n \in DOMAIN cache' PROVE cache'[n] = tree[n]
    <3>1. n \in DOMAIN cache /\ n # pending /\ n \notin Below(pending) /\ cache'[n] = cache[n]
      BY <1>4, <2>1 DEF NotifyEntry, Forgotten
    <3>2. n \in Nodes
      BY <3>1 DEF Base, TypeOK
    <3> QED BY <3>1, <3>2 DEF FreshInv, Covered, Below
  <2>2. asked' # None => asked' = asked /\ ~Covered(asked.node)
    BY <1>4 DEF NotifyEntry, Covered
  <2> QED BY <1>4, <2>1, <2>2 DEF NotifyEntry, FreshInv
<1>5. CASE Answer
  BY <1>5 DEF Answer, FreshInv, Covered
<1>6. ASSUME NEW q \in Nodes, Lookup(q) PROVE FreshInv'
  <2>1. asked' # None /\ asked'.inode = tree[asked'.node]
    BY <1>6, NoneAssumption DEF Lookup, Base, TypeOK
  <2> QED BY <1>6, <2>1 DEF Lookup, FreshInv, Covered
<1>7. ASSUME NEW q \in Nodes, Expire(q) PROVE FreshInv'
  BY <1>7 DEF Expire, Forgotten, FreshInv, Covered
<1> QED BY <1>1, <1>2, <1>3, <1>4, <1>5, <1>6, <1>7 DEF Next, Removing, Kernel

\* What the kernel remembers is what the tree has, except for the one name that a call has
\* changed and not announced yet (place, RemoveClip, prune).
THEOREM CacheIsFresh == Spec => []CacheFresh
<1>1. Init => FreshInv
  BY DEF Init, FreshInv
<1>2. FreshInv => CacheFresh
  BY DEF FreshInv, CacheFresh, Covered
<1> QED BY <1>1, <1>2, FreshNext, BaseInit, BaseNext, PTL DEF Spec

-----------------------------------------------------------------------------
(* The tree: a clip that is alone in its names is never taken out of it    *)
(* while there is an entry for it.                                         *)

(* What the steps of a call have in common.                                  *)

LEMMA Calling ==
  ASSUME Base, Placing \/ Removing
  PROVE  /\ op # None /\ op \in Op /\ op.path \in Paths
         /\ tree \in Trees /\ ClosedTree(tree) /\ mounted = "yes"
         /\ Video[op.path] \in Nodes /\ Info[op.path] \in Nodes
         /\ entries' = entries /\ mounted' = "yes" /\ todo' = todo
<1>1. op # None
  BY DEF Placing, PlaceFolder, PlaceVideo, PlaceInfo,
         Removing, RemoveVideo, RemoveInfo, RemoveFile, Prune, PruneEnd, At
<1>2. entries' = entries /\ mounted' = mounted /\ todo' = todo
  BY DEF Placing, PlaceFolder, PlaceVideo, PlaceInfo,
         Removing, RemoveVideo, RemoveInfo, RemoveFile, Prune, PruneEnd, Goes
<1> QED BY <1>1, <1>2, OpFacts, AboveFacts DEF Base, TypeOK, Unmounted, Trees

LEMMA GoesOp ==
  ASSUME Base, op # None, NEW pc \in {"folders", "info", "uninfo", "prune", "return"},
         NEW q, Goes(pc, q)
  PROVE  op' \in Op /\ op' # None /\ op'.pc = pc /\ op'.path = op.path /\ op'.up = op.up
<1>1. op \in Op
  BY DEF Base, TypeOK
<1>2. op' = [op EXCEPT !.pc = pc]
  BY DEF Goes
<1>3. pc \in {"folders", "info", "unvideo", "uninfo", "prune", "return"}
  OBVIOUS
<1>4. op' \in Op /\ op'.pc = pc /\ op'.path = op.path /\ op'.up = op.up
  BY <1>1, <1>2, <1>3, OpGoes, Zenon
<1> QED BY <1>4, OpFacts

LEMMA PruneOp ==
  ASSUME Base, NEW d \in Nodes, Prune(d)
  PROVE  /\ op.pc = "prune" /\ op' \in Op /\ op' # None
         /\ op'.pc = "prune" /\ op'.path = op.path /\ op'.up = Above[d]
         /\ d \in Dirs(op.path) /\ Children(tree, d) = {} /\ tree[d] # None
         /\ tree' = Without(tree, d)
<1>1. op \in Op /\ op.pc = "prune" /\ op # None
  BY DEF Prune, At, Base, TypeOK
<1>2. op' = [op EXCEPT !.up = Above[d]] /\ Above[d] \in SUBSET Nodes
  BY AboveFacts DEF Prune
<1>3. op' \in Op /\ op'.pc = op.pc /\ op'.path = op.path /\ op'.up = Above[d]
  BY <1>1, <1>2, OpUp, Zenon
<1>4. d \in Dirs(op.path)
  BY <1>1 DEF Prune, Base, OpInv
<1> QED BY <1>1, <1>3, <1>4, OpFacts DEF Prune, Empty

\* What the steps put and take.
LEMMA PlaceSteps ==
  ASSUME Base, Placing
  PROVE  \/ \E d \in Dirs(op.path) :
              /\ op.pc = "folders" /\ tree[d] = None /\ (\A a \in Above[d] : tree[a] # None)
              /\ tree' = [tree EXCEPT ![d] = Folder] /\ op'.pc = "folders"
         \/ /\ op.pc = "folders" /\ \A d \in Dirs(op.path) : tree[d] # None
            /\ clipNode(op.path, entries[op.path].layout) \in Inode
            /\ tree' = Put(tree, Video[op.path], clipNode(op.path, entries[op.path].layout))
            /\ op'.pc = "info"
         \/ /\ op.pc = "info" /\ entries[op.path] \in Entry
            /\ tree' = WithInfo(tree, op.path, entries[op.path]) /\ op'.pc = "return"
<1>1. op # None /\ op.path \in Paths
  BY Calling
<1>2. op.pc \in {"folders", "info"} => entries[op.path] \in Entry
  BY <1>1 DEF Base, OpInv, TypeOK
<1>3. ASSUME NEW d \in Nodes, PlaceFolder(d) PROVE op'.pc = "folders"
  BY <1>1, <1>3, GoesOp DEF PlaceFolder
<1>4. ASSUME PlaceVideo PROVE op'.pc = "info"
  BY <1>1, <1>4, GoesOp DEF PlaceVideo
<1>5. ASSUME PlaceInfo PROVE op'.pc = "return"
  <2>1. PICK q : Goes("return", q)
    BY <1>5 DEF PlaceInfo
  <2> QED BY <1>1, <2>1, GoesOp
<1> QED BY <1>1, <1>2, <1>3, <1>4, <1>5, InodeFacts DEF Placing, PlaceFolder, PlaceVideo, PlaceInfo, At

LEMMA RemoveSteps ==
  ASSUME Base, Removing
  PROVE  \/ op.pc = "unvideo" /\ tree' = Without(tree, Video[op.path]) /\ op'.pc = "uninfo" /\ op'.up = op.up
         \/ op.pc = "uninfo" /\ tree' = Without(tree, Info[op.path]) /\ op'.pc = "prune" /\ op'.up = op.up
         \/ PruneEnd /\ op.pc = "prune" /\ tree' = tree /\ op'.pc = "return"
         \/ \E d \in Nodes : Prune(d)
<1>1. op # None
  BY Calling
<1>2. CASE RemoveVideo
  <2>1. PICK q : Goes("uninfo", q)
    BY <1>2 DEF RemoveVideo, RemoveFile
  <2>2. op'.pc = "uninfo" /\ op'.up = op.up
    BY <1>1, <2>1, GoesOp
  <2> QED BY <1>2, <2>2 DEF RemoveVideo, RemoveFile, At
<1>3. CASE RemoveInfo
  <2>1. PICK q : Goes("prune", q)
    BY <1>3 DEF RemoveInfo, RemoveFile
  <2>2. op'.pc = "prune" /\ op'.up = op.up
    BY <1>1, <2>1, GoesOp
  <2> QED BY <1>3, <2>2 DEF RemoveInfo, RemoveFile, At
<1>4. CASE PruneEnd
  <2>1. op'.pc = "return"
    BY <1>1, <1>4, GoesOp DEF PruneEnd
  <2> QED BY <1>4, <2>1 DEF PruneEnd, At
<1> QED BY <1>2, <1>3, <1>4 DEF Removing

LEMMA SamePath ==
  ASSUME Base, Placing \/ Removing
  PROVE  op' # None /\ op'.path = op.path
<1>1. op # None
  BY Calling
<1>2. (\E d \in Nodes : Prune(d)) \/ \E pc \in {"folders", "info", "uninfo", "prune", "return"} : \E q : Goes(pc, q)
  BY DEF Placing, PlaceFolder, PlaceVideo, PlaceInfo, Removing, RemoveVideo, RemoveInfo, RemoveFile, PruneEnd
<1> QED BY <1>1, <1>2, GoesOp, PruneOp

-----------------------------------------------------------------------------
(* A clip that is alone in its names, and what other clips do to it.         *)

\* Changing the file of another clip changes nothing.
LEMMA OthersFile ==
  ASSUME NEW p \in Paths, Alone(p), NEW r \in Paths, r # p, NEW q \in Files(r),
         NEW t, NEW u, SameBut(t, u, q)
  PROVE  u[Video[p]] = t[Video[p]] /\ u[Info[p]] = t[Info[p]]
<1>1. q \notin Files(p) /\ q \notin Dirs(p)
  BY PathsAssumption DEF Alone, Files
<1> QED BY <1>1, AboveFacts DEF SameBut, Files

\* So does changing its NFO to its video, and its video to its NFO.
LEMMA OwnFile ==
  ASSUME NEW p \in Paths, NEW t, NEW u
  PROVE  /\ SameBut(t, u, Info[p]) => u[Video[p]] = t[Video[p]]
         /\ SameBut(t, u, Video[p]) => u[Info[p]] = t[Info[p]]
BY AboveFacts DEF SameBut

\* No folder of a clip has the name of a file of a clip that is alone.
LEMMA FolderName ==
  ASSUME NEW p \in Paths, Alone(p), NEW r \in Paths, NEW d \in Dirs(r)
  PROVE  d # Video[p] /\ d # Info[p]
BY DEF Alone, Files

\* Folders made for a clip.
LEMMA FolderMade ==
  ASSUME NEW p \in Paths, Alone(p), NEW r \in Paths, NEW t \in Trees
  PROVE  /\ \A d \in Dirs(r) : LET u == [t EXCEPT ![d] = Folder]
                               IN  u[Video[p]] = t[Video[p]] /\ u[Info[p]] = t[Info[p]]
         /\ WithFolders(t, r)[Video[p]] = t[Video[p]] /\ WithFolders(t, r)[Info[p]] = t[Info[p]]
<1>1. Video[p] \notin Dirs(r) /\ Info[p] \notin Dirs(r)
  BY FolderName
<1>2. Video[p] \in Nodes /\ Info[p] \in Nodes
  BY AboveFacts
<1> QED BY <1>1, <1>2, FoldersFacts DEF Trees

\* An empty folder is taken away from above nothing.
LEMMA FolderTaken ==
  ASSUME NEW p \in Paths, Alone(p), NEW r \in Paths, NEW t \in Trees, ClosedTree(t),
         NEW d \in Dirs(r), Children(t, d) = {}
  PROVE  Without(t, d)[Video[p]] = t[Video[p]] /\ Without(t, d)[Info[p]] = t[Info[p]]
<1>1. d \in Nodes /\ d # Video[p] /\ d # Info[p]
  BY FolderName, AboveFacts
<1>2. CASE d \in Dirs(p)
  <2>1. t[Video[p]] = None /\ t[Info[p]] = None
    BY <1>1, <1>2, EmptyBelow, AboveFacts
  <2> QED BY <1>1, <2>1, WithoutFacts, AboveFacts
<1>3. CASE d \notin Dirs(p)
  <2>1. SameBut(t, Without(t, d), d)
    BY <1>1, WithoutFacts
  <2>2. d \notin Above[Video[p]] /\ d \notin Above[Info[p]] /\ Video[p] \in Nodes /\ Info[p] \in Nodes
    BY <1>3, AboveFacts
  <2> QED BY <1>1, <2>1, <2>2 DEF SameBut
<1> QED BY <1>2, <1>3

\* What OnAdd does for one entry, and for the clips that are alone beside it.
LEMMA Placed ==
  ASSUME NEW r \in Paths, NEW e \in Entry, NEW t \in Trees,
         NEW u, u = WithInfo(Put(WithFolders(t, r), Video[r], clipNode(r, e.layout)), r, e)
  PROVE  /\ u[Video[r]] = clipNode(r, e.layout)
         /\ u[Info[r]] = IF e.nfo = None THEN None ELSE staticNode(r, e.nfo)
         /\ \A p \in Paths : p # r /\ Alone(p) => u[Video[p]] = t[Video[p]] /\ u[Info[p]] = t[Info[p]]
         /\ \A n \in Nodes : n \notin Files(r) /\ u[n] # None => u[n] = t[n] \/ (u[n] = Folder /\ t[n] = None)
         /\ \A d \in Dirs(r) : u[d] # None
<1> DEFINE a == WithFolders(t, r)
           b == Put(a, Video[r], clipNode(r, e.layout))
<1>1. clipNode(r, e.layout) \in Inode /\ a \in Trees /\ Video[r] \in Nodes /\ Info[r] \in Nodes
  BY InodeFacts, FoldersFacts, AboveFacts
<1>2. /\ b \in Trees /\ SameBut(a, b, Video[r]) /\ b[Video[r]] = clipNode(r, e.layout)
      /\ \A n \in Nodes : n # Video[r] /\ b[n] # None => b[n] = a[n]
  BY <1>1, PutFacts
<1>3. /\ SameBut(b, u, Info[r])
      /\ u[Info[r]] = IF e.nfo = None THEN None ELSE staticNode(r, e.nfo)
      /\ \A n \in Nodes : n # Info[r] /\ u[n] # None => u[n] = b[n]
  BY <1>2, InfoFacts
<1>4. u[Video[r]] = clipNode(r, e.layout)
  BY <1>2, <1>3, OwnFile
<1>5. ASSUME NEW p \in Paths, p # r, Alone(p)
      PROVE  u[Video[p]] = t[Video[p]] /\ u[Info[p]] = t[Info[p]]
  <2>1. Video[r] \in Files(r) /\ Info[r] \in Files(r)
    BY DEF Files
  <2>2. b[Video[p]] = a[Video[p]] /\ b[Info[p]] = a[Info[p]]
    BY <1>2, <1>5, <2>1, OthersFile
  <2>3. u[Video[p]] = b[Video[p]] /\ u[Info[p]] = b[Info[p]]
    BY <1>3, <1>5, <2>1, OthersFile
  <2>4. a[Video[p]] = t[Video[p]] /\ a[Info[p]] = t[Info[p]]
    BY <1>5, FolderMade
  <2> QED BY <2>2, <2>3, <2>4
<1>6. \A n \in Nodes : n \notin Files(r) /\ u[n] # None => u[n] = t[n] \/ (u[n] = Folder /\ t[n] = None)
  BY <1>2, <1>3, FoldersFacts DEF Files
<1>7. \A d \in Dirs(r) : u[d] # None
  <2>1. \A d \in Dirs(r) : a[d] # None /\ d \in Nodes
    BY FoldersFacts, AboveFacts
  <2> QED BY <1>2, <1>3, <2>1, AboveFacts DEF SameBut
<1> QED BY <1>3, <1>4, <1>5, <1>6, <1>7

-----------------------------------------------------------------------------
(* A clip is never taken out of the tree while there is an entry for it.     *)

LEMMA NotBlanked ==
  ASSUME Base, [Next]_vars, NEW p \in Paths, Alone(p), tree[Video[p]] # None, entries'[p] # None
  PROVE  tree'[Video[p]] # None
<1>1. CASE UNCHANGED tree
  BY <1>1
<1>2. ASSUME NEW r \in Paths, OnAddPlace(r) PROVE tree'[Video[p]] # None
  <2>1. tree \in Trees /\ entries[r] \in Entry
    BY <1>2 DEF OnAddPlace, Base, TypeOK, Trees
  <2>2. tree' = WithInfo(Put(WithFolders(tree, r), Video[r], clipNode(r, entries[r].layout)), r, entries[r])
    BY <1>2 DEF OnAddPlace
  <2>3. clipNode(r, entries[r].layout) # None
    BY <2>1, InodeFacts
  <2> QED BY <2>1, <2>2, <2>3, Placed
<1>3. CASE Placing
  <2> DEFINE r == op.path
  <2>1. r \in Paths /\ tree \in Trees /\ ClosedTree(tree) /\ Video[r] \in Nodes /\ Info[r] \in Nodes
    BY <1>3, Calling
  <2>2. Video[r] \in Files(r) /\ Info[r] \in Files(r)
    BY DEF Files
  <2>3. CASE \E d \in Dirs(r) : tree' = [tree EXCEPT ![d] = Folder]
    BY <2>1, <2>3, FolderMade
  <2>4. ASSUME NEW i \in Inode, tree' = Put(tree, Video[r], i) PROVE tree'[Video[p]] # None
    <3>1. SameBut(tree, tree', Video[r]) /\ tree'[Video[r]] = i /\ i # None
      BY <2>1, <2>4, PutFacts, InodeFacts
    <3> QED BY <2>1, <2>2, <3>1, OthersFile
  <2>5. ASSUME NEW e \in Entry, tree' = WithInfo(tree, r, e) PROVE tree'[Video[p]] # None
    <3>1. SameBut(tree, tree', Info[r])
      BY <2>1, <2>5, InfoFacts
    <3> QED BY <2>1, <2>2, <3>1, OthersFile, OwnFile
  <2> QED BY <1>3, <2>3, <2>4, <2>5, PlaceSteps
<1>4. CASE Removing
  <2> DEFINE r == op.path
  <2>1. /\ r \in Paths /\ tree \in Trees /\ ClosedTree(tree) /\ Video[r] \in Nodes /\ Info[r] \in Nodes
        /\ entries' = entries /\ op # None
    BY <1>4, Calling
  <2>2. CASE \E d \in Nodes : Prune(d)
    BY <2>1, <2>2, PruneOp, FolderTaken
  <2>3. CASE op.pc \in {"unvideo", "uninfo"}
    <3>1. r # p
      BY <2>1, <2>3 DEF Base, OpInv
    <3>2. \E q \in Files(r) : SameBut(tree, tree', q)
      BY <1>4, <2>1, <2>3, RemoveSteps, PruneOp, WithoutFacts DEF Files
    <3> QED BY <2>1, <3>1, <3>2, OthersFile
  <2> QED BY <1>1, <1>4, <2>2, <2>3, RemoveSteps
<1>5. \/ UNCHANGED tree
      \/ \E r \in Paths : OnAddPlace(r)
      \/ Placing \/ Removing
  BY DEF Next, vars, Mounting, OnAdd, OnAddEnd, Calls, SetClip, RemoveClip, Return, NotifyEntry,
         Kernel, Lookup, Answer, Expire
<1> QED BY <1>1, <1>2, <1>3, <1>4, <1>5

\* A clip that is alone in its names stays in the tree while there is an entry for it,
\* whatever is replaced (SetClip, place).
THEOREM ClipsStay == Spec => NeverBlanked
<1> DEFINE Step == \A p \in Paths : Alone(p) /\ tree[Video[p]] # None /\ entries'[p] # None
                                      => tree'[Video[p]] # None
<1>1. Base /\ [Next]_vars => Step
  BY NotBlanked
<1> QED BY <1>1, BaseInit, BaseNext, PTL DEF Spec, NeverBlanked

-----------------------------------------------------------------------------
(* What the tree shows is what the entries ask for, except for the files of  *)
(* the clip that a call is changing.                                         *)

Busy(p, pcs) == op # None /\ op.path = p /\ op.pc \in pcs
VideoLate(p) == Busy(p, {"folders", "unvideo"})
InfoLate(p) == Busy(p, {"folders", "info", "unvideo", "uninfo"})

IsVideo(i, p) == i # None /\ i.kind = "video" /\ i.path = p
IsInfo(i, p) == i # None /\ i.kind = "info" /\ i.path = p

FileAt(n, p) ==
  /\ IsVideo(tree[n], p) => n = Video[p] /\ (tree[n] = WantedVideo(p) \/ VideoLate(p))
  /\ IsInfo(tree[n], p) => n = Info[p] /\ (tree[n] = WantedInfo(p) \/ InfoLate(p))
FileInv == \A p \in Paths : \A n \in Nodes : FileAt(n, p)

Ready(p) == mounted = "yes" \/ (mounted = "adding" /\ p \notin todo)
AloneAt(p) ==
  /\ Ready(p) /\ ~VideoLate(p) => tree[Video[p]] = WantedVideo(p)
  /\ Ready(p) /\ ~InfoLate(p) => tree[Info[p]] = WantedInfo(p)
AloneInv == \A p \in Paths : Alone(p) => AloneAt(p)

LEMMA KindFacts ==
  /\ \A l : \A p, r \in Paths : (IsVideo(clipNode(r, l), p) => p = r) /\ ~IsInfo(clipNode(r, l), p)
  /\ \A m : \A p, r \in Paths : (IsInfo(staticNode(r, m), p) => p = r) /\ ~IsVideo(staticNode(r, m), p)
  /\ \A p \in Paths : \A i \in {Folder, None} : ~IsVideo(i, p) /\ ~IsInfo(i, p)
BY DEF IsVideo, IsInfo, clipNode, staticNode, Folder

LEMMA WantedSame ==
  ASSUME NEW p \in Paths, entries'[p] = entries[p]
  PROVE  WantedVideo(p)' = WantedVideo(p) /\ WantedInfo(p)' = WantedInfo(p)
BY DEF WantedVideo, WantedInfo, clipNode, staticNode

LEMMA WantedIs ==
  ASSUME NEW p \in Paths
  PROVE  /\ entries[p] = None => WantedVideo(p) = None /\ WantedInfo(p) = None
         /\ entries[p] \in Entry =>
              /\ WantedVideo(p) = clipNode(p, entries[p].layout)
              /\ WantedInfo(p) = IF entries[p].nfo = None THEN None ELSE staticNode(p, entries[p].nfo)
BY InodeFacts DEF WantedVideo, WantedInfo

\* A step that takes nodes away, and no more, of clips it does not finish.
LEMMA FileTaken ==
  ASSUME FileInv, entries' = entries, NEW p \in Paths, NEW n \in Nodes,
         tree'[n] = None \/ tree'[n] = tree[n] \/ tree'[n] = Folder,
         IsVideo(tree[n], p) /\ VideoLate(p) => VideoLate(p)' \/ tree'[n] = None,
         IsInfo(tree[n], p) /\ InfoLate(p) => InfoLate(p)' \/ tree'[n] = None
  PROVE  FileAt(n, p)'
<1>1. WantedVideo(p)' = WantedVideo(p) /\ WantedInfo(p)' = WantedInfo(p) /\ FileAt(n, p)
  BY WantedSame DEF FileInv
<1>2. CASE tree'[n] \in {None, Folder}
  BY <1>2, KindFacts DEF FileAt
<1>3. CASE tree'[n] = tree[n] /\ tree'[n] # None
  BY <1>1, <1>3 DEF FileAt
<1> QED BY <1>2, <1>3

LEMMA FileMounting == Base /\ FileInv /\ Mounting => FileInv'
<1> SUFFICES ASSUME Base, FileInv, Mounting, NEW p \in Paths, NEW n \in Nodes PROVE FileAt(n, p)'
  BY DEF FileInv
<1>1. entries' = entries /\ op' = op
  BY DEF Mounting, OnAdd, OnAddEnd, OnAddPlace
<1>2. CASE tree' = tree
  BY <1>1, <1>2, FileTaken DEF VideoLate, InfoLate, Busy
<1>3. ASSUME NEW r \in Paths, OnAddPlace(r) PROVE FileAt(n, p)'
  <2>1. tree \in Trees /\ entries[r] \in Entry
    BY <1>3 DEF OnAddPlace, Base, TypeOK, Trees
  <2>2. tree' = WithInfo(Put(WithFolders(tree, r), Video[r], clipNode(r, entries[r].layout)), r, entries[r])
    BY <1>3 DEF OnAddPlace
  <2>3. CASE n \notin Files(r)
    <3>1. tree'[n] = None \/ tree'[n] = tree[n] \/ tree'[n] = Folder
      BY <2>1, <2>2, <2>3, Placed
    <3> QED BY <1>1, <3>1, FileTaken DEF VideoLate, InfoLate, Busy
  <2>4. CASE n = Video[r]
    <3>1. tree'[n] = clipNode(r, entries[r].layout)
      BY <2>1, <2>2, <2>4, Placed
    <3>2. tree'[n] = WantedVideo(r)'
      BY <1>1, <2>1, <3>1, WantedIs, WantedSame
    <3> QED BY <2>4, <3>1, <3>2, KindFacts DEF FileAt
  <2>5. CASE n = Info[r]
    <3>1. tree'[n] = IF entries[r].nfo = None THEN None ELSE staticNode(r, entries[r].nfo)
      BY <2>1, <2>2, <2>5, Placed
    <3>2. tree'[n] = WantedInfo(r)'
      BY <1>1, <2>1, <3>1, WantedIs, WantedSame
    <3> QED BY <2>5, <3>1, <3>2, KindFacts DEF FileAt
  <2> QED BY <2>3, <2>4, <2>5 DEF Files
<1> QED BY <1>2, <1>3 DEF Mounting, OnAdd, OnAddEnd

LEMMA FileCalls == Base /\ FileInv /\ Calls => FileInv'
<1> SUFFICES ASSUME Base, FileInv, Calls, NEW p \in Paths, NEW n \in Nodes PROVE FileAt(n, p)'
  BY DEF FileInv
<1>1. FileAt(n, p) /\ tree' = tree /\ op = None
  BY DEF FileInv, Calls, SetClip, RemoveClip, Free
<1>2. ~VideoLate(p) /\ ~InfoLate(p)
  BY <1>1 DEF VideoLate, InfoLate, Busy
<1>3. CASE entries'[p] = entries[p]
  <2>1. WantedVideo(p)' = WantedVideo(p) /\ WantedInfo(p)' = WantedInfo(p)
    BY <1>3, WantedSame
  <2> QED BY <1>1, <1>2, <2>1 DEF FileAt
<1>4. CASE entries'[p] # entries[p]
  <2>1. (\E e \in Entry : SetClip(p, e)) \/ RemoveClip(p)
    BY <1>4 DEF Calls, SetClip, RemoveClip, Base, TypeOK
  <2>2. mounted # "adding"
    BY <2>1 DEF SetClip, RemoveClip, Free
  <2>3. CASE mounted = "no"
    BY <1>1, <2>3, KindFacts DEF FileAt, Base
  <2>4. CASE mounted = "yes" /\ op' # None
    BY <1>1, <1>2, <2>1, <2>4 DEF FileAt, SetClip, RemoveClip, VideoLate, InfoLate, Busy
  <2>5. CASE mounted = "yes" /\ op' = None
    <3>1. ~\A d \in Dirs(p) : tree[d] # None
      <4>1. [pc |-> "unvideo", path |-> p, up |-> Dirs(p)] # None
            /\ [pc |-> "folders", path |-> p, up |-> {}] # None
        BY AboveFacts, OpFacts DEF Op
      <4> QED BY <2>1, <2>5, <4>1 DEF SetClip, RemoveClip
    <3>2. tree[Video[p]] = None /\ tree[Info[p]] = None
      BY <3>1, AboveFacts DEF Base, ClosedTree
    <3>3. ~IsVideo(tree[n], p) /\ ~IsInfo(tree[n], p)
      BY <1>1, <3>2, KindFacts DEF FileAt
    <3> QED BY <1>1, <3>3 DEF FileAt
  <2> QED BY <2>2, <2>3, <2>4, <2>5 DEF Base, TypeOK
<1> QED BY <1>3, <1>4

LEMMA FilePlacing == Base /\ FileInv /\ Placing => FileInv'
<1> SUFFICES ASSUME Base, FileInv, Placing, NEW p \in Paths, NEW n \in Nodes PROVE FileAt(n, p)'
  BY DEF FileInv
<1> DEFINE r == op.path
<1>1. /\ r \in Paths /\ tree \in Trees /\ Video[r] \in Nodes /\ Info[r] \in Nodes
      /\ entries' = entries /\ op # None /\ op' # None /\ op'.path = r
  BY Calling, SamePath
<1>2. entries'[p] = entries[p]
  BY <1>1
<1>3. CASE \E d \in Dirs(r) : tree' = [tree EXCEPT ![d] = Folder] /\ op.pc = "folders" /\ op'.pc = "folders"
  BY <1>1, <1>3, FileTaken DEF Trees, VideoLate, InfoLate, Busy
<1>4. ASSUME op.pc = "folders", op'.pc = "info", NEW i \in Inode, i = clipNode(r, entries[r].layout),
             tree' = Put(tree, Video[r], i)
      PROVE  FileAt(n, p)'
  <2>1. entries[r] \in Entry
    BY <1>1, <1>4 DEF Base, OpInv, TypeOK
  <2>2. CASE n = Video[r]
    <3>1. tree'[n] = i
      BY <1>1, <1>4, <2>2, PutFacts
    <3>2. tree'[n] = WantedVideo(r)'
      BY <1>1, <1>4, <2>1, <3>1, WantedIs, WantedSame
    <3> QED BY <1>1, <1>4, <2>2, <3>1, <3>2, KindFacts DEF FileAt
  <2>3. CASE n # Video[r]
    <3>1. tree'[n] = None \/ tree'[n] = tree[n]
      BY <1>1, <1>4, <2>3, PutFacts
    <3>2. IsVideo(tree[n], p) => p # r
      BY <2>3 DEF FileInv, FileAt
    <3> QED BY <1>1, <1>4, <3>1, <3>2, FileTaken DEF VideoLate, InfoLate, Busy
  <2> QED BY <2>2, <2>3
<1>5. ASSUME op.pc = "info", op'.pc = "return", entries[r] \in Entry, tree' = WithInfo(tree, r, entries[r])
      PROVE  FileAt(n, p)'
  <2>1. CASE n = Info[r]
    <3>1. tree'[n] = IF entries[r].nfo = None THEN None ELSE staticNode(r, entries[r].nfo)
      BY <1>1, <1>5, <2>1, InfoFacts
    <3>2. tree'[n] = WantedInfo(r)'
      BY <1>1, <1>5, <3>1, WantedIs, WantedSame
    <3> QED BY <1>1, <2>1, <3>1, <3>2, KindFacts DEF FileAt
  <2>2. CASE n # Info[r]
    <3>1. tree'[n] = None \/ tree'[n] = tree[n]
      BY <1>1, <1>5, <2>2, InfoFacts
    <3>2. IsInfo(tree[n], p) => p # r
      BY <2>2 DEF FileInv, FileAt
    <3> QED BY <1>1, <1>5, <3>1, <3>2, FileTaken DEF VideoLate, InfoLate, Busy
  <2> QED BY <2>1, <2>2
<1> QED BY <1>3, <1>4, <1>5, PlaceSteps

LEMMA FileRemoving == Base /\ FileInv /\ Removing => FileInv'
<1> SUFFICES ASSUME Base, FileInv, Removing, NEW p \in Paths, NEW n \in Nodes PROVE FileAt(n, p)'
  BY DEF FileInv
<1> DEFINE r == op.path
<1>1. /\ r \in Paths /\ tree \in Trees /\ Video[r] \in Nodes /\ Info[r] \in Nodes
      /\ entries' = entries /\ op # None /\ op' # None /\ op'.path = r
  BY Calling, SamePath
<1>2. CASE op.pc = "unvideo" /\ tree' = Without(tree, Video[r]) /\ op'.pc = "uninfo"
  <2>1. tree'[n] = None \/ (tree'[n] = tree[n] /\ n # Video[r])
    BY <1>1, <1>2, WithoutFacts
  <2>2. IsVideo(tree[n], r) => n = Video[r]
    BY <1>1 DEF FileInv, FileAt
  <2> QED BY <1>1, <1>2, <2>1, <2>2, FileTaken DEF VideoLate, InfoLate, Busy
<1>3. CASE op.pc = "uninfo" /\ tree' = Without(tree, Info[r]) /\ op'.pc = "prune"
  <2>1. tree'[n] = None \/ (tree'[n] = tree[n] /\ n # Info[r])
    BY <1>1, <1>3, WithoutFacts
  <2>2. IsInfo(tree[n], r) => n = Info[r]
    BY <1>1 DEF FileInv, FileAt
  <2> QED BY <1>1, <1>3, <2>1, <2>2, FileTaken DEF VideoLate, InfoLate, Busy
<1>4. CASE op.pc = "prune" /\ tree' = tree /\ op'.pc = "return"
  BY <1>1, <1>4, FileTaken DEF VideoLate, InfoLate, Busy
<1>5. ASSUME NEW d \in Nodes, Prune(d) PROVE FileAt(n, p)'
  <2>1. tree'[n] = None \/ tree'[n] = tree[n]
    <3>1. tree' = Without(tree, d)
      BY <1>5, PruneOp
    <3> QED BY <1>1, <3>1, WithoutFacts
  <2>2. op.pc = "prune" /\ op'.pc = "prune"
    BY <1>5, PruneOp
  <2> QED BY <1>1, <2>1, <2>2, FileTaken DEF VideoLate, InfoLate, Busy
<1> QED BY <1>2, <1>3, <1>4, <1>5, RemoveSteps

LEMMA FileOthers == Base /\ FileInv /\ (Return \/ NotifyEntry \/ Kernel \/ UNCHANGED vars) => FileInv'
<1> SUFFICES ASSUME Base, FileInv, Return \/ NotifyEntry \/ Kernel \/ UNCHANGED vars,
                    NEW p \in Paths, NEW n \in Nodes
             PROVE  FileAt(n, p)'
  BY DEF FileInv
<1>1. entries' = entries /\ tree' = tree
  BY DEF Return, NotifyEntry, Kernel, Lookup, Answer, Expire, vars
<1>2. op' = op \/ (op.pc = "return" /\ op' = None)
  BY DEF Return, At, NotifyEntry, Kernel, Lookup, Answer, Expire, vars
<1> QED BY <1>1, <1>2, FileTaken DEF VideoLate, InfoLate, Busy

LEMMA FileNext == Base /\ FileInv /\ [Next]_vars => FileInv'
BY FileMounting, FileCalls, FilePlacing, FileRemoving, FileOthers DEF Next

-----------------------------------------------------------------------------
(* A clip that is alone in its names is shown as its entry asks.             *)

\* A step of another clip, or of none.
LEMMA AloneKept ==
  ASSUME NEW p \in Paths, AloneAt(p), entries'[p] = entries[p], Ready(p)' => Ready(p),
         tree'[Video[p]] = tree[Video[p]], tree'[Info[p]] = tree[Info[p]],
         VideoLate(p) => VideoLate(p)', InfoLate(p) => InfoLate(p)'
  PROVE  AloneAt(p)'
BY WantedSame DEF AloneAt

LEMMA AloneMounting == Base /\ AloneInv /\ Mounting => AloneInv'
<1> SUFFICES ASSUME Base, AloneInv, Mounting, NEW p \in Paths, Alone(p) PROVE AloneAt(p)'
  BY DEF AloneInv, Alone, Files, Dirs
<1>1. entries' = entries /\ op' = op /\ AloneAt(p)
  BY DEF Mounting, OnAdd, OnAddEnd, OnAddPlace, AloneInv
<1>2. CASE OnAdd
  <2>1. tree[Video[p]] = None /\ tree[Info[p]] = None /\ tree' = tree
    BY <1>2, AboveFacts DEF OnAdd, Base
  <2>2. Ready(p)' => entries[p] = None
    BY <1>2 DEF OnAdd, Ready
  <2> QED BY <1>1, <2>1, <2>2, WantedIs, WantedSame DEF AloneAt
<1>3. CASE OnAddEnd
  BY <1>1, <1>3, AloneKept DEF OnAddEnd, Ready, VideoLate, InfoLate, Busy
<1>4. ASSUME NEW r \in Paths, OnAddPlace(r) PROVE AloneAt(p)'
  <2>1. tree \in Trees /\ entries[r] \in Entry
    BY <1>4 DEF OnAddPlace, Base, TypeOK, Trees
  <2>2. tree' = WithInfo(Put(WithFolders(tree, r), Video[r], clipNode(r, entries[r].layout)), r, entries[r])
    BY <1>4 DEF OnAddPlace
  <2>3. CASE p = r
    <3>1. /\ tree'[Video[p]] = clipNode(p, entries[p].layout)
          /\ tree'[Info[p]] = IF entries[p].nfo = None THEN None ELSE staticNode(p, entries[p].nfo)
      BY <2>1, <2>2, <2>3, Placed
    <3> QED BY <1>1, <2>1, <2>3, <3>1, WantedIs, WantedSame DEF AloneAt
  <2>4. CASE p # r
    <3>1. tree'[Video[p]] = tree[Video[p]] /\ tree'[Info[p]] = tree[Info[p]]
      BY <2>1, <2>2, <2>4, Placed
    <3>2. Ready(p)' => Ready(p)
      BY <1>4, <2>4 DEF OnAddPlace, Ready
    <3> QED BY <1>1, <3>1, <3>2, AloneKept DEF VideoLate, InfoLate, Busy
  <2> QED BY <2>3, <2>4
<1> QED BY <1>2, <1>3, <1>4 DEF Mounting

LEMMA AloneCalls == Base /\ AloneInv /\ Calls => AloneInv'
<1> SUFFICES ASSUME Base, AloneInv, Calls, NEW p \in Paths, Alone(p) PROVE AloneAt(p)'
  BY DEF AloneInv, Alone, Files, Dirs
<1>1. AloneAt(p) /\ tree' = tree /\ op = None /\ mounted' = mounted /\ todo' = todo
  BY DEF AloneInv, Calls, SetClip, RemoveClip, Free
<1>2. CASE entries'[p] = entries[p]
  BY <1>1, <1>2, AloneKept DEF Ready, VideoLate, InfoLate, Busy
<1>3. CASE entries'[p] # entries[p]
  <2>1. (\E e \in Entry : SetClip(p, e)) \/ RemoveClip(p)
    BY <1>3 DEF Calls, SetClip, RemoveClip, Base, TypeOK
  <2>2. mounted # "adding"
    BY <2>1 DEF SetClip, RemoveClip, Free
  <2>3. CASE mounted = "no"
    BY <1>1, <2>3 DEF AloneAt, Ready
  <2>4. CASE mounted = "yes" /\ op' # None
    BY <1>1, <2>1, <2>4 DEF AloneAt, SetClip, RemoveClip, VideoLate, InfoLate, Busy
  <2>5. CASE mounted = "yes" /\ op' = None
    <3>1. RemoveClip(p) /\ ~\A d \in Dirs(p) : tree[d] # None
      <4>1. [pc |-> "unvideo", path |-> p, up |-> Dirs(p)] # None
            /\ [pc |-> "folders", path |-> p, up |-> {}] # None
        BY AboveFacts, OpFacts DEF Op
      <4> QED BY <2>1, <2>5, <4>1 DEF SetClip, RemoveClip
    <3>2. tree[Video[p]] = None /\ tree[Info[p]] = None
      BY <3>1, AboveFacts DEF Base, ClosedTree
    <3>3. entries'[p] = None
      BY <3>1 DEF RemoveClip, Base, TypeOK
    <3>4. WantedVideo(p)' = None /\ WantedInfo(p)' = None
      BY <3>3 DEF WantedVideo, WantedInfo
    <3> QED BY <1>1, <3>2, <3>4 DEF AloneAt
  <2> QED BY <2>2, <2>3, <2>4, <2>5 DEF Base, TypeOK
<1> QED BY <1>2, <1>3

LEMMA AlonePlacing == Base /\ AloneInv /\ Placing => AloneInv'
<1> SUFFICES ASSUME Base, AloneInv, Placing, NEW p \in Paths, Alone(p) PROVE AloneAt(p)'
  BY DEF AloneInv, Alone, Files, Dirs
<1> DEFINE r == op.path
<1>1. /\ r \in Paths /\ tree \in Trees /\ Video[r] \in Nodes /\ Info[r] \in Nodes
      /\ entries' = entries /\ op # None /\ op' # None /\ op'.path = r /\ mounted = "yes"
  BY Calling, SamePath
<1>2. Video[r] \in Files(r) /\ Info[r] \in Files(r) /\ AloneAt(p)
  BY DEF Files, AloneInv
<1>3. CASE \E d \in Dirs(r) : tree' = [tree EXCEPT ![d] = Folder] /\ op.pc = "folders" /\ op'.pc = "folders"
  <2>1. tree'[Video[p]] = tree[Video[p]] /\ tree'[Info[p]] = tree[Info[p]]
    BY <1>1, <1>3, FolderMade
  <2> QED BY <1>1, <1>2, <1>3, <2>1, AloneKept DEF Ready, VideoLate, InfoLate, Busy
<1>4. ASSUME op.pc = "folders", op'.pc = "info", NEW i \in Inode, i = clipNode(r, entries[r].layout),
             tree' = Put(tree, Video[r], i)
      PROVE  AloneAt(p)'
  <2>1. entries[r] \in Entry
    BY <1>1, <1>4 DEF Base, OpInv, TypeOK
  <2>2. SameBut(tree, tree', Video[r]) /\ tree'[Video[r]] = i
    BY <1>1, <1>4, PutFacts
  <2>3. CASE p = r
    BY <1>1, <1>4, <2>1, <2>2, <2>3, WantedIs, WantedSame DEF AloneAt, InfoLate, Busy
  <2>4. CASE p # r
    <3>1. tree'[Video[p]] = tree[Video[p]] /\ tree'[Info[p]] = tree[Info[p]]
      BY <1>1, <1>2, <2>2, <2>4, OthersFile
    <3> QED BY <1>1, <1>2, <2>4, <3>1, AloneKept DEF Ready, VideoLate, InfoLate, Busy
  <2> QED BY <2>3, <2>4
<1>5. ASSUME op.pc = "info", op'.pc = "return", entries[r] \in Entry, tree' = WithInfo(tree, r, entries[r])
      PROVE  AloneAt(p)'
  <2>1. /\ SameBut(tree, tree', Info[r])
        /\ tree'[Info[r]] = IF entries[r].nfo = None THEN None ELSE staticNode(r, entries[r].nfo)
    BY <1>1, <1>5, InfoFacts
  <2>2. CASE p = r
    <3>1. tree[Video[p]] = WantedVideo(p)
      BY <1>1, <1>2, <1>5, <2>2 DEF AloneAt, Ready, VideoLate, Busy
    <3>2. tree'[Video[p]] = tree[Video[p]]
      BY <2>1, <2>2, OwnFile
    <3>3. tree'[Info[p]] = WantedInfo(p)
      BY <1>5, <2>1, <2>2, WantedIs
    <3> QED BY <1>1, <3>1, <3>2, <3>3, WantedSame DEF AloneAt
  <2>3. CASE p # r
    <3>1. tree'[Video[p]] = tree[Video[p]] /\ tree'[Info[p]] = tree[Info[p]]
      BY <1>1, <1>2, <2>1, <2>3, OthersFile
    <3> QED BY <1>1, <1>2, <2>3, <3>1, AloneKept DEF Ready, VideoLate, InfoLate, Busy
  <2> QED BY <2>2, <2>3
<1> QED BY <1>3, <1>4, <1>5, PlaceSteps

LEMMA AloneRemoving == Base /\ AloneInv /\ Removing => AloneInv'
<1> SUFFICES ASSUME Base, AloneInv, Removing, NEW p \in Paths, Alone(p) PROVE AloneAt(p)'
  BY DEF AloneInv, Alone, Files, Dirs
<1> DEFINE r == op.path
<1>1. /\ r \in Paths /\ tree \in Trees /\ ClosedTree(tree) /\ Video[r] \in Nodes /\ Info[r] \in Nodes
      /\ entries' = entries /\ op # None /\ op' # None /\ op'.path = r /\ mounted = "yes"
  BY Calling, SamePath
<1>2. Video[r] \in Files(r) /\ Info[r] \in Files(r) /\ AloneAt(p)
  BY DEF Files, AloneInv
<1>3. ASSUME p = r, op.pc \in {"unvideo", "uninfo"} PROVE WantedVideo(p)' = None /\ WantedInfo(p)' = None
  BY <1>1, <1>3 DEF Base, OpInv, WantedVideo, WantedInfo
<1>4. CASE op.pc = "unvideo" /\ tree' = Without(tree, Video[r]) /\ op'.pc = "uninfo"
  <2>1. SameBut(tree, tree', Video[r]) /\ tree'[Video[r]] = None
    BY <1>1, <1>4, WithoutFacts
  <2>2. CASE p = r
    BY <1>1, <1>3, <1>4, <2>1, <2>2 DEF AloneAt, InfoLate, Busy
  <2>3. CASE p # r
    <3>1. tree'[Video[p]] = tree[Video[p]] /\ tree'[Info[p]] = tree[Info[p]]
      BY <1>1, <1>2, <2>1, <2>3, OthersFile
    <3> QED BY <1>1, <1>2, <2>3, <3>1, AloneKept DEF Ready, VideoLate, InfoLate, Busy
  <2> QED BY <2>2, <2>3
<1>5. CASE op.pc = "uninfo" /\ tree' = Without(tree, Info[r]) /\ op'.pc = "prune"
  <2>1. SameBut(tree, tree', Info[r]) /\ tree'[Info[r]] = None
    BY <1>1, <1>5, WithoutFacts
  <2>2. CASE p = r
    <3>1. tree[Video[p]] = WantedVideo(p) /\ WantedVideo(p)' = WantedVideo(p)
      BY <1>1, <1>2, <1>5, <2>2, WantedSame DEF AloneAt, Ready, VideoLate, Busy
    <3>2. tree'[Video[p]] = tree[Video[p]]
      BY <2>1, <2>2, OwnFile
    <3> QED BY <1>3, <1>5, <2>1, <2>2, <3>1, <3>2 DEF AloneAt
  <2>3. CASE p # r
    <3>1. tree'[Video[p]] = tree[Video[p]] /\ tree'[Info[p]] = tree[Info[p]]
      BY <1>1, <1>2, <2>1, <2>3, OthersFile
    <3> QED BY <1>1, <1>2, <2>3, <3>1, AloneKept DEF Ready, VideoLate, InfoLate, Busy
  <2> QED BY <2>2, <2>3
<1>6. CASE op.pc = "prune" /\ tree' = tree /\ op'.pc = "return"
  BY <1>1, <1>2, <1>6, AloneKept DEF Ready, VideoLate, InfoLate, Busy
<1>7. ASSUME NEW d \in Nodes, Prune(d) PROVE AloneAt(p)'
  <2>1. /\ op.pc = "prune" /\ op'.pc = "prune" /\ d \in Dirs(r) /\ Children(tree, d) = {}
        /\ tree' = Without(tree, d)
    BY <1>7, PruneOp
  <2>2. tree'[Video[p]] = tree[Video[p]] /\ tree'[Info[p]] = tree[Info[p]]
    BY <1>1, <2>1, FolderTaken
  <2> QED BY <1>1, <1>2, <2>1, <2>2, AloneKept DEF Ready, VideoLate, InfoLate, Busy
<1> QED BY <1>4, <1>5, <1>6, <1>7, RemoveSteps

LEMMA AloneOthers == Base /\ AloneInv /\ (Return \/ NotifyEntry \/ Kernel \/ UNCHANGED vars) => AloneInv'
<1> SUFFICES ASSUME Base, AloneInv, Return \/ NotifyEntry \/ Kernel \/ UNCHANGED vars,
                    NEW p \in Paths, Alone(p)
             PROVE  AloneAt(p)'
  BY DEF AloneInv, Alone, Files, Dirs
<1>1. entries' = entries /\ tree' = tree /\ mounted' = mounted /\ todo' = todo /\ AloneAt(p)
  BY DEF Return, NotifyEntry, Kernel, Lookup, Answer, Expire, vars, AloneInv
<1>2. op' = op \/ (op.pc = "return" /\ op' = None)
  BY DEF Return, At, NotifyEntry, Kernel, Lookup, Answer, Expire, vars
<1> QED BY <1>1, <1>2, AloneKept DEF Ready, VideoLate, InfoLate, Busy

LEMMA AloneNext == Base /\ AloneInv /\ [Next]_vars => AloneInv'
BY AloneMounting, AloneCalls, AlonePlacing, AloneRemoving, AloneOthers DEF Next

LEMMA Matches == Base /\ FileInv /\ AloneInv => TreeMatches
<1> SUFFICES ASSUME Base, FileInv, AloneInv, mounted = "yes", op = None
             PROVE  /\ \A p \in Paths : Alone(p) => tree[Video[p]] = WantedVideo(p) /\ tree[Info[p]] = WantedInfo(p)
                    /\ \A n \in Nodes : tree[n] # None /\ ~IsFolder(tree[n]) =>
                         \E p \in Paths : tree[n] \in {WantedVideo(p), WantedInfo(p)}
  BY DEF TreeMatches
<1>1. \A p \in Paths : Ready(p) /\ ~VideoLate(p) /\ ~InfoLate(p)
  BY DEF Ready, VideoLate, InfoLate, Busy
<1>2. ASSUME NEW n \in Nodes, tree[n] # None, ~IsFolder(tree[n])
      PROVE  \E p \in Paths : tree[n] \in {WantedVideo(p), WantedInfo(p)}
  <2>1. PICK p \in Paths : IsVideo(tree[n], p) \/ IsInfo(tree[n], p)
    BY <1>2 DEF Base, TypeOK, Inode, Folder, IsFolder, IsVideo, IsInfo
  <2> QED BY <1>1, <2>1 DEF FileInv, FileAt
<1> QED BY <1>1, <1>2 DEF AloneInv, AloneAt

\* Between calls every clip that is alone in its names is shown exactly as its entry asks,
\* and no file is shown that no entry asks for (SetClip, RemoveClip, place, prune).
THEOREM TreeIsWanted == Spec => []TreeMatches
<1>1. Init => FileInv /\ AloneInv
  <2>1. Init => FileInv
    BY KindFacts DEF Init, FileInv, FileAt
  <2>2. Init => AloneInv
    BY DEF Init, AloneInv, AloneAt, Ready
  <2> QED BY <2>1, <2>2
<1> QED BY <1>1, Matches, FileNext, AloneNext, BaseInit, BaseNext, PTL DEF Spec

-----------------------------------------------------------------------------
(* No folder is left without anything in it, except the folders that a call  *)
(* is making for its clip, or has yet to look at after removing it.          *)

\* The folders a clip is in, or a folder is in, have an innermost one.
LEMMA Innermost ==
  ASSUME NEW v \in Nodes, Above[v] # {}
  PROVE  \E d \in Above[v] : Above[v] = Above[d] \cup {d}
<1> DEFINE T == {Above[v] \ Above[n] : n \in Above[v]}
<1>1. Above[v] \subseteq Nodes /\ IsFiniteSet(Above[v])
  BY AboveFacts, PathsAssumption
<1>2. T \subseteq FiniteSubsetsOf(Nodes) /\ T # {}
  <2>1. \A n \in Above[v] : Above[v] \ Above[n] \in SUBSET Above[v]
    OBVIOUS
  <2>2. \A n \in Above[v] : IsFiniteSet(Above[v] \ Above[n])
    BY <1>1, <2>1, FS_Subset
  <2> QED BY <1>1, <2>1, <2>2 DEF FiniteSubsetsOf
<1>3. PICK x \in T : \A y \in T : ~(<<y, x>> \in StrictSubsetOrdering(Nodes))
  <2> HIDE DEF T
  <2> QED BY <1>2, WFMin, FS_StrictSubsetOrderingWellFounded
<1>4. PICK d \in Above[v] : x = Above[v] \ Above[d]
  BY <1>3
<1>5. ASSUME NEW m \in Above[v], m # d PROVE m \in Above[d]
  <2>1. m \in Above[d] \/ d \in Above[m]
    BY <1>5, PathsAssumption
  <2>2. ASSUME d \in Above[m] PROVE FALSE
    <3> DEFINE y == Above[v] \ Above[m]
    <3>1. Above[d] \subseteq Above[m] /\ d \notin Above[d]
      BY <1>1, <2>2, AboveFacts
    <3>2. y \in T /\ y \subseteq x /\ y # x
      BY <1>4, <2>2, <3>1
    <3>3. <<y, x>> \in StrictSubsetOrdering(Nodes)
      BY <1>1, <1>4, <3>2 DEF StrictSubsetOrdering
    <3> QED BY <1>3, <3>2, <3>3
  <2> QED BY <2>1, <2>2
<1>6. Above[d] \subseteq Above[v]
  BY AboveFacts
<1> QED BY <1>5, <1>6

Filled(t, d) == IsFolder(t[d]) => Children(t, d) # {}

\* What is above a node that is there has something in it.
LEMMA AboveFilled ==
  ASSUME NEW t, ClosedTree(t), NEW v \in Nodes, t[v] # None, NEW d \in Above[v]
  PROVE  Children(t, d) # {}
<1>1. PICK n \in Above[v] \cup {v} : Above[n] = Above[d] \cup {d}
  BY ChildBetween
<1>2. n \in Nodes /\ t[n] # None
  BY <1>1, AboveFacts DEF ClosedTree
<1> QED BY <1>1, <1>2 DEF Children

\* A node that is changed takes something out of the folders above it only.
LEMMA FilledSame ==
  ASSUME NEW t, NEW u, NEW q \in Nodes, SameBut(t, u, q), NEW d \in Nodes, d # q, d \notin Above[q],
         q \in Above[d] => u[d] = None, Filled(t, d)
  PROVE  Filled(u, d)
<1> SUFFICES ASSUME IsFolder(u[d]) PROVE Children(u, d) # {}
  BY DEF Filled
<1>1. q \notin Above[d]
  BY DEF IsFolder
<1>2. u[d] = t[d]
  BY <1>1 DEF SameBut
<1>3. PICK n \in Nodes : t[n] # None /\ Above[n] = Above[d] \cup {d}
  BY <1>2 DEF Filled, Children
<1>4. n # q /\ q \notin Above[n]
  BY <1>1, <1>3
<1> QED BY <1>3, <1>4 DEF SameBut, Children

LEMMA WithoutBelow ==
  ASSUME NEW t, NEW q \in Nodes, NEW d \in Nodes, q \in Above[d]
  PROVE  Without(t, q)[d] = None /\ \A i : Put(t, q, i)[d] = None
<1>1. Without(t, q)[d] = None /\ d # q
  BY AboveFacts DEF Without
<1> QED BY <1>1 DEF Put, Without

Removes(pc) == pc \in {"unvideo", "uninfo", "prune"}
Excused(d) ==
  op # None /\ \/ op.pc = "folders" /\ d \in Dirs(op.path)
               \/ Removes(op.pc) /\ d \in op.up
UpInv ==
  op # None =>
    /\ op.pc = "info" => tree[Video[op.path]] # None
    /\ op.pc \in {"unvideo", "uninfo"} => op.up = Dirs(op.path)
    /\ Removes(op.pc) => /\ \A d \in op.up : tree[d] # None
                        /\ \E v \in Nodes : op.up = Above[v]
FolderInv == UpInv /\ \A d \in Nodes : Filled(tree, d) \/ Excused(d)

LEMMA FolderMounting == Base /\ FolderInv /\ Mounting => FolderInv'
<1> SUFFICES ASSUME Base, FolderInv, Mounting PROVE FolderInv'
  OBVIOUS
<1>1. op = None /\ op' = None
  BY DEF Mounting, OnAdd, OnAddEnd, OnAddPlace, Free, Base, Unmounted
<1>2. CASE tree' = tree
  BY <1>1, <1>2 DEF FolderInv, UpInv, Excused, Filled, Children
<1>3. ASSUME NEW r \in Paths, OnAddPlace(r), NEW d \in Nodes PROVE Filled(tree', d)
  <2> DEFINE a == WithFolders(tree, r)
             b == Put(a, Video[r], clipNode(r, entries[r].layout))
  <2>1. /\ tree \in Trees /\ ClosedTree(tree) /\ entries[r] \in Entry
        /\ tree' = WithInfo(b, r, entries[r]) /\ Video[r] \in Nodes /\ Info[r] \in Nodes
        /\ clipNode(r, entries[r].layout) \in Inode
    BY <1>3, AboveFacts, InodeFacts DEF OnAddPlace, Base, TypeOK, Trees
  <2>2. a \in Trees /\ ClosedTree(a) /\ \A c \in Dirs(r) : a[c] # None
    BY <2>1, FoldersFacts
  <2>3. b \in Trees /\ ClosedTree(b) /\ SameBut(a, b, Video[r])
    BY <2>1, <2>2, PutFacts, AboveFacts
  <2>4. \A c \in Dirs(r) : b[c] # None
    BY <2>2, <2>3, AboveFacts DEF SameBut
  <2>5. ClosedTree(tree') /\ SameBut(b, tree', Info[r])
    BY <2>1, <2>3, <2>4, InfoFacts
  <2>6. tree'[Video[r]] # None
    BY <2>1, Placed, InodeFacts
  <2>7. CASE d \in Dirs(r)
    BY <2>1, <2>5, <2>6, <2>7, AboveFilled DEF Filled, Dirs
  <2>8. CASE d \notin Dirs(r)
    <3>1. Filled(a, d)
      <4>1. a[d] = tree[d] /\ Filled(tree, d)
        BY <1>1, <2>1, <2>8, FoldersFacts DEF FolderInv, Excused
      <4>2. \A n \in Nodes : tree[n] # None => a[n] # None
        BY <2>1, FoldersFacts
      <4> QED BY <4>1, <4>2 DEF Filled, Children
    <3>2. Filled(b, d)
      <4>1. CASE d = Video[r]
        <5>1. b[d] = clipNode(r, entries[r].layout)
          BY <2>1, <2>2, <4>1, PutFacts
        <5> QED BY <5>1 DEF Filled, IsFolder, clipNode
      <4>2. CASE d # Video[r]
        <5>1. Video[r] \in Above[d] => b[d] = None
          BY <2>1, WithoutBelow
        <5>2. d \notin Above[Video[r]]
          BY <2>8 DEF Dirs
        <5> QED BY <2>1, <2>3, <3>1, <4>2, <5>1, <5>2, FilledSame
      <4> QED BY <4>1, <4>2
    <3>3. CASE d = Info[r]
      <4>1. tree'[d] = None \/ tree'[d] = staticNode(r, entries[r].nfo)
        BY <2>1, <2>3, <3>3, InfoFacts
      <4> QED BY <4>1 DEF Filled, IsFolder, staticNode
    <3>4. CASE d # Info[r]
      <4>1. Info[r] \in Above[d] => tree'[d] = None
        BY <2>1, WithoutBelow DEF WithInfo
      <4>2. d \notin Above[Info[r]]
        BY <2>8, AboveFacts
      <4> QED BY <2>1, <2>5, <3>2, <3>4, <4>1, <4>2, FilledSame
    <3> QED BY <3>3, <3>4
  <2> QED BY <2>7, <2>8
<1> QED BY <1>1, <1>2, <1>3 DEF Mounting, OnAdd, OnAddEnd, FolderInv, UpInv

LEMMA FolderCalls == Base /\ FolderInv /\ Calls => FolderInv'
<1> SUFFICES ASSUME Base, FolderInv, Calls PROVE FolderInv'
  OBVIOUS
<1>1. op = None /\ tree' = tree
  BY DEF Calls, SetClip, RemoveClip, Free
<1>2. \A d \in Nodes : Filled(tree', d)
  BY <1>1 DEF FolderInv, Excused
<1>3. UpInv'
  <2>1. CASE op' = None
    BY <2>1 DEF UpInv
  <2>2. ASSUME NEW p \in Paths, op' = [pc |-> "folders", path |-> p, up |-> {}] PROVE UpInv'
    BY <2>2 DEF UpInv, Removes
  <2>3. ASSUME NEW p \in Paths, op' = [pc |-> "unvideo", path |-> p, up |-> Dirs(p)],
               \A d \in Dirs(p) : tree[d] # None
        PROVE  UpInv'
    <3>1. Video[p] \in Nodes /\ Dirs(p) = Above[Video[p]]
      BY AboveFacts
    <3> QED BY <1>1, <2>3, <3>1 DEF UpInv, Removes, Dirs
  <2> QED BY <2>1, <2>2, <2>3 DEF Calls, SetClip, RemoveClip
<1> QED BY <1>2, <1>3 DEF FolderInv

LEMMA FolderPlacing == Base /\ FolderInv /\ Placing => FolderInv'
<1> SUFFICES ASSUME Base, FolderInv, Placing PROVE FolderInv'
  OBVIOUS
<1> DEFINE r == op.path
<1>1. /\ r \in Paths /\ tree \in Trees /\ ClosedTree(tree) /\ Video[r] \in Nodes /\ Info[r] \in Nodes
      /\ op # None /\ op' # None /\ op'.path = r /\ Dirs(r) = Above[Video[r]] /\ Dirs(r) = Above[Info[r]]
  BY Calling, SamePath, AboveFacts
<1>2. ClosedTree(tree')
  BY BasePlacing DEF Base, ClosedTree
<1>3. CASE \E d \in Dirs(r) : tree' = [tree EXCEPT ![d] = Folder] /\ op.pc = "folders" /\ op'.pc = "folders"
  <2>1. \A n \in Nodes : tree[n] # None => tree'[n] # None
    BY <1>1, <1>3, InodeFacts DEF Trees
  <2>2. \A n \in Nodes : n \notin Dirs(r) => tree'[n] = tree[n]
    BY <1>1, <1>3 DEF Trees
  <2>3. \A n \in Nodes : n \notin Dirs(r) => Filled(tree', n)
    BY <1>3, <2>1, <2>2 DEF FolderInv, Excused, Removes, Filled, Children
  <2> QED BY <1>1, <1>3, <2>3 DEF FolderInv, UpInv, Excused, Removes
<1>4. ASSUME op.pc = "folders", op'.pc = "info", NEW i \in Inode, i = clipNode(r, entries[r].layout),
             tree' = Put(tree, Video[r], i)
      PROVE  FolderInv'
  <2>1. SameBut(tree, tree', Video[r]) /\ tree'[Video[r]] = i /\ i # None
    BY <1>1, <1>4, PutFacts, InodeFacts
  <2>2. ASSUME NEW d \in Nodes PROVE Filled(tree', d)
    <3>1. CASE d \in Dirs(r)
      BY <1>1, <1>2, <2>1, <3>1, AboveFilled DEF Filled
    <3>2. CASE d = Video[r]
      BY <1>4, <2>1, <3>2 DEF Filled, IsFolder, clipNode
    <3>3. CASE d \notin Dirs(r) /\ d # Video[r]
      <4>1. Video[r] \in Above[d] => tree'[d] = None
        BY <1>1, <1>4, WithoutBelow
      <4>2. Filled(tree, d)
        BY <1>4, <3>3 DEF FolderInv, Excused, Removes
      <4>3. d \notin Above[Video[r]] /\ d # Video[r]
        BY <1>1, <3>3
      <4> QED BY <1>1, <2>1, <4>1, <4>2, <4>3, FilledSame
    <3> QED BY <3>1, <3>2, <3>3
  <2> QED BY <1>1, <1>4, <2>1, <2>2 DEF FolderInv, UpInv, Removes
<1>5. ASSUME op.pc = "info", op'.pc = "return", entries[r] \in Entry, tree' = WithInfo(tree, r, entries[r])
      PROVE  FolderInv'
  <2>1. SameBut(tree, tree', Info[r])
    BY <1>1, <1>5, InfoFacts
  <2>2. tree'[Video[r]] # None
    BY <1>1, <1>5, <2>1, OwnFile DEF FolderInv, UpInv
  <2>3. ASSUME NEW d \in Nodes PROVE Filled(tree', d)
    <3>1. CASE d \in Dirs(r)
      BY <1>1, <1>2, <2>2, <3>1, AboveFilled DEF Filled
    <3>2. CASE d = Info[r]
      <4>1. tree'[d] = None \/ tree'[d] = staticNode(r, entries[r].nfo)
        BY <1>1, <1>5, <3>2, InfoFacts
      <4> QED BY <4>1 DEF Filled, IsFolder, staticNode
    <3>3. CASE d \notin Dirs(r) /\ d # Info[r]
      <4>1. Info[r] \in Above[d] => tree'[d] = None
        BY <1>1, <1>5, WithoutBelow DEF WithInfo
      <4>2. Filled(tree, d)
        BY <1>5, <3>3 DEF FolderInv, Excused, Removes
      <4> QED BY <1>1, <2>1, <3>3, <4>1, <4>2, FilledSame
    <3> QED BY <3>1, <3>2, <3>3
  <2> QED BY <1>1, <1>5, <2>3 DEF FolderInv, UpInv, Removes
<1> QED BY <1>3, <1>4, <1>5, PlaceSteps

LEMMA FolderRemoving == Base /\ FolderInv /\ Removing => FolderInv'
<1> SUFFICES ASSUME Base, FolderInv, Removing PROVE FolderInv'
  OBVIOUS
<1> DEFINE r == op.path
<1>1. /\ r \in Paths /\ tree \in Trees /\ ClosedTree(tree) /\ Video[r] \in Nodes /\ Info[r] \in Nodes
      /\ op # None /\ op' # None /\ op'.path = r /\ Dirs(r) = Above[Video[r]] /\ Dirs(r) = Above[Info[r]]
  BY Calling, SamePath, AboveFacts
<1>2. ASSUME op.pc \in {"unvideo", "uninfo"}, op'.pc \in {"uninfo", "prune"}, op'.up = op.up,
             NEW q \in Files(r), tree' = Without(tree, q),
             op'.pc = "uninfo" => op.pc = "unvideo"
      PROVE  FolderInv'
  <2>1. /\ q \in Nodes /\ Dirs(r) = Above[q] /\ op.up = Dirs(r)
        /\ SameBut(tree, tree', q) /\ tree'[q] = None
    <3>1. q \in Nodes /\ Dirs(r) = Above[q]
      BY <1>1, <1>2 DEF Files
    <3>2. op.up = Dirs(r)
      BY <1>1, <1>2 DEF FolderInv, UpInv
    <3> QED BY <1>1, <1>2, <3>1, <3>2, WithoutFacts
  <2>2. \A d \in Dirs(r) : d \in Nodes /\ d # q /\ q \notin Above[d]
    <3> SUFFICES ASSUME NEW d \in Above[q] PROVE d \in Nodes /\ d # q /\ q \notin Above[d]
      BY <2>1
    <3>1. Above[q] \subseteq Nodes /\ q \notin Above[q] /\ Above[d] \subseteq Above[q]
      BY <2>1, AboveFacts
    <3> QED BY <3>1
  <2>3. \A d \in op.up : tree'[d] # None
    <3>1. \A d \in op.up : tree[d] # None
      BY <1>1, <1>2 DEF FolderInv, UpInv, Removes
    <3> QED BY <2>1, <2>2, <3>1 DEF SameBut
  <2>4. ASSUME NEW d \in Nodes, d \notin Dirs(r) PROVE Filled(tree', d)
    <3>1. Filled(tree, d)
      BY <1>2, <2>1, <2>4 DEF FolderInv, Excused, Removes
    <3>2. CASE d = q
      BY <2>1, <3>2 DEF Filled, IsFolder
    <3>3. CASE d # q
      <4>1. q \in Above[d] => tree'[d] = None
        BY <1>2, <2>1, WithoutBelow
      <4> QED BY <2>1, <2>4, <3>1, <3>3, <4>1, FilledSame
    <3> QED BY <3>2, <3>3
  <2>5. UpInv'
    BY <1>1, <1>2, <2>1, <2>3 DEF FolderInv, UpInv, Removes, Dirs
  <2> QED BY <1>1, <1>2, <2>1, <2>4, <2>5 DEF FolderInv, Excused, Removes
<1>3. ASSUME PruneEnd, op.pc = "prune", tree' = tree, op'.pc = "return" PROVE FolderInv'
  <2>1. ASSUME NEW d \in op.up PROVE Filled(tree, d)
    <3>1. PICK v \in Nodes : op.up = Above[v]
      BY <1>1, <1>3 DEF FolderInv, UpInv, Removes
    <3>2. PICK c \in Above[v] : Above[v] = Above[c] \cup {c}
      BY <2>1, <3>1, Innermost
    <3>3. c \in Nodes /\ tree[c] # None
      BY <1>1, <1>3, <3>1, <3>2, AboveFacts DEF FolderInv, UpInv, Removes
    <3>4. Children(tree, c) # {}
      BY <1>3, <3>1, <3>2, <3>3 DEF PruneEnd, Empty
    <3>5. CASE d = c
      BY <3>4, <3>5 DEF Filled
    <3>6. CASE d \in Above[c]
      BY <1>1, <3>3, <3>6, AboveFilled DEF Filled
    <3> QED BY <2>1, <3>1, <3>2, <3>5, <3>6
  <2>2. \A d \in Nodes : Filled(tree, d)
    BY <1>3, <2>1 DEF FolderInv, Excused, Removes
  <2> QED BY <1>1, <1>3, <2>2 DEF FolderInv, UpInv, Removes, Filled, Children
<1>4. ASSUME NEW c \in Nodes, Prune(c) PROVE FolderInv'
  <2>1. /\ op.pc = "prune" /\ op'.pc = "prune" /\ op'.up = Above[c] /\ tree' = Without(tree, c)
        /\ op.up = Above[c] \cup {c}
    BY <1>4, PruneOp DEF Prune
  <2>2. SameBut(tree, tree', c) /\ tree'[c] = None
    BY <1>1, <2>1, WithoutFacts
  <2>3. \A d \in Above[c] : d \in Nodes /\ d # c /\ c \notin Above[d]
    BY AboveFacts
  <2>4. \A d \in Above[c] : tree'[d] # None
    BY <1>1, <2>1, <2>2, <2>3 DEF SameBut, FolderInv, UpInv, Removes
  <2>5. ASSUME NEW d \in Nodes, d \notin Above[c] PROVE Filled(tree', d)
    <3>1. CASE d = c
      BY <2>2, <3>1 DEF Filled, IsFolder
    <3>2. CASE d # c
      <4>1. Filled(tree, d)
        BY <2>1, <2>5, <3>2 DEF FolderInv, Excused, Removes
      <4>2. c \in Above[d] => tree'[d] = None
        BY <2>1, WithoutBelow
      <4> QED BY <2>2, <2>5, <3>2, <4>1, <4>2, FilledSame
    <3> QED BY <3>1, <3>2
  <2>6. UpInv'
    BY <1>1, <2>1, <2>4 DEF UpInv, Removes
  <2> QED BY <1>1, <2>1, <2>5, <2>6 DEF FolderInv, Excused, Removes
<1> QED BY <1>2, <1>3, <1>4, RemoveSteps DEF Files

LEMMA FolderOthers == Base /\ FolderInv /\ (Return \/ NotifyEntry \/ Kernel \/ UNCHANGED vars) => FolderInv'
<1> SUFFICES ASSUME Base, FolderInv, Return \/ NotifyEntry \/ Kernel \/ UNCHANGED vars PROVE FolderInv'
  OBVIOUS
<1>1. tree' = tree
  BY DEF Return, NotifyEntry, Kernel, Lookup, Answer, Expire, vars
<1>2. op' = op \/ (op.pc = "return" /\ op' = None)
  BY DEF Return, At, NotifyEntry, Kernel, Lookup, Answer, Expire, vars
<1>3. \A d \in Nodes : Filled(tree', d) <=> Filled(tree, d)
  BY <1>1
<1> QED BY <1>1, <1>2, <1>3 DEF FolderInv, UpInv, Excused, Removes, Dirs

LEMMA FolderNext == Base /\ FolderInv /\ [Next]_vars => FolderInv'
BY FolderMounting, FolderCalls, FolderPlacing, FolderRemoving, FolderOthers DEF Next

\* Between calls no folder is left without anything in it (prune).
THEOREM NoFolderIsEmpty == Spec => []NoEmptyFolders
<1>1. Init => FolderInv
  BY DEF Init, FolderInv, UpInv, Filled, IsFolder
<1>2. FolderInv => NoEmptyFolders
  BY DEF FolderInv, NoEmptyFolders, Filled, Excused
<1> QED BY <1>1, <1>2, FolderNext, BaseInit, BaseNext, PTL DEF Spec
=============================================================================
