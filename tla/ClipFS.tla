------------------------------- MODULE ClipFS -------------------------------
(***************************************************************************)
(* internal/clipfs: the inode tree that shows the clips to the kernel.     *)
(* SetClip and RemoveClip edit it one name at a time under Root.mu and     *)
(* tell the kernel about each name after it has changed; the kernel looks  *)
(* names up at any moment and remembers the answers, including that a name *)
(* is missing, for as long as nobody tells it otherwise.                   *)
(***************************************************************************)
EXTENDS FiniteSets, Integers

CONSTANTS
  Paths,      \* clip paths
  Nodes,      \* every name below the root that a clip path has or leads through
  Above,      \* the folders a node is in, the root left out
  Video,      \* the node <path>.mkv of a clip path
  Info,       \* the node <path>.nfo
  Layouts, Metas, None,
  MaxCached   \* bound: names the kernel remembers at the same time

ASSUME PathsAssumption ==
  /\ Above \in [Nodes -> SUBSET Nodes]
  /\ Video \in [Paths -> Nodes] /\ Info \in [Paths -> Nodes]
  /\ \A n \in Nodes : n \notin Above[n] /\ IsFiniteSet(Above[n])
  /\ \A n \in Nodes : \A m \in Above[n] : Above[m] \subseteq Above[n]
  /\ \A n \in Nodes : \A m, k \in Above[n] : m = k \/ m \in Above[k] \/ k \in Above[m]
  /\ \A p \in Paths : Above[Info[p]] = Above[Video[p]]
  /\ \A p, r \in Paths : Video[p] # Info[r] /\ (p # r => Video[p] # Video[r] /\ Info[p] # Info[r])
  /\ MaxCached \in Nat

VARIABLES
  entries,  \* Root.entries: what is to be shown at each path, or None
  mounted,  \* whether OnAdd has not begun, is running or has finished
  todo,     \* the entries OnAdd has not placed yet
  tree,     \* the inode at each node, or None
  op,       \* the call that holds Root.mu, or None
  pending,  \* the node whose change the kernel has not been told yet, or None
  cache,    \* what the kernel remembers: a node's inode, or None that it is missing
  asked     \* a lookup the kernel is waiting for, holding its directory, or None

vars == <<entries, mounted, todo, tree, op, pending, cache, asked>>

Entry == [layout : Layouts, nfo : Metas \cup {None}]
Folder == [kind |-> "folder", path |-> None, data |-> None]
Inode == {Folder} \cup [kind : {"video"}, path : Paths, data : Layouts]
                  \cup [kind : {"info"}, path : Paths, data : Metas]

clipNode(p, l) == [kind |-> "video", path |-> p, data |-> l]
staticNode(p, m) == [kind |-> "info", path |-> p, data |-> m]

Op == [pc : {"folders", "info", "unvideo", "uninfo", "prune", "return"},
       path : Paths,
       up : SUBSET Nodes]  \* folders prune has not looked at yet

ASSUME NoneAssumption == None \notin Inode \cup Op \cup Entry \cup Nodes
                               \cup [node : Nodes, inode : Inode \cup {None}]

IsFolder(i) == i # None /\ i.kind = "folder"
Dirs(p) == Above[Video[p]]
Below(q) == {n \in Nodes : q \in Above[n]}
Children(t, d) == {n \in Nodes : t[n] # None /\ Above[n] = Above[d] \cup {d}}

\* AddChild and RmChild: an inode that is replaced or removed takes what is below it along.
Without(t, q) == [n \in Nodes |-> IF n = q \/ q \in Above[n] THEN None ELSE t[n]]
Put(t, q, i) == [Without(t, q) EXCEPT ![q] = i]

Init ==
  /\ entries = [p \in Paths |-> None]
  /\ mounted = "no"
  /\ todo = {}
  /\ tree = [n \in Nodes |-> None]
  /\ op = None
  /\ pending = None
  /\ cache = [n \in {} |-> None]
  /\ asked = None

Free == op = None /\ mounted # "adding"

-----------------------------------------------------------------------------
\* The kernel mounts the root: every entry is placed before it can ask for any.
OnAdd ==
  /\ Free /\ mounted = "no"
  /\ mounted' = "adding"
  /\ todo' = {p \in Paths : entries[p] # None}
  /\ UNCHANGED <<entries, tree, op, pending, cache, asked>>

WithFolders(t, p) == [n \in Nodes |-> IF n \in Dirs(p) /\ t[n] = None THEN Folder ELSE t[n]]

\* Mutant: the NFO of an earlier version stays.
WithNewInfo(t, p, e) == IF e.nfo # None THEN Put(t, Info[p], staticNode(p, e.nfo)) ELSE t

\* Mutant: an NFO is shown for a clip that has none.
WithAnyInfo(t, p, e) == Put(t, Info[p], staticNode(p, e.nfo))

WithInfo(t, p, e) ==
  IF e.nfo # None THEN Put(t, Info[p], staticNode(p, e.nfo)) ELSE Without(t, Info[p])

OnAddPlace(p) ==
  /\ mounted = "adding" /\ p \in todo
  /\ todo' = todo \ {p}
  /\ tree' = WithInfo(Put(WithFolders(tree, p), Video[p], clipNode(p, entries[p].layout)),
                      p, entries[p])
  /\ UNCHANGED <<entries, mounted, op, pending, cache, asked>>

OnAddEnd ==
  /\ mounted = "adding" /\ todo = {}
  /\ mounted' = "yes"
  /\ UNCHANGED <<entries, todo, tree, op, pending, cache, asked>>

-----------------------------------------------------------------------------
\* The call op goes on at pc, having changed the node q (None: nothing to tell).
Goes(pc, q) ==
  /\ op' = [op EXCEPT !.pc = pc]
  /\ pending' = q
  /\ UNCHANGED <<entries, mounted, todo, cache, asked>>

At(pc) == op # None /\ op.pc = pc /\ pending = None

SetClip(p, e) ==
  /\ Free
  /\ entries' = [entries EXCEPT ![p] = e]
  /\ op' = IF mounted = "yes" THEN [pc |-> "folders", path |-> p, up |-> {}] ELSE None
  /\ UNCHANGED <<mounted, todo, tree, pending, cache, asked>>

\* place makes the first folder that is missing ...
PlaceFolder(d) ==
  /\ At("folders") /\ d \in Dirs(op.path)
  /\ tree[d] = None
  /\ \A a \in Above[d] : tree[a] # None
  /\ tree' = [tree EXCEPT ![d] = Folder]
  /\ Goes("folders", d)

\* ... then the clip, replacing whatever has its name ...
PlaceVideo ==
  /\ At("folders")
  /\ \A d \in Dirs(op.path) : tree[d] # None
  /\ tree' = Put(tree, Video[op.path], clipNode(op.path, entries[op.path].layout))
  /\ Goes("info", Video[op.path])

\* ... then its NFO, or takes away the one of an earlier version.
PlaceInfo ==
  /\ At("info")
  /\ tree' = WithInfo(tree, op.path, entries[op.path])
  /\ Goes("return", IF entries[op.path].nfo = None /\ tree[Info[op.path]] = None
                     THEN None ELSE Info[op.path])

\* Nothing happens to a clip that was never set or was removed.
RemoveClip(p) ==
  /\ Free /\ entries[p] # None
  /\ entries' = [entries EXCEPT ![p] = None]
  /\ op' = IF mounted = "yes" /\ \A d \in Dirs(p) : tree[d] # None
           THEN [pc |-> "unvideo", path |-> p, up |-> Dirs(p)] ELSE None
  /\ UNCHANGED <<mounted, todo, tree, pending, cache, asked>>

\* Mutant: the kernel is not told that a file is gone.
RemoveFileQuietly(from, q, to) ==
  /\ At(from)
  /\ tree' = Without(tree, q)
  /\ Goes(to, None)

RemoveFile(from, q, to) ==
  /\ At(from)
  /\ tree' = Without(tree, q)
  /\ Goes(to, IF tree[q] # None THEN q ELSE None)

RemoveVideo == RemoveFile("unvideo", Video[op.path], "uninfo")
RemoveInfo == RemoveFile("uninfo", Info[op.path], "prune")

\* Mutant: a folder is pruned although something is left in it.
Exists(d) == tree[d] # None

Empty(d) == tree[d] # None /\ Children(tree, d) = {}

\* Mutant: only the folder the clip was in is pruned.
PruneOnce(d) ==
  /\ At("prune")
  /\ op.up = Above[d] \cup {d}
  /\ Empty(d)
  /\ tree' = Without(tree, d)
  /\ op' = [op EXCEPT !.up = {}]
  /\ pending' = d
  /\ UNCHANGED <<entries, mounted, todo, cache, asked>>

\* prune removes the innermost folder if it is empty, and goes on with the one above.
Prune(d) ==
  /\ At("prune")
  /\ op.up = Above[d] \cup {d}
  /\ Empty(d)
  /\ tree' = Without(tree, d)
  /\ op' = [op EXCEPT !.up = Above[d]]
  /\ pending' = d
  /\ UNCHANGED <<entries, mounted, todo, cache, asked>>

PruneEnd ==
  /\ At("prune")
  /\ \A d \in Nodes : op.up = Above[d] \cup {d} => ~Empty(d)
  /\ Goes("return", None)
  /\ UNCHANGED tree

Return ==
  /\ At("return")
  /\ op' = None
  /\ UNCHANGED <<entries, mounted, todo, tree, pending, cache, asked>>

Forgotten(q) == [n \in DOMAIN cache \ ({q} \cup Below(q)) |-> cache[n]]

\* The kernel waits for a lookup in the same directory to end, and forgets the name
\* and what is below it; a lookup further down ends in a directory nobody reaches.
NotifyEntry ==
  /\ pending # None
  /\ asked # None => Above[asked.node] # Above[pending]
  /\ cache' = Forgotten(pending)
  /\ asked' = IF asked # None /\ pending \in Above[asked.node] THEN None ELSE asked
  /\ pending' = None
  /\ UNCHANGED <<entries, mounted, todo, tree, op>>

-----------------------------------------------------------------------------
\* The kernel, for a media server that scans or opens files: it looks up a name
\* it has no answer for, in a folder it knows.  A name below the one that is
\* being changed is left out: its answer is forgotten with that one.
Lookup(q) ==
  /\ mounted = "yes" /\ asked = None
  /\ q \notin DOMAIN cache /\ Cardinality(DOMAIN cache) < MaxCached
  /\ \A d \in Above[q] : d \in DOMAIN cache /\ IsFolder(cache[d]) /\ d # pending
  /\ asked' = [node |-> q, inode |-> tree[q]]
  /\ UNCHANGED <<entries, mounted, todo, tree, op, pending, cache>>

Answer ==
  /\ asked # None
  /\ cache' = [n \in DOMAIN cache \cup {asked.node} |->
                 IF n = asked.node THEN asked.inode ELSE cache[n]]
  /\ asked' = None
  /\ UNCHANGED <<entries, mounted, todo, tree, op, pending>>

\* An answer times out or the kernel needs the memory.
Expire(q) ==
  /\ q \in DOMAIN cache
  /\ asked = None
  /\ cache' = Forgotten(q)
  /\ UNCHANGED <<entries, mounted, todo, tree, op, pending, asked>>

-----------------------------------------------------------------------------
Placing == PlaceVideo \/ PlaceInfo \/ \E d \in Nodes : PlaceFolder(d)
Removing == RemoveVideo \/ RemoveInfo \/ PruneEnd \/ \E d \in Nodes : Prune(d)
Mounting == OnAdd \/ OnAddEnd \/ \E p \in Paths : OnAddPlace(p)
Calls == \E p \in Paths : RemoveClip(p) \/ \E e \in Entry : SetClip(p, e)
Kernel == Answer \/ \E q \in Nodes : Lookup(q) \/ Expire(q)

Next == Mounting \/ Calls \/ Placing \/ Removing \/ Return \/ NotifyEntry \/ Kernel

Spec == Init /\ [][Next]_vars

-----------------------------------------------------------------------------
TypeOK ==
  /\ entries \in [Paths -> Entry \cup {None}]
  /\ mounted \in {"no", "adding", "yes"}
  /\ todo \subseteq {p \in Paths : entries[p] # None}
  /\ tree \in [Nodes -> Inode \cup {None}]
  /\ op \in Op \cup {None}
  /\ pending \in Nodes \cup {None}
  /\ DOMAIN cache \subseteq Nodes /\ \A n \in DOMAIN cache : cache[n] \in Inode \cup {None}
  /\ asked \in [node : Nodes, inode : Inode \cup {None}] \cup {None}

\* No file of the clip has the name of another clip's folder, nor the other way round.
\* Validate does not look for that.
Files(p) == {Video[p], Info[p]}
Alone(p) == \A r \in Paths : Files(r) \cap Dirs(p) = {} /\ Files(p) \cap Dirs(r) = {}

\* The inode an entry asks for at the clip's own name, and at its NFO's.
WantedVideo(p) == IF entries[p] = None THEN None ELSE clipNode(p, entries[p].layout)
WantedInfo(p) ==
  IF entries[p] = None \/ entries[p].nfo = None THEN None ELSE staticNode(p, entries[p].nfo)

\* Between calls the tree shows each clip that is alone in its names exactly as its entry
\* asks, whatever the clips that collide do to each other, and no file at all that no
\* entry asks for (SetClip, RemoveClip, place, prune).
TreeMatches ==
  mounted = "yes" /\ op = None =>
    /\ \A p \in Paths : Alone(p) => tree[Video[p]] = WantedVideo(p) /\ tree[Info[p]] = WantedInfo(p)
    /\ \A n \in Nodes : tree[n] # None /\ ~IsFolder(tree[n]) =>
         \E p \in Paths : tree[n] \in {WantedVideo(p), WantedInfo(p)}

\* Between calls no folder is left without anything in it (prune).
NoEmptyFolders ==
  op = None => \A d \in Nodes : IsFolder(tree[d]) => Children(tree, d) # {}

\* What the kernel remembers, a missing name included, is what the tree has, except at and
\* below the one name a call in progress has changed and not announced yet: so after a
\* reload no answer has to time out (an hour, main.go) before the change is seen.
CacheFresh ==
  \A n \in DOMAIN cache :
    cache[n] = tree[n] \/ (pending # None /\ (n = pending \/ pending \in Above[n]))

\* No step takes a clip that is alone in its names out of the tree while there is an entry
\* for it: replacing it, its NFO or anything else shows the old or the new one throughout.
NeverBlanked ==
  [][\A p \in Paths : Alone(p) /\ tree[Video[p]] # None /\ entries'[p] # None
        => tree'[Video[p]] # None]_vars
=============================================================================
