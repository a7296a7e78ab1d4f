---------------------------- MODULE ClipsConfig ----------------------------
(***************************************************************************)
(* The clips file as internal/config sees it: clip definitions, which of   *)
(* them Validate accepts, and the media file ResolveInput picks for an     *)
(* input.  A media folder is a function m from files to versions: 0 is a   *)
(* missing file, and a larger version has a newer modification time.       *)
(***************************************************************************)
EXTENDS Integers, Sequences

CONSTANTS
  Paths,       \* clip paths below the mount: group folder and output name
  Folded,      \* strings.ToLower of each path
  Files,       \* media files
  Upgrades,    \* for each file, the other files with its title and edition tags
  Cuts,        \* what the index key takes from a clip: start, end and output name
  Metas,       \* NFO contents
  MaxVersion,  \* bound: versions a media file goes through
  None         \* no value (a nil pointer, an empty string, a missing file)

Versions == 1..MaxVersion

\* A clip definition; ok abstracts the checks of Validate that look at nothing
\* but the clip itself (names, times, nfo_type, metadata).
Clip == [path : Paths, input : Files, cut : Cuts, meta : Metas \cup {None}, ok : BOOLEAN]

ASSUME ConfigAssumption ==
  /\ MaxVersion \in Nat \ {0}
  /\ Upgrades \in [Files -> SUBSET Files]
  /\ None \notin Paths \cup Files \cup Cuts \cup Metas

\* The input itself while it exists, else the newest of its upgrades.  The
\* result is a set: empty when nothing is found, and with more than one element
\* when the newest upgrades have the same time (the directory order decides).
Resolved(m, f) ==
  IF m[f] # 0 THEN {f}
  ELSE LET present == {g \in Upgrades[f] : m[g] # 0}
       IN  {g \in present : \A h \in present : m[h] <= m[g]}

\* Mutant: paths are compared as they are written.
CaseSensitiveDuplicate(list, i) ==
  \E j \in 1..(i - 1) : list[j].path = list[i].path

Duplicate(list, i) ==
  \E j \in 1..(i - 1) : Folded[list[j].path] = Folded[list[i].path]

Problem(m, list, i) ==
  \/ ~list[i].ok
  \/ Duplicate(list, i)
  \/ Resolved(m, list[i].input) = {}

\* The clips that are built and served, and the paths that are only reported.
Wanted(m, list) ==
  {list[i] : i \in {j \in DOMAIN list : ~Problem(m, list, j)}}

PathsOf(C) == {c.path : c \in C}

Invalid(m, list) ==
  {list[i].path : i \in {j \in DOMAIN list : Problem(m, list, j)}}
     \ PathsOf(Wanted(m, list))
=============================================================================
