------------------------------ MODULE MCEngine ------------------------------
(* Small instances of Engine for TLC; the cfg files choose the parts. *)
EXTENDS EngineProperties, TLC

CONSTANTS p1, p2, mkv, mp4, k1, k2, m1, w1, w2, o1

MCSymmetry == Permutations(Workers)

\* Every cut can be made by byte ranges, or none.
AllCuts == Files \X Cuts
NoCuts == {}

\* Two paths that differ in case only, and a file whose upgrade has another name.
MCFolded == [p \in Paths |-> p1]
MCUpgrades == [f \in Files |-> IF f = mkv THEN Files \ {mkv} ELSE {}]

C(p, f, k, m) == [path |-> p, input |-> f, cut |-> k, meta |-> m, ok |-> TRUE]
Bad(c) == [c EXCEPT !.ok = FALSE]

\* One clip of a remuxed source, its range, metadata and validity edited.
OneClip == {<<>>, <<C(p1, mp4, k1, None)>>, <<C(p1, mp4, k2, m1)>>, <<Bad(C(p1, mp4, k1, None))>>}

\* For the liveness runs: the clip comes and goes, or its range and metadata change.
Removed == {<<>>, <<C(p1, mp4, k1, m1)>>}
Recut == {<<C(p1, mp4, k1, None)>>, <<C(p1, mp4, k2, m1)>>}

\* A clip of a byte-range source that an upgrade replaces, moved to a folder that
\* differs in case, with the old entry still there or not.
TwoPaths == {<<C(p1, mkv, k1, None)>>, <<C(p2, mkv, k1, m1), C(p1, mkv, k1, None)>>,
             <<Bad(C(p1, mkv, k1, m1))>>}
=============================================================================
