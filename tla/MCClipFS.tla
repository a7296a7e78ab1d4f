------------------------------ MODULE MCClipFS ------------------------------
(* A small tree for TLC: one clip on its own in a/b, and a clip a/x whose   *)
(* file has the name of the folder that the clip a/x.mkv/w is in.           *)
EXTENDS ClipFS, Sequences

CONSTANTS l1, l2, m1

MCPaths == {"a/b/p", "a/x", "a/x.mkv/w"}
MCVideo == [p \in MCPaths |-> CASE p = "a/b/p" -> <<"a", "b", "p.mkv">>
                                [] p = "a/x" -> <<"a", "x.mkv">>
                                [] OTHER -> <<"a", "x.mkv", "w.mkv">>]
MCInfo == [p \in MCPaths |-> CASE p = "a/b/p" -> <<"a", "b", "p.nfo">>
                               [] p = "a/x" -> <<"a", "x.nfo">>
                               [] OTHER -> <<"a", "x.mkv", "w.nfo">>]
Prefixes(n) == {SubSeq(n, 1, i) : i \in 1..(Len(n) - 1)}
MCFiles == {MCVideo[p] : p \in MCPaths} \cup {MCInfo[p] : p \in MCPaths}
MCNodes == MCFiles \cup UNION {Prefixes(n) : n \in MCFiles}
MCAbove == [n \in MCNodes |-> Prefixes(n)]
=============================================================================
