------------------------------ MODULE Library ------------------------------
(***************************************************************************)
(* What the mounted library promises to a media server: each path has at   *)
(* most one clip that is wanted there and one that is served, they are the *)
(* same or are cut from the same version of the same file, and only what   *)
(* is wanted is ever put in service.                                       *)
(***************************************************************************)
CONSTANTS Paths, Clips, Source(_), None

VARIABLES wanted, served

Init ==
  /\ wanted = [p \in Paths |-> None]
  /\ served = [p \in Paths |-> None]

\* The clip k is wanted at p and served there from now on.
Serve(p, k) ==
  /\ wanted' = [wanted EXCEPT ![p] = k]
  /\ served' = [served EXCEPT ![p] = k]

\* Another clip is wanted at p; until it can be served the previous one is,
\* unless its source is not the one wanted.
Request(p, k) ==
  /\ wanted' = [wanted EXCEPT ![p] = k]
  /\ served' = [served EXCEPT ![p] = IF @ # None /\ Source(@) = Source(k) THEN @ ELSE None]

\* The wanted clip cannot be served.
Withdraw(p) ==
  /\ served' = [served EXCEPT ![p] = None]
  /\ UNCHANGED wanted

\* Nothing is wanted at the paths in P any more.
Forget(P) ==
  /\ wanted' = [p \in Paths |-> IF p \in P THEN None ELSE wanted[p]]
  /\ served' = [p \in Paths |-> IF p \in P THEN None ELSE served[p]]

Next ==
  \/ \E p \in Paths : Withdraw(p) \/ \E k \in Clips : Serve(p, k) \/ Request(p, k)
  \/ \E P \in SUBSET Paths : Forget(P)

Spec == Init /\ [][Next]_<<wanted, served>>

=============================================================================
