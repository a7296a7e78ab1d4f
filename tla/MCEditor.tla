------------------------------ MODULE MCEditor ------------------------------
(* Two browsers, one of them with room for two requests at a time. *)
EXTENDS Editor, TLC

CONSTANTS b1, b2

MCBrowsers == {b1, b2}
MCMaxOpen == [b \in MCBrowsers |-> IF b = b1 THEN 2 ELSE 1]
MCSymmetry == Permutations(Lists)
=============================================================================
