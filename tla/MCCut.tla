-------------------------------- MODULE MCCut --------------------------------
(* Small media files for TLC. *)
EXTENDS Cut

Video(rel, key) == [track |-> VideoTrack, rel |-> rel, key |-> key]
Audio(rel) == [track |-> AudioTrack, rel |-> rel, key |-> FALSE]
MCBlocks == {Video(0, TRUE), Video(1, TRUE), Video(2, FALSE), Video(-1, FALSE),
             Video(-1, TRUE), Audio(0), Audio(1)}

F(cues, noisy, timed, live, blocks, lost) ==
  [cues |-> cues, noisy |-> noisy, timed |-> timed, live |-> live, blocks |-> blocks, lost |-> lost]
MCFormats == {F("back", TRUE, TRUE, FALSE, 4, 0), F("front", FALSE, FALSE, FALSE, 2, 2),
              F("back", FALSE, TRUE, TRUE, 1, 0), F("none", TRUE, FALSE, FALSE, 1, 0),
              F("front", TRUE, TRUE, FALSE, 1, 12)}
=============================================================================
