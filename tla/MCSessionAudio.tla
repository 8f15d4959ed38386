--------------------------- MODULE MCSessionAudio ---------------------------
(* Small thresholds for the audio of the session.                          *)
EXTENDS SessionAudio

Usual    == [open |-> 2, barge |-> 3, reopen |-> 2, close |-> 1,
             delay |-> 2, wait |-> 4, grace |-> 2, pad |-> 1]
(* Only the classifier's side differs: a patch that moves no onset.        *)
Patient  == [open |-> 2, barge |-> 3, reopen |-> 1, close |-> 2,
             delay |-> 3, wait |-> 3, grace |-> 1, pad |-> 1]
(* Long openings, then short ones: what a slider of the page can do.       *)
Long     == [open |-> 4, barge |-> 4, reopen |-> 2, close |-> 1,
             delay |-> 2, wait |-> 3, grace |-> 2, pad |-> 1]
Short    == [open |-> 1, barge |-> 1, reopen |-> 1, close |-> 1,
             delay |-> 2, wait |-> 3, grace |-> 2, pad |-> 1]

OneSet    == {Usual}
PatchSet  == {Usual, Patient}
OnsetSet  == {Long, Short}
=============================================================================
