--------------------------- MODULE MCConversation ---------------------------
(* Thresholds for TLC, as short as they can be and still tell the windows  *)
(* apart: a barge-in longer than an opening, a grace after both commits.   *)
EXTENDS Conversation

Quick == [open |-> 1, barge |-> 2, reopen |-> 1, close |-> 1,
          delay |-> 1, wait |-> 2, grace |-> 1, pad |-> 1]

(* For the temporal properties: a barge-in as short as an opening.         *)
Shortest == [Quick EXCEPT !.barge = 1]

OneSet   == {Quick}
ShortSet == {Shortest}
=============================================================================
