----------------------------- MODULE MCSession -----------------------------
(* Small thresholds for TLC.  They keep the order of the defaults of       *)
(* s2s_session_params (open = reopen < barge, close < open, delay < wait)  *)
(* and their extremes: no grace, a delay cut to the wait.                  *)
EXTENDS Session

Usual  == [open |-> 2, barge |-> 3, reopen |-> 2, close |-> 1,
           delay |-> 2, wait |-> 4, grace |-> 2, pad |-> 1]
Hasty  == [open |-> 1, barge |-> 2, reopen |-> 1, close |-> 1,
           delay |-> 2, wait |-> 2, grace |-> 0, pad |-> 1]
Slow   == [open |-> 3, barge |-> 3, reopen |-> 2, close |-> 2,
           delay |-> 1, wait |-> 3, grace |-> 3, pad |-> 2]
(* A continuation asked to be longer than an opening.                      *)
Reluctant == [open |-> 2, barge |-> 2, reopen |-> 3, close |-> 1,
              delay |-> 2, wait |-> 4, grace |-> 4, pad |-> 1]

UsualParams     == {Usual, Hasty, Slow}
ReluctantParams == {Reluctant}
=============================================================================
