---------------------------- MODULE ResponseLife ----------------------------
(***************************************************************************)
(* What a connection promises the client of its answers,                   *)
(* src/s2s-conversation.cpp: one at a time, in the order of the turns, none *)
(* to a turn or a revision answered before, and a sound only while the     *)
(* response is open and only of a turn that is final.  The threads, queues *)
(* and flags that keep it are those of module Conversation.                *)
(***************************************************************************)
EXTENDS Integers

VARIABLES
  answer,   (* the turn and revision answered last                           *)
  stage,    (* "none", "taken" with its response to be created, or "open"    *)
  final,    (* the turns and revisions declared final                        *)
  heard     (* those the client got audio for                                *)

vars == <<answer, stage, final, heard>>

Turns == [turn : Nat, rev : Nat]

After(a, b) == a.turn > b.turn \/ (a.turn = b.turn /\ a.rev > b.rev)

Init ==
  /\ answer = [turn |-> 0, rev |-> 0]
  /\ stage = "none"
  /\ final = {}
  /\ heard = {}

(* A turn recognized later, or a later revision of the same.               *)
Take ==
  /\ stage = "none"
  /\ answer' \in Turns /\ After(answer', answer)
  /\ stage' = "taken"
  /\ UNCHANGED <<final, heard>>

(* response.created, of every answer taken, void already or not.           *)
Create ==
  /\ stage = "taken"
  /\ stage' = "open"
  /\ UNCHANGED <<answer, final, heard>>

(* The turns become final in their order, each in one revision.            *)
Settle ==
  /\ \E a \in final' \cap Turns :
       /\ \A f \in final : f = a \/ f.turn < a.turn
       /\ final' = final \cup {a}
  /\ UNCHANGED <<answer, stage, heard>>

Sound ==
  /\ stage = "open"
  /\ answer \in final
  /\ heard' = heard \cup {answer}
  /\ UNCHANGED <<answer, stage, final>>

(* response.done or response.cancelled.                                    *)
Close ==
  /\ stage = "open"
  /\ stage' = "none"
  /\ UNCHANGED <<answer, final, heard>>

Next == Take \/ Create \/ Settle \/ Sound \/ Close

Spec == Init /\ [][Next]_vars
=============================================================================
