----------------------------- MODULE MCSettings -----------------------------
(***************************************************************************)
(* The settings of a connection, and its wake gate: two models of what     *)
(* client_mutex guards, checked side by side, each alone from its start.   *)
(***************************************************************************)
EXTENDS Settings

CONSTANTS MaxTurns, MaxQueue

VARIABLES part, mode, wake, awake, admitted_turn, turn, answers, answering, verdict,
          through, hushed

gate == <<mode, wake, awake, admitted_turn, turn, answers, answering, verdict, through, hushed>>
Gate == INSTANCE WakeGate

\* Three URLs, two of them on hosts that are allowed.
MCUrls == {"a", "b", "c"}
MCHost == [u \in MCUrls |-> u]
MCHosts == {"a", "b"}
MCOwn == Endpoint("own", "own key")

MCInit == part \in {"settings", "gate"} /\ Init /\ Gate!Init
MCNext ==
  /\ part' = part
  /\ \/ part = "settings" /\ Next /\ UNCHANGED gate
     \/ part = "gate" /\ Gate!Next /\ UNCHANGED vars
MCSpec == MCInit /\ [][MCNext]_<<part, vars, gate>>

GateHolds == Gate!GateHolds
=============================================================================
