------------------------------ MODULE WakeGate ------------------------------
(***************************************************************************)
(* The wake phrase gate of a connection: conn_admit, conn_sleep and the    *)
(* part of conn_apply_patch of src/s2s-conversation.cpp that touch it, and *)
(* the two threads between them.  The recognizer hears turns and their     *)
(* revisions and queues what the gate lets through; the responder answers  *)
(* one after the other, and the model may call the sleep tool as it does.  *)
(*                                                                         *)
(* A transcript is what the gate looks for in it; client_mutex makes each  *)
(* of the three a step.  The conversation mode is the agentic one of a     *)
(* model that calls nothing.                                               *)
(***************************************************************************)
EXTENDS Integers, Sequences

CONSTANTS MaxTurns,   \* bound: turns of the connection
          MaxQueue    \* bound: answers that wait for the responder

Transcripts == {"plain", "wake", "wake within", "sleep", "both"}
Modes == {"loopback", "agentic"}
WakeModes == {"off", "alone", "anywhere"}

VARIABLES
  mode, wake,      \* of the session
  awake, admitted_turn,
  turn,            \* the turn the recognizer heard last
  answers,         \* turns let through, not answered yet
  answering,       \* [turn, agentic] of the answer, turn 0 for none
  verdict,         \* history: the last recognition and its verdict
  through,         \* history: turns the gate let through
  hushed           \* history: put to sleep, by a phrase or a tool, no wake since

history == <<through, hushed>>
vars == <<mode, wake, awake, admitted_turn, turn, answers, answering, verdict, history>>

NoVerdict == [turn |-> 0, heard |-> "plain", known |-> FALSE, hushed |-> FALSE,
              gated |-> FALSE, admitted |-> FALSE]

\* A session starts on the defaults of the server, awake.
Init ==
  /\ mode = "agentic" /\ wake = "off" /\ awake = TRUE /\ admitted_turn = 0
  /\ turn = 0 /\ answers = <<>> /\ answering = [turn |-> 0, agentic |-> FALSE]
  /\ verdict = NoVerdict
  /\ through = {} /\ hushed = FALSE

WakeHeard(heard, alone) == heard \in (IF alone THEN {"wake"} ELSE {"wake", "wake within", "both"})
SleepHeard(heard) == heard \in {"sleep", "both"}

\* A turn asleep wakes only by its phrase, and not at all with the gate off.
Wakes(heard) == wake # "off" /\ WakeHeard(heard, wake = "alone")

\* Variant: a revision is asked again like a turn of its own.
PassesAnew(t, heard) == awake \/ Wakes(heard)
\* A turn that got through keeps doing so through its revisions.
Passes(t, heard) == t = admitted_turn \/ awake \/ Wakes(heard)

\* A sleep phrase in a turn that got through puts to sleep after it.
AwakeAfter(t, heard) ==
  /\ awake \/ t # admitted_turn
  /\ ~(wake # "off" /\ SleepHeard(heard))

\* The recognizer hears a turn, or a revision of the last one.
Recognize ==
  /\ Len(answers) < MaxQueue
  /\ \E t \in {turn, turn + 1} \cap 1 .. MaxTurns, heard \in Transcripts :
       LET gated == mode # "loopback"
           pass == ~gated \/ Passes(t, heard)
           wakes == gated /\ pass /\ t # admitted_turn /\ Wakes(heard)
           hushes == gated /\ pass /\ wake # "off" /\ SleepHeard(heard)
       IN  /\ turn' = t
           /\ answers' = IF pass THEN Append(answers, t) ELSE answers
           /\ admitted_turn' = IF gated /\ pass THEN t ELSE admitted_turn
           /\ awake' = IF gated /\ pass THEN AwakeAfter(t, heard) ELSE awake
           /\ verdict' = [turn |-> t, heard |-> heard, known |-> t \in through,
                          hushed |-> hushed, gated |-> gated, admitted |-> pass]
           /\ through' = IF gated /\ pass THEN through \cup {t} ELSE through
           /\ hushed' = (hushes \/ (hushed /\ ~wakes))
  /\ UNCHANGED <<mode, wake, answering>>

Take ==
  /\ answering.turn = 0 /\ answers # <<>>
  /\ answering' = [turn |-> Head(answers), agentic |-> mode = "agentic"]
  /\ answers' = Tail(answers)
  /\ UNCHANGED <<mode, wake, awake, admitted_turn, turn, verdict, history>>

\* The model calls sleep as it answers.
Sleep ==
  /\ answering.turn # 0 /\ answering.agentic
  /\ awake' = FALSE /\ hushed' = TRUE
  /\ UNCHANGED <<mode, wake, admitted_turn, turn, answers, answering, verdict, through>>

Answered ==
  /\ answering.turn # 0
  /\ answering' = [turn |-> 0, agentic |-> FALSE]
  /\ UNCHANGED <<mode, wake, awake, admitted_turn, turn, answers, verdict, history>>

\* A change of mode wakes for off and puts to sleep for the others.
AwakeIn(w) == IF w # wake THEN w = "off" ELSE awake

Update ==
  /\ \E m \in Modes, w \in WakeModes :
       /\ mode' = m /\ wake' = w
       /\ awake' = AwakeIn(w)
       /\ hushed' = (hushed /\ w = wake)
  /\ UNCHANGED <<admitted_turn, turn, answers, answering, verdict, through>>

Next == Recognize \/ Take \/ Sleep \/ Answered \/ Update
Spec == Init /\ [][Next]_vars

(* ------------------------------ properties ----------------------------- *)

\* A turn the gate let through once gets through with every revision, asleep
\* or not, whatever the session changed between the two.
RevisionsFollow == verdict.known => verdict.admitted

\* Put to sleep, by the phrase of a turn that got through or by the tool of
\* an answer, the next turn the gate lets through holds a wake phrase, however
\* many were heard in between, unless the mode of the gate changed.  A turn
\* heard before the tool ran keeps its answer and its revisions.
SleepHolds ==
  verdict.hushed /\ verdict.gated /\ verdict.admitted /\ ~verdict.known =>
    WakeHeard(verdict.heard, FALSE)

\* Asleep, the gate is shut to all but a wake phrase and the turns it knows.
GateHolds == RevisionsFollow /\ SleepHolds
=============================================================================
