------------------------------ MODULE Session ------------------------------
(***************************************************************************)
(* The turn state machine of one conversation, src/s2s-session.cpp.        *)
(*                                                                         *)
(* The session consumes audio window by window and decides when a turn of  *)
(* the user opens, ends, goes on, and stands.  The unit of time is one 512 *)
(* sample window, as in the code; every threshold is a count of windows.   *)
(* The events a call emits are in `reports', in the order of the callbacks. *)
(* What the turn holds of the audio is in module SessionAudio.             *)
(***************************************************************************)
EXTENDS Integers, Sequences

CONSTANTS
  Params,        (* the threshold records s2s_session_set_params can install *)
  RunCap,        (* where speech_run and silence_run saturate                *)
  MaxTurns,      (* bound: turns the user opens                              *)
  MaxRevisions   (* bound: revisions of one turn                             *)

PosNat == Nat \ {0}

(* s2s_session_windows rounds every threshold to one window at least; only *)
(* the grace may be zero, and the delay is cut to the wait.                *)
ASSUME ParamsAssumption ==
  /\ Params # {}
  /\ Params \subseteq
       [open : PosNat, barge : PosNat, reopen : PosNat, close : PosNat,
        delay : PosNat, wait : PosNat, grace : Nat, pad : PosNat]
  /\ \A p \in Params : p.delay <= p.wait

(* The runs are only ever compared with a threshold: beyond the largest    *)
(* one a larger count changes nothing.                                     *)
ASSUME BoundsAssumption ==
  /\ RunCap \in Nat
  /\ MaxTurns \in Nat
  /\ MaxRevisions \in Nat
  /\ \A p \in Params :
       p.open <= RunCap /\ p.barge <= RunCap /\ p.reopen <= RunCap /\ p.close <= RunCap

VARIABLES
  params,        (* the thresholds in force                                  *)
  phase,         (* IDLE, USER_SPEAKING or PENDING_END                       *)
  in_speech,     (* the VAD side of the hysteresis                           *)
  speech_run,    (* consecutive windows of speech                            *)
  silence_run,   (* consecutive windows of silence                           *)
  pending_run,   (* windows spent in PENDING_END                             *)
  grace_left,    (* windows of grace left to the committed turn              *)
  grace_given,   (* windows of grace the commit was given                    *)
  committed,     (* a committed turn not final yet                           *)
  released,      (* its answer is ready to be heard, or over                 *)
  turn_id,
  revision,
  speaking,      (* the assistant holds the floor                            *)
  reports        (* the events of the last call                              *)

clock == <<in_speech, speech_run, silence_run, pending_run>>
grace == <<grace_left, grace_given>>
life  == <<committed, released, turn_id, revision>>
vars  == <<params, phase, clock, grace, life, speaking, reports>>

Phases == {"IDLE", "USER_SPEAKING", "PENDING_END"}

(* The VAD probability of a window against the two thresholds: at or above *)
(* vad_threshold, between vad_neg_threshold and it, or below both.         *)
Probabilities == {"above", "between", "below"}

Events == {"SPEECH_STARTED", "SPEECH_STOPPED", "TURN_REOPENED",
           "TURN_COMMITTED", "TURN_FINAL", "TURN_RESUMED", "BARGE_IN"}

Report(event, turn, rev) == [event |-> event, turn |-> turn, rev |-> rev]
Emit(event) == Report(event, turn_id, revision)

----------------------------------------------------------------------------
(* The start of s2s_session_window: the grace, the hysteresis, the runs.   *)

IsSpeech(prob) == prob = "above" \/ (prob = "between" /\ in_speech)

Saturate(n) == IF n < RunCap THEN n ELSE RunCap

SpeechRun(prob)  == IF IsSpeech(prob) THEN Saturate(speech_run + 1) ELSE 0
SilenceRun(prob) == IF IsSpeech(prob) THEN 0 ELSE Saturate(silence_run + 1)

GraceLeft == IF grace_left > 0 THEN grace_left - 1 ELSE 0

(* Variants, here and below, are the operator they precede with one        *)
(* mistake in it: the release forgotten; the final left to it alone.       *)
FinalUnreleased    == committed /\ grace_left = 1
FinalOnReleaseOnly == FALSE

(* s2s_session_try_final, as the window whose decrement ends the grace     *)
(* calls it: the committed turn stands.                                    *)
FinalNow   == committed /\ released /\ grace_left = 1
StillOpen  == committed /\ ~FinalNow
FinalFirst == IF FinalNow THEN <<Emit("TURN_FINAL")>> ELSE <<>>

Hear(prob) ==
  /\ in_speech' = IsSpeech(prob)
  /\ silence_run' = SilenceRun(prob)
  /\ UNCHANGED <<params, speaking>>

(* What the start of a window leaves of the turn, when the switch that     *)
(* follows changes nothing of it.                                          *)
KeepTurn ==
  /\ grace_left' = GraceLeft
  /\ committed' = StillOpen
  /\ UNCHANGED <<grace_given, released, turn_id>>

(* s2s_session_commit: the turn is handed over with g windows of silence   *)
(* on its answer.                                                          *)
Commit(g) ==
  /\ phase' = "IDLE"
  /\ pending_run' = 0
  /\ speech_run' = 0
  /\ committed' = TRUE
  /\ released' = FALSE
  /\ grace_left' = g
  /\ grace_given' = g
  /\ UNCHANGED <<turn_id, revision>>

----------------------------------------------------------------------------
(* The switch of s2s_session_window, one action per outcome.               *)

OpenAt == IF speaking THEN params.barge ELSE params.open

(* IDLE: the speaker goes on before the turn is final.                     *)
Resume(prob) ==
  /\ phase = "IDLE"
  /\ StillOpen
  /\ SpeechRun(prob) >= params.reopen
  /\ revision < MaxRevisions
  /\ phase' = "USER_SPEAKING"
  /\ speech_run' = SpeechRun(prob)
  /\ grace_left' = 0
  /\ committed' = FALSE
  /\ revision' = revision + 1
  /\ reports' = <<Report("TURN_RESUMED", turn_id, revision + 1)>>
  /\ UNCHANGED <<pending_run, grace_given, released, turn_id>>

(* Variant: the opening is tried before the resumption.                    *)
OpenOverCommitted(prob) ==
  /\ phase = "IDLE"
  /\ SpeechRun(prob) >= OpenAt
  /\ turn_id < MaxTurns
  /\ phase' = "USER_SPEAKING"
  /\ speech_run' = SpeechRun(prob)
  /\ grace_left' = 0
  /\ committed' = FALSE
  /\ turn_id' = turn_id + 1
  /\ revision' = 0
  /\ reports' = FinalFirst \o <<Report("SPEECH_STARTED", turn_id + 1, 0)>>
  /\ UNCHANGED <<pending_run, grace_given, released>>

(* IDLE: a turn opens, over the assistant if it holds the floor.           *)
OpenTurn(prob) ==
  /\ phase = "IDLE"
  /\ ~(StillOpen /\ SpeechRun(prob) >= params.reopen)
  /\ SpeechRun(prob) >= OpenAt
  /\ turn_id < MaxTurns
  /\ phase' = "USER_SPEAKING"
  /\ speech_run' = SpeechRun(prob)
  /\ grace_left' = 0
  /\ committed' = FALSE
  /\ turn_id' = turn_id + 1
  /\ revision' = 0
  /\ reports' = FinalFirst
                \o (IF speaking THEN <<Emit("BARGE_IN")>> ELSE <<>>)
                \o <<Report("SPEECH_STARTED", turn_id + 1, 0)>>
  /\ UNCHANGED <<pending_run, grace_given, released>>

(* IDLE: nothing opens; the grace may end on this window.                  *)
StayIdle(prob) ==
  /\ phase = "IDLE"
  /\ ~(StillOpen /\ SpeechRun(prob) >= params.reopen)
  /\ SpeechRun(prob) < OpenAt
  /\ speech_run' = SpeechRun(prob)
  /\ KeepTurn
  /\ reports' = FinalFirst
  /\ UNCHANGED <<phase, pending_run, revision>>

(* USER_SPEAKING: the speech goes on, or its silence is still short.       *)
StaySpeaking(prob) ==
  /\ phase = "USER_SPEAKING"
  /\ SilenceRun(prob) < params.close
  /\ speech_run' = SpeechRun(prob)
  /\ KeepTurn
  /\ reports' = FinalFirst
  /\ UNCHANGED <<phase, pending_run, revision>>

(* USER_SPEAKING: the speech to silence boundary, which the classifier     *)
(* judges; a classifier that fails scores -1, an incomplete turn.          *)
Boundary(prob, complete) ==
  /\ phase = "USER_SPEAKING"
  /\ SilenceRun(prob) >= params.close
  /\ IF complete
     THEN /\ Commit(params.grace)
          /\ reports' = FinalFirst
                        \o <<Emit("SPEECH_STOPPED"), Emit("TURN_COMMITTED")>>
     ELSE /\ phase' = "PENDING_END"
          /\ pending_run' = 0
          /\ speech_run' = SpeechRun(prob)
          /\ KeepTurn
          /\ reports' = FinalFirst
                        \o <<Emit("SPEECH_STOPPED"), Emit("TURN_REOPENED")>>
          /\ UNCHANGED revision

(* PENDING_END: the speaker came back within the delay.                    *)
Reopen(prob) ==
  /\ phase = "PENDING_END"
  /\ SpeechRun(prob) >= params.reopen
  /\ revision < MaxRevisions
  /\ phase' = "USER_SPEAKING"
  /\ pending_run' = pending_run + 1
  /\ speech_run' = SpeechRun(prob)
  /\ KeepTurn
  /\ revision' = revision + 1
  /\ reports' = FinalFirst \o <<Report("SPEECH_STARTED", turn_id, revision + 1)>>

(* Variant: the wait counted from the commit.                              *)
ExpireWholeWait(prob) ==
  /\ phase = "PENDING_END"
  /\ SpeechRun(prob) < params.reopen
  /\ pending_run + 1 >= params.delay
  /\ Commit(params.wait)
  /\ reports' = FinalFirst \o <<Emit("TURN_COMMITTED")>>

(* PENDING_END: the delay is over, the rest of the wait becomes grace.     *)
Expire(prob) ==
  /\ phase = "PENDING_END"
  /\ SpeechRun(prob) < params.reopen
  /\ pending_run + 1 >= params.delay
  /\ Commit(params.wait - params.delay)
  /\ reports' = FinalFirst \o <<Emit("TURN_COMMITTED")>>

StayPending(prob) ==
  /\ phase = "PENDING_END"
  /\ SpeechRun(prob) < params.reopen
  /\ pending_run + 1 < params.delay
  /\ pending_run' = pending_run + 1
  /\ speech_run' = SpeechRun(prob)
  /\ KeepTurn
  /\ reports' = FinalFirst
  /\ UNCHANGED <<phase, revision>>

(* s2s_session_window on one window of audio.                              *)
Window(prob, complete) ==
  /\ Hear(prob)
  /\ \/ Resume(prob)
     \/ OpenTurn(prob)
     \/ StayIdle(prob)
     \/ StaySpeaking(prob)
     \/ Boundary(prob, complete)
     \/ Reopen(prob)
     \/ Expire(prob)
     \/ StayPending(prob)

----------------------------------------------------------------------------
(* The other calls of the C interface.                                     *)

(* s2s_session_release: the answer to (t, r) is ready to be heard, or over. *)
(* A release that names another turn or an older revision does nothing.    *)
Release(t, r) ==
  /\ UNCHANGED <<params, phase, clock, grace, turn_id, revision, speaking>>
  /\ \/ /\ ~(committed /\ t = turn_id /\ r = revision)
        /\ reports' = <<>>
        /\ UNCHANGED <<committed, released>>
     \/ /\ committed /\ t = turn_id /\ r = revision
        /\ released' = TRUE
        /\ \/ /\ grace_left > 0
              /\ reports' = <<>>
              /\ UNCHANGED committed
           \/ /\ grace_left = 0
              /\ committed' = FALSE
              /\ reports' = <<Emit("TURN_FINAL")>>

SetSpeaking(s) ==
  /\ speaking' = s
  /\ reports' = <<>>
  /\ UNCHANGED <<params, phase, clock, grace, life>>

(* s2s_session_set_params keeps the turn in flight and its numbering.      *)
SetParams(p) ==
  /\ params' = p
  /\ reports' = <<>>
  /\ UNCHANGED <<phase, clock, grace, life, speaking>>

Init ==
  /\ params \in Params
  /\ phase = "IDLE"
  /\ in_speech = FALSE
  /\ speech_run = 0
  /\ silence_run = 0
  /\ pending_run = 0
  /\ grace_left = 0
  /\ grace_given = 0
  /\ committed = FALSE
  /\ released = FALSE
  /\ turn_id = 0
  /\ revision = 0
  /\ speaking = FALSE
  /\ reports = <<>>

Next ==
  \/ \E prob \in Probabilities, complete \in BOOLEAN : Window(prob, complete)
  \/ \E t \in 0..MaxTurns, r \in 0..MaxRevisions : Release(t, r)
  \/ \E s \in BOOLEAN : SetSpeaking(s)
  \/ \E p \in Params : SetParams(p)

Spec == Init /\ [][Next]_vars

(* The audio keeps arriving.                                               *)
Listening == WF_vars(\E prob \in Probabilities, complete \in BOOLEAN :
                       Window(prob, complete))

FairSpec == Spec /\ Listening

----------------------------------------------------------------------------
(* What the session guarantees.                                            *)

(* Types.  PENDING_END never outlasts its delay by more than the window    *)
(* that ends it, so pending_run stays below the largest delay.             *)
TypeOK ==
  /\ params \in Params
  /\ phase \in Phases
  /\ in_speech \in BOOLEAN
  /\ speech_run \in 0..RunCap
  /\ silence_run \in 0..RunCap
  /\ pending_run \in Nat
  /\ grace_left \in Nat
  /\ grace_given \in Nat
  /\ committed \in BOOLEAN
  /\ released \in BOOLEAN
  /\ turn_id \in 0..MaxTurns
  /\ revision \in 0..MaxRevisions
  /\ speaking \in BOOLEAN

(* A committed turn waits in IDLE: the state machine never listens to a    *)
(* turn it has handed over and not taken back (s2s_session_commit against  *)
(* the resumption and open_turn).                                          *)
CommittedIsIdle == committed => phase = "IDLE"

(* The grace runs for the committed turn alone, within what its commit was *)
(* given: one left behind by a resumption or a new turn would make a later *)
(* turn final before its time.                                             *)
GraceOfCommitted ==
  /\ grace_left > 0 => committed
  /\ grace_left <= grace_given

(* No final is missed: between two calls, a committed turn already released *)
(* still has grace to run.  try_final is called from both sides, the end   *)
(* of the grace and the release, whichever comes last.                     *)
NoMissedFinal == committed /\ released => grace_left > 0

TurnInv == CommittedIsIdle /\ GraceOfCommitted /\ NoMissedFinal

(* A committed turn ends by its final or its resumption, never because     *)
(* another turn opened over it: s2s_session_open_turn drops a committed    *)
(* turn without a word to the caller.                                      *)
NoTurnAbandoned ==
  [][committed /\ turn_id' # turn_id => reports'[1] = Emit("TURN_FINAL")]_vars

(* A released turn never waits for ever: its grace ends, or it is resumed. *)
ReleasedTurnStands == committed /\ released ~> ~committed

(* The life of the turns the caller sees.                                  *)
LifeStage == IF committed THEN "committed"
             ELSE IF phase = "IDLE" THEN "closed" ELSE "open"
LifeAge   == IF committed THEN grace_given - grace_left ELSE 0
LifeDue   == IF committed THEN grace_given ELSE 0
LifeAsked == committed /\ released

Life == INSTANCE TurnLife WITH
  turn <- turn_id, rev <- revision, stage <- LifeStage,
  age <- LifeAge, due <- LifeDue, asked <- LifeAsked

(* The session implements the life of a turn promised by s2s-session.h:    *)
(* final only after the whole grace and the release, never reopened after  *)
(* it, never dropped before it.                                            *)
LifeSpec == Life!Spec
=============================================================================
