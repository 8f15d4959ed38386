---------------------------- MODULE Conversation ----------------------------
(***************************************************************************)
(* One conversation of the server, src/s2s-conversation.cpp: the reader,   *)
(* the recognizer, the responder and the writer of a connection, around    *)
(* the turn session (module Session).                                      *)
(*                                                                         *)
(* A step of a thread is what it does under one lock, or one access to an  *)
(* atomic flag.  session_mutex is held by the reader from the push of a    *)
(* frame to the end of its callbacks (reader at "window" or "events"); a   *)
(* release, from another thread, runs its callback within its own step,    *)
(* for nobody reads the session without the lock.  turn_mutex is held      *)
(* within one step; the wait on turn_cv is explicit, since cancel and stop *)
(* change without that lock.                                               *)
(***************************************************************************)
EXTENDS Integers, Sequences, FiniteSets

CONSTANTS Params, RunCap, MaxTurns, MaxRevisions,
          MaxUnits   (* bound: units of one answer                           *)

ASSUME ConversationAssumption == MaxTurns \in Nat /\ MaxRevisions \in Nat

(* The turn session; speaking_s is its copy of the floor.                  *)
VARIABLES params, phase, in_speech, speech_run, silence_run, pending_run,
          grace_left, grace_given, committed, released, turn_id, revision,
          speaking_s, reports

S == INSTANCE Session WITH speaking <- speaking_s

sessionVars == <<params, phase, in_speech, speech_run, silence_run, pending_run,
                 grace_left, grace_given, committed, released, turn_id,
                 revision, speaking_s, reports>>

VARIABLES
  reader,        (* where the reader is                                      *)
  events,        (* the callbacks of the last window still to run            *)
  queue,         (* committed turns waiting for the recognizer               *)
  answers,       (* recognized turns waiting for the responder               *)
  recognizer,    (* where the recognizer is                                  *)
  heard_turn,    (* the turn and revision it works on                        *)
  responder,     (* where the responder is                                   *)
  job,           (* the recognized turn it answers                           *)
  answer,        (* answer_turn and answer_revision                          *)
  answer_released,
  tail,          (* the unit being spoken is the last of its answer          *)
  units,         (* units of the answer so far                               *)
  final_turn,
  opened,        (* open_turn and open_revision                              *)
  speaking,      (* the assistant holds the floor                            *)
  cancel,
  stop,
  out_stop,
  writer         (* where the writer is                                      *)

(* History, read by the properties only.                                   *)
VARIABLES
  finals,        (* the turns and revisions declared final                   *)
  spoken,        (* the turns and revisions the client got audio for         *)
  response       (* the response.created not closed yet                      *)

turnVars      == <<final_turn, opened>>
flags         == <<speaking, cancel, stop, out_stop>>
queues        == <<queue, answers>>
readerVars    == <<reader, events>>
recognizerVars == <<recognizer, heard_turn>>
responderVars == <<responder, job, answer, answer_released, tail, units>>
historyVars   == <<finals, spoken, response>>
allVars == <<sessionVars, turnVars, flags, queues, readerVars, recognizerVars,
             responderVars, writer, historyVars>>

Turn(t, r) == [turn |-> t, rev |-> r]
NoTurn == Turn(0, 0)

Newer(a, b) == a.turn > b.turn \/ (a.turn = b.turn /\ a.rev > b.rev)

(* conn_outdated and conn_revised                                          *)
Outdated(a) == Newer(opened, a)
Revised(a)  == opened.turn = a.turn /\ opened.rev > a.rev

----------------------------------------------------------------------------
(* turn_cv: the responder sleeps at the gate until somebody notifies it.   *)

NotifyTurn == responder' = IF responder = "asleep" THEN "gate" ELSE responder

SessionFree == reader \notin {"window", "events"}

(* s2s_session_release under session_mutex, with the callback of a final   *)
(* turn: the latest turn declared final, under turn_mutex.                 *)
ReleaseTurn(a) ==
  /\ SessionFree
  /\ S!Release(a.turn, a.rev)
  /\ IF reports' # <<>>
     THEN /\ final_turn' = IF a.turn > final_turn THEN a.turn ELSE final_turn
          /\ finals' = finals \cup {a}
     ELSE UNCHANGED <<final_turn, finals>>

----------------------------------------------------------------------------
(* The reader: conn_frame on what the client sends, then conn_close.       *)

(* An audio frame that completes a window: the floor is handed to the      *)
(* session, then the windows.                                              *)
ReadAudio ==
  /\ reader = "read"
  /\ ~stop
  /\ S!SetSpeaking(speaking)
  /\ reader' = "window"
  /\ UNCHANGED <<events, turnVars, flags, queues, recognizerVars, responderVars,
                 writer, historyVars>>

PushWindow ==
  /\ reader = "window"
  /\ \E prob \in {"above", "below"}, complete \in BOOLEAN : S!Window(prob, complete)
  /\ events' = reports'
  /\ reader' = "events"
  /\ UNCHANGED <<turnVars, flags, queues, recognizerVars, responderVars, writer,
                 historyVars>>

(* The frame may hold another window, under the same floor.                *)
EndWindow(to) ==
  /\ reader = "events"
  /\ events = <<>>
  /\ reader' = to
  /\ UNCHANGED <<sessionVars, events, turnVars, flags, queues, recognizerVars,
                 responderVars, writer, historyVars>>

NextWindow == EndWindow("window")
EndFrame   == EndWindow("read")

NextEvent(event) ==
  /\ reader = "events"
  /\ events # <<>>
  /\ Head(events).event \in event
  /\ events' = Tail(events)
  /\ UNCHANGED <<sessionVars, reader, recognizerVars, writer, stop, out_stop, speaking,
                 answers, job, answer, answer_released, tail, units, spoken, response>>

EventTurn == Turn(Head(events).turn, Head(events).rev)

(* conn_opened: an answer in flight to anything older is void at once.     *)
OnOpened ==
  /\ NextEvent({"SPEECH_STARTED", "TURN_RESUMED"})
  /\ opened' = IF Newer(EventTurn, opened) THEN EventTurn ELSE opened
  /\ cancel' = (cancel \/ (speaking /\ Newer(opened', answer)))
  /\ NotifyTurn
  /\ UNCHANGED <<final_turn, queue, finals>>

(* Variant: nobody is woken.                                               *)
OnFinalUnheard ==
  /\ NextEvent({"TURN_FINAL"})
  /\ final_turn' = IF EventTurn.turn > final_turn THEN EventTurn.turn ELSE final_turn
  /\ finals' = finals \cup {EventTurn}
  /\ UNCHANGED <<opened, queue, cancel, responder>>

OnFinal ==
  /\ NextEvent({"TURN_FINAL"})
  /\ final_turn' = IF EventTurn.turn > final_turn THEN EventTurn.turn ELSE final_turn
  /\ finals' = finals \cup {EventTurn}
  /\ NotifyTurn
  /\ UNCHANGED <<opened, queue, cancel>>

(* The flag, then the notification.                                        *)
OnBargeIn ==
  /\ reader = "events"
  /\ events # <<>>
  /\ Head(events).event = "BARGE_IN"
  /\ cancel' = TRUE
  /\ events' = <<[Head(events) EXCEPT !.event = "NOTIFY"]>> \o Tail(events)
  /\ UNCHANGED <<sessionVars, reader, turnVars, speaking, stop, out_stop, queues,
                 recognizerVars, responderVars, writer, historyVars>>

NotifyBargeIn ==
  /\ NextEvent({"NOTIFY"})
  /\ NotifyTurn
  /\ UNCHANGED <<turnVars, queue, cancel, finals>>

OnCommitted ==
  /\ NextEvent({"TURN_COMMITTED"})
  /\ queue' = Append(queue, EventTurn)
  /\ UNCHANGED <<turnVars, responder, cancel, finals>>

OnLogged ==
  /\ NextEvent({"SPEECH_STOPPED", "TURN_REOPENED"})
  /\ UNCHANGED <<turnVars, responder, cancel, queue, finals>>

(* response.cancel: the flag, then the notification.                       *)
ReadCancel ==
  /\ reader = "read"
  /\ ~stop
  /\ cancel' = TRUE
  /\ reader' = "notify"
  /\ UNCHANGED <<sessionVars, events, turnVars, speaking, stop, out_stop, queues,
                 recognizerVars, responderVars, writer, historyVars>>

NotifyCancel ==
  /\ reader = "notify"
  /\ reader' = "read"
  /\ NotifyTurn
  /\ UNCHANGED <<sessionVars, events, turnVars, flags, queues, recognizerVars,
                 job, answer, answer_released, tail, units, writer, historyVars>>

(* The client closed, or a stop was seen with its next frame: conn_close.  *)
ReadEnd ==
  /\ reader = "read"
  /\ reader' = "stop1"
  /\ UNCHANGED <<sessionVars, events, turnVars, flags, queues, recognizerVars,
                 responderVars, writer, historyVars>>

CloseCancel ==
  /\ reader = "stop1"
  /\ cancel' = TRUE
  /\ reader' = "stop2"
  /\ UNCHANGED <<sessionVars, events, turnVars, speaking, stop, out_stop, queues,
                 recognizerVars, responderVars, writer, historyVars>>

CloseStop ==
  /\ reader = "stop2"
  /\ stop' = TRUE
  /\ reader' = "stop3"
  /\ UNCHANGED <<sessionVars, events, turnVars, speaking, cancel, out_stop, queues,
                 recognizerVars, responderVars, writer, historyVars>>

(* Variant: nobody is woken.                                               *)
CloseUnheard ==
  /\ reader = "stop3"
  /\ reader' = "join"
  /\ UNCHANGED <<sessionVars, events, turnVars, flags, queues, recognizerVars,
                 responderVars, writer, historyVars>>

CloseNotify ==
  /\ reader = "stop3"
  /\ NotifyTurn
  /\ reader' = "join"
  /\ UNCHANGED <<sessionVars, events, turnVars, flags, queues, recognizerVars,
                 job, answer, answer_released, tail, units, writer, historyVars>>

CloseJoin ==
  /\ reader = "join"
  /\ recognizer = "exit" /\ responder = "exit"
  /\ out_stop' = TRUE
  /\ reader' = "join_writer"
  /\ UNCHANGED <<sessionVars, events, turnVars, speaking, cancel, stop, queues,
                 recognizerVars, responderVars, writer, historyVars>>

Closed ==
  /\ reader = "join_writer"
  /\ writer = "exit"
  /\ reader' = "closed"
  /\ UNCHANGED <<sessionVars, events, turnVars, flags, queues, recognizerVars,
                 responderVars, writer, historyVars>>

ReaderCallback == \/ NextWindow \/ EndFrame \/ OnOpened \/ OnFinal \/ OnBargeIn
                  \/ NotifyBargeIn \/ OnCommitted \/ OnLogged
ReaderClose == CloseCancel \/ CloseStop \/ CloseNotify \/ CloseJoin \/ Closed
Reader == \/ ReadAudio \/ PushWindow \/ ReaderCallback
          \/ ReadCancel \/ NotifyCancel \/ ReadEnd \/ ReaderClose

----------------------------------------------------------------------------
(* The recognizer: conn_recognizer and conn_recognize.                     *)

RecognizerStep ==
  UNCHANGED <<turnVars, flags, readerVars, responderVars, writer, spoken, response>>

TakeTurn ==
  /\ recognizer = "idle"
  /\ \/ /\ stop
        /\ recognizer' = "exit"
        /\ UNCHANGED <<queue, heard_turn>>
     \/ /\ ~stop
        /\ queue # <<>>
        /\ heard_turn' = Head(queue)
        /\ queue' = Tail(queue)
        /\ recognizer' = "check"
  /\ RecognizerStep
  /\ UNCHANGED <<sessionVars, answers, finals>>

(* A later revision carries this audio and more.                           *)
CheckRevised ==
  /\ recognizer = "check"
  /\ recognizer' = IF Revised(heard_turn) THEN "release" ELSE "transcribe"
  /\ RecognizerStep
  /\ UNCHANGED <<sessionVars, queues, heard_turn, finals>>

(* Variant: the turn is not released.                                      *)
NothingReleased ==
  /\ recognizer = "transcribe"
  /\ recognizer' = "idle"
  /\ RecognizerStep
  /\ UNCHANGED <<sessionVars, queues, heard_turn, finals>>

(* A recognition error, an empty transcript, a turn not admitted.          *)
NothingToAnswer ==
  /\ recognizer = "transcribe"
  /\ recognizer' = "release"
  /\ RecognizerStep
  /\ UNCHANGED <<sessionVars, queues, heard_turn, finals>>

Transcript ==
  /\ recognizer = "transcribe"
  /\ answers' = Append(answers, heard_turn)
  /\ recognizer' = "idle"
  /\ RecognizerStep
  /\ UNCHANGED <<sessionVars, queue, heard_turn, finals>>

ReleaseUnanswered ==
  /\ recognizer = "release"
  /\ ReleaseTurn(heard_turn)
  /\ recognizer' = "idle"
  /\ IF reports' # <<>> THEN NotifyTurn ELSE UNCHANGED responder
  /\ UNCHANGED <<opened, flags, readerVars, queues, heard_turn, job, answer,
                 answer_released, tail, units, writer, spoken, response>>

Recognizer == \/ TakeTurn \/ CheckRevised \/ NothingToAnswer \/ Transcript
              \/ ReleaseUnanswered

----------------------------------------------------------------------------
(* The responder: conn_responder and conn_answer.                          *)

ResponderAt(from, to) ==
  /\ responder = from
  /\ responder' = to
  /\ UNCHANGED <<opened, stop, out_stop, queue, readerVars, recognizerVars, writer>>

(* Variant: the answer to the turn recognized last comes first.            *)
TakeAnswerNewest ==
  /\ \/ /\ stop
        /\ ResponderAt("idle", "exit")
        /\ UNCHANGED <<answers, job>>
     \/ /\ ~stop
        /\ answers # <<>>
        /\ ResponderAt("idle", "start")
        /\ job' = answers[Len(answers)]
        /\ answers' = SubSeq(answers, 1, Len(answers) - 1)
  /\ UNCHANGED <<sessionVars, final_turn, speaking, cancel, answer, answer_released,
                 tail, units, historyVars>>

TakeAnswer ==
  /\ \/ /\ stop
        /\ ResponderAt("idle", "exit")
        /\ UNCHANGED <<answers, job>>
     \/ /\ ~stop
        /\ answers # <<>>
        /\ ResponderAt("idle", "start")
        /\ job' = Head(answers)
        /\ answers' = Tail(answers)
  /\ UNCHANGED <<sessionVars, final_turn, speaking, cancel, answer, answer_released,
                 tail, units, historyVars>>

(* The stop is read here, and the flag lowered in the next step.           *)
StartAnswer ==
  /\ ResponderAt("start", IF stop THEN "release" ELSE "clear")
  /\ UNCHANGED <<sessionVars, final_turn, speaking, cancel, answers, job, answer,
                 answer_released, tail, units, historyVars>>

ClearCancel ==
  /\ ResponderAt("clear", "publish")
  /\ cancel' = FALSE
  /\ UNCHANGED <<sessionVars, final_turn, speaking, answers, job, answer,
                 answer_released, tail, units, historyVars>>

(* Variant: what opened during the recognition is not looked at.           *)
PublishBlind ==
  /\ ResponderAt("publish", "created")
  /\ answer' = job
  /\ answer_released' = FALSE
  /\ speaking' = TRUE
  /\ tail' = FALSE
  /\ units' = 0
  /\ UNCHANGED <<sessionVars, final_turn, cancel, answers, job, historyVars>>

(* The answer in flight and the floor, under turn_mutex.                   *)
Publish ==
  /\ ResponderAt("publish", "created")
  /\ answer' = job
  /\ answer_released' = FALSE
  /\ speaking' = TRUE
  /\ cancel' = (cancel \/ Outdated(job))
  /\ tail' = FALSE
  /\ units' = 0
  /\ UNCHANGED <<sessionVars, final_turn, answers, job, historyVars>>

Created ==
  /\ ResponderAt("created", IF cancel THEN "close" ELSE "stream")
  /\ response' = job
  /\ UNCHANGED <<sessionVars, final_turn, speaking, cancel, answers, job, answer,
                 answer_released, tail, units, finals, spoken>>

(* The endpoint writes: a unit of the answer is ready, its last one or not. *)
(* The delta callback speaks it whatever the flag says.                    *)
NextUnit ==
  /\ ~tail
  /\ units < MaxUnits
  /\ ResponderAt("stream", "speak")
  /\ units' = units + 1
  /\ tail' \in BOOLEAN
  /\ UNCHANGED <<sessionVars, final_turn, speaking, cancel, answers, job, answer,
                 answer_released, historyVars>>

(* The stream ends without a tail, fails, or sees the cancel.              *)
StreamOver ==
  /\ ResponderAt("stream", "close")
  /\ UNCHANGED <<sessionVars, final_turn, speaking, cancel, answers, job, answer,
                 answer_released, tail, units, historyVars>>

(* conn_speak: the first unit releases the turn and waits for its final.   *)
ReleaseAtFirstUnit ==
  /\ ~answer_released
  /\ ResponderAt("speak", "gate")
  /\ ReleaseTurn(answer)
  /\ UNCHANGED <<speaking, cancel, answers, job, answer, answer_released, tail, units,
                 spoken, response>>

SpeakNext ==
  /\ answer_released
  /\ ResponderAt("speak", "tts")
  /\ UNCHANGED <<sessionVars, final_turn, speaking, cancel, answers, job, answer,
                 answer_released, tail, units, historyVars>>

(* Variant: off by one turn.                                               *)
GateOpensEarly ==
  \/ stop
  \/ cancel
  \/ final_turn + 1 >= answer.turn
  \/ Outdated(answer)

(* conn_wait_final, its predicate and what follows under turn_mutex.       *)
GateOpens ==
  \/ stop
  \/ cancel
  \/ final_turn >= answer.turn
  \/ Outdated(answer)

Sleep ==
  /\ ~GateOpens
  /\ ResponderAt("gate", "asleep")
  /\ UNCHANGED <<sessionVars, final_turn, speaking, cancel, answers, job, answer,
                 answer_released, tail, units, historyVars>>

PassGate ==
  /\ GateOpens
  /\ ~stop /\ ~cancel /\ ~Outdated(answer)
  /\ ResponderAt("gate", "tts")
  /\ answer_released' = TRUE
  /\ UNCHANGED <<sessionVars, final_turn, speaking, cancel, answers, job, answer,
                 tail, units, historyVars>>

TurnBack ==
  /\ stop \/ cancel \/ Outdated(answer)
  /\ ResponderAt("gate", "close")
  /\ cancel' = (cancel \/ Outdated(answer))
  /\ UNCHANGED <<sessionVars, final_turn, speaking, answers, job, answer,
                 answer_released, tail, units, historyVars>>

(* tts_bridge_speak: chunks go out until the flag is seen after one; a     *)
(* synthesis that fails ends the answer.                                   *)
Synthesize ==
  /\ \/ ResponderAt("tts", "close")
     \/ ~cancel /\ ~tail /\ ResponderAt("tts", "stream")
  /\ spoken' \in {spoken, spoken \cup {answer}}
  /\ UNCHANGED <<sessionVars, final_turn, speaking, cancel, answers, job, answer,
                 answer_released, tail, units, finals, response>>

(* The floor goes back, after the tail of the effect on an answer heard.   *)
LowerFloor ==
  /\ ResponderAt("close", "closing")
  /\ speaking' = FALSE
  /\ spoken' \in {spoken} \cup
       (IF answer_released /\ ~cancel THEN {spoken \cup {answer}} ELSE {})
  /\ UNCHANGED <<sessionVars, final_turn, cancel, answers, job, answer,
                 answer_released, tail, units, finals, response>>

(* response.done or response.cancelled.                                    *)
CloseResponse ==
  /\ ResponderAt("closing", "release")
  /\ response' = NoTurn
  /\ UNCHANGED <<sessionVars, final_turn, speaking, cancel, answers, job, answer,
                 answer_released, tail, units, finals, spoken>>

(* Whatever way the answer ended, the responder is done with its turn.     *)
ReleaseAtEnd ==
  /\ ResponderAt("release", "idle")
  /\ ReleaseTurn(job)
  /\ UNCHANGED <<speaking, cancel, answers, job, answer, answer_released, tail, units,
                 spoken, response>>

ResponderRelease == ReleaseAtFirstUnit \/ ReleaseAtEnd
Responder == \/ TakeAnswer \/ StartAnswer \/ ClearCancel \/ Publish \/ Created
             \/ NextUnit \/ StreamOver \/ SpeakNext \/ Sleep \/ PassGate
             \/ TurnBack \/ Synthesize \/ LowerFloor \/ CloseResponse
             \/ ResponderRelease

----------------------------------------------------------------------------
(* The writer: conn_writer.  A failed send ends the connection.            *)

WriterAt(from, to) ==
  /\ writer = from
  /\ writer' = to
  /\ UNCHANGED <<sessionVars, turnVars, speaking, queues, readerVars,
                 recognizerVars, historyVars>>

SendFails ==
  /\ ~out_stop
  /\ WriterAt("run", "stop1")
  /\ out_stop' = TRUE
  /\ UNCHANGED <<cancel, stop, responderVars>>

WriterCancel ==
  /\ WriterAt("stop1", "stop2")
  /\ cancel' = TRUE
  /\ UNCHANGED <<stop, out_stop, responderVars>>

WriterStop ==
  /\ WriterAt("stop2", "stop3")
  /\ stop' = TRUE
  /\ UNCHANGED <<cancel, out_stop, responderVars>>

WriterNotify ==
  /\ WriterAt("stop3", "exit")
  /\ NotifyTurn
  /\ UNCHANGED <<cancel, stop, out_stop, job, answer, answer_released, tail, units>>

WriterExit ==
  /\ out_stop
  /\ WriterAt("run", "exit")
  /\ UNCHANGED <<cancel, stop, out_stop, responderVars>>

WriterEnds == WriterCancel \/ WriterStop \/ WriterNotify \/ WriterExit
Writer == SendFails \/ WriterEnds

----------------------------------------------------------------------------
Init ==
  /\ S!Init
  /\ reader = "read" /\ events = <<>>
  /\ queue = <<>> /\ answers = <<>>
  /\ recognizer = "idle" /\ heard_turn = NoTurn
  /\ responder = "idle" /\ job = NoTurn /\ answer = NoTurn
  /\ answer_released = FALSE /\ tail = FALSE /\ units = 0
  /\ final_turn = 0 /\ opened = NoTurn
  /\ speaking = FALSE /\ cancel = FALSE /\ stop = FALSE /\ out_stop = FALSE
  /\ writer = "run"
  /\ finals = {} /\ spoken = {} /\ response = NoTurn

Terminated == reader = "closed" /\ UNCHANGED allVars

Next == Reader \/ Recognizer \/ Responder \/ Writer \/ Terminated

Spec == Init /\ [][Next]_allVars

(* Every thread goes on with what it has begun: the endpoint, the          *)
(* recognizer and the synthesis are bounded by timeouts, a frame holds a   *)
(* finite number of windows, and the reader is out of session_mutex        *)
(* between two frames, so a release gets it.                               *)
ThreadsRun ==
  /\ WF_allVars(PushWindow \/ ReaderCallback \/ NotifyCancel \/ ReaderClose)
  /\ SF_allVars(EndFrame)
  /\ WF_allVars(Recognizer) /\ SF_allVars(ReleaseUnanswered)
  /\ WF_allVars(Responder) /\ SF_allVars(ResponderRelease)
  /\ WF_allVars(WriterEnds)

(* The client keeps sending its microphone while it is connected.          *)
AudioArrives == SF_allVars(ReadAudio)

ThreadSpec == Spec /\ ThreadsRun
FairSpec   == Spec /\ ThreadsRun /\ AudioArrives

----------------------------------------------------------------------------
(* What the conversation guarantees.                                       *)

AnswerStates == {"publish", "created", "stream", "speak", "gate", "asleep", "tts",
                 "close", "closing"}

(* What the client hears of a turn answers the revision that became final, *)
(* and that turn is never taken back: the gate of conn_wait_final against  *)
(* the resumptions the reader sees.                                        *)
HeardTurnStands ==
  \A a \in spoken : /\ a \in finals
                     /\ ~(turn_id = a.turn /\ revision > a.rev)

(* An answer in flight to anything older than what opened last carries the *)
(* cancel, whichever of conn_opened and the publication in conn_answer     *)
(* comes first.                                                            *)
VoidAnswerStops == speaking /\ Outdated(answer) => cancel

(* The threads use the session through its calls alone, a call whole at a  *)
(* time: what holds of module Session holds of it here, whatever thread    *)
(* pushes, releases or hands it the floor.                                 *)
SessionSpec == S!Spec

(* The answers the client sees.                                            *)
ResponseStage == IF response # NoTurn THEN "open"
                 ELSE IF responder = "created" THEN "taken" ELSE "none"

Response == INSTANCE ResponseLife WITH
  stage <- ResponseStage, final <- finals, heard <- spoken

(* The connection implements the life of a response (ResponseLife): opened *)
(* and closed one at a time, in the order of the turns, each turn and      *)
(* revision answered once, whatever of them is overtaken, dropped or       *)
(* released on the way from conn_on_session_event over the two queues to   *)
(* conn_answer; and sounded only while open, once its turn is final.       *)
ResponseSpec == Response!Spec

(* A response.created is closed, and before the next one: whatever cuts    *)
(* the answer, the gate included (docs/ARCHITECTURE.md 518).               *)
ResponseCloses == response # NoTurn ~> response = NoTurn

(* A committed turn does not stay resumable for ever: every way a turn ends *)
(* without a sound releases it (conn_recognize, TurnRelease in conn_answer). *)
TurnSettles == committed ~> ~committed \/ stop

(* conn_close ends: nobody it joins sleeps through the stop.               *)
CloseEnds == reader = "stop1" ~> reader = "closed"

(* conn_stop, 452 to 453: the answer in flight stops.  Once it returned,   *)
(* no answer goes on without its cancel.                                   *)
AnswerStopsWithConnection ==
  reader = "join" /\ responder \in AnswerStates => cancel

(* docs/ARCHITECTURE.md 112 to 113: an answer asleep at the gate wakes,    *)
(* even if the client sent no audio since its commit.                      *)
(* The code does not keep it: see the README.                              *)
AnswerHeardWithoutAudio == responder = "asleep" ~> responder # "asleep"
=============================================================================
