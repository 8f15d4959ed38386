------------------------- MODULE ConversationProofs -------------------------
(***************************************************************************)
(* Proofs about the threads of a connection, for every set of thresholds   *)
(* and every bound: an answer that something newer made void carries the   *)
(* cancel, and what the client hears of a turn answers its final revision; *)
(* that the turns keep their order from their commit to their answer, so   *)
(* the connection implements the life of a response (ResponseLife); and    *)
(* that it uses its session through the calls of module Session alone.     *)
(***************************************************************************)
EXTENDS Conversation, SequenceTheorems, TLAPS

(* Where the responder may be while the floor is the assistant's: after    *)
(* the publication of the answer, before the floor is lowered.             *)
HoldsFloor == {"created", "stream", "speak", "gate", "asleep", "tts", "close"}

FloorOfAnswer == speaking => responder \in HoldsFloor

VoidInv == FloorOfAnswer /\ VoidAnswerStops


----------------------------------------------------------------------------
(* A step that leaves the floor and the answer alone, and does not take    *)
(* the responder out of its answer, keeps the invariant.                   *)
LEMMA FloorKept ==
  ASSUME VoidInv, UNCHANGED <<speaking, opened, answer>>,
         cancel => cancel',
         responder \in HoldsFloor => responder' \in HoldsFloor
  PROVE  VoidInv'
  BY DEF VoidInv, FloorOfAnswer, VoidAnswerStops, Outdated, Newer

(* A notification wakes a responder asleep at the gate, and only there.    *)
LEMMA NotifyKeeps ==
  ASSUME NotifyTurn, responder \in HoldsFloor
  PROVE  responder' \in HoldsFloor
  BY DEF NotifyTurn, HoldsFloor

(* The reader: an opening voids the answer in flight in its own step.      *)
LEMMA ReaderVoid == ASSUME VoidInv, Reader PROVE VoidInv'
<1>1. CASE ReadAudio \/ PushWindow \/ NextWindow \/ EndFrame
  BY <1>1, FloorKept
  DEF ReadAudio, PushWindow, NextWindow, EndFrame, EndWindow, turnVars, flags,
      responderVars
<1>2. CASE OnOpened
  <2>1. UNCHANGED <<speaking, answer>>
    BY <1>2 DEF OnOpened, NextEvent
  <2>2. FloorOfAnswer'
    BY <1>2, <2>1, NotifyKeeps DEF OnOpened, VoidInv, FloorOfAnswer
  <2>3. speaking' /\ Outdated(answer)' => cancel'
    BY <1>2, <2>1 DEF OnOpened, Outdated
  <2> QED
    BY <2>2, <2>3 DEF VoidInv, VoidAnswerStops
<1>3. CASE OnFinal \/ NotifyBargeIn
  BY <1>3, FloorKept, NotifyKeeps DEF OnFinal, NotifyBargeIn, NextEvent, turnVars
<1>4. CASE OnBargeIn \/ ReadCancel \/ CloseCancel
  BY <1>4, FloorKept DEF OnBargeIn, ReadCancel, CloseCancel, turnVars, responderVars
<1>5. CASE OnCommitted \/ OnLogged
  BY <1>5, FloorKept DEF OnCommitted, OnLogged, NextEvent, turnVars
<1>6. CASE NotifyCancel \/ CloseNotify
  BY <1>6, FloorKept, NotifyKeeps DEF NotifyCancel, CloseNotify, turnVars, flags
<1>7. CASE ReadEnd \/ CloseStop \/ CloseJoin \/ Closed
  BY <1>7, FloorKept DEF ReadEnd, CloseStop, CloseJoin, Closed, turnVars, flags, responderVars
<1> QED
  BY <1>1, <1>2, <1>3, <1>4, <1>5, <1>6, <1>7 DEF Reader, ReaderCallback, ReaderClose

(* The recognizer only ever wakes the responder.                           *)
LEMMA RecognizerVoid == ASSUME VoidInv, Recognizer PROVE VoidInv'
<1>1. CASE TakeTurn \/ CheckRevised \/ NothingToAnswer \/ Transcript
  BY <1>1, FloorKept
  DEF TakeTurn, CheckRevised, NothingToAnswer, Transcript, RecognizerStep, turnVars,
      flags, responderVars
<1>2. CASE ReleaseUnanswered
  BY <1>2, FloorKept, NotifyKeeps DEF ReleaseUnanswered, flags
<1> QED
  BY <1>1, <1>2 DEF Recognizer

(* The responder lowers the cancel before it takes the floor, and looks at *)
(* what opened meanwhile in the step that takes it.                        *)
LEMMA ResponderVoid == ASSUME VoidInv, Responder PROVE VoidInv'
<1> USE DEF ResponderAt
<1>1. CASE TakeAnswer \/ StartAnswer
  BY <1>1, FloorKept DEF TakeAnswer, StartAnswer, HoldsFloor
<1>2. CASE ClearCancel
  <2>1. ~speaking /\ speaking' = speaking
    BY <1>2 DEF ClearCancel, VoidInv, FloorOfAnswer, HoldsFloor
  <2> QED
    BY <2>1 DEF VoidInv, FloorOfAnswer, VoidAnswerStops
<1>3. CASE Publish
  <2>1. responder' \in HoldsFloor
    BY <1>3 DEF Publish, HoldsFloor
  <2>2. answer' = job /\ opened' = opened /\ cancel' = (cancel \/ Outdated(job))
    BY <1>3 DEF Publish
  <2>3. Outdated(answer)' => cancel'
    BY <2>2 DEF Outdated, Newer
  <2> QED
    BY <2>1, <2>3 DEF VoidInv, FloorOfAnswer, VoidAnswerStops
<1>4. CASE Created \/ NextUnit \/ StreamOver \/ SpeakNext \/ Sleep
  BY <1>4, FloorKept DEF Created, NextUnit, StreamOver, SpeakNext, Sleep, HoldsFloor
<1>5. CASE PassGate \/ Synthesize
  BY <1>5, FloorKept DEF PassGate, Synthesize, HoldsFloor
<1>6. CASE TurnBack
  <2>1. responder' \in HoldsFloor /\ UNCHANGED <<speaking, opened, answer>>
    BY <1>6 DEF TurnBack, HoldsFloor
  <2>2. cancel => cancel'
    BY <1>6 DEF TurnBack
  <2> QED
    BY <2>1, <2>2, FloorKept
<1>7. CASE LowerFloor
  <2>1. ~speaking'
    BY <1>7 DEF LowerFloor
  <2> QED
    BY <2>1 DEF VoidInv, FloorOfAnswer, VoidAnswerStops
<1>8. CASE CloseResponse \/ ReleaseAtEnd \/ ReleaseAtFirstUnit
  BY <1>8, FloorKept DEF CloseResponse, ReleaseAtEnd, ReleaseAtFirstUnit, HoldsFloor
<1> QED
  BY <1>1, <1>2, <1>3, <1>4, <1>5, <1>6, <1>7, <1>8 DEF Responder, ResponderRelease

(* The writer only ever raises the flags.                                  *)
LEMMA WriterVoid == ASSUME VoidInv, Writer PROVE VoidInv'
<1> USE DEF WriterAt, turnVars
<1>1. CASE SendFails \/ WriterCancel \/ WriterStop \/ WriterExit
  BY <1>1, FloorKept DEF SendFails, WriterCancel, WriterStop, WriterExit, responderVars
<1>2. CASE WriterNotify
  BY <1>2, FloorKept, NotifyKeeps DEF WriterNotify
<1> QED
  BY <1>1, <1>2 DEF Writer, WriterEnds

(* An answer in flight to anything older than what opened last carries the *)
(* cancel: conn_opened and the publication in conn_answer both look, under *)
(* turn_mutex, and the flag is only lowered with the floor down.           *)
THEOREM VoidAnswersStop == Spec => []VoidAnswerStops
<1>1. Init => VoidInv
  BY DEF Init, VoidInv, FloorOfAnswer, VoidAnswerStops
<1>2. VoidInv /\ [Next]_allVars => VoidInv'
  <2> SUFFICES ASSUME VoidInv, [Next]_allVars PROVE VoidInv'
    OBVIOUS
  <2>1. CASE UNCHANGED allVars
    BY <2>1, FloorKept DEF allVars, turnVars, flags, responderVars
  <2>2. CASE Terminated
    BY <2>2, FloorKept DEF Terminated, allVars, turnVars, flags, responderVars
  <2> QED
    BY <2>1, <2>2, ReaderVoid, RecognizerVoid, ResponderVoid, WriterVoid DEF Next
<1>3. VoidInv => VoidAnswerStops
  BY DEF VoidInv
<1> QED
  BY <1>1, <1>2, <1>3, PTL DEF Spec

----------------------------------------------------------------------------
(* What is heard.  The turn the reader saw open last is the session's, but *)
(* for the opening still among the callbacks of a window; finals name what *)
(* is open when they are told, and work only what was committed by then.   *)

Turns == [turn : Nat, rev : Nat]
Now   == Turn(turn_id, revision)

Told       == [event : S!Events \cup {"NOTIFY"}, turn : Nat, rev : Nat]
Opening(e) == e.event \in {"SPEECH_STARTED", "TURN_RESUMED"}
TurnOf(e)  == Turn(e.turn, e.rev)

SessionFits ==
  /\ turn_id \in Nat /\ revision \in Nat
  /\ committed => phase = "IDLE"
  /\ committed \/ phase # "IDLE" => turn_id > 0

(* An opening is the last callback of its window, and newer than all.      *)
EventsFit ==
  /\ events \in Seq(Told) /\ opened \in Turns
  /\ reader # "events" => events = <<>>
  /\ \A i \in DOMAIN events :
       IF Opening(events[i])
       THEN /\ i = Len(events) /\ TurnOf(events[i]) = Now
            /\ Newer(Now, opened) /\ phase = "USER_SPEAKING"
       ELSE TurnOf(events[i]) = opened
  /\ (\A i \in DOMAIN events : ~Opening(events[i])) => opened = Now
  /\ \A i \in DOMAIN events : events[i].event = "TURN_COMMITTED" => events[i].turn > 0

(* A final told or about to be: its turn is not taken back.                *)
Stands(f) ==
  /\ f \in Turns /\ f.turn <= opened.turn
  /\ f.turn = opened.turn => f = opened
  /\ f.turn = turn_id => f = Now /\ ~committed /\ phase = "IDLE"

FinalsFit ==
  /\ \A f \in finals : Stands(f)
  /\ \A i \in DOMAIN events : events[i].event = "TURN_FINAL" => Stands(TurnOf(events[i]))
  /\ final_turn \in Nat /\ final_turn <= opened.turn
  /\ final_turn > 0 => \E f \in finals : f.turn = final_turn

(* A turn that was committed, and nothing newer than what opened.          *)
Given(a) == a \in Turns /\ a.turn > 0 /\ ~Newer(a, opened)

WorkFits ==
  /\ queue \in Seq(Turns) /\ \A i \in DOMAIN queue : Given(queue[i])
  /\ answers \in Seq(Turns) /\ \A i \in DOMAIN answers : Given(answers[i])
  /\ recognizer \notin {"idle", "exit"} => Given(heard_turn)
  /\ responder \notin {"idle", "exit"} => Given(job)
  /\ responder \in HoldsFloor => Given(answer)

HeardFits ==
  /\ answer_released => answer \in finals
  /\ responder = "tts" => answer_released
  /\ spoken \subseteq finals

HeardInv == SessionFits /\ EventsFit /\ FinalsFit /\ WorkFits /\ HeardFits

(* -------------------------- steps of the session ----------------------- *)

(* What a call of the session may do to the turn it has open.              *)
LEMMA ReleaseFits ==
  ASSUME HeardInv, NEW a, Given(a), ReleaseTurn(a)
  PROVE  /\ events = <<>> /\ opened = Now
         /\ UNCHANGED <<turn_id, revision, phase>>
         /\ committed' => committed
         /\ \/ UNCHANGED <<final_turn, finals>>
            \/ /\ finals' = finals \cup {opened} /\ final_turn' = opened.turn
               /\ committed /\ ~committed'
<1>1. events = <<>> /\ opened = Now
  BY DEF ReleaseTurn, SessionFree, HeardInv, EventsFit
<1>2. UNCHANGED <<turn_id, revision, phase>>
  BY DEF ReleaseTurn, S!Release
<1>3. CASE reports' = <<>>
  BY <1>1, <1>2, <1>3 DEF ReleaseTurn, S!Release, HeardInv, SessionFits
<1>4. CASE reports' # <<>>
  <2>1. committed /\ ~committed' /\ a.turn = turn_id /\ a.rev = revision
    BY <1>4 DEF ReleaseTurn, S!Release, HeardInv, SessionFits
  <2>2. a = Now
    BY <2>1 DEF Given, Turns, Now, Turn
  <2>3. final_turn \in Nat /\ final_turn <= opened.turn /\ opened.turn \in Nat
    BY DEF HeardInv, FinalsFit, EventsFit, Turns
  <2>4. /\ final_turn' = IF a.turn > final_turn THEN a.turn ELSE final_turn
        /\ finals' = finals \cup {a}
    BY <1>4 DEF ReleaseTurn
  <2>5. final_turn' = opened.turn /\ finals' = finals \cup {opened}
    <3> HIDE DEF Now
    <3> QED BY <1>1, <2>2, <2>3, <2>4
  <2> QED
    BY <1>1, <1>2, <2>1, <2>5
<1> QED
  BY <1>3, <1>4

(* ------------------------- what a step leaves alone -------------------- *)

LEMMA TurnsKept ==
  ASSUME HeardInv, UNCHANGED <<turn_id, revision, committed, phase, events, turnVars, finals>>,
         reader' # "events" => events = <<>>
  PROVE  SessionFits' /\ EventsFit' /\ FinalsFit'
BY DEF HeardInv, SessionFits, EventsFit, FinalsFit, Stands, turnVars, Opening, TurnOf, Turn,
       Now, Newer

LEMMA WorkKept ==
  ASSUME HeardInv, UNCHANGED <<opened, queues, heard_turn, job, answer>>,
         recognizer \in {"idle", "exit"} => recognizer' \in {"idle", "exit"},
         responder \in {"idle", "exit"} => responder' \in {"idle", "exit"},
         responder' \in HoldsFloor => responder \in HoldsFloor
  PROVE  WorkFits'
BY DEF HeardInv, WorkFits, Given, Newer, queues

LEMMA HeardKept ==
  ASSUME HeardInv, UNCHANGED <<answer, answer_released, spoken>>, finals \subseteq finals',
         responder' = "tts" => responder = "tts"
  PROVE  HeardFits'
BY DEF HeardInv, HeardFits

(* Whoever notifies the responder moves it within its answer, if at all.   *)
LEMMA NotifyMoves ==
  ASSUME NotifyTurn
  PROVE  /\ responder \in {"idle", "exit"} => responder' \in {"idle", "exit"}
         /\ responder' \in HoldsFloor => responder \in HoldsFloor
         /\ responder' = "tts" => responder = "tts"
BY DEF NotifyTurn, HoldsFloor

(* The callbacks still to run, one fewer.                                  *)
LEMMA TailFits ==
  ASSUME HeardInv, events # <<>>, ~Opening(Head(events)),
         events' = Tail(events), reader = "events",
         UNCHANGED <<turn_id, revision, committed, phase, opened, reader>>
  PROVE  /\ SessionFits' /\ EventsFit'
         /\ TurnOf(Head(events)) = opened
         /\ \A i \in DOMAIN events' :
              events'[i].event = "TURN_FINAL" => Stands(TurnOf(events'[i]))
<1>1. events \in Seq(Told) /\ Len(events) > 0 /\ Head(events) = events[1]
  BY DEF HeardInv, EventsFit
<1>2. /\ events' \in Seq(Told) /\ Len(events') = Len(events) - 1
      /\ \A i \in DOMAIN events' : i + 1 \in DOMAIN events /\ events'[i] = events[i + 1]
  BY <1>1
<1>3. SessionFits'
  BY DEF HeardInv, SessionFits
<1>4. TurnOf(Head(events)) = opened
  BY <1>1 DEF HeardInv, EventsFit
<1>5. \A i \in DOMAIN events' :
        events'[i].event = "TURN_FINAL" => Stands(TurnOf(events'[i]))
  BY <1>2 DEF HeardInv, FinalsFit
<1>6. \A i \in DOMAIN events' :
        /\ IF Opening(events'[i])
           THEN /\ i = Len(events') /\ TurnOf(events'[i]) = Now
                /\ Newer(Now, opened) /\ phase = "USER_SPEAKING"
           ELSE TurnOf(events'[i]) = opened
        /\ events'[i].event = "TURN_COMMITTED" => events'[i].turn > 0
  BY <1>1, <1>2 DEF HeardInv, EventsFit
<1>7. (\A i \in DOMAIN events' : ~Opening(events'[i])) => opened = Now
  <2> SUFFICES ASSUME \A i \in DOMAIN events' : ~Opening(events'[i])
               PROVE  \A i \in DOMAIN events : ~Opening(events[i])
    BY DEF HeardInv, EventsFit
  <2> TAKE i \in DOMAIN events
  <2>1. i = 1 \/ (i - 1 \in DOMAIN events' /\ events'[i - 1] = events[i])
    BY <1>1, <1>2
  <2> QED
    BY <1>1, <2>1
<1>8. EventsFit'
  BY <1>2, <1>6, <1>7 DEF HeardInv, EventsFit, Opening, TurnOf, Turn, Now, Newer
<1> QED
  BY <1>3, <1>4, <1>5, <1>8

(* ------------------------------ the reader ----------------------------- *)

LEMMA OpenedHeard == ASSUME HeardInv, OnOpened PROVE HeardInv'
<1> USE DEF turnVars
<1>1. events \in Seq(Told) /\ Len(events) > 0 /\ Head(events) = events[1]
  BY DEF OnOpened, NextEvent, HeardInv, EventsFit
<1>2. Opening(events[1])
  BY <1>1 DEF OnOpened, NextEvent, Opening
<1>3. /\ Len(events) = 1 /\ TurnOf(events[1]) = Now
      /\ Newer(Now, opened) /\ phase = "USER_SPEAKING"
  <2>1. 1 \in DOMAIN events
    BY <1>1
  <2> QED
    BY <1>2, <2>1 DEF HeardInv, EventsFit
<1>4. /\ UNCHANGED <<turn_id, revision, committed, phase, final_turn, finals, reader>>
      /\ events' = <<>> /\ opened' = Now
  <2>1. EventTurn = Now
    BY <1>1, <1>3 DEF EventTurn, TurnOf
  <2>2. events' = <<>>
    BY <1>1, <1>3 DEF OnOpened, NextEvent
  <2> QED
    BY <1>3, <2>1, <2>2 DEF OnOpened, NextEvent, sessionVars
<1>5. Now \in Turns /\ Now' = Now /\ opened \in Turns
  BY <1>4 DEF HeardInv, SessionFits, EventsFit, Now, Turn, Turns
<1>6. SessionFits' /\ EventsFit'
  BY <1>4, <1>5 DEF HeardInv, SessionFits, EventsFit
<1>7. \A f \in finals : f.turn < turn_id
  BY <1>3, <1>5 DEF HeardInv, FinalsFit, Stands, Turns, Now, Turn, Newer
<1>8. FinalsFit'
  <2>1. final_turn \in Nat /\ final_turn <= turn_id
    BY <1>3, <1>5 DEF HeardInv, FinalsFit, Turns, Now, Turn, Newer
  <2>2. Now.turn = turn_id /\ turn_id \in Nat
    BY DEF Now, Turn, HeardInv, SessionFits
  <2>3. \A f \in finals : Stands(f)'
    <3> TAKE f \in finals
    <3>1. f \in Turns /\ f.turn < turn_id
      BY <1>7 DEF HeardInv, FinalsFit, Stands
    <3> QED
      BY <1>4, <2>2, <3>1 DEF Stands, Turns
  <2> QED
    BY <1>4, <2>1, <2>2, <2>3 DEF HeardInv, FinalsFit
<1>9. WorkFits'
  <2>1. \A a : Given(a) => Given(a)'
    BY <1>3, <1>4, <1>5 DEF Given, Newer, Turns
  <2>2. UNCHANGED <<queue, answers, recognizer, heard_turn, job, answer>> /\ NotifyTurn
    BY DEF OnOpened, NextEvent, recognizerVars
  <2> QED
    BY <2>1, <2>2, NotifyMoves DEF HeardInv, WorkFits
<1>10. HeardFits'
  BY HeardKept, NotifyMoves DEF OnOpened, NextEvent
<1> QED
  BY <1>6, <1>8, <1>9, <1>10 DEF HeardInv

LEMMA FinalHeard == ASSUME HeardInv, OnFinal PROVE HeardInv'
<1>1. /\ events # <<>> /\ events' = Tail(events) /\ reader = "events"
      /\ Head(events).event = "TURN_FINAL"
      /\ UNCHANGED <<turn_id, revision, committed, phase, opened, reader, queues, recognizer,
                     heard_turn, job, answer, answer_released, spoken>>
      /\ NotifyTurn
  BY DEF OnFinal, NextEvent, sessionVars, queues, recognizerVars
<1>2. ~Opening(Head(events))
  BY <1>1 DEF Opening
<1>3. /\ SessionFits' /\ EventsFit' /\ TurnOf(Head(events)) = opened
      /\ \A i \in DOMAIN events' :
           events'[i].event = "TURN_FINAL" => Stands(TurnOf(events'[i]))
  BY <1>1, <1>2, TailFits
<1>4. Stands(opened)
  <2>1. 1 \in DOMAIN events /\ Head(events) = events[1]
    BY <1>1 DEF HeardInv, EventsFit
  <2> QED
    BY <1>1, <1>3, <2>1 DEF HeardInv, FinalsFit
<1>5. finals' = finals \cup {opened} /\ final_turn' = opened.turn
  <2>1. EventTurn = opened
    BY <1>3 DEF EventTurn, TurnOf
  <2>2. final_turn \in Nat /\ final_turn <= opened.turn /\ opened.turn \in Nat
    BY DEF HeardInv, FinalsFit, EventsFit, Turns
  <2> QED
    BY <2>1, <2>2 DEF OnFinal
<1>6. \A f : Stands(f) => Stands(f)'
  BY <1>1 DEF Stands, Now
<1>7. FinalsFit'
  <2>1. opened.turn \in Nat
    BY DEF HeardInv, EventsFit, Turns
  <2>2. (\A i \in DOMAIN events :
           events[i].event = "TURN_FINAL" => Stands(TurnOf(events[i])))'
    BY <1>3, <1>6 DEF TurnOf
  <2> QED
    BY <1>1, <1>4, <1>5, <1>6, <2>1, <2>2 DEF HeardInv, FinalsFit
<1>8. WorkFits'
  BY <1>1, WorkKept, NotifyMoves
<1>9. HeardFits'
  BY <1>1, <1>5, HeardKept, NotifyMoves
<1> QED
  BY <1>3, <1>7, <1>8, <1>9 DEF HeardInv

LEMMA CommittedHeard == ASSUME HeardInv, OnCommitted \/ OnLogged \/ NotifyBargeIn PROVE HeardInv'
<1>1. /\ events # <<>> /\ events' = Tail(events) /\ reader = "events"
      /\ Head(events).event \in {"TURN_COMMITTED", "SPEECH_STOPPED", "TURN_REOPENED", "NOTIFY"}
      /\ UNCHANGED <<turn_id, revision, committed, phase, opened, reader, answers, recognizer,
                     heard_turn, job, answer, answer_released, spoken, final_turn, finals>>
      /\ NotifyTurn \/ UNCHANGED responder
  BY DEF OnCommitted, OnLogged, NotifyBargeIn, NextEvent, sessionVars, recognizerVars, turnVars
<1>2. ~Opening(Head(events)) /\ 1 \in DOMAIN events /\ Head(events) = events[1]
  BY <1>1 DEF Opening, HeardInv, EventsFit
<1>3. /\ SessionFits' /\ EventsFit' /\ TurnOf(Head(events)) = opened
      /\ \A i \in DOMAIN events' :
           events'[i].event = "TURN_FINAL" => Stands(TurnOf(events'[i]))
  BY <1>1, <1>2, TailFits
<1>4. FinalsFit'
  BY <1>1, <1>3 DEF HeardInv, FinalsFit, Stands, Now, TurnOf
<1>5. WorkFits'
  <2>1. CASE UNCHANGED queue
    BY <1>1, <2>1, WorkKept, NotifyMoves DEF queues
  <2>2. CASE OnCommitted
    <3>1. queue' = Append(queue, opened)
      BY <1>3, <2>2 DEF OnCommitted, EventTurn, TurnOf
    <3>2. opened \in Turns /\ ~Newer(opened, opened)
      BY DEF HeardInv, EventsFit, Turns, Newer
    <3>3. opened.turn > 0
      <4>1. events[1].event = "TURN_COMMITTED"
        BY <1>2, <2>2 DEF OnCommitted, NextEvent
      <4>2. events[1].turn > 0
        BY <1>2, <4>1 DEF HeardInv, EventsFit
      <4> QED
        BY <1>2, <1>3, <4>2 DEF TurnOf, Turn
    <3>4. Given(opened) /\ \A a : Given(a) => Given(a)'
      BY <1>1, <3>2, <3>3 DEF Given, Newer
    <3>5. queue' \in Seq(Turns) /\ \A i \in DOMAIN queue' : Given(queue'[i])
      BY <3>1, <3>2, <3>4 DEF HeardInv, WorkFits
    <3>6. UNCHANGED responder
      BY <2>2 DEF OnCommitted
    <3> QED
      BY <1>1, <3>4, <3>5, <3>6 DEF HeardInv, WorkFits
  <2> QED
    BY <2>1, <2>2 DEF OnCommitted, OnLogged, NotifyBargeIn
<1>6. HeardFits'
  BY <1>1, HeardKept, NotifyMoves
<1> QED
  BY <1>3, <1>4, <1>5, <1>6 DEF HeardInv

LEMMA BargeInHeard == ASSUME HeardInv, OnBargeIn PROVE HeardInv'
<1>1. /\ events \in Seq(Told) /\ Len(events) > 0 /\ Head(events) = events[1]
      /\ events[1].event = "BARGE_IN" /\ reader = "events"
  BY DEF OnBargeIn, HeardInv, EventsFit
<1>2. events' = <<[Head(events) EXCEPT !.event = "NOTIFY"]>> \o Tail(events)
  BY DEF OnBargeIn
<1>3. /\ events' \in Seq(Told) /\ Len(events') = Len(events)
      /\ events'[1] = [events[1] EXCEPT !.event = "NOTIFY"]
      /\ \A i \in DOMAIN events : i # 1 => events'[i] = events[i]
  <2> DEFINE told == [events[1] EXCEPT !.event = "NOTIFY"]
  <2>1. told \in Told
    <3>1. events[1] \in Told
      BY <1>1
    <3> QED
      BY <3>1 DEF Told, S!Events
  <2>2. Tail(events) \in Seq(Told) /\ Len(Tail(events)) = Len(events) - 1
    BY <1>1
  <2>3. \A i \in 1 .. Len(events) - 1 : Tail(events)[i] = events[i + 1]
    BY <1>1
  <2>4. events' = <<told>> \o Tail(events)
    BY <1>1, <1>2
  <2> HIDE DEF told
  <2>5. events' \in Seq(Told) /\ Len(events') = Len(events) /\ events'[1] = told
    BY <1>1, <2>1, <2>2, <2>4
  <2>6. \A i \in DOMAIN events : i # 1 => events'[i] = Tail(events)[i - 1]
    BY <1>1, <2>1, <2>2, <2>4
  <2>7. \A i \in DOMAIN events : i # 1 => i - 1 \in 1 .. Len(events) - 1
    BY <1>1
  <2> QED
    BY <2>3, <2>5, <2>6, <2>7, <1>1 DEF told
<1>4. DOMAIN events' = DOMAIN events
  BY <1>1, <1>3
<1>5. events'[1].event = "NOTIFY" /\ TurnOf(events'[1]) = TurnOf(events[1])
  BY <1>1, <1>3 DEF TurnOf, Told
<1>6. ~Opening(events[1]) /\ ~Opening(events'[1])
  BY <1>1, <1>5 DEF Opening
<1>7. /\ UNCHANGED <<turn_id, revision, committed, phase, opened, final_turn, finals, reader,
                     queues, recognizer, heard_turn, responder, job, answer, answer_released,
                     spoken>>
  BY DEF OnBargeIn, sessionVars, turnVars, recognizerVars, responderVars, historyVars
<1>8. SessionFits'
  BY <1>7 DEF HeardInv, SessionFits
<1>9. EventsFit'
  <2>1. \A i \in DOMAIN events' :
          /\ IF Opening(events'[i])
             THEN /\ i = Len(events') /\ TurnOf(events'[i]) = Now
                  /\ Newer(Now, opened) /\ phase = "USER_SPEAKING"
             ELSE TurnOf(events'[i]) = opened
          /\ events'[i].event = "TURN_COMMITTED" => events'[i].turn > 0
    <3> TAKE i \in DOMAIN events'
    <3>1. CASE i = 1
      <4>1. 1 \in DOMAIN events
        BY <1>1
      <4> QED
        BY <1>5, <1>6, <3>1, <4>1 DEF HeardInv, EventsFit
    <3>2. CASE i # 1
      <4>1. i \in DOMAIN events /\ events'[i] = events[i]
        BY <1>3, <1>4, <3>2
      <4> QED
        BY <1>3, <4>1 DEF HeardInv, EventsFit
    <3> QED
      BY <3>1, <3>2
  <2>2. (\A i \in DOMAIN events' : ~Opening(events'[i])) => opened = Now
    BY <1>3, <1>4, <1>6 DEF HeardInv, EventsFit
  <2> QED
    BY <1>1, <1>3, <1>7, <2>1, <2>2
    DEF HeardInv, EventsFit, Opening, TurnOf, Turn, Now, Newer
<1>10. FinalsFit'
  BY <1>3, <1>4, <1>5, <1>7 DEF HeardInv, FinalsFit, Stands, Now, TurnOf
<1>11. WorkFits' /\ HeardFits'
  BY <1>7, WorkKept, HeardKept
<1> QED
  BY <1>8, <1>9, <1>10, <1>11 DEF HeardInv

(* What a window tells is of the turn as it was, or opens one.             *)
OfOld(e) ==
  /\ e \in Told /\ ~Opening(e) /\ TurnOf(e) = Now
  /\ e.event = "TURN_COMMITTED" => e.turn > 0
  /\ e.event = "TURN_FINAL" =>
       turn_id' > turn_id \/ (Now' = Now /\ ~committed' /\ phase' = "IDLE")
Opens(e) ==
  /\ e \in Told /\ Opening(e) /\ TurnOf(e) = Now'
  /\ Newer(Now', Now) /\ phase' = "USER_SPEAKING"
  /\ e.event \notin {"TURN_COMMITTED", "TURN_FINAL"}

WindowTells(s) ==
  /\ s \in Seq(Told)
  /\ \A i \in DOMAIN s : OfOld(s[i]) \/ (i = Len(s) /\ Opens(s[i]))
  /\ (\A i \in DOMAIN s : OfOld(s[i])) => Now' = Now

LEMMA Joined ==
  ASSUME NEW T, NEW a \in T, NEW b \in T, NEW c \in T
  PROVE  <<a>> \o <<b>> = <<a, b>> /\ <<a, b>> \o <<c>> = <<a, b, c>>
<1>1. \A s, t \in Seq(T) :
        Len(s) = Len(t) /\ (\A i \in 1 .. Len(s) : s[i] = t[i]) => s = t
  BY SeqEqual
<1>2. <<a>> \o <<b>> \in Seq(T) /\ Len(<<a>> \o <<b>>) = 2
      /\ (<<a>> \o <<b>>)[1] = a /\ (<<a>> \o <<b>>)[2] = b
  OBVIOUS
<1>3. <<a, b>> \o <<c>> \in Seq(T) /\ Len(<<a, b>> \o <<c>>) = 3
      /\ (<<a, b>> \o <<c>>)[1] = a /\ (<<a, b>> \o <<c>>)[2] = b
      /\ (<<a, b>> \o <<c>>)[3] = c
  OBVIOUS
<1>4. <<a, b>> \in Seq(T) /\ <<a, b, c>> \in Seq(T)
  OBVIOUS
<1>5. <<a>> \o <<b>> = <<a, b>>
  <2>1. \A i \in 1 .. 2 : (<<a>> \o <<b>>)[i] = <<a, b>>[i]
    BY <1>2
  <2> QED BY <1>1, <1>2, <1>4, <2>1
<1>6. <<a, b>> \o <<c>> = <<a, b, c>>
  <2>1. \A i \in 1 .. 3 : (<<a, b>> \o <<c>>)[i] = <<a, b, c>>[i]
    BY <1>3
  <2> QED BY <1>1, <1>3, <1>4, <2>1
<1> QED BY <1>5, <1>6

LEMMA TellsOld ==
  ASSUME NEW s, Now' = Now,
         \/ s = <<>>
         \/ \E a : OfOld(a) /\ s = <<a>>
         \/ \E a, b : OfOld(a) /\ OfOld(b) /\ s = <<a, b>>
  PROVE  WindowTells(s)
<1>1. \A e : OfOld(e) => e \in Told
  BY DEF OfOld
<1>2. s \in Seq(Told) /\ \A i \in DOMAIN s : OfOld(s[i])
  <2> HIDE DEF OfOld
  <2>1. CASE s = <<>>
    BY <2>1
  <2>2. ASSUME NEW a, OfOld(a), s = <<a>> PROVE s \in Seq(Told) /\ \A i \in DOMAIN s : OfOld(s[i])
    <3>1. a \in Told /\ Len(s) = 1 /\ s[1] = a
      BY <1>1, <2>2
    <3> QED BY <2>2, <3>1
  <2>3. ASSUME NEW a, NEW b, OfOld(a), OfOld(b), s = <<a, b>>
        PROVE  s \in Seq(Told) /\ \A i \in DOMAIN s : OfOld(s[i])
    <3>1. a \in Told /\ b \in Told /\ Len(s) = 2 /\ s[1] = a /\ s[2] = b
      BY <1>1, <2>3
    <3> QED BY <2>3, <3>1
  <2> QED BY <2>1, <2>2, <2>3
<1> QED BY <1>2 DEF WindowTells

LEMMA TellsOpening ==
  ASSUME NEW s, NEW o, Opens(o),
         \/ s = <<o>>
         \/ \E a : OfOld(a) /\ s = <<a, o>>
         \/ \E a, b : OfOld(a) /\ OfOld(b) /\ s = <<a, b, o>>
  PROVE  WindowTells(s)
<1>1. /\ \A e : OfOld(e) => e \in Told
      /\ o \in Told /\ ~OfOld(o)
  BY DEF OfOld, Opens
<1>2. CASE s = <<o>>
  <2>1. s \in Seq(Told) /\ Len(s) = 1 /\ s[1] = o
    BY <1>1, <1>2
  <2> QED BY <1>1, <2>1 DEF WindowTells
<1>3. ASSUME NEW a, OfOld(a), s = <<a, o>> PROVE WindowTells(s)
  <2>1. s \in Seq(Told) /\ Len(s) = 2 /\ s[1] = a /\ s[2] = o
    BY <1>1, <1>3
  <2> QED BY <1>1, <1>3, <2>1 DEF WindowTells
<1>4. ASSUME NEW a, NEW b, OfOld(a), OfOld(b), s = <<a, b, o>> PROVE WindowTells(s)
  <2>1. s \in Seq(Told) /\ Len(s) = 3 /\ s[1] = a /\ s[2] = b /\ s[3] = o
    BY <1>1, <1>4
  <2> QED BY <1>1, <1>4, <2>1 DEF WindowTells
<1> QED BY <1>2, <1>3, <1>4

(* A turn that is over stays over.                                         *)
OverIsOver ==
  \/ turn_id' > turn_id
  \/ /\ turn_id' = turn_id
     /\ ~committed /\ phase = "IDLE" =>
          ~committed' /\ phase' = "IDLE" /\ revision' = revision

LEMMA WindowFits ==
  ASSUME SessionFits, NEW prob, NEW complete \in BOOLEAN, S!Window(prob, complete)
  PROVE  SessionFits' /\ WindowTells(reports') /\ OverIsOver
<1> DEFINE told(event, turn, rev) == [event |-> event, turn |-> turn, rev |-> rev]
           old(event) == told(event, turn_id, revision)
<1>0. /\ S!FinalFirst = IF S!FinalNow THEN <<old("TURN_FINAL")>> ELSE <<>>
      /\ \A event : S!Emit(event) = old(event)
      /\ \A event, turn, rev : S!Report(event, turn, rev) = told(event, turn, rev)
      /\ ~committed => S!FinalFirst = <<>> /\ ~S!StillOpen
  BY DEF S!FinalFirst, S!Emit, S!Report, S!FinalNow, S!StillOpen
<1>a. \A event \in {"BARGE_IN", "SPEECH_STOPPED", "TURN_REOPENED"} : OfOld(old(event))
  BY DEF OfOld, Opening, TurnOf, Turn, Now, Told, S!Events, SessionFits
<1>b. turn_id > 0 => OfOld(old("TURN_COMMITTED"))
  BY DEF OfOld, Opening, TurnOf, Turn, Now, Told, S!Events, SessionFits
<1>c. turn_id' > turn_id \/ (Now' = Now /\ ~committed' /\ phase' = "IDLE") =>
        OfOld(old("TURN_FINAL"))
  BY DEF OfOld, Opening, TurnOf, Turn, Now, Told, S!Events, SessionFits
<1>d. ASSUME NEW event \in {"SPEECH_STARTED", "TURN_RESUMED"}, phase' = "USER_SPEAKING",
             \/ turn_id' = turn_id + 1 /\ revision' = 0
             \/ turn_id' = turn_id /\ revision' = revision + 1
      PROVE  Opens(told(event, turn_id', revision'))
  BY <1>d DEF Opens, Opening, TurnOf, Turn, Now, Newer, Told, S!Events, SessionFits
<1>1. CASE S!Resume(prob)
  <2>1. /\ turn_id' = turn_id /\ revision' = revision + 1 /\ phase' = "USER_SPEAKING"
        /\ committed /\ ~committed'
        /\ reports' = <<told("TURN_RESUMED", turn_id, revision + 1)>>
    BY <1>0, <1>1 DEF S!Resume, S!StillOpen
  <2>2. SessionFits' /\ OverIsOver
    BY <2>1 DEF SessionFits, OverIsOver
  <2>3. Opens(told("TURN_RESUMED", turn_id', revision'))
    BY <1>d, <2>1
  <2> QED
    BY <2>1, <2>2, <2>3, TellsOpening
<1>2. CASE S!OpenTurn(prob)
  <2> DEFINE opening == told("SPEECH_STARTED", turn_id + 1, 0)
  <2>1. /\ turn_id' = turn_id + 1 /\ revision' = 0 /\ phase' = "USER_SPEAKING"
        /\ ~committed'
        /\ reports' = S!FinalFirst
             \o (IF speaking_s THEN <<S!Emit("BARGE_IN")>> ELSE <<>>)
             \o <<S!Report("SPEECH_STARTED", turn_id + 1, 0)>>
    BY <1>2 DEF S!OpenTurn
  <2>2. SessionFits' /\ OverIsOver
    BY <2>1 DEF SessionFits, OverIsOver
  <2>3. Opens(told("SPEECH_STARTED", turn_id', revision'))
    BY <1>d, <2>1
  <2>4. Opens(opening) /\ OfOld(old("TURN_FINAL")) /\ OfOld(old("BARGE_IN"))
    BY <1>a, <1>c, <2>1, <2>3 DEF SessionFits
  <2>5. \/ reports' = <<opening>>
        \/ reports' = <<old("TURN_FINAL"), opening>>
        \/ reports' = <<old("BARGE_IN"), opening>>
        \/ reports' = <<old("TURN_FINAL"), old("BARGE_IN"), opening>>
    <3>1. /\ S!Emit("BARGE_IN") = old("BARGE_IN")
          /\ S!Report("SPEECH_STARTED", turn_id + 1, 0) = opening
      BY <1>0
    <3>2. S!FinalFirst = IF S!FinalNow THEN <<old("TURN_FINAL")>> ELSE <<>>
      BY <1>0
    <3>3. /\ opening \in Told /\ old("TURN_FINAL") \in Told /\ old("BARGE_IN") \in Told
      BY <2>4 DEF Opens, OfOld
    <3> HIDE DEF old, opening
    <3>4. /\ <<old("TURN_FINAL")>> \o <<opening>> = <<old("TURN_FINAL"), opening>>
          /\ <<old("BARGE_IN")>> \o <<opening>> = <<old("BARGE_IN"), opening>>
          /\ (<<old("TURN_FINAL")>> \o <<old("BARGE_IN")>>) \o <<opening>>
               = <<old("TURN_FINAL"), old("BARGE_IN"), opening>>
      BY <3>3, Joined
    <3>5. /\ S!FinalNow /\ speaking_s =>
               reports' = (<<old("TURN_FINAL")>> \o <<old("BARGE_IN")>>) \o <<opening>>
          /\ S!FinalNow /\ ~speaking_s => reports' = (<<old("TURN_FINAL")>> \o <<>>) \o <<opening>>
          /\ ~S!FinalNow /\ speaking_s => reports' = (<<>> \o <<old("BARGE_IN")>>) \o <<opening>>
          /\ ~S!FinalNow /\ ~speaking_s => reports' = (<<>> \o <<>>) \o <<opening>>
      BY <2>1, <3>1, <3>2
    <3>6. /\ <<old("TURN_FINAL")>> \o <<>> = <<old("TURN_FINAL")>>
          /\ <<>> \o <<old("BARGE_IN")>> = <<old("BARGE_IN")>>
          /\ (<<>> \o <<>>) \o <<opening>> = <<opening>>
      BY <3>3, ConcatEmptySeq
    <3> QED BY <3>4, <3>5, <3>6
  <2>6. WindowTells(reports')
    <3> HIDE DEF old, opening
    <3> QED BY <2>4, <2>5, TellsOpening
  <2> QED
    BY <2>2, <2>6
<1>3. CASE S!StayIdle(prob) \/ S!StaySpeaking(prob) \/ S!StayPending(prob)
  <2>1. /\ UNCHANGED <<turn_id, revision, phase>>
        /\ committed' <=> S!StillOpen
        /\ reports' = S!FinalFirst
    BY <1>3 DEF S!StayIdle, S!StaySpeaking, S!StayPending, S!KeepTurn
  <2>2. SessionFits' /\ OverIsOver
    BY <2>1 DEF SessionFits, OverIsOver, S!StillOpen
  <2>3. Now' = Now
    BY <2>1 DEF Now
  <2>4. CASE ~S!FinalNow
    BY <1>0, <2>1, <2>2, <2>3, <2>4, TellsOld
  <2>5. CASE S!FinalNow
    <3>1. ~committed' /\ phase' = "IDLE"
      BY <2>1, <2>5 DEF S!StillOpen, S!FinalNow, SessionFits
    <3>2. OfOld(old("TURN_FINAL"))
      BY <1>c, <2>3, <3>1
    <3> QED BY <1>0, <2>1, <2>2, <2>3, <2>5, <3>2, TellsOld
  <2> QED
    BY <2>2, <2>4, <2>5
<1>4. CASE S!Boundary(prob, complete) \/ S!Expire(prob)
  <2>1. phase # "IDLE" /\ ~committed /\ turn_id > 0
    BY <1>4 DEF S!Boundary, S!Expire, SessionFits
  <2>2. S!FinalFirst = <<>>
    BY <1>0, <2>1
  <2>3. /\ UNCHANGED <<turn_id, revision>>
        /\ \/ committed' /\ phase' = "IDLE"
           \/ committed' <=> S!StillOpen
        /\ \/ reports' = S!FinalFirst \o <<S!Emit("TURN_COMMITTED")>>
           \/ reports' = S!FinalFirst \o <<S!Emit("SPEECH_STOPPED"), S!Emit("TURN_COMMITTED")>>
           \/ reports' = S!FinalFirst \o <<S!Emit("SPEECH_STOPPED"), S!Emit("TURN_REOPENED")>>
    BY <1>4 DEF S!Boundary, S!Expire, S!Commit, S!KeepTurn
  <2>4. SessionFits' /\ OverIsOver
    BY <1>0, <2>1, <2>3 DEF SessionFits, OverIsOver
  <2>5. \/ reports' = <<S!Emit("TURN_COMMITTED")>>
        \/ reports' = <<S!Emit("SPEECH_STOPPED"), S!Emit("TURN_COMMITTED")>>
        \/ reports' = <<S!Emit("SPEECH_STOPPED"), S!Emit("TURN_REOPENED")>>
    BY <2>2, <2>3
  <2>6. Now' = Now
    BY <2>3 DEF Now
  <2>7. \A event \in {"TURN_COMMITTED", "SPEECH_STOPPED", "TURN_REOPENED"} : OfOld(S!Emit(event))
    BY <1>0, <1>a, <1>b, <2>1
  <2>8. WindowTells(reports')
    BY <2>5, <2>6, <2>7, TellsOld
  <2> QED
    BY <2>4, <2>8
<1>5. CASE S!Reopen(prob)
  <2>0. phase # "IDLE" /\ ~committed /\ turn_id > 0
    BY <1>5 DEF S!Reopen, SessionFits
  <2>1. S!FinalFirst = <<>> /\ ~S!StillOpen
    BY <1>0, <2>0
  <2>2. /\ turn_id' = turn_id /\ revision' = revision + 1 /\ phase' = "USER_SPEAKING"
        /\ committed' <=> S!StillOpen
        /\ reports' = S!FinalFirst \o <<S!Report("SPEECH_STARTED", turn_id, revision + 1)>>
    BY <1>5 DEF S!Reopen, S!KeepTurn
  <2>3. SessionFits' /\ OverIsOver
    BY <2>0, <2>1, <2>2 DEF SessionFits, OverIsOver
  <2>4. reports' = <<S!Report("SPEECH_STARTED", turn_id, revision + 1)>>
    BY <2>1, <2>2
  <2>5. Opens(told("SPEECH_STARTED", turn_id', revision'))
    BY <1>d, <2>2
  <2>6. Opens(S!Report("SPEECH_STARTED", turn_id, revision + 1))
    BY <1>0, <2>2, <2>5
  <2> QED
    BY <2>3, <2>4, <2>6, TellsOpening
<1> QED
  BY <1>1, <1>2, <1>3, <1>4, <1>5 DEF S!Window

LEMMA WindowHeard == ASSUME HeardInv, PushWindow PROVE HeardInv'
<1>1. events = <<>> /\ opened = Now /\ reader = "window" /\ reader' = "events"
  BY DEF PushWindow, HeardInv, EventsFit
<1>2. /\ events' = reports'
      /\ UNCHANGED <<opened, final_turn, finals, queues, recognizer, heard_turn, responder, job,
                     answer, answer_released, spoken>>
  BY DEF PushWindow, turnVars, recognizerVars, responderVars, historyVars
<1>3. SessionFits' /\ WindowTells(events') /\ OverIsOver
  BY <1>2, WindowFits DEF PushWindow, HeardInv
<1>4. opened \in Turns /\ opened.turn = turn_id /\ turn_id \in Nat /\ turn_id' \in Nat
  BY <1>1, <1>3 DEF HeardInv, EventsFit, SessionFits, Now, Turn
<1>5. EventsFit'
  BY <1>1, <1>2, <1>3 DEF HeardInv, EventsFit, WindowTells, OfOld, Opens, Opening, TurnOf, Turn,
                          Now, Newer
<1>6. \A f : Stands(f) => Stands(f)'
  BY <1>1, <1>2, <1>3, <1>4 DEF Stands, Turns, Now, Turn, OverIsOver
<1>7. \A i \in DOMAIN events' : events'[i].event = "TURN_FINAL" =>
        /\ TurnOf(events'[i]) = opened
        /\ turn_id' > turn_id \/ (Now' = Now /\ ~committed' /\ phase' = "IDLE")
  BY <1>1, <1>3 DEF WindowTells, OfOld, Opens
<1>8. turn_id' > turn_id \/ (Now' = Now /\ ~committed' /\ phase' = "IDLE") => Stands(opened)'
  BY <1>1, <1>2, <1>4 DEF Stands
<1>9. FinalsFit'
  <2>1. (\A i \in DOMAIN events :
           events[i].event = "TURN_FINAL" => Stands(TurnOf(events[i])))'
    BY <1>2, <1>7, <1>8 DEF TurnOf, Stands
  <2> QED
    BY <1>2, <1>6, <2>1 DEF HeardInv, FinalsFit
<1>10. WorkFits' /\ HeardFits'
  BY <1>2, WorkKept, HeardKept
<1> QED
  BY <1>3, <1>5, <1>9, <1>10 DEF HeardInv

LEMMA ReaderHeard == ASSUME HeardInv, Reader PROVE HeardInv'
<1> USE DEF sessionVars, turnVars, queues, recognizerVars, responderVars, historyVars
<1>1. CASE ReadAudio
  <2>1. /\ UNCHANGED <<turn_id, revision, committed, phase, events, turnVars, finals, queues,
                       recognizerVars, responderVars, spoken>>
        /\ events = <<>>
    BY <1>1 DEF ReadAudio, S!SetSpeaking, S!life, HeardInv, EventsFit
  <2> QED
    BY <2>1, TurnsKept, WorkKept, HeardKept DEF HeardInv
<1>2. CASE NextWindow \/ EndFrame
  <2>1. /\ UNCHANGED <<sessionVars, events, turnVars, queues, recognizerVars, responderVars,
                       historyVars>>
        /\ events = <<>>
    BY <1>2 DEF NextWindow, EndFrame, EndWindow
  <2> QED
    BY <2>1, TurnsKept, WorkKept, HeardKept DEF HeardInv
<1>3. CASE ReadCancel \/ ReadEnd \/ CloseCancel \/ CloseStop \/ CloseJoin \/ Closed
  <2>1. /\ UNCHANGED <<sessionVars, events, turnVars, queues, recognizerVars, responderVars,
                       historyVars>>
        /\ reader # "events"
    BY <1>3 DEF ReadCancel, ReadEnd, CloseCancel, CloseStop, CloseJoin, Closed
  <2>2. events = <<>>
    BY <2>1 DEF HeardInv, EventsFit
  <2> QED
    BY <2>1, <2>2, TurnsKept, WorkKept, HeardKept DEF HeardInv
<1>4. CASE NotifyCancel \/ CloseNotify
  <2>1. /\ UNCHANGED <<sessionVars, events, turnVars, queues, recognizerVars, job, answer,
                       answer_released, historyVars>>
        /\ reader # "events" /\ NotifyTurn
    BY <1>4 DEF NotifyCancel, CloseNotify
  <2>2. events = <<>>
    BY <2>1 DEF HeardInv, EventsFit
  <2> QED
    BY <2>1, <2>2, NotifyMoves, TurnsKept, WorkKept, HeardKept DEF HeardInv
<1> QED
  BY <1>1, <1>2, <1>3, <1>4, WindowHeard, OpenedHeard, FinalHeard, CommittedHeard, BargeInHeard
  DEF Reader, ReaderCallback, ReaderClose

(* ------------------- the recognizer and the responder ------------------ *)

(* A release declares final what is open, or nothing.                      *)
LEMMA ReleaseKeeps ==
  ASSUME HeardInv, NEW a, Given(a), ReleaseTurn(a), UNCHANGED <<reader, events, opened>>
  PROVE  SessionFits' /\ EventsFit' /\ FinalsFit' /\ finals \subseteq finals'
<1>1. /\ events = <<>> /\ opened = Now
      /\ UNCHANGED <<turn_id, revision, phase>>
      /\ committed' => committed
      /\ \/ UNCHANGED <<final_turn, finals>>
         \/ /\ finals' = finals \cup {opened} /\ final_turn' = opened.turn
            /\ committed /\ ~committed'
  BY ReleaseFits
<1>2. Now' = Now
  BY <1>1 DEF Now
<1>3. SessionFits'
  BY <1>1 DEF HeardInv, SessionFits
<1>4. EventsFit'
  BY <1>1, <1>2 DEF HeardInv, EventsFit
<1>5. \A f : Stands(f) => Stands(f)'
  BY <1>1, <1>2 DEF Stands
<1>6. opened \in Turns /\ opened.turn \in Nat
  BY DEF HeardInv, EventsFit, Turns
<1>7. committed /\ ~committed' => Stands(opened)'
  <2>1. committed => phase = "IDLE"
    BY DEF HeardInv, SessionFits
  <2> QED
    BY <1>1, <1>2, <1>6, <2>1 DEF Stands
<1>8. FinalsFit'
  BY <1>1, <1>5, <1>6, <1>7 DEF HeardInv, FinalsFit
<1> QED
  BY <1>1, <1>3, <1>4, <1>8

LEMMA RecognizerHeard == ASSUME HeardInv, Recognizer PROVE HeardInv'
<1> USE DEF sessionVars, turnVars, queues, readerVars, recognizerVars, responderVars
<1>1. CASE TakeTurn \/ CheckRevised \/ NothingToAnswer \/ Transcript
  <2>1. UNCHANGED <<turn_id, revision, committed, phase, reader, events, turnVars, finals, opened,
                    responder, job, answer, answer_released, spoken>>
    BY <1>1 DEF TakeTurn, CheckRevised, NothingToAnswer, Transcript, RecognizerStep
  <2>2. SessionFits' /\ EventsFit' /\ FinalsFit'
    BY <2>1, TurnsKept DEF HeardInv, EventsFit
  <2>3. HeardFits'
    BY <2>1, HeardKept
  <2>4. \A a : Given(a) => Given(a)'
    BY <2>1 DEF Given, Newer
  <2>5. WorkFits'
    <3>1. CASE TakeTurn /\ queue' # queue
      <4>1. /\ queue # <<>> /\ heard_turn' = Head(queue) /\ queue' = Tail(queue)
            /\ UNCHANGED answers
        BY <3>1 DEF TakeTurn
      <4>2. queue \in Seq(Turns) /\ \A i \in DOMAIN queue : Given(queue[i])
        BY DEF HeardInv, WorkFits
      <4>3. Given(heard_turn')
        BY <4>1, <4>2
      <4>4. queue' \in Seq(Turns) /\ \A i \in DOMAIN queue' : Given(queue'[i])
        BY <4>1, <4>2
      <4> QED
        BY <2>1, <2>4, <4>1, <4>3, <4>4 DEF HeardInv, WorkFits
    <3>2. CASE Transcript
      <4>1. /\ answers' = Append(answers, heard_turn) /\ UNCHANGED queue
            /\ recognizer = "transcribe" /\ recognizer' = "idle"
        BY <3>2 DEF Transcript
      <4>2. Given(heard_turn) /\ heard_turn \in Turns
        BY <4>1 DEF HeardInv, WorkFits, Given
      <4>3. answers' \in Seq(Turns) /\ \A i \in DOMAIN answers' : Given(answers'[i])
        BY <4>1, <4>2 DEF HeardInv, WorkFits
      <4> QED
        BY <2>1, <2>4, <4>1, <4>3 DEF HeardInv, WorkFits
    <3>3. CASE CheckRevised \/ NothingToAnswer
      <4>1. /\ UNCHANGED <<queues, heard_turn>> /\ recognizer \in {"check", "transcribe"}
        BY <3>3 DEF CheckRevised, NothingToAnswer
      <4> QED
        BY <2>1, <4>1, WorkKept
    <3>4. CASE TakeTurn /\ queue' = queue
      <4>1. queue \in Seq(Turns)
        BY DEF HeardInv, WorkFits
      <4>2. queue # <<>> => Tail(queue) # queue
        BY <4>1
      <4>3. /\ UNCHANGED <<queues, heard_turn>> /\ recognizer' = "exit"
        BY <3>4, <4>2 DEF TakeTurn
      <4> QED
        BY <2>1, <4>3, <2>4 DEF HeardInv, WorkFits
    <3> QED
      BY <1>1, <3>1, <3>2, <3>3, <3>4
  <2> QED
    BY <2>2, <2>3, <2>5 DEF HeardInv
<1>2. CASE ReleaseUnanswered
  <2>1. /\ ReleaseTurn(heard_turn) /\ recognizer = "release" /\ recognizer' = "idle"
        /\ UNCHANGED <<reader, events, opened, queues, heard_turn, job, answer, answer_released,
                       spoken>>
        /\ NotifyTurn \/ UNCHANGED responder
    BY <1>2 DEF ReleaseUnanswered
  <2>2. Given(heard_turn)
    BY <2>1 DEF HeardInv, WorkFits
  <2>3. SessionFits' /\ EventsFit' /\ FinalsFit' /\ finals \subseteq finals'
    BY <2>1, <2>2, ReleaseKeeps
  <2>4. WorkFits' /\ HeardFits'
    BY <2>1, <2>3, NotifyMoves, WorkKept, HeardKept
  <2> QED
    BY <2>3, <2>4 DEF HeardInv
<1> QED
  BY <1>1, <1>2 DEF Recognizer

(* The gate: a turn that became final, and is not outdated, is the latest  *)
(* final itself.                                                           *)
LEMMA GateOfFinal ==
  ASSUME HeardInv, responder = "gate", PassGate
  PROVE  answer \in finals
<1>1. final_turn >= answer.turn /\ ~Newer(opened, answer)
  BY DEF PassGate, GateOpens, Outdated
<1>2. Given(answer)
  BY DEF HeardInv, WorkFits, HoldsFloor
<1>3. /\ answer \in Turns /\ opened \in Turns /\ final_turn \in Nat
      /\ answer.turn \in Nat /\ answer.rev \in Nat /\ opened.turn \in Nat /\ opened.rev \in Nat
      /\ answer.turn > 0 /\ ~Newer(answer, opened) /\ final_turn <= opened.turn
  BY <1>2 DEF Given, HeardInv, EventsFit, FinalsFit, Turns
<1>4. answer.turn = opened.turn /\ answer.rev = opened.rev /\ final_turn = opened.turn
  BY <1>1, <1>3 DEF Newer
<1>5. answer = opened
  BY <1>3, <1>4 DEF Turns
<1>6. PICK f \in finals : f.turn = final_turn
  BY <1>3, <1>4 DEF HeardInv, FinalsFit
<1>7. f = opened
  BY <1>4, <1>6 DEF HeardInv, FinalsFit, Stands
<1> QED
  BY <1>5, <1>6, <1>7

LEMMA ResponderHeard == ASSUME HeardInv, Responder PROVE HeardInv'
<1> USE DEF ResponderAt, sessionVars, turnVars, queues, readerVars, recognizerVars, historyVars
<1>1. \A a : UNCHANGED opened => (Given(a) => Given(a)')
  BY DEF Given, Newer
<1>2. CASE TakeAnswer
  <2>1. UNCHANGED <<sessionVars, turnVars, reader, events, finals, spoken, queue, recognizer,
                    heard_turn, answer, answer_released>>
    BY <1>2 DEF TakeAnswer
  <2>2. \/ responder' = "exit" /\ UNCHANGED <<answers, job>>
        \/ /\ responder' = "start" /\ answers # <<>>
           /\ job' = Head(answers) /\ answers' = Tail(answers)
    BY <1>2 DEF TakeAnswer
  <2>3. answers \in Seq(Turns) /\ \A i \in DOMAIN answers : Given(answers[i])
    BY DEF HeardInv, WorkFits
  <2>4. answers' \in Seq(Turns) /\ \A i \in DOMAIN answers' : Given(answers'[i])
    BY <2>2, <2>3
  <2>5. responder' # "exit" => Given(job')
    BY <2>2, <2>3
  <2>6. WorkFits'
    BY <1>1, <2>1, <2>2, <2>4, <2>5 DEF HeardInv, WorkFits, HoldsFloor
  <2>7. HeardFits'
    BY <2>1, <2>2, HeardKept
  <2> QED
    BY <2>1, <2>6, <2>7, TurnsKept DEF HeardInv, EventsFit
<1>3. CASE StartAnswer \/ ClearCancel \/ Created \/ NextUnit \/ StreamOver \/ Sleep
           \/ TurnBack \/ CloseResponse
  <2>1. /\ UNCHANGED <<sessionVars, turnVars, reader, events, finals, spoken, queues, recognizer,
                       heard_turn, job, answer, answer_released>>
        /\ responder \notin {"idle", "exit"} /\ responder' # "tts"
        /\ responder' \in HoldsFloor => responder \in HoldsFloor
    BY <1>3 DEF StartAnswer, ClearCancel, Created, NextUnit, StreamOver, Sleep, TurnBack,
                CloseResponse, HoldsFloor
  <2> QED
    BY <2>1, TurnsKept, WorkKept, HeardKept DEF HeardInv, EventsFit
<1>4. CASE Publish
  <2>1. /\ UNCHANGED <<sessionVars, turnVars, reader, events, finals, spoken, queues, recognizer,
                       heard_turn, job>>
        /\ responder = "publish" /\ responder' = "created"
        /\ answer' = job /\ answer_released' = FALSE
    BY <1>4 DEF Publish
  <2>2. Given(job)
    BY <2>1 DEF HeardInv, WorkFits
  <2>3. WorkFits'
    BY <1>1, <2>1, <2>2 DEF HeardInv, WorkFits, HoldsFloor
  <2>4. HeardFits'
    BY <2>1 DEF HeardInv, HeardFits
  <2> QED
    BY <2>1, <2>3, <2>4, TurnsKept DEF HeardInv, EventsFit
<1>5. CASE SpeakNext
  <2>1. /\ UNCHANGED <<sessionVars, turnVars, reader, events, finals, spoken, queues, recognizer,
                       heard_turn, job, answer, answer_released>>
        /\ responder = "speak" /\ responder' = "tts" /\ answer_released
    BY <1>5 DEF SpeakNext
  <2>2. WorkFits'
    BY <2>1, WorkKept DEF HoldsFloor
  <2>3. HeardFits'
    BY <2>1 DEF HeardInv, HeardFits
  <2> QED
    BY <2>1, <2>2, <2>3, TurnsKept DEF HeardInv, EventsFit
<1>6. CASE PassGate
  <2>1. /\ UNCHANGED <<sessionVars, turnVars, reader, events, finals, spoken, queues, recognizer,
                       heard_turn, job, answer>>
        /\ responder = "gate" /\ responder' = "tts" /\ answer_released' = TRUE
    BY <1>6 DEF PassGate
  <2>2. answer \in finals
    BY <1>6, <2>1, GateOfFinal
  <2>3. WorkFits'
    BY <2>1, WorkKept DEF HoldsFloor
  <2>4. HeardFits'
    BY <2>1, <2>2 DEF HeardInv, HeardFits
  <2> QED
    BY <2>1, <2>3, <2>4, TurnsKept DEF HeardInv, EventsFit
<1>7. CASE Synthesize \/ LowerFloor
  <2>1. /\ UNCHANGED <<sessionVars, turnVars, reader, events, finals, queues, recognizer,
                       heard_turn, job, answer, answer_released>>
        /\ responder \in {"tts", "close"} /\ responder' \in {"close", "stream", "closing"}
    BY <1>7 DEF Synthesize, LowerFloor
  <2>2. spoken' = spoken \/ (spoken' = spoken \cup {answer} /\ answer \in finals)
    BY <1>7 DEF Synthesize, LowerFloor, HeardInv, HeardFits
  <2>3. WorkFits'
    BY <2>1, WorkKept DEF HoldsFloor
  <2>4. HeardFits'
    BY <2>1, <2>2 DEF HeardInv, HeardFits
  <2> QED
    BY <2>1, <2>3, <2>4, TurnsKept DEF HeardInv, EventsFit
<1>8. CASE ReleaseAtFirstUnit
  <2>1. /\ ReleaseTurn(answer) /\ responder = "speak" /\ responder' = "gate"
        /\ UNCHANGED <<reader, events, opened, queues, recognizer, heard_turn, job, answer,
                       answer_released, spoken>>
    BY <1>8 DEF ReleaseAtFirstUnit
  <2>2. Given(answer)
    BY <2>1 DEF HeardInv, WorkFits, HoldsFloor
  <2>3. SessionFits' /\ EventsFit' /\ FinalsFit' /\ finals \subseteq finals'
    BY <2>1, <2>2, ReleaseKeeps
  <2>4. WorkFits' /\ HeardFits'
    BY <2>1, <2>3, WorkKept, HeardKept DEF HoldsFloor
  <2> QED
    BY <2>3, <2>4 DEF HeardInv
<1>9. CASE ReleaseAtEnd
  <2>1. /\ ReleaseTurn(job) /\ responder = "release" /\ responder' = "idle"
        /\ UNCHANGED <<reader, events, opened, queues, recognizer, heard_turn, job, answer,
                       answer_released, spoken>>
    BY <1>9 DEF ReleaseAtEnd
  <2>2. Given(job)
    BY <2>1 DEF HeardInv, WorkFits
  <2>3. SessionFits' /\ EventsFit' /\ FinalsFit' /\ finals \subseteq finals'
    BY <2>1, <2>2, ReleaseKeeps
  <2>4. WorkFits' /\ HeardFits'
    BY <2>1, <2>3, WorkKept, HeardKept DEF HoldsFloor
  <2> QED
    BY <2>3, <2>4 DEF HeardInv
<1> QED
  BY <1>2, <1>3, <1>4, <1>5, <1>6, <1>7, <1>8, <1>9 DEF Responder, ResponderRelease

LEMMA WriterHeard == ASSUME HeardInv, Writer PROVE HeardInv'
<1>1. /\ UNCHANGED <<turn_id, revision, committed, phase, turnVars, reader, events, finals, spoken,
                     queues, recognizer, heard_turn, job, answer, answer_released>>
      /\ NotifyTurn \/ UNCHANGED responder
  BY DEF Writer, WriterEnds, SendFails, WriterCancel, WriterStop, WriterNotify, WriterExit,
         WriterAt, sessionVars, readerVars, recognizerVars, responderVars, historyVars
<1> QED
  BY <1>1, NotifyMoves, TurnsKept, WorkKept, HeardKept DEF HeardInv, EventsFit, turnVars

(* The invariant of what is heard, over all the threads.                   *)
LEMMA HeardInvariant == Spec => []HeardInv
<1>1. Init => HeardInv
  BY DEF Init, S!Init, HeardInv, SessionFits, EventsFit, FinalsFit, WorkFits, HeardFits, NoTurn,
         Turn, Turns, Now, HoldsFloor
<1>2. HeardInv /\ [Next]_allVars => HeardInv'
  <2> SUFFICES ASSUME HeardInv, [Next]_allVars PROVE HeardInv'
    OBVIOUS
  <2>1. CASE UNCHANGED allVars
    BY <2>1, TurnsKept, WorkKept, HeardKept
    DEF allVars, sessionVars, turnVars, queues, readerVars, recognizerVars, responderVars,
        historyVars, HeardInv, EventsFit
  <2>2. CASE Terminated
    BY <2>1, <2>2 DEF Terminated
  <2> QED
    BY <2>1, <2>2, ReaderHeard, RecognizerHeard, ResponderHeard, WriterHeard DEF Next
<1> QED
  BY <1>1, <1>2, PTL DEF Spec

(* What the client hears of a turn answers the revision that became final, *)
(* and that turn is never taken back: conn_wait_final, whichever of the    *)
(* grace, the release, a resumption, a barge-in and a new turn comes first *)
(* on whichever thread.                                                    *)
THEOREM HeardStands == Spec => []HeardTurnStands
<1>1. HeardInv => HeardTurnStands
  <2> SUFFICES ASSUME HeardInv, NEW a \in spoken
               PROVE  a \in finals /\ ~(turn_id = a.turn /\ revision > a.rev)
    BY DEF HeardTurnStands
  <2>1. a \in finals /\ Stands(a)
    BY DEF HeardInv, HeardFits, FinalsFit
  <2>2. turn_id = a.turn => a.rev = revision
    BY <2>1 DEF Stands, Now, Turn
  <2> QED
    BY <2>1, <2>2 DEF HeardInv, SessionFits
<1> QED
  BY <1>1, HeardInvariant, PTL

----------------------------------------------------------------------------
(* The line of the turns.  What was committed goes over the two queues to  *)
(* its answer in the order of the turns: the job, what was recognized, what *)
(* is being recognized, what was committed, and behind them the turn that  *)
(* is open or about to be committed, each newer than those before it.      *)

(* The recognizer has a turn at hand.                                      *)
Busy == recognizer \notin {"idle", "exit"}

(* A queue holds the turns in their order.                                 *)
Rising(s) == \A i, j \in DOMAIN s : i < j => Newer(s[j], s[i])

(* Behind all that was recognized, all that was taken, and the whole line.  *)
Recognized(a) == Newer(a, job) /\ \A i \in DOMAIN answers : Newer(a, answers[i])
Waits(a)      == Recognized(a) /\ (Busy => Newer(a, heard_turn))
Comes(a)      == Waits(a) /\ \A i \in DOMAIN queue : Newer(a, queue[i])

(* A window commits once, as the last it tells.                            *)
Commits(e) == e.event = "TURN_COMMITTED"
ToCommit   == \E i \in DOMAIN events : Commits(events[i])
CommitLast == \A i \in DOMAIN events : Commits(events[i]) => i = Len(events) /\ phase = "IDLE"

QueuesFit ==
  /\ job \in Turns /\ ~Newer(job, opened)
  /\ Rising(answers) /\ Rising(queue)
  /\ \A i \in DOMAIN answers : Newer(answers[i], job)
  /\ Busy => Recognized(heard_turn)
  /\ \A i \in DOMAIN queue : Waits(queue[i])

LineInv == QueuesFit /\ CommitLast /\ (phase # "IDLE" \/ ToCommit => Comes(Now))

(* The order of the turns and their revisions.                             *)
LEMMA NewerOrders ==
  ASSUME NEW a \in Turns, NEW b \in Turns, NEW c \in Turns
  PROVE  /\ ~Newer(a, a)
         /\ Newer(a, b) \/ Newer(b, a) \/ a = b
         /\ Newer(a, b) /\ Newer(b, c) => Newer(a, c)
         /\ Newer(a, b) /\ ~Newer(c, b) => Newer(a, c)
<1>1. /\ a.turn \in Nat /\ b.turn \in Nat /\ c.turn \in Nat
      /\ a.rev \in Nat /\ b.rev \in Nat /\ c.rev \in Nat
  BY DEF Turns
<1>2. a.turn = b.turn /\ a.rev = b.rev => a = b
  BY DEF Turns
<1> QED BY <1>1, <1>2 DEF Newer

(* ------------------------- what a step leaves alone -------------------- *)

(* Callbacks that commit nothing new, of a line nobody moves.              *)
LEMMA LineKept ==
  ASSUME LineInv, UNCHANGED <<queues, job, heard_turn, opened, phase, turn_id, revision>>,
         Busy' => Busy, CommitLast', ToCommit' => ToCommit
  PROVE  LineInv'
<1>1. QueuesFit'
  BY DEF LineInv, QueuesFit, Rising, Waits, Recognized, Newer, queues
<1>2. Comes(Now) => Comes(Now)'
  BY DEF Comes, Waits, Recognized, Newer, Now, Turn, queues
<1> QED BY <1>1, <1>2 DEF LineInv

(* The same with no callback run.                                          *)
LEMMA LineStill ==
  ASSUME LineInv, UNCHANGED <<queues, job, heard_turn, opened, phase, turn_id, revision, events>>,
         Busy' => Busy
  PROVE  LineInv'
<1>1. CommitLast' /\ (ToCommit' => ToCommit)
  BY DEF LineInv, CommitLast, ToCommit, Commits
<1> QED BY <1>1, LineKept

(* The callbacks still to run, one fewer.                                  *)
LEMMA TailCommits ==
  ASSUME HeardInv, LineInv, events # <<>>, events' = Tail(events), phase' = phase
  PROVE  CommitLast' /\ (ToCommit' => ToCommit)
<1>1. events \in Seq(Told) /\ Len(events) > 0
  BY DEF HeardInv, EventsFit
<1>2. /\ Len(events') = Len(events) - 1
      /\ \A i \in DOMAIN events' : i + 1 \in DOMAIN events /\ events'[i] = events[i + 1]
  BY <1>1
<1>3. ToCommit' => ToCommit
  BY <1>2 DEF ToCommit, Commits
<1>4. \A i \in DOMAIN events' : Commits(events'[i]) => i = Len(events') /\ phase' = "IDLE"
  <2> TAKE i \in DOMAIN events'
  <2>1. i + 1 \in DOMAIN events /\ events'[i] = events[i + 1] /\ i \in Int
    BY <1>1, <1>2
  <2> QED BY <1>1, <1>2, <2>1 DEF LineInv, CommitLast
<1> QED BY <1>3, <1>4 DEF CommitLast, Commits

(* An opening moves what opened last, and nothing in the line.             *)
LEMMA OpenedLine == ASSUME HeardInv, LineInv, OnOpened PROVE LineInv'
<1> USE DEF turnVars
<1>1. /\ events # <<>> /\ events' = Tail(events) /\ reader = "events"
      /\ UNCHANGED <<queues, job, recognizer, heard_turn, phase, turn_id, revision>>
  BY DEF OnOpened, NextEvent, sessionVars, recognizerVars, queues
<1>2. CommitLast' /\ (ToCommit' => ToCommit)
  BY <1>1, TailCommits
<1>3. events \in Seq(Told) /\ 1 \in DOMAIN events /\ Head(events) = events[1]
  BY <1>1 DEF HeardInv, EventsFit
<1>4. Opening(events[1])
  BY <1>3 DEF OnOpened, NextEvent, Opening
<1>5. opened' = Now /\ Newer(Now, opened)
  <2>1. TurnOf(events[1]) = Now /\ Newer(Now, opened)
    BY <1>3, <1>4 DEF HeardInv, EventsFit
  <2>2. EventTurn = Now
    BY <1>3, <2>1 DEF EventTurn, TurnOf
  <2> QED BY <2>1, <2>2 DEF OnOpened
<1>6. Now \in Turns /\ opened \in Turns /\ job \in Turns /\ ~Newer(job, opened)
  BY DEF HeardInv, SessionFits, EventsFit, LineInv, QueuesFit, Now, Turn, Turns
<1>7. ~Newer(job, Now)
  BY <1>5, <1>6, NewerOrders
<1>8. QueuesFit'
  BY <1>1, <1>5, <1>7 DEF LineInv, QueuesFit, Rising, Waits, Recognized, Busy, Newer, queues
<1>9. Comes(Now) => Comes(Now)'
  BY <1>1 DEF Comes, Waits, Recognized, Busy, Newer, Now, Turn, queues
<1> QED BY <1>1, <1>2, <1>8, <1>9 DEF LineInv

(* A turn committed joins the line behind all that was committed before.   *)
LEMMA CommittedLine == ASSUME HeardInv, LineInv, OnCommitted PROVE LineInv'
<1>1. /\ events # <<>> /\ events' = Tail(events) /\ reader = "events"
      /\ Commits(Head(events)) /\ queue' = Append(queue, EventTurn)
      /\ UNCHANGED <<answers, job, recognizer, heard_turn, opened, phase, turn_id, revision>>
  BY DEF OnCommitted, NextEvent, sessionVars, recognizerVars, turnVars, Commits
<1>2. events \in Seq(Told) /\ 1 \in DOMAIN events /\ Head(events) = events[1]
  BY <1>1 DEF HeardInv, EventsFit
<1>3. /\ Len(events) = 1 /\ phase = "IDLE" /\ ToCommit
      /\ ~Opening(events[1]) /\ TurnOf(events[1]) = opened
  BY <1>1, <1>2 DEF LineInv, CommitLast, ToCommit, Commits, Opening, HeardInv, EventsFit
<1>4. opened = Now /\ EventTurn = Now
  <2>1. \A i \in DOMAIN events : ~Opening(events[i])
    BY <1>2, <1>3
  <2> QED BY <1>2, <1>3, <2>1 DEF HeardInv, EventsFit, EventTurn, TurnOf
<1>5. events' = <<>>
  BY <1>1, <1>2, <1>3
<1>6. Comes(Now) /\ Now \in Turns
  BY <1>3 DEF LineInv, HeardInv, SessionFits, Now, Turn, Turns
<1>7. /\ queue \in Seq(Turns) /\ Len(queue') = Len(queue) + 1
      /\ DOMAIN queue = 1 .. Len(queue) /\ DOMAIN queue' = 1 .. Len(queue')
      /\ queue'[Len(queue')] = Now /\ \A i \in DOMAIN queue : queue'[i] = queue[i]
  <2>1. queue \in Seq(Turns)
    BY DEF HeardInv, WorkFits
  <2> HIDE DEF Now
  <2> QED BY <1>1, <1>4, <1>6, <2>1
<1>8. /\ \A a : Waits(a) => Waits(a)'
      /\ Busy' => Recognized(heard_turn)'
  BY <1>1 DEF LineInv, QueuesFit, Waits, Recognized, Busy, Newer
<1>9. Rising(queue')
  <2> SUFFICES ASSUME NEW i \in DOMAIN queue', NEW j \in DOMAIN queue', i < j
               PROVE  Newer(queue'[j], queue'[i])
    BY DEF Rising
  <2>1. CASE j \in DOMAIN queue
    BY <1>7, <2>1 DEF LineInv, QueuesFit, Rising
  <2>2. CASE j \notin DOMAIN queue
    <3>1. i \in DOMAIN queue /\ j = Len(queue') /\ Len(queue) \in Nat
      BY <1>7, <2>2
    <3> QED BY <1>6, <1>7, <3>1 DEF Comes
  <2> QED BY <2>1, <2>2
<1>10. (\A i \in DOMAIN queue : Waits(queue[i]))'
  <2>1. \A i \in DOMAIN queue' : Waits(queue'[i])
    <3> SUFFICES ASSUME NEW i \in DOMAIN queue' PROVE Waits(queue'[i])
      OBVIOUS
    <3>1. CASE i \in DOMAIN queue
      BY <1>7, <3>1 DEF LineInv, QueuesFit
    <3>2. CASE i \notin DOMAIN queue
      BY <1>6, <1>7, <3>2 DEF Comes
    <3> QED BY <3>1, <3>2
  <2> QED BY <1>1, <2>1 DEF Waits, Recognized, Busy, Newer
<1>11. QueuesFit'
  <2>1. Rising(answers)' /\ Rising(queue)'
    BY <1>1, <1>9 DEF LineInv, QueuesFit, Rising, Newer
  <2> QED BY <1>1, <1>8, <1>10, <2>1 DEF LineInv, QueuesFit, Newer
<1>12. CommitLast' /\ ~ToCommit' /\ phase' = "IDLE"
  BY <1>1, <1>3, <1>5 DEF CommitLast, ToCommit
<1> QED BY <1>11, <1>12 DEF LineInv

(* A barge-in changes the name of the first callback.                      *)
LEMMA BargeInLine == ASSUME HeardInv, LineInv, OnBargeIn PROVE LineInv'
<1>1. /\ events \in Seq(Told) /\ Len(events) > 0
      /\ UNCHANGED <<queues, job, recognizer, heard_turn, opened, phase, turn_id, revision>>
  BY DEF OnBargeIn, HeardInv, EventsFit, sessionVars, recognizerVars, responderVars, turnVars
<1> DEFINE told == [Head(events) EXCEPT !.event = "NOTIFY"]
<1>2. events' = <<told>> \o Tail(events) /\ told \in Told /\ told.event = "NOTIFY"
  <2>1. Head(events) \in Told
    BY <1>1
  <2> QED BY <2>1 DEF OnBargeIn, Told, S!Events
<1> HIDE DEF told
<1>3. /\ Len(events') = Len(events) /\ events'[1] = told
      /\ DOMAIN events' = DOMAIN events
      /\ \A i \in DOMAIN events : i # 1 => events'[i] = events[i]
  <2>1. Tail(events) \in Seq(Told) /\ Len(Tail(events)) = Len(events) - 1
    BY <1>1
  <2>2. Len(events') = Len(events) /\ events'[1] = told /\ DOMAIN events' = DOMAIN events
    BY <1>1, <1>2, <2>1
  <2>3. \A i \in DOMAIN events : i # 1 => events'[i] = Tail(events)[i - 1]
    BY <1>1, <1>2, <2>1
  <2>4. \A i \in DOMAIN events : i # 1 => Tail(events)[i - 1] = events[i]
    BY <1>1
  <2> QED BY <2>2, <2>3, <2>4
<1>4. CommitLast' /\ (ToCommit' => ToCommit)
  BY <1>1, <1>2, <1>3 DEF LineInv, CommitLast, ToCommit, Commits
<1> QED BY <1>1, <1>4, LineKept DEF Busy

(* A window either opens a turn, newer than what was, or leaves it; and    *)
(* commits it only once, as the last it tells.                             *)
LEMMA WindowCommits ==
  ASSUME SessionFits, NEW prob, NEW complete \in BOOLEAN, S!Window(prob, complete)
  PROVE  /\ \A i \in DOMAIN reports' :
              Commits(reports'[i]) => i = Len(reports') /\ phase' = "IDLE" /\ phase # "IDLE"
         /\ phase' # "IDLE" => phase # "IDLE" \/ Now' # Now
<1> DEFINE Quiet == [event : S!Events \ {"TURN_COMMITTED"}, turn : Nat, rev : Nat]
           told(event, turn, rev) == [event |-> event, turn |-> turn, rev |-> rev]
<1>0. /\ S!FinalFirst = IF S!FinalNow THEN <<told("TURN_FINAL", turn_id, revision)>> ELSE <<>>
      /\ \A event : S!Emit(event) = told(event, turn_id, revision)
      /\ \A event, turn, rev : S!Report(event, turn, rev) = told(event, turn, rev)
      /\ ~committed => S!FinalFirst = <<>>
  BY DEF S!FinalFirst, S!Emit, S!Report, S!FinalNow
<1>a. \A event \in S!Events \ {"TURN_COMMITTED"}, turn \in Nat, rev \in Nat :
        told(event, turn, rev) \in Quiet
  OBVIOUS
<1>b. \A e \in Quiet : ~Commits(e)
  BY DEF Commits
<1>c. turn_id \in Nat /\ revision \in Nat /\ turn_id + 1 \in Nat /\ revision + 1 \in Nat
  BY DEF SessionFits
<1>d. {"TURN_FINAL", "BARGE_IN", "SPEECH_STARTED", "SPEECH_STOPPED", "TURN_REOPENED",
       "TURN_RESUMED"} \subseteq S!Events \ {"TURN_COMMITTED"}
  BY DEF S!Events
<1>e. \A event : Commits(told(event, turn_id, revision)) => event = "TURN_COMMITTED"
  BY DEF Commits
<1> HIDE DEF told, Quiet
<1>f. S!FinalFirst \in Seq(Quiet)
  BY <1>0, <1>a, <1>c, <1>d
<1>g. reports' \in Seq(Quiet) => \A i \in DOMAIN reports' : ~Commits(reports'[i])
  BY <1>b
<1>1. CASE S!Resume(prob)
  <2>1. reports' = <<told("TURN_RESUMED", turn_id, revision + 1)>> /\ revision' = revision + 1
    BY <1>0, <1>1 DEF S!Resume
  <2>2. reports' \in Seq(Quiet)
    BY <1>a, <1>c, <1>d, <2>1
  <2> QED BY <1>c, <1>g, <2>1, <2>2 DEF Now, Turn
<1>2. CASE S!OpenTurn(prob)
  <2>1. /\ turn_id' = turn_id + 1
        /\ reports' = S!FinalFirst
             \o (IF speaking_s THEN <<S!Emit("BARGE_IN")>> ELSE <<>>)
             \o <<S!Report("SPEECH_STARTED", turn_id + 1, 0)>>
    BY <1>2 DEF S!OpenTurn
  <2>2. /\ (IF speaking_s THEN <<S!Emit("BARGE_IN")>> ELSE <<>>) \in Seq(Quiet)
        /\ <<S!Report("SPEECH_STARTED", turn_id + 1, 0)>> \in Seq(Quiet)
    BY <1>0, <1>a, <1>c, <1>d
  <2>3. reports' \in Seq(Quiet)
    BY <1>f, <2>1, <2>2, ConcatProperties
  <2> QED BY <1>c, <1>g, <2>1, <2>3 DEF Now, Turn
<1>3. CASE S!StayIdle(prob) \/ S!StaySpeaking(prob) \/ S!StayPending(prob)
  BY <1>3, <1>f, <1>g DEF S!StayIdle, S!StaySpeaking, S!StayPending
<1>4. CASE S!Boundary(prob, complete) \/ S!Expire(prob)
  <2>1. phase # "IDLE" /\ S!FinalFirst = <<>>
    BY <1>0, <1>4 DEF S!Boundary, S!Expire, SessionFits
  <2>2. \/ /\ phase' = "IDLE"
           /\ \/ reports' = S!FinalFirst \o <<S!Emit("TURN_COMMITTED")>>
              \/ reports' = S!FinalFirst \o <<S!Emit("SPEECH_STOPPED"), S!Emit("TURN_COMMITTED")>>
        \/ reports' = S!FinalFirst \o <<S!Emit("SPEECH_STOPPED"), S!Emit("TURN_REOPENED")>>
    BY <1>4 DEF S!Boundary, S!Expire, S!Commit
  <2>3. CASE reports' = S!FinalFirst \o <<S!Emit("SPEECH_STOPPED"), S!Emit("TURN_REOPENED")>>
    <3>1. <<S!Emit("SPEECH_STOPPED"), S!Emit("TURN_REOPENED")>> \in Seq(Quiet)
      BY <1>0, <1>a, <1>c, <1>d
    <3>2. reports' \in Seq(Quiet)
      BY <1>f, <2>3, <3>1, ConcatProperties
    <3> QED BY <1>g, <2>1, <3>2
  <2>4. CASE /\ phase' = "IDLE"
             /\ reports' = S!FinalFirst \o <<S!Emit("TURN_COMMITTED")>>
    <3>1. Len(reports') = 1 /\ DOMAIN reports' = 1 .. 1
      BY <2>1, <2>4
    <3> QED BY <2>1, <2>4, <3>1
  <2>5. CASE /\ phase' = "IDLE"
             /\ reports' = S!FinalFirst \o <<S!Emit("SPEECH_STOPPED"), S!Emit("TURN_COMMITTED")>>
    <3>1. /\ Len(reports') = 2 /\ DOMAIN reports' = 1 .. 2
          /\ reports'[1] = S!Emit("SPEECH_STOPPED")
      BY <2>1, <2>5
    <3>2. ~Commits(reports'[1])
      BY <1>0, <1>e, <3>1
    <3> QED BY <2>1, <2>5, <3>1, <3>2
  <2> QED BY <2>2, <2>3, <2>4, <2>5
<1>5. CASE S!Reopen(prob)
  <2>1. /\ phase # "IDLE"
        /\ reports' = S!FinalFirst \o <<S!Report("SPEECH_STARTED", turn_id, revision + 1)>>
    BY <1>5 DEF S!Reopen
  <2>2. <<S!Report("SPEECH_STARTED", turn_id, revision + 1)>> \in Seq(Quiet)
    BY <1>0, <1>a, <1>c, <1>d
  <2>3. reports' \in Seq(Quiet)
    BY <1>f, <2>1, <2>2, ConcatProperties
  <2> QED BY <1>g, <2>1, <2>3
<1> QED BY <1>1, <1>2, <1>3, <1>4, <1>5 DEF S!Window

(* What opens comes after the whole line; what is committed was open.      *)
LEMMA WindowLine == ASSUME HeardInv, LineInv, PushWindow PROVE LineInv'
<1>1. /\ events = <<>> /\ opened = Now /\ events' = reports'
      /\ UNCHANGED <<queues, job, recognizer, heard_turn, opened>>
  BY DEF PushWindow, HeardInv, EventsFit, turnVars, recognizerVars, responderVars
<1>2. PICK prob \in {"above", "below"}, complete \in BOOLEAN : S!Window(prob, complete)
  BY DEF PushWindow
<1>3. SessionFits' /\ WindowTells(events')
  BY <1>1, <1>2, WindowFits DEF HeardInv
<1>4. /\ \A i \in DOMAIN events' :
           Commits(events'[i]) => i = Len(events') /\ phase' = "IDLE" /\ phase # "IDLE"
      /\ phase' # "IDLE" => phase # "IDLE" \/ Now' # Now
  BY <1>1, <1>2, WindowCommits DEF HeardInv
<1>5. CommitLast'
  BY <1>4 DEF CommitLast, Commits
<1>6. QueuesFit'
  BY <1>1 DEF LineInv, QueuesFit, Rising, Waits, Recognized, Busy, Newer, queues
<1>7. Now \in Turns /\ Now' \in Turns
  BY <1>3 DEF HeardInv, SessionFits, Now, Turn, Turns
<1>8. Now' = Now \/ Newer(Now', Now)
  BY <1>3 DEF WindowTells, Opens
<1>9. CASE Now' = Now
  <2>1. phase' # "IDLE" \/ ToCommit' => phase # "IDLE"
    BY <1>4, <1>9 DEF ToCommit, Commits
  <2>2. Comes(Now) => Comes(Now)'
    BY <1>1, <1>9 DEF Comes, Waits, Recognized, Busy, Newer, queues
  <2> QED BY <1>5, <1>6, <2>1, <2>2 DEF LineInv
<1>10. CASE Newer(Now', Now)
  <2>1. \A a \in Turns : ~Newer(a, opened) => Newer(Now', a)
    BY <1>1, <1>7, <1>10, NewerOrders
  <2>2. job \in Turns /\ ~Newer(job, opened)
    BY DEF LineInv, QueuesFit
  <2>3. /\ \A i \in DOMAIN answers : answers[i] \in Turns /\ ~Newer(answers[i], opened)
        /\ \A i \in DOMAIN queue : queue[i] \in Turns /\ ~Newer(queue[i], opened)
        /\ Busy => heard_turn \in Turns /\ ~Newer(heard_turn, opened)
    BY DEF HeardInv, WorkFits, Given, Busy
  <2> DEFINE new == Now'
  <2>4. Comes(new)
    <3> HIDE DEF new
    <3>1. \A a \in Turns : ~Newer(a, opened) => Newer(new, a)
      BY <2>1 DEF new
    <3> QED BY <2>2, <2>3, <3>1 DEF Comes, Waits, Recognized
  <2>5. Comes(Now)'
    <3>1. UNCHANGED <<job, answers, queue, heard_turn>> /\ Busy' = Busy
      BY <1>1 DEF queues, Busy
    <3> QED BY <2>4, <3>1 DEF Comes, Waits, Recognized, Newer
  <2> QED BY <1>5, <1>6, <2>5 DEF LineInv
<1> QED BY <1>8, <1>9, <1>10

(* The reader: only a commit joins the line.                               *)
LEMMA ReaderLine == ASSUME HeardInv, LineInv, Reader PROVE LineInv'
<1> USE DEF sessionVars, turnVars, queues, recognizerVars, responderVars, historyVars, Busy
<1>1. CASE \/ ReadAudio \/ NextWindow \/ EndFrame \/ ReadCancel \/ NotifyCancel
           \/ ReadEnd \/ ReaderClose
  <2>1. UNCHANGED <<queues, job, recognizer, heard_turn, opened, phase, turn_id, revision, events>>
    BY <1>1 DEF ReadAudio, S!SetSpeaking, S!clock, S!grace, S!life, NextWindow, EndFrame, EndWindow,
       ReadCancel, NotifyCancel, ReadEnd, ReaderClose, CloseCancel, CloseStop, CloseNotify,
       CloseJoin, Closed
  <2> QED BY <2>1, LineStill
<1>2. CASE OnFinal \/ NotifyBargeIn \/ OnLogged
  <2>1. /\ events # <<>> /\ events' = Tail(events)
        /\ UNCHANGED <<queues, job, recognizer, heard_turn, opened, phase, turn_id, revision>>
    BY <1>2 DEF OnFinal, NotifyBargeIn, OnLogged, NextEvent
  <2> QED BY <2>1, TailCommits, LineKept
<1> QED
  BY <1>1, <1>2, OpenedLine, CommittedLine, BargeInLine, WindowLine DEF Reader, ReaderCallback

(* A release moves nothing in the line.                                    *)
LEMMA ReleaseLine ==
  ASSUME LineInv, NEW a, ReleaseTurn(a), UNCHANGED <<queues, job, heard_turn, opened, events>>,
         Busy' => Busy
  PROVE  LineInv'
BY LineStill DEF ReleaseTurn, S!Release

(* The recognizer takes the first that was committed.                      *)
LEMMA TakenTurn ==
  ASSUME HeardInv, LineInv, queue # <<>>, ~Busy, heard_turn' = Head(queue), queue' = Tail(queue),
         UNCHANGED <<answers, job, opened, phase, turn_id, revision, events>>
  PROVE  LineInv'
<1>1. /\ queue \in Seq(Turns) /\ Len(queue) \in Nat \ {0}
      /\ Head(queue) = queue[1] /\ 1 \in DOMAIN queue
      /\ DOMAIN queue = 1 .. Len(queue) /\ DOMAIN queue' = 1 .. Len(queue) - 1
      /\ \A i \in DOMAIN queue' : i + 1 \in DOMAIN queue /\ queue'[i] = queue[i + 1]
  BY DEF HeardInv, WorkFits
<1>2. \A i \in DOMAIN queue : Recognized(queue[i])
  BY DEF LineInv, QueuesFit, Waits
<1>3. \A i \in DOMAIN queue' : Newer(queue'[i], heard_turn') /\ Recognized(queue'[i])
  <2> TAKE i \in DOMAIN queue'
  <2>1. i + 1 \in DOMAIN queue /\ 1 < i + 1 /\ queue'[i] = queue[i + 1]
    BY <1>1
  <2> QED BY <1>1, <1>2, <2>1 DEF LineInv, QueuesFit, Rising
<1>4. Rising(queue')
  BY <1>1 DEF LineInv, QueuesFit, Rising
<1>5. QueuesFit'
  <2>1. \A a : Recognized(a) => Recognized(a)'
    BY DEF Recognized, Newer
  <2>2. Recognized(heard_turn') /\ UNCHANGED <<job, answers, opened>>
    BY <1>1, <1>2
  <2>3. (\A i \in DOMAIN queue : Waits(queue[i]))'
    BY <1>3, <2>2 DEF Waits, Recognized, Newer
  <2>4. (Rising(answers) /\ Rising(queue) /\ \A i \in DOMAIN answers : Newer(answers[i], job))'
    BY <1>4, <2>2 DEF LineInv, QueuesFit, Rising, Newer
  <2>5. Recognized(heard_turn)'
    BY <2>2 DEF Recognized, Newer
  <2> QED BY <2>2, <2>3, <2>4, <2>5 DEF LineInv, QueuesFit, Newer
<1>6. Comes(Now) => Comes(Now)'
  <2>1. Comes(Now) => /\ Recognized(Now) /\ Newer(Now, heard_turn')
                      /\ \A i \in DOMAIN queue' : Newer(Now, queue'[i])
    BY <1>1 DEF Comes, Waits
  <2> QED BY <2>1 DEF Comes, Waits, Recognized, Newer, Now, Turn
<1> QED BY <1>5, <1>6 DEF LineInv, CommitLast, ToCommit, Commits

(* What it recognized is the last of the answers.                          *)
LEMMA TranscribedTurn ==
  ASSUME HeardInv, LineInv, Busy, ~Busy', answers' = Append(answers, heard_turn),
         UNCHANGED <<queue, heard_turn, job, opened, phase, turn_id, revision, events>>
  PROVE  LineInv'
<1>1. /\ answers \in Seq(Turns) /\ heard_turn \in Turns
      /\ Len(answers') = Len(answers) + 1
      /\ DOMAIN answers = 1 .. Len(answers) /\ DOMAIN answers' = 1 .. Len(answers')
      /\ answers'[Len(answers')] = heard_turn
      /\ \A i \in DOMAIN answers : answers'[i] = answers[i]
  <2>1. answers \in Seq(Turns) /\ heard_turn \in Turns
    BY DEF HeardInv, WorkFits, Given, Busy
  <2> QED BY <2>1
<1>2. Recognized(heard_turn)
  BY DEF LineInv, QueuesFit
<1>3. \A a : Waits(a) => Recognized(a)'
  BY <1>1 DEF Waits, Recognized, Newer
<1>4. Rising(answers')
  <2> SUFFICES ASSUME NEW i \in DOMAIN answers', NEW j \in DOMAIN answers', i < j
               PROVE  Newer(answers'[j], answers'[i])
    BY DEF Rising
  <2>1. CASE j \in DOMAIN answers
    BY <1>1, <2>1 DEF LineInv, QueuesFit, Rising
  <2>2. CASE j \notin DOMAIN answers
    <3>1. i \in DOMAIN answers /\ j = Len(answers')
      BY <1>1, <2>2
    <3> QED BY <1>1, <1>2, <3>1 DEF Recognized
  <2> QED BY <2>1, <2>2
<1>5. \A i \in DOMAIN answers' : Newer(answers'[i], job)
  BY <1>1, <1>2 DEF LineInv, QueuesFit, Recognized
<1>6. QueuesFit'
  BY <1>3, <1>4, <1>5 DEF LineInv, QueuesFit, Waits, Rising, Newer
<1>7. Comes(Now) => Comes(Now)'
  BY <1>3 DEF Comes, Waits, Newer, Now, Turn
<1> QED BY <1>6, <1>7 DEF LineInv, CommitLast, ToCommit, Commits

(* The recognizer: a turn moves on in the line, or leaves it.              *)
LEMMA RecognizerLine == ASSUME HeardInv, LineInv, Recognizer PROVE LineInv'
<1> USE DEF RecognizerStep, turnVars, responderVars, readerVars, sessionVars, queues
<1>1. CASE TakeTurn
  <2>1. CASE recognizer' = "exit"
    <3>1. /\ UNCHANGED <<queues, job, heard_turn, opened, phase, turn_id, revision, events>>
          /\ ~Busy'
      BY <1>1, <2>1 DEF TakeTurn, Busy
    <3> QED BY <3>1, LineStill
  <2>2. CASE recognizer' # "exit"
    BY <1>1, <2>2, TakenTurn DEF TakeTurn, Busy
  <2> QED BY <2>1, <2>2
<1>2. CASE CheckRevised \/ NothingToAnswer
  BY <1>2, LineStill DEF CheckRevised, NothingToAnswer, Busy
<1>3. CASE Transcript
  BY <1>3, TranscribedTurn DEF Transcript, Busy
<1>4. CASE ReleaseUnanswered
  BY <1>4, ReleaseLine DEF ReleaseUnanswered, Busy
<1> QED BY <1>1, <1>2, <1>3, <1>4 DEF Recognizer

(* The responder takes the first that was recognized.                      *)
LEMMA AnsweredTurn ==
  ASSUME HeardInv, LineInv, answers # <<>>, job' = Head(answers), answers' = Tail(answers),
         UNCHANGED <<queue, recognizer, heard_turn, opened, phase, turn_id, revision, events>>
  PROVE  LineInv'
<1>1. /\ answers \in Seq(Turns) /\ Len(answers) \in Nat \ {0}
      /\ Head(answers) = answers[1] /\ 1 \in DOMAIN answers
      /\ DOMAIN answers = 1 .. Len(answers) /\ DOMAIN answers' = 1 .. Len(answers) - 1
      /\ \A i \in DOMAIN answers' : i + 1 \in DOMAIN answers /\ answers'[i] = answers[i + 1]
  BY DEF HeardInv, WorkFits
<1>2. \A a : Recognized(a) => Newer(a, job') /\ \A i \in DOMAIN answers' : Newer(a, answers'[i])
  BY <1>1 DEF Recognized
<1>3. \A i \in DOMAIN answers' : Newer(answers'[i], job')
  <2> TAKE i \in DOMAIN answers'
  <2>1. i + 1 \in DOMAIN answers /\ 1 < i + 1 /\ answers'[i] = answers[i + 1]
    BY <1>1
  <2> QED BY <1>1, <2>1 DEF LineInv, QueuesFit, Rising
<1>4. Rising(answers')
  BY <1>1 DEF LineInv, QueuesFit, Rising
<1>5. job' \in Turns /\ ~Newer(job', opened)
  BY <1>1 DEF HeardInv, WorkFits, Given
<1>6. \A a : Recognized(a) => Recognized(a)'
  BY <1>2 DEF Recognized, Newer
<1>7. QueuesFit'
  BY <1>3, <1>4, <1>5, <1>6 DEF LineInv, QueuesFit, Waits, Busy, Rising, Newer
<1>8. Comes(Now) => Comes(Now)'
  BY <1>6 DEF Comes, Waits, Busy, Newer, Now, Turn
<1> QED BY <1>7, <1>8 DEF LineInv, CommitLast, ToCommit, Commits

(* The responder: the job moves when it is taken, and only then.           *)
LEMMA ResponderLine == ASSUME HeardInv, LineInv, Responder PROVE LineInv'
<1> USE DEF ResponderAt, readerVars, recognizerVars, sessionVars, queues
<1>1. CASE TakeAnswer
  <2>1. CASE stop
    BY <1>1, <2>1, LineStill DEF TakeAnswer, Busy
  <2>2. CASE ~stop
    BY <1>1, <2>2, AnsweredTurn DEF TakeAnswer
  <2> QED BY <2>1, <2>2
<1>2. CASE ReleaseAtFirstUnit \/ ReleaseAtEnd
  BY <1>2, ReleaseLine DEF ReleaseAtFirstUnit, ReleaseAtEnd, Busy
<1>3. CASE \/ StartAnswer \/ ClearCancel \/ Publish \/ Created \/ NextUnit \/ StreamOver
           \/ SpeakNext \/ Sleep \/ PassGate \/ TurnBack \/ Synthesize \/ LowerFloor
           \/ CloseResponse
  <2>1. UNCHANGED <<queues, job, recognizer, heard_turn, opened, phase, turn_id, revision, events>>
    BY <1>3 DEF StartAnswer, ClearCancel, Publish, Created, NextUnit, StreamOver,
       SpeakNext, Sleep, PassGate, TurnBack, Synthesize, LowerFloor, CloseResponse
  <2> QED BY <2>1, LineStill DEF Busy
<1> QED BY <1>1, <1>2, <1>3 DEF Responder, ResponderRelease

(* The writer touches none of it.                                          *)
LEMMA WriterLine == ASSUME LineInv, Writer PROVE LineInv'
<1>1. UNCHANGED <<queues, job, recognizer, heard_turn, opened, phase, turn_id, revision, events>>
  BY DEF Writer, WriterEnds, SendFails, WriterCancel, WriterStop, WriterNotify, WriterExit,
         WriterAt, sessionVars, readerVars, recognizerVars, responderVars, turnVars
<1> QED BY <1>1, LineStill DEF Busy

----------------------------------------------------------------------------
(* The life of a response (ResponseLife).  The response stands for the     *)
(* answer while the responder is between its two events.                   *)
Sounding == (HoldsFloor \ {"created"}) \cup {"closing"}

(* The answer is that of the job, or older until it is published.          *)
StageInv ==
  /\ answer \in Turns
  /\ answer = job \/ Newer(job, answer)
  /\ responder \in {"start", "clear", "publish"} => Newer(job, answer)
  /\ responder \in HoldsFloor \cup {"closing"} => answer = job
  /\ response = IF responder \in Sounding THEN answer ELSE NoTurn

(* The other threads wake the responder at most.                           *)
LEMMA StageKept ==
  ASSUME StageInv, UNCHANGED <<answer, job, response>>, UNCHANGED responder \/ NotifyTurn
  PROVE  StageInv'
BY DEF StageInv, NotifyTurn, Newer, Sounding, HoldsFloor

(* The other threads leave the answer and its response alone.               *)
LEMMA OthersStage == ASSUME StageInv, Reader \/ Recognizer \/ Writer PROVE StageInv'
<1> USE DEF turnVars, queues, recognizerVars, responderVars, historyVars, readerVars
<1>1. /\ UNCHANGED <<answer, job, response>>
      /\ UNCHANGED responder \/ NotifyTurn
  <2>1. CASE Reader
    BY <2>1 DEF Reader, ReaderCallback, ReaderClose, ReadAudio, PushWindow, NextWindow, EndFrame,
       EndWindow, OnOpened, OnFinal, OnBargeIn, NotifyBargeIn, OnCommitted, OnLogged, NextEvent,
       ReadCancel, NotifyCancel, ReadEnd, CloseCancel, CloseStop, CloseNotify, CloseJoin, Closed
  <2>2. CASE Recognizer
    BY <2>2 DEF Recognizer, RecognizerStep, TakeTurn, CheckRevised, NothingToAnswer, Transcript,
       ReleaseUnanswered
  <2>3. CASE Writer
    BY <2>3 DEF Writer, WriterEnds, SendFails, WriterCancel, WriterStop, WriterNotify, WriterExit,
       WriterAt
  <2> QED BY <2>1, <2>2, <2>3
<1> QED BY <1>1, StageKept

(* The responder: what it takes is newer than what it answered last.       *)
LEMMA ResponderStage ==
  ASSUME HeardInv, LineInv, StageInv, Responder
  PROVE  StageInv'
<1> USE DEF ResponderAt, StageInv, Sounding, HoldsFloor
<1>1. CASE TakeAnswer
  <2>1. CASE stop
    BY <1>1, <2>1 DEF TakeAnswer, historyVars, Newer
  <2>2. CASE ~stop
    <3>1. /\ job' = Head(answers) /\ answers # <<>> /\ responder = "idle" /\ responder' = "start"
          /\ UNCHANGED <<answer, response>>
      BY <1>1, <2>2 DEF TakeAnswer, historyVars
    <3>2. 1 \in DOMAIN answers /\ job' = answers[1] /\ job' \in Turns
      BY <3>1 DEF HeardInv, WorkFits
    <3>3. Newer(job', job) /\ job \in Turns
      BY <3>2 DEF LineInv, QueuesFit
    <3>4. Newer(job', answer)
      BY <3>2, <3>3, NewerOrders
    <3> QED BY <3>1, <3>4 DEF Newer
  <2> QED BY <2>1, <2>2
<1>2. CASE StartAnswer \/ ClearCancel
  BY <1>2 DEF StartAnswer, ClearCancel, historyVars, Newer
<1>3. CASE Publish
  BY <1>3 DEF Publish, historyVars, LineInv, QueuesFit
<1>4. CASE Created
  BY <1>4 DEF Created
<1>5. CASE \/ NextUnit \/ StreamOver \/ SpeakNext \/ Sleep \/ PassGate \/ TurnBack
  BY <1>5 DEF NextUnit, StreamOver, SpeakNext, Sleep, PassGate, TurnBack, historyVars, Newer
<1>6. CASE Synthesize \/ LowerFloor
  BY <1>6 DEF Synthesize, LowerFloor, Newer
<1>7. CASE CloseResponse
  BY <1>7 DEF CloseResponse, Newer
<1>8. CASE ReleaseAtFirstUnit \/ ReleaseAtEnd
  BY <1>8 DEF ReleaseAtFirstUnit, ReleaseAtEnd, Newer
<1> QED BY <1>1, <1>2, <1>3, <1>4, <1>5, <1>6, <1>7, <1>8 DEF Responder, ResponderRelease

(* What ResponseLife does not see.                                         *)
ResponseUnchanged == UNCHANGED <<answer, ResponseStage, finals, spoken>>

(* What a response looks like from outside, at each place of the           *)
(* responder.                                                              *)
LEMMA StageOf ==
  ASSUME HeardInv, StageInv
  PROVE  ResponseStage = IF responder \in Sounding THEN "open"
                         ELSE IF responder = "created" THEN "taken" ELSE "none"
<1>1. CASE responder \in Sounding
  <2>1. responder \notin {"idle", "exit"} /\ answer = job
    BY <1>1 DEF Sounding, HoldsFloor, StageInv
  <2>2. answer.turn > 0
    BY <2>1 DEF HeardInv, WorkFits, Given
  <2>3. answer # NoTurn
    BY <2>2 DEF NoTurn, Turn
  <2> QED BY <1>1, <2>3 DEF StageInv, ResponseStage
<1>2. CASE responder \notin Sounding
  BY <1>2 DEF StageInv, ResponseStage
<1> QED BY <1>1, <1>2

(* The same of the state after a step.                                     *)
LEMMA StageOfNext ==
  ASSUME HeardInv', StageInv'
  PROVE  ResponseStage' = IF responder' \in Sounding THEN "open"
                          ELSE IF responder' = "created" THEN "taken" ELSE "none"
<1>1. CASE responder' \in Sounding
  <2>1. responder' \notin {"idle", "exit"} /\ answer' = job'
    BY <1>1 DEF Sounding, HoldsFloor, StageInv
  <2>2. answer'.turn > 0
    BY <2>1 DEF HeardInv, WorkFits, Given
  <2>3. answer' # NoTurn
    BY <2>2 DEF NoTurn, Turn
  <2> QED BY <1>1, <2>3 DEF StageInv, ResponseStage
<1>2. CASE responder' \notin Sounding
  BY <1>2 DEF StageInv, ResponseStage
<1> QED BY <1>1, <1>2

(* A wakeup at the gate is nothing the client sees.                        *)
LEMMA SameStage ==
  ASSUME UNCHANGED response, UNCHANGED responder \/ NotifyTurn
  PROVE  ResponseStage' = ResponseStage
BY DEF ResponseStage, NotifyTurn

(* A final is told of the turn that opened last, and of no turn twice but  *)
(* in one revision.                                                        *)
LEMMA FinalsInOrder ==
  ASSUME HeardInv, finals' = finals \cup {opened}, UNCHANGED <<answer, ResponseStage, spoken>>
  PROVE  Response!Settle
<1>1. opened \in Turns
  BY DEF HeardInv, EventsFit
<1>2. \A f \in finals : f = opened \/ f.turn < opened.turn
  <2> TAKE f \in finals
  <2>1. Stands(f)
    BY DEF HeardInv, FinalsFit
  <2> QED BY <1>1, <2>1 DEF Stands, Turns
<1> QED BY <1>1, <1>2 DEF Response!Settle, Response!Turns, Turns

(* The reader tells finals.                                                *)
LEMMA ReaderResponse ==
  ASSUME HeardInv, HeardInv', StageInv, Reader
  PROVE  Response!Next \/ ResponseUnchanged
<1> USE DEF turnVars, queues, recognizerVars, responderVars, historyVars, readerVars
<1>1. CASE OnFinal
  <2>1. /\ finals' = finals \cup {EventTurn} /\ UNCHANGED <<answer, response, spoken>> /\ NotifyTurn
    BY <1>1 DEF OnFinal, NextEvent
  <2>2. EventTurn = opened
    <3>1. /\ events # <<>> /\ Head(events).event = "TURN_FINAL"
          /\ events \in Seq(Told) /\ 1 \in DOMAIN events /\ Head(events) = events[1]
      BY <1>1 DEF OnFinal, NextEvent, HeardInv, EventsFit
    <3>2. ~Opening(events[1])
      BY <3>1 DEF Opening
    <3>3. TurnOf(events[1]) = opened
      BY <3>1, <3>2 DEF HeardInv, EventsFit
    <3> QED BY <3>1, <3>3 DEF EventTurn, TurnOf
  <2> QED BY <2>1, <2>2, SameStage, FinalsInOrder DEF Response!Next
<1>2. CASE ~OnFinal
  <2>1. /\ UNCHANGED <<answer, response, finals, spoken>>
        /\ UNCHANGED responder \/ NotifyTurn
    BY <1>2 DEF Reader, ReaderCallback, ReaderClose, ReadAudio, PushWindow, NextWindow, EndFrame,
       EndWindow, OnOpened, OnBargeIn, NotifyBargeIn, OnCommitted, OnLogged, NextEvent,
       ReadCancel, NotifyCancel, ReadEnd, CloseCancel, CloseStop, CloseNotify, CloseJoin, Closed
  <2> QED BY <2>1, SameStage DEF ResponseUnchanged
<1> QED BY <1>1, <1>2

(* A release that ends the grace is a final of the turn it names.          *)
LEMMA ReleaseResponse ==
  ASSUME HeardInv, NEW a, Given(a), ReleaseTurn(a), UNCHANGED <<answer, ResponseStage, spoken>>
  PROVE  Response!Next \/ ResponseUnchanged
<1>1. \/ UNCHANGED finals
      \/ finals' = finals \cup {opened}
  BY ReleaseFits
<1> QED BY <1>1, FinalsInOrder DEF Response!Next, ResponseUnchanged

(* The recognizer may end the grace of a turn nobody answers.              *)
LEMMA RecognizerResponse ==
  ASSUME HeardInv, StageInv, Recognizer
  PROVE  Response!Next \/ ResponseUnchanged
<1> USE DEF turnVars, queues, recognizerVars, responderVars, historyVars, readerVars
<1>1. CASE ReleaseUnanswered
  <2>1. /\ ReleaseTurn(heard_turn) /\ Given(heard_turn)
        /\ UNCHANGED <<answer, response, spoken>>
        /\ UNCHANGED responder \/ NotifyTurn
    BY <1>1 DEF ReleaseUnanswered, HeardInv, WorkFits
  <2>2. UNCHANGED <<answer, ResponseStage, spoken>>
    BY <2>1, SameStage
  <2> QED BY <2>1, <2>2, ReleaseResponse
<1>2. CASE TakeTurn \/ CheckRevised \/ NothingToAnswer \/ Transcript
  BY <1>2, SameStage
  DEF TakeTurn, CheckRevised, NothingToAnswer, Transcript, RecognizerStep, ResponseUnchanged
<1> QED BY <1>1, <1>2 DEF Recognizer

(* The responder: each of its places against the stages of a response.     *)
LEMMA ResponderResponse ==
  ASSUME HeardInv, HeardInv', LineInv, StageInv, StageInv', Responder
  PROVE  Response!Next \/ ResponseUnchanged
<1> USE StageOf, StageOfNext DEF ResponderAt, Sounding, HoldsFloor, historyVars
<1>1. CASE TakeAnswer \/ StartAnswer \/ ClearCancel
  BY <1>1 DEF TakeAnswer, StartAnswer, ClearCancel, ResponseUnchanged
<1>2. CASE Publish
  <2>1. answer' = job /\ Newer(job, answer) /\ job \in Turns
    BY <1>2 DEF Publish, StageInv, LineInv, QueuesFit
  <2>2. ResponseStage = "none" /\ ResponseStage' = "taken" /\ UNCHANGED <<finals, spoken>>
    BY <1>2 DEF Publish
  <2>3. Response!Take
    BY <2>1, <2>2 DEF Response!Take, Response!Turns, Turns, Response!After, Newer
  <2> QED BY <2>3 DEF Response!Next
<1>3. CASE Created
  BY <1>3 DEF Created, Response!Create, Response!Next
<1>4. CASE NextUnit \/ StreamOver \/ SpeakNext \/ Sleep \/ PassGate \/ TurnBack
  BY <1>4 DEF NextUnit, StreamOver, SpeakNext, Sleep, PassGate, TurnBack, ResponseUnchanged
<1>5. CASE Synthesize \/ LowerFloor
  <2>1. /\ ResponseStage = "open" /\ ResponseStage' = "open" /\ UNCHANGED <<answer, finals>>
        /\ spoken' = spoken \/ (spoken' = spoken \cup {answer} /\ answer \in finals)
    BY <1>5 DEF Synthesize, LowerFloor, HeardInv, HeardFits
  <2> QED BY <2>1 DEF Response!Sound, Response!Next, ResponseUnchanged
<1>6. CASE CloseResponse
  BY <1>6 DEF CloseResponse, Response!Close, Response!Next
<1>7. CASE ReleaseAtFirstUnit
  <2>1. /\ ReleaseTurn(answer) /\ Given(answer)
        /\ UNCHANGED <<answer, ResponseStage, spoken>>
    BY <1>7 DEF ReleaseAtFirstUnit, HeardInv, WorkFits
  <2> QED BY <2>1, ReleaseResponse
<1>8. CASE ReleaseAtEnd
  <2>1. /\ ReleaseTurn(job) /\ Given(job)
        /\ UNCHANGED <<answer, ResponseStage, spoken>>
    BY <1>8 DEF ReleaseAtEnd, HeardInv, WorkFits
  <2> QED BY <2>1, ReleaseResponse
<1> QED BY <1>1, <1>2, <1>3, <1>4, <1>5, <1>6, <1>7, <1>8 DEF Responder, ResponderRelease

(* The writer: nothing.                                                    *)
LEMMA WriterResponse == ASSUME Writer PROVE ResponseUnchanged
<1>1. UNCHANGED <<answer, response, finals, spoken>> /\ (UNCHANGED responder \/ NotifyTurn)
  BY DEF Writer, WriterEnds, SendFails, WriterCancel, WriterStop, WriterNotify, WriterExit,
         WriterAt, historyVars, responderVars
<1> QED BY <1>1, SameStage DEF ResponseUnchanged

(* The invariant of the line, over all the threads.                        *)
LEMMA LineInvariant == Spec => [](LineInv /\ StageInv)
<1>1. Init => LineInv /\ StageInv
  BY DEF Init, S!Init, LineInv, QueuesFit, CommitLast, ToCommit, Commits, Busy, Rising, StageInv,
         Sounding, HoldsFloor, NoTurn, Turn, Turns, Newer
<1>2. HeardInv /\ LineInv /\ StageInv /\ [Next]_allVars => LineInv' /\ StageInv'
  <2> SUFFICES ASSUME HeardInv, LineInv, StageInv, [Next]_allVars PROVE LineInv' /\ StageInv'
    OBVIOUS
  <2>1. CASE UNCHANGED allVars
    BY <2>1, LineStill, StageKept
    DEF allVars, sessionVars, turnVars, queues, readerVars, recognizerVars, responderVars,
        historyVars, Busy
  <2>2. CASE Terminated
    BY <2>1, <2>2 DEF Terminated
  <2> QED
    BY <2>1, <2>2, ReaderLine, RecognizerLine, ResponderLine, WriterLine, OthersStage,
       ResponderStage
    DEF Next
<1> QED
  BY <1>1, <1>2, HeardInvariant, PTL DEF Spec

(* The connection implements the life of a response: answers one at a time, *)
(* each opened and closed, in the order of the turns and never one to a    *)
(* turn and revision answered before, sounded only while open and once     *)
(* final (conn_on_session_event, the two queues and conn_answer).          *)
THEOREM ResponsesLive == Spec => ResponseSpec
<1>1. Init => Response!Init
  BY DEF Init, Response!Init, ResponseStage, NoTurn, Turn
<1>2. /\ HeardInv /\ HeardInv' /\ LineInv /\ StageInv /\ StageInv' /\ [Next]_allVars
      => [Response!Next]_(Response!vars)
  <2> SUFFICES ASSUME HeardInv, HeardInv', LineInv, StageInv, StageInv', [Next]_allVars
               PROVE  Response!Next \/ ResponseUnchanged
    BY DEF ResponseUnchanged, Response!vars
  <2>1. CASE UNCHANGED allVars
    BY <2>1, SameStage DEF allVars, responderVars, historyVars, ResponseUnchanged
  <2>2. CASE Terminated
    BY <2>1, <2>2 DEF Terminated
  <2> QED
    BY <2>1, <2>2, ReaderResponse, RecognizerResponse, ResponderResponse, WriterResponse DEF Next
<1> QED
  BY <1>1, <1>2, HeardInvariant, LineInvariant, PTL DEF Spec, ResponseSpec, Response!Spec


----------------------------------------------------------------------------
(* The session within the conversation.  The numbers of a turn stay in the *)
(* range its calls take, the floor is a flag.                              *)
RangeInv == /\ turn_id \in 0 .. MaxTurns /\ revision \in 0 .. MaxRevisions
            /\ speaking \in BOOLEAN /\ speaking_s \in BOOLEAN

(* A call of the session, or none.                                         *)
Calls == S!Next \/ UNCHANGED sessionVars

(* A release is a call of the session whatever turn it names: of another   *)
(* turn than the one committed it is one that names nothing, and changes   *)
(* nothing but what it reports.                                            *)
LEMMA ReleaseCalls ==
  ASSUME RangeInv, NEW a, ReleaseTurn(a)
  PROVE  Calls /\ UNCHANGED <<turn_id, revision>>
<1>1. S!Release(a.turn, a.rev) /\ UNCHANGED <<turn_id, revision>>
  BY DEF ReleaseTurn, S!Release
<1>2. CASE a.turn = turn_id /\ a.rev = revision
  <2>1. S!Release(turn_id, revision) /\ turn_id \in 0 .. MaxTurns /\ revision \in 0 .. MaxRevisions
    BY <1>1, <1>2 DEF RangeInv
  <2>2. S!Next
    BY <2>1 DEF S!Next
  <2> QED BY <1>1, <2>2 DEF Calls
<1>3. CASE ~(a.turn = turn_id /\ a.rev = revision)
  <2>1. reports' = <<>> /\ UNCHANGED <<committed, released>>
    BY <1>1, <1>3 DEF S!Release
  <2>2. UNCHANGED <<params, phase, S!clock, S!grace, turn_id, revision, speaking_s>>
    BY <1>1 DEF S!Release
  <2>3. S!SetSpeaking(speaking_s)
    BY <2>1, <2>2 DEF S!SetSpeaking, S!life
  <2>4. speaking_s \in BOOLEAN
    BY DEF RangeInv
  <2>5. S!Next
    BY <2>3, <2>4 DEF S!Next
  <2> QED BY <1>1, <2>5 DEF Calls
<1> QED BY <1>2, <1>3

(* The reader hands the floor over and pushes windows.                     *)
LEMMA ReaderCalls == ASSUME RangeInv, Reader PROVE Calls
<1>1. CASE ReadAudio
  BY <1>1 DEF ReadAudio, RangeInv, Calls, S!Next
<1>2. CASE PushWindow
  BY <1>2 DEF PushWindow, Calls, S!Next, S!Probabilities
<1>3. CASE ReaderCallback \/ ReadCancel \/ NotifyCancel \/ ReadEnd \/ ReaderClose
  BY <1>3 DEF ReaderCallback, ReadCancel, NotifyCancel, ReadEnd, ReaderClose, NextWindow, EndFrame,
     EndWindow, OnOpened, OnFinal, OnBargeIn, NotifyBargeIn, OnCommitted, OnLogged, NextEvent,
     CloseCancel, CloseStop, CloseNotify, CloseJoin, Closed, Calls
<1> QED BY <1>1, <1>2, <1>3 DEF Reader

(* The other threads release, or leave the session alone.                  *)
LEMMA OthersCall == ASSUME RangeInv, Recognizer \/ Responder \/ Writer PROVE Calls
<1>1. CASE ReleaseUnanswered \/ ReleaseAtFirstUnit \/ ReleaseAtEnd
  BY <1>1, ReleaseCalls DEF ReleaseUnanswered, ReleaseAtFirstUnit, ReleaseAtEnd
<1>2. CASE TakeTurn \/ CheckRevised \/ NothingToAnswer \/ Transcript
  BY <1>2 DEF TakeTurn, CheckRevised, NothingToAnswer, Transcript, Calls
<1>3. CASE \/ TakeAnswer \/ StartAnswer \/ ClearCancel \/ Publish \/ Created \/ NextUnit
           \/ StreamOver \/ SpeakNext \/ Sleep \/ PassGate \/ TurnBack \/ Synthesize
           \/ LowerFloor \/ CloseResponse
  BY <1>3 DEF TakeAnswer, StartAnswer, ClearCancel, Publish, Created, NextUnit, StreamOver,
     SpeakNext, Sleep, PassGate, TurnBack, Synthesize, LowerFloor, CloseResponse, Calls
<1>4. CASE Writer
  BY <1>4 DEF Writer, WriterEnds, SendFails, WriterCancel, WriterStop, WriterNotify, WriterExit,
     WriterAt, Calls
<1> QED BY <1>1, <1>2, <1>3, <1>4 DEF Recognizer, Responder, ResponderRelease

(* A call keeps the numbers in the range of the session.                   *)
LEMMA RangeKept ==
  ASSUME RangeInv, Calls
  PROVE  turn_id' \in 0 .. MaxTurns /\ revision' \in 0 .. MaxRevisions
<1> USE ConversationAssumption DEF RangeInv
<1>1. CASE \E prob \in S!Probabilities, complete \in BOOLEAN : S!Window(prob, complete)
  <2>1. PICK prob \in S!Probabilities, complete \in BOOLEAN : S!Window(prob, complete)
    BY <1>1
  <2> QED
    BY <2>1 DEF S!Window, S!Resume, S!OpenTurn, S!StayIdle, S!StaySpeaking, S!Boundary, S!Reopen,
       S!Expire, S!StayPending, S!KeepTurn, S!Commit
<1>2. CASE \E t \in 0 .. MaxTurns, r \in 0 .. MaxRevisions : S!Release(t, r)
  BY <1>2 DEF S!Release
<1>3. CASE \/ \E s \in BOOLEAN : S!SetSpeaking(s)
           \/ \E p \in Params : S!SetParams(p)
  BY <1>3 DEF S!SetSpeaking, S!SetParams, S!life
<1>4. CASE UNCHANGED sessionVars
  BY <1>4 DEF sessionVars
<1> QED BY <1>1, <1>2, <1>3, <1>4 DEF Calls, S!Next

(* The floor is a flag, and what the session holds of it a copy.           *)
LEMMA FloorTyped ==
  ASSUME RangeInv, Next \/ UNCHANGED allVars
  PROVE  speaking' \in BOOLEAN /\ speaking_s' \in BOOLEAN
<1> USE DEF RangeInv, flags, sessionVars
<1>1. CASE Reader
  <2>1. speaking' = speaking
    BY <1>1 DEF Reader, ReadAudio, PushWindow, ReaderCallback, ReadCancel, NotifyCancel, ReadEnd,
       ReaderClose, NextWindow, EndFrame, EndWindow, OnOpened, OnFinal, OnBargeIn, NotifyBargeIn,
       OnCommitted, OnLogged, NextEvent, CloseCancel, CloseStop, CloseNotify, CloseJoin, Closed
  <2>2. speaking_s' \in {speaking, speaking_s}
    BY <1>1 DEF Reader, ReadAudio, S!SetSpeaking, PushWindow, S!Window, S!Hear, ReaderCallback,
       ReadCancel, NotifyCancel, ReadEnd,
       ReaderClose, NextWindow, EndFrame, EndWindow, OnOpened, OnFinal, OnBargeIn, NotifyBargeIn,
       OnCommitted, OnLogged, NextEvent, CloseCancel, CloseStop, CloseNotify, CloseJoin, Closed
  <2> QED BY <2>1, <2>2
<1>2. CASE Recognizer
  BY <1>2 DEF Recognizer, RecognizerStep, TakeTurn, CheckRevised, NothingToAnswer, Transcript,
     ReleaseUnanswered, ReleaseTurn, S!Release
<1>3. CASE Responder
  <2>1. speaking' \in {speaking, TRUE, FALSE}
    BY <1>3 DEF Responder, ResponderRelease, TakeAnswer, StartAnswer, ClearCancel, Publish, Created,
       NextUnit, StreamOver, SpeakNext, Sleep, PassGate, TurnBack, Synthesize, LowerFloor,
       CloseResponse, ReleaseAtFirstUnit, ReleaseAtEnd
  <2>2. speaking_s' = speaking_s
    BY <1>3 DEF Responder, ResponderRelease, TakeAnswer, StartAnswer, ClearCancel, Publish, Created,
       NextUnit, StreamOver, SpeakNext, Sleep, PassGate, TurnBack, Synthesize, LowerFloor,
       CloseResponse, ReleaseAtFirstUnit, ReleaseAtEnd, ReleaseTurn, S!Release
  <2> QED BY <2>1, <2>2
<1>4. CASE Writer
  BY <1>4 DEF Writer, WriterEnds, SendFails, WriterCancel, WriterStop, WriterNotify, WriterExit,
     WriterAt
<1>5. CASE UNCHANGED allVars
  BY <1>5 DEF allVars
<1> QED BY <1>1, <1>2, <1>3, <1>4, <1>5 DEF Next, Terminated

(* The threads use the session through its calls alone, each call whole:   *)
(* what is proved of Spec of module Session, that it implements TurnLife   *)
(* among it, holds of the session of a connection (session_mutex in        *)
(* conn_frame, conn_release and the hand over of the floor).               *)
THEOREM ConversationDrivesSession == Spec => SessionSpec
<1>1. Init => RangeInv
  <2>1. Init => turn_id = 0 /\ revision = 0 /\ speaking = FALSE /\ speaking_s = FALSE
    BY DEF Init, S!Init
  <2>2. 0 \in 0 .. MaxTurns /\ 0 \in 0 .. MaxRevisions
    BY ConversationAssumption
  <2> QED BY <2>1, <2>2 DEF RangeInv
<1>2. RangeInv /\ [Next]_allVars => Calls
  BY ReaderCalls, OthersCall DEF Next, Terminated, allVars, Calls
<1>3. RangeInv /\ [Next]_allVars => RangeInv'
  BY <1>2, RangeKept, FloorTyped DEF RangeInv
<1>4. Init => S!Init
  BY DEF Init
<1>5. Calls => [S!Next]_(S!vars)
  BY DEF Calls, sessionVars, S!vars, S!clock, S!grace, S!life
<1> QED
  BY <1>1, <1>2, <1>3, <1>4, <1>5, PTL DEF Spec, SessionSpec, S!Spec
=============================================================================
