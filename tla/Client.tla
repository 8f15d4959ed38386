-------------------------------- MODULE Client --------------------------------
(***************************************************************************)
(* The terminal client, src/tools/s2s-cli.cpp: the sound card, the         *)
(* conversation the model knows and the lines the user sees, carried by    *)
(* three threads.  The audio callback (Callback) plays the ring without a  *)
(* lock; the writer of the engine (Deliver, Flushed) hands over one frame  *)
(* after another; the main thread (Read, Send, and the end) closes what    *)
(* played out and is the reader of the connection.  One mutex covers the   *)
(* conversation and the display: the writer keeps it while it waits for a  *)
(* flush, Read is one step under it.                                       *)
(*                                                                         *)
(* The engine around them is Conversation seen from outside: turns with    *)
(* revisions, and answers whose frames come in its order.  A sample stands *)
(* for a chunk of audio and is named by the answer and the unit it speaks. *)
(***************************************************************************)
EXTENDS Integers, Sequences, SequencesExt, FiniteSetsExt

CONSTANTS MaxStarts, \* bound: times the user starts to speak, a turn or a resumption
          MaxUnits,  \* bound: units of an answer
          MaxAudio,  \* bound: chunks of a unit
          RingSize,  \* the playback ring, in samples
          Period,    \* samples a callback plays
          MaxWire    \* bound: frames that wait for the writer

ASSUME ClientAssumption ==
  /\ {RingSize, Period} \subseteq Nat \ {0}
  /\ {MaxStarts, MaxUnits, MaxAudio, MaxWire} \subseteq Nat

VARIABLES
  \* the engine
  turn, rev,       \* the last turn that opened, and its revision
  starts,          \* how often the user started to speak
  user,            \* what the session says of it: "open", "committed" or "final"
  commits, jobs,   \* turns to recognize, transcripts to answer: [turn, rev]
  job,             \* the turn being answered, Nobody for none
  void,            \* that answer carries the cancel
  opened,          \* how many answers opened
  spoken,          \* the last unit of the answer, and the chunks of it
  texts,           \* whether it wrote
  wire,            \* frames for the writer
  known,           \* the conversation as the engine has it: [list, after]
  \* the sound card
  ring,            \* the playback ring
  flush,
  heard, consumed, \* since the answer opened: the code subtracts the totals of then
  callback,        \* where the callback is, and what it took
  \* the conversation
  history, user_item, units, answering, answer_done,
  queued,
  answer,          \* how many answers opened
  \* the display
  line_open, written,
  \* the threads
  writer,          \* "idle", or "flushing" with the mutex held
  outbox, sending, \* lists for the reader, and those it is handing over
  g_stop, main,    \* "loop", "stopped", "silent" (no more callback), "ended"
  \* history variables, of the last answer that opened
  sounded,         \* samples the loudspeaker played since
  placed,          \* its samples that found room in the ring
  filed,           \* what it was closed with
  lines,           \* lines begun since it opened
  heard_words,     \* the turns the recognizer transcribed
  request          \* the last request made of the model

engine == <<turn, rev, starts, user, commits, jobs, job, void, opened, spoken, texts>>
card == <<ring, flush, heard, consumed, callback>>
context == <<history, user_item, units, answering, answer_done, queued, answer>>
display == <<line_open, written>>
threads == <<writer, outbox, sending, g_stop, main>>
ghosts == <<sounded, placed, filed, lines, heard_words, request>>
vars == <<engine, wire, known, card, context, display, threads, ghosts>>

Nobody == [turn |-> 0, rev |-> 0]
NoRequest == [turn |-> 0, rev |-> 0, messages |-> <<>>, informed |-> FALSE]
Said(t, r) == [role |-> "user", item |-> t, words |-> <<[turn |-> t, rev |-> r]>>]
Answered(a) == [role |-> "assistant", item |-> 0, words |-> <<[turn |-> 0, rev |-> a]>>]

Init ==
  /\ turn = 0 /\ rev = 0 /\ starts = 0 /\ user = "final" /\ commits = <<>> /\ jobs = <<>>
  /\ job = Nobody /\ void = FALSE /\ opened = 0 /\ spoken = <<0, 0>> /\ texts = FALSE
  /\ wire = <<>> /\ known = [list |-> <<>>, after |-> 0]
  /\ ring = <<>> /\ flush = FALSE /\ heard = 0 /\ consumed = 0
  /\ callback = [at |-> "idle", took |-> 0]
  /\ history = <<>> /\ user_item = 0 /\ units = <<>>
  /\ answering = FALSE /\ answer_done = FALSE
  /\ queued = 0 /\ answer = 0
  /\ line_open = FALSE /\ written = FALSE
  \* the main loop starts with the empty conversation in the outbox
  /\ writer = "idle" /\ outbox = <<[list |-> <<>>, after |-> 0]>> /\ sending = <<>>
  /\ g_stop = FALSE /\ main = "loop"
  /\ sounded = {} /\ placed = {} /\ filed = {} /\ lines = 0
  /\ heard_words = {} /\ request = NoRequest

(* ------------------------------- the engine ---------------------------- *)

Latest == [turn |-> turn, rev |-> rev]
Emit(frames) == Len(wire) + Len(frames) <= MaxWire /\ wire' = wire \o frames
Frame(kind) == [kind |-> kind, turn |-> 0, rev |-> 0]
Outside == UNCHANGED <<known, card, context, display, threads, sounded, placed, filed, lines>>

\* A turn opens, or the last one resumes: any answer in flight is void.
SpeechStarts ==
  /\ starts < MaxStarts /\ starts' = starts + 1
  /\ \/ user = "final" /\ turn' = turn + 1 /\ rev' = 0
     \/ user = "committed" /\ rev' = rev + 1 /\ turn' = turn
  /\ user' = "open" /\ void' = (job # Nobody)
  /\ Emit(<<Frame("started")>>)
  /\ UNCHANGED <<commits, jobs, job, opened, spoken, texts, heard_words, request>> /\ Outside

SpeechCommits ==
  /\ user = "open" /\ user' = "committed"
  /\ commits' = Append(commits, Latest)
  /\ UNCHANGED <<turn, rev, starts, jobs, job, void, opened, spoken, texts, wire,
                 heard_words, request>>
  /\ Outside

\* Nothing of a turn sounds before it is final, and it is final only once its
\* answer wants the floor or is over.
TurnFinal ==
  /\ user = "committed" /\ commits = <<>> /\ jobs = <<>> /\ job \in {Nobody, Latest}
  /\ user' = "final"
  /\ UNCHANGED <<turn, rev, starts, commits, jobs, job, void, opened, spoken, texts, wire,
                 heard_words, request>>
  /\ Outside

\* A revision that opened meanwhile may or may not have been seen in time.
Recognize ==
  /\ commits # <<>> /\ commits' = Tail(commits)
  /\ LET c == Head(commits) IN
       \/ /\ Emit(<<[kind |-> "transcript", turn |-> c.turn, rev |-> c.rev]>>)
          /\ jobs' = Append(jobs, c)
          /\ heard_words' = {w \in heard_words : w.turn # c.turn} \cup {c}
       \/ /\ c # Latest
          /\ UNCHANGED <<wire, jobs, heard_words>>
  /\ UNCHANGED <<turn, rev, starts, user, job, void, opened, spoken, texts, request>> /\ Outside

\* A message of the user that follows another is joined to it.
Push(messages, m) ==
  IF m.role = "user" /\ messages # <<>> /\ Last(messages).role = "user"
  THEN Append(Front(messages), [Last(messages) EXCEPT !.words = @ \o m.words])
  ELSE Append(messages, m)

\* Variant: an earlier revision of the turn stays in the list.
MessagesUnfiltered(list, t, r) == Push(FoldLeft(Push, <<>>, list), Said(t, r))
\* What the model is asked: one message after the other, but for the turn
\* itself, then the turn.
Messages(list, t, r) ==
  LET keep(messages, m) ==
        IF m.role # "user" \/ m.item # t THEN Push(messages, m) ELSE messages
  IN  Push(FoldLeft(keep, <<>>, list), Said(t, r))

\* The answer to a turn opens, void when something opened after the turn.
AnswerOpens ==
  /\ job = Nobody /\ jobs # <<>>
  /\ LET j == Head(jobs) IN
       /\ jobs' = Tail(jobs) /\ job' = j /\ void' = (j # Latest)
       /\ request' = [turn |-> j.turn, rev |-> j.rev,
                      messages |-> Messages(known.list, j.turn, j.rev),
                      informed |-> known.after = opened]
  /\ opened' = opened + 1
  /\ Emit(<<Frame("created")>>)
  /\ UNCHANGED <<turn, rev, starts, user, commits, spoken, texts, heard_words>> /\ Outside

\* What the model writes, words or the name of a tool.
AnswerWrites ==
  /\ job # Nobody /\ ~void /\ ~texts /\ spoken[1] = 0
  /\ texts' = TRUE /\ \E kind \in {"text", "tool"} : Emit(<<Frame(kind)>>)
  /\ UNCHANGED <<turn, rev, starts, user, commits, jobs, job, void, opened, spoken,
                 heard_words, request>>
  /\ Outside

\* A unit begins: its transcript right before its first chunk.
AnswerSpeaks ==
  /\ job # Nobody /\ ~void /\ job.turn = turn /\ user = "final" /\ spoken[1] < MaxUnits
  /\ spoken' = <<spoken[1] + 1, 1>>
  /\ LET Of(kind) == [Frame(kind) EXCEPT !.rev = spoken'[1]] IN
       Emit(<<Of("unit"), Of("audio")>>)
  /\ UNCHANGED <<turn, rev, starts, user, commits, jobs, job, void, opened, texts,
                 heard_words, request>>
  /\ Outside

\* The next chunk of a unit; a cancel is looked at after it.
AnswerSounds ==
  /\ job # Nobody /\ spoken[1] > 0 /\ spoken[2] < MaxAudio
  /\ spoken' = <<spoken[1], spoken[2] + 1>>
  /\ Emit(<<[Frame("audio") EXCEPT !.rev = spoken[1]]>>)
  /\ UNCHANGED <<turn, rev, starts, user, commits, jobs, job, void, opened, texts,
                 heard_words, request>>
  /\ Outside

AnswerEnds ==
  /\ job # Nobody /\ job' = Nobody /\ void' = FALSE /\ request' = NoRequest
  /\ spoken' = <<0, 0>> /\ texts' = FALSE
  /\ Emit(<<Frame(IF void THEN "cancelled" ELSE "done")>>)
  /\ UNCHANGED <<turn, rev, starts, user, commits, jobs, opened, heard_words>> /\ Outside

\* Once the user quits, what matters is on the wire already.
Engine ==
  /\ ~g_stop
  /\ \/ SpeechStarts \/ SpeechCommits \/ TurnFinal \/ Recognize
     \/ AnswerOpens \/ AnswerWrites \/ AnswerSpeaks \/ AnswerSounds \/ AnswerEnds

(* ----------------------------- the sound card -------------------------- *)

Elsewhere == UNCHANGED <<engine, wire, known, context, display, threads, filed, lines,
                         heard_words, request>>
Device == main \in {"loop", "stopped"}

\* A callback drops what waits if it has to flush, and says so last, then it
\* plays a period of the ring, or what there is.
CallbackPlays ==
  /\ Device /\ callback.at = "idle" /\ (flush \/ ring # <<>>)
  /\ LET left == IF flush THEN <<>> ELSE ring
         n == Min({Period, Len(left)})
     IN  /\ callback' = [at |-> IF n = 0 THEN "idle" ELSE "counts", took |-> n]
         /\ ring' = SubSeq(left, n + 1, Len(left))
         /\ sounded' = sounded \cup Range(SubSeq(left, 1, n))
  /\ consumed' = IF flush THEN consumed + Len(ring) ELSE consumed
  /\ flush' = FALSE
  /\ UNCHANGED <<heard, placed>> /\ Elsewhere

\* What it played is counted as heard, then as consumed.
CallbackHeard ==
  /\ Device /\ callback.at = "counts"
  /\ heard' = heard + callback.took
  /\ callback' = [callback EXCEPT !.at = "consumes"]
  /\ UNCHANGED <<ring, flush, consumed, sounded, placed>> /\ Elsewhere

CallbackConsumed ==
  /\ Device /\ callback.at = "consumes"
  /\ consumed' = consumed + callback.took
  /\ callback' = [at |-> "idle", took |-> 0]
  /\ UNCHANGED <<ring, flush, heard, sounded, placed>> /\ Elsewhere

Callback == CallbackPlays \/ CallbackHeard \/ CallbackConsumed

(* ---------------------- the conversation, the display ------------------ *)

\* The sound of a unit began: its first sample was heard.
Began(u) == u.start < heard
Started == {u \in Range(units) : Began(u)}

\* Files what was heard of the answer in flight: nothing heard, nothing filed.
\* Every close hands the list over.
Filed == IF Started = {} THEN history ELSE Append(history, Answered(answer))
Handed == [list |-> Filed, after |-> answer]
FileAnswer ==
  /\ history' = Filed
  /\ units' = <<>> /\ line_open' = FALSE
  /\ filed' = {[answer |-> answer, unit |-> u.unit] : u \in Started}
FilesNothing == UNCHANGED <<history, units, line_open, filed>>
Closes == FileAnswer /\ answering' = FALSE /\ answer_done' = FALSE
NoClose == FilesNothing /\ UNCHANGED <<outbox, answering, answer_done>>

\* The last sample of an answer the engine finished was played or dropped.
Played == answering /\ answer_done /\ consumed >= queued

\* Opens the line of the answer on its first text.
WriteLine ==
  IF line_open THEN UNCHANGED <<line_open, lines>>
               ELSE line_open' = TRUE /\ lines' = lines + 1

(* ------------------------------- the writer ---------------------------- *)

WriterRest == UNCHANGED <<engine, known, callback, sending, g_stop, main, heard_words, request>>
SameAnswer == UNCHANGED <<heard, consumed, queued, answer, written, sounded>>
SameCard == UNCHANGED <<ring, flush, placed>>
Delivers(kind) == writer = "idle" /\ main # "ended" /\ wire # <<>> /\ Head(wire).kind = kind
\* A frame the writer is done with.
Handled == wire' = Tail(wire) /\ writer' = "idle"

\* The user speaks: an answer in flight is over, once its sound is gone.
OnStarted ==
  /\ Delivers("started")
  /\ IF answering THEN flush' = TRUE /\ writer' = "flushing" /\ wire' = wire
                  ELSE Handled /\ UNCHANGED flush
  /\ NoClose /\ SameAnswer /\ UNCHANGED <<ring, placed, user_item, lines>> /\ WriterRest

\* A later transcript of the turn replaces its message.
Revises(t) == t = user_item /\ history # <<>> /\ Last(history).role = "user"

OnTranscript ==
  /\ Delivers("transcript") /\ Handled
  /\ LET f == Head(wire) IN
       /\ history' = Append(IF Revises(f.turn) THEN Front(history) ELSE history,
                            Said(f.turn, f.rev))
       /\ user_item' = f.turn
  /\ line_open' = FALSE
  /\ UNCHANGED <<outbox, units, answering, answer_done, filed, lines>>
  /\ SameAnswer /\ SameCard /\ WriterRest

OnCreated ==
  /\ Delivers("created") /\ Handled
  /\ IF answering THEN FileAnswer /\ outbox' = Append(outbox, Handed)
                  ELSE FilesNothing /\ UNCHANGED outbox
  /\ answer' = answer + 1 /\ answering' = TRUE /\ answer_done' = FALSE
  /\ queued' = 0 /\ heard' = 0 /\ consumed' = 0 /\ written' = FALSE
  /\ sounded' = {} /\ placed' = {} /\ lines' = 0
  /\ UNCHANGED <<ring, flush, user_item>> /\ WriterRest

\* An answer that was closed takes nothing more.
Takes == answering

OnText ==
  /\ \/ Delivers("text") /\ written' = (written \/ Takes)
     \/ Delivers("tool") /\ written' = written
  /\ Handled
  /\ IF Takes THEN WriteLine ELSE UNCHANGED <<line_open, lines>>
  /\ UNCHANGED <<history, outbox, units, answering, answer_done, filed, user_item,
                 heard, consumed, queued, answer, sounded>>
  /\ SameCard /\ WriterRest

\* A unit starts where the sound queued so far ends.
OnUnit ==
  /\ Delivers("unit") /\ Handled
  /\ IF answering
     THEN /\ units' = Append(units, [unit |-> Head(wire).rev, start |-> queued])
          /\ IF written THEN UNCHANGED <<line_open, lines>> ELSE WriteLine
     ELSE UNCHANGED <<units, line_open, lines>>
  /\ UNCHANGED <<history, outbox, answering, answer_done, filed, user_item>>
  /\ SameAnswer /\ SameCard /\ WriterRest

\* Variant: what the ring had no room for counts as queued.
CountsDropped(took, asked) == asked
\* Only what the ring took counts.
Counts(took, asked) == took

\* Sound goes to the ring, what has no room there is dropped.
OnAudio ==
  /\ Delivers("audio") /\ Handled
  /\ LET sample == [answer |-> answer, unit |-> Head(wire).rev]
         took == IF Len(ring) < RingSize THEN 1 ELSE 0
     IN  IF answering
         THEN /\ ring' = IF took = 1 THEN Append(ring, sample) ELSE ring
              /\ placed' = IF took = 1 THEN placed \cup {sample} ELSE placed
              /\ queued' = queued + Counts(took, 1)
         ELSE UNCHANGED <<ring, placed, queued>>
  /\ NoClose
  /\ UNCHANGED <<flush, user_item, lines, heard, consumed, answer, written, sounded>> /\ WriterRest

\* Cancelled, what still waits for the loudspeaker is dropped first.
OnCancelled ==
  /\ Delivers("cancelled")
  /\ flush' = TRUE /\ writer' = "flushing" /\ wire' = wire
  /\ NoClose /\ SameAnswer /\ UNCHANGED <<ring, placed, user_item, lines>> /\ WriterRest

\* Done, the loudspeaker may not be: Read closes the answer once it is.
OnDone ==
  /\ Delivers("done") /\ Handled
  /\ answer_done' = TRUE
  /\ FilesNothing /\ UNCHANGED <<outbox, answering, user_item, lines>>
  /\ SameAnswer /\ SameCard /\ WriterRest

\* Variant: the writer waits for the callback whatever happens.
WaitsForFlush == ~flush
\* The writer waits until the callback flushed, or until the end.
FlushOver == ~flush \/ g_stop

Flushed ==
  /\ writer = "flushing" /\ FlushOver
  /\ Handled
  /\ IF answering THEN Closes /\ outbox' = Append(outbox, Handed) ELSE NoClose
  /\ SameAnswer /\ SameCard /\ UNCHANGED <<user_item, lines>> /\ WriterRest

Deliver == OnStarted \/ OnTranscript \/ OnCreated \/ OnText \/ OnUnit \/ OnAudio \/ OnCancelled
           \/ OnDone
Writer == Deliver \/ Flushed

(* ---------------------------- the main thread -------------------------- *)

MainRest == UNCHANGED <<engine, wire, card, user_item, queued, answer, written,
                        writer, sounded, placed, lines, heard_words, request>>

\* Variant: the reader closes an answer as soon as the engine finished it.
PlayedOut == answering /\ answer_done
ClosesNow == Played

\* One pass of the reader: what played out is closed, and the lists are taken.
Read ==
  /\ main = "loop" /\ ~g_stop /\ writer = "idle" /\ sending = <<>>
  /\ ClosesNow \/ outbox # <<>>
  /\ sending' = (IF ClosesNow THEN Append(outbox, Handed) ELSE outbox) /\ outbox' = <<>>
  /\ IF ClosesNow THEN Closes ELSE FilesNothing /\ UNCHANGED <<answering, answer_done>>
  /\ UNCHANGED <<known, g_stop, main>> /\ MainRest

\* A list reaches the engine.
Send ==
  /\ sending # <<>>
  /\ known' = Head(sending) /\ sending' = Tail(sending)
  /\ NoClose /\ UNCHANGED <<g_stop, main>> /\ MainRest

\* A signal, at any moment.
Stop ==
  /\ ~g_stop /\ g_stop' = TRUE
  /\ NoClose /\ UNCHANGED <<known, sending, main>> /\ MainRest

\* The loop is left, the callback is gone, then the writer.
Leave ==
  /\ \/ main = "loop" /\ g_stop /\ sending = <<>> /\ main' = "stopped"
     \/ main = "stopped" /\ callback.at = "idle" /\ main' = "silent"
     \/ main = "silent" /\ writer = "idle" /\ main' = "ended"
  /\ NoClose /\ UNCHANGED <<known, sending, g_stop>> /\ MainRest

Next == Engine \/ Callback \/ Writer \/ Read \/ Send \/ Stop \/ Leave
Spec == Init /\ [][Next]_vars

(***************************************************************************)
(* Fairness: the sound card runs until it is closed, the writer and the    *)
(* main thread go on with what they have, and an answer ends (the endpoint *)
(* by its timeout).  Nobody has to speak, and nothing makes an answer go   *)
(* on.  Every thread has finitely many steps to take between two frames of *)
(* the engine, so one condition over their steps starves none of them.     *)
(***************************************************************************)
Threads == Callback \/ Writer \/ Read \/ Send \/ Leave \/ (~g_stop /\ AnswerEnds)
LiveSpec == Spec /\ WF_vars(Threads)

(* ------------------------------ properties ----------------------------- *)

\* An answer that was closed is filed with the units the loudspeaker began to
\* play, those alone and all of them, whatever was flushed, and nothing of it
\* sounds later, until the client quits.  It had one line at most, which ended
\* with it.  A unit the full ring had no room for at all is left open, see
\* UnitsFiledWereHeard.
FiledAsHeard ==
  ~g_stop =>
    /\ \A s \in sounded : s.answer = answer
    /\ lines <= 1
    /\ ~answering => sounded = filed \cap placed /\ ~line_open

\* "A unit counts once its audio started playing" (s2s-cli.cpp:330).  The code
\* does not keep it: see the README.
UnitsFiledWereHeard == ~answering => filed \subseteq sounded

Users(messages) == {i \in DOMAIN messages : messages[i].role = "user"}

\* A request says every turn at most once, whatever revisions the list went
\* through on its way, in the order they were spoken unless something opened
\* after the turn it answers, ends with the words it answers, and holds no two
\* messages of the user in a row.  A turn whose answer was not heard reaches
\* the next request joined to the one that follows: once the list of the last
\* close arrived, a request holds the last words of every turn transcribed
\* before.
RequestSaysTurns ==
  request # NoRequest =>
    LET asked == request.messages
        Turn(i, k) == asked[i].words[k].turn
    IN  /\ \A i, j \in Users(asked) : \A k \in DOMAIN asked[i].words, l \in DOMAIN asked[j].words :
             i < j \/ (i = j /\ k < l) =>
               Turn(i, k) # Turn(j, l) /\ (~void => Turn(i, k) < Turn(j, l))
        /\ Last(asked).role = "user"
        /\ Last(Last(asked).words) = [turn |-> request.turn, rev |-> request.rev]
        /\ \A i \in Users(asked) : i + 1 \notin Users(asked)
        /\ request.informed =>
             \A w \in heard_words : w.turn < request.turn =>
               \E i \in Users(asked) : w \in Range(asked[i].words)

\* An answer is closed whatever becomes of it, heard to the end, cut or
\* cancelled, and its list reaches the engine, unless the user quits.
AnswersClose == []<>(known.after = answer \/ g_stop)

\* A signal ends the client, also while the writer waits for a callback that
\* will never run again.
QuitEnds == g_stop ~> main = "ended"
===============================================================================
