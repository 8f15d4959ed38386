# s2s.cpp in TLA+

s2s.cpp is a voice assistant server: a page streams its microphone over a
WebSocket, the server cuts it into turns, recognizes them, asks an endpoint for
an answer and streams the answer back as speech. This directory models the
parts of it that decide *when* something happens, checks them with TLC and
proves what can be proved for every threshold with TLAPS.

## The system

| Part | Source | State | Operations | Talks to |
| --- | --- | --- | --- | --- |
| Turn session | `src/s2s-session.cpp` | phase, runs, grace, committed/released, turn id and revision, lookback and turn audio | `push` (one window at a time), `release`, `set_speaking`, `set_params` | events to the conversation, on the thread that pushes or releases |
| Conversation | `src/s2s-conversation.cpp` | two queues, `cancel`, `stop`, `speaking`, the turn gate (`final_turn`, `open_turn`, `open_revision`), the wake gate, the settings of the client | reader, recognizer, responder, writer threads | session, recognizer, endpoint, agent, synthesis, client |
| Endpoint client | `src/llm-client.cpp`, `src/http-client.h` | connection, stream buffer | one streamed request with timeout and cancel | the LLM endpoint |
| Agent, MCP client | `src/llm-agent.cpp`, `src/mcp-client.cpp` | tool list, sessions | rounds of calls, one retry on a lost session | MCP servers |
| Synthesis bridge | `src/tts-bridge.cpp` | the voices of a directory | speak a unit in chunks, cancel | the talker |
| Microphone path | `src/audio-resample.h`, `s2s-conversation.cpp` | two resampler histories, two hop buffers | resample, cut into hops, weigh the reference | echo canceller, session |
| Echo canceller, classifier | `src/localvqe.cpp`, `src/smart-turn.cpp` | one worker each: slots and batch, one job | a hop or a verdict per call | networks |
| Voice activity | `src/silero.cpp` | a memory and a left context per session | a probability per window, under a mutex | network |
| Recognizer | `src/pipeline-asr.cpp`, `src/parakeet.cpp`, `src/tdt-decoder.h` | one context under a mutex; frame, symbols, text of a pass | a transcript or a failure | networks |
| Model loading | `src/s2s-models.cpp`, `src/weight-ctx.h`, ... | what each context acquired | load five models, free them in reverse | all of the above |
| Log capture | `src/log-capture.h` | a ring of lines | capture, follow | the `/logs` route |
| Server | `tools/s2s-server.cpp` | - | routes, the WebSocket loop | all of the above |
| Page and terminal clients | `tools/webui/src/lib`, `tools/s2s-cli.cpp` | the options, the conversation, the playback ring | microphone, playback, history, settings | the protocol of `src/realtime-proto.h` |

What is hard in it:

* **A turn may come back.** A committed turn is recognized and answered while
  it can still be resumed. Whether an answer may be heard is decided by the
  grace (counted on the audio, reader thread) and by the release (responder or
  recognizer thread), in either order.
* **Four threads and six locks or flags per connection.** The gate of the
  responder waits on a predicate over two atomics that change without its
  mutex; the answer in flight is voided from the reader thread.
* **Closing joins threads that may be asleep.**
* **Patches land in the middle of everything**, thresholds included, and the
  model changes a setting while the page sends its own.
* **The client is the memory of the model.** What was heard of an answer, and
  only that, belongs to the list the next request is made of; the client learns
  of it from a sound card that counts in two steps and a ring that overflows.
* **Every connection shares the networks**: batches, single jobs, a mutex.
* **Loading fails half way**, each step with a cleanup of its own.

`PROJECT.json` lists every component, every hazard with its line, the runs, and
the lines each definition models.

## The modules

### Session: the turn state machine

`Session.tla` is `s2s_session_window` and the four calls of the interface. The
unit of time is one window; a threshold is a number of windows, and
`ParamsAssumption` is what `s2s_session_set_params` guarantees of them. Each
outcome of the `switch` is an action (`Resume`, `OpenTurn`, `StayIdle`,
`StaySpeaking`, `Boundary`, `Reopen`, `Expire`, `StayPending`) under the common
start of a window (`Hear`, and the grace: `GraceLeft`, `FinalNow`). What a call
tells its caller is `reports`, in order, with the numbers the callback saw: a
barge-in is reported under the previous turn, as in the code. The VAD is an
input in three levels, for the hysteresis, and the classifier a Boolean (a
classifier that fails scores -1: incomplete).

`TurnLife.tla` is what `s2s-session.h` promises the caller: a turn is closed,
open or committed; once committed it is resumed, or stands after its whole
grace and its release; it is never dropped and never comes back. `Session`
implements it (`LifeSpec`): its mapping reads `age` as `grace_given -
grace_left`.

`SessionAudio.tla` adds what the turn holds: the lookback ring, `turn_pcm` and
`speech_end`, with a window named by its number in the stream, and history
variables that remember where the speech began and what was handed over.

`SessionProofs.tla` holds the proofs about `Session` and `SessionAudio`.

### Conversation: the threads of a connection

`Conversation.tla` has the reader, recognizer, responder and writer around an
instance of `Session` (whose `speaking` is the session's copy, `speaking_s`). A
step is what a thread does under one lock or one access to an atomic:
`conn_answer`, for instance, is `StartAnswer` (reads `stop`), `ClearCancel`,
`Publish` (under `turn_mutex`), `Created`, then units, each through `speak`,
the gate and the synthesis, then `LowerFloor`, `CloseResponse` and the release
of `TurnRelease`. `session_mutex` is held by the reader over a frame (`reader`
at `window` or `events`), so a release waits for it. The condition variable
`turn_cv` is explicit: a responder `asleep` moves only when notified.
Recognition, endpoint and synthesis are inputs: each may succeed, fail, be
empty or take long. `conn_apply_patch`, the wake gate, the hops of the echo
canceller and the callback of the synthesis have modules of their own.

`ResponseLife.tla` is what all this promises the client of its answers, with no
thread in it: an answer is taken (`Take`), its response created, sounded and
closed, one at a time and in the order of the turns. `Conversation` implements it
(`ResponseSpec`) with `answer` for the answer, `finals` and `spoken` for what is
final and heard, and the stage read from `response` and from the place of the
responder (`ResponseStage`): taken at `Publish`, open from `Created` to
`CloseResponse`. `SessionSpec` is the specification of the session within it.

`ConversationProofs.tla` holds the proofs about `Conversation`.

### WakeGate: which turns reach the model

`WakeGate.tla` is `conn_admit` (`Recognize`), `conn_sleep` (`Sleep`) and the
wake part of `conn_apply_patch` (`Update`), each a step because each holds
`client_mutex`, with the queue between the recognizer and the responder. A
transcript is what the gate finds in it: a wake phrase alone, one within other
words, a sleep phrase, both, or neither (`wake_heard` on the whole words). The
history variable `hushed` is what a user would say of the assistant: it was put
to sleep and nobody woke it.

### Settings: what a session runs with

`Settings.tla` is a `session.update` from the page to the answer that obeys it:
`Read` and `Invalid` are the ranges of `realtime-proto.h` (one field for each way a
number is read), `ApplyUpdate` is
`conn_apply_patch` (`Updated` with its defaults, `Errors` with its refusals,
`Changed` and `Cancels` with what reaches the session and the canceller, which
may fail to be made: `lv_state_new` returns nothing when the graph does not grow),
`AnswerStarts` the copy `conn_answer` takes, `SetVoice` and `TellVoice` the
tool that changes the voice of both, and `SendUpdate`, `HearVoice` the page,
which owns the options and sends the whole of them. `fixed` is a server that
names its endpoint.

### Client: the conversation as it was heard

`Client.tla` is the terminal client: the callback of the sound card in three
steps (`CallbackPlays`, `CallbackHeard`, `CallbackConsumed`, since `heard` and
`consumed` are written apart and without a lock), the writer that hands frames
over (`On...`, and `Flushed`: it keeps the mutex while it waits for a flush),
and the main thread (`Read`, `Send`, `Leave`). The engine is its actions
`SpeechStarts` ... `AnswerEnds`, what `Conversation` says of itself from
outside, and `Messages` is the list `conn_answer` makes of `messages` for a
request (`s2s-conversation.cpp`). History variables remember what the
loudspeaker really played (`sounded`), so that what is filed can be compared
with what was heard.

### LlmStream: a streamed request

`LlmStream.tla` is `llm_client_stream`, one request after another on the
connection that is kept, and `HttpCancelWatch`. A frame of the stream is what
it says (text, a fragment of a call, a `finish_reason`, an error, `[DONE]`, or
a trace that is dropped); frames come in chunks, and `pending` is the chunk the
receiver is in (`Frame`, one pass of its loop). `done`, `finish`, `failure` and
`cancelled` are the locals of the function, `Return` is its epilogue. The
endpoint refuses, fails, ends early, breaks or stays silent at any point;
`said`, `asked` and `ended` record what it really sent.

### Agent: the rounds of a turn

`Agent.tla` is `llm_agent_run`: `Delta` is the tap, `StreamEnds` the answer and
its calls, `Start`, `Returns` and `Fails` one call between its two `on_call`,
`Again` the loop. A stream is `LlmStream` seen from outside (whole, or failed);
a call names a tool of the process, of a server, one the session did not check
or one nobody has. `messages` is what the next round sends.

### Mcp: calls to a tool server

`Mcp.tla` is `mcp_exchange` with its one repetition, the handshake of
`mcp_client_open_session` and a call. `stack` holds the exchanges in progress:
a 404 in the middle of a handshake opens a session within it, so they nest; a
repetition that is refused once more fails its exchange and unwinds all that
wait for it (`RefusedAgain`, `Unwind`).
The server keeps sessions or none, forgets them at any time, refuses, and loses
answers after it ran the request; `runs` counts what it ran.

### EchoWorker: the batched echo canceller

`EchoWorker.tla` is the worker of `localvqe.cpp`: callers hand a hop each and
wait, the worker takes all that wait and runs them in one pass with the slots
at rest masked, and a stream that opens takes a free slot or grows the graph (a
growth may fail half way). What a slot computed is the sequence of the hops it
took in, so a history that is lost, or another's, shows.

### Networks: voice activity and turn classifier

`Networks.tla` has both networks every session asks. `Frame`, `SetInputs` and
`Compute` are `sv_prob`: the scratch is filled off the lock, the inputs are set
and read back under it, and the memory moves only when the pass went through.
`Ask`, `Post`, `Take`, `Score` and `Return` are `st_predict` and the worker,
with its one place for a job; `Halt` and `Leave` are `st_free`. A score, or an
error, is named by the audio it is of.

### MicPath: from the microphone to the hops

`MicPath.tla` follows a sample, named by the instant it was captured at,
through the frame of the client (with the reference or without), the two
resampled streams (`Windows`, `Out`, `Rest`: a resampled sample is the window
of the input its kernel covers) and `conn_cancel_echo`, which cuts both into
hops and weighs each against the energy kept of the one before. `Restart` is a
canceller made anew.

### Recognizer: one pass of the decoder

`Recognizer.tla` is the greedy loop of `tdt-decoder.h`: `Blank`, `Emit` (with
the cap of symbols, and the caller that stops it) and `Throw`, over any answer
of the networks; `Written` is `sp-detok.h` on one piece, `Finish` what
`pk_transcribe` hands back. `Flat`, `Stripped` and `Spaced` say the same of
all the pieces at once: the reference the text is compared with.

### SentenceSplit: the units of the voice

`SentenceSplit.tla` is `sentence-split.h`. A byte stands for a class of
characters; an accented letter has two, so a delta may part it. `Cut` is one
pass of the loop of `sentence_split_push`. `UnitsOf` is the reference, stated
over a whole text: the set of what lies between two of its cuts (their ends tell
the units apart, and order them), and `Remainder` what the tail is made of. A tab
and a carriage return are spaces once cleaned, but confirm no terminator, unlike a
space or a line break.

### Speech: one unit, spoken

`Speech.tla` is the bridge and the callback around the talker, which is
external: `Load` makes the voices of the files of a directory, `Speak` finds the
voice and the language, `Poll`, `Chunk` and `Send` are the two places a cancel is
looked at and the frames between them, `Finish` tells a failure. A chunk may have
no samples: it is sent, and the text waits for one that has (`Text`). The request
carries the language the bridge settles on, of the session or of the browser, or
none (`Speaks` is the reference).

### Loading: what is acquired, and given back

`Loading.tla` has one plan per model, a sequence of steps that acquire a thing
and may fail with a cleanup of their own or throw into the catch of the loader.
`Free` is the order each context is freed in, `StandsOn` what must outlive what.
Anything of a plan may fail; `left` is what a plan that ended left behind.

### LogRing: the log capture

`LogRing.tla` is `log-capture.h`: stderr behind a pipe of bounded room, a reader
that fills a ring of lines, followers of `/logs` that copy under the lock and write
off it, and an exit that joins the reader. A write to the pipe begins (`Write`) and
ends once there is room (`Enter`), whatever stderr is by then. The handler of a
crash goes through what the code does, one step for each thing it may wait for:
`Name` builds its line in the heap, `Named` writes it to the pipe, `Restore` drops
the write end, `Die` is the bounded wait for the reader; on the reader itself it
is `NameReader`. The thread that crashed may hold `mtx_log`, the lock of the heap,
both or neither (`held`), and keeps what it holds.

### The modules that check several parts

`MCRequests` (`Agent`, `LlmStream`, `Mcp`), `MCWorkers` (`EchoWorker`,
`Networks`), `MCSettings` (`Settings`, `WakeGate`) and `MCVoicePath`
(`MicPath`, `Recognizer`, `SentenceSplit`, `Speech`, `Loading`) each check parts
that share no variable. `part` says which of them runs, the others keep their
first state, so the states of a run are the sum of those of its parts and not
their product: each part is checked exactly as if it were alone (and the proofs about
a part start from there: `MCSpec` implies the specification of the part). What two parts
say to each other is an input of the one that hears it, any value the other
could hand over.

## The runs

| Run | Question | Bounds |
| --- | --- | --- |
| `MCSession` | no turn dropped, `TurnLife`, a released turn ends | three sets of thresholds and every patch between them; 2 turns, 2 revisions |
| `MCSessionAudio` | the audio of a turn is one piece of the stream; a commit hands over all its speech and at most the pad of silence; a revision extends the last; the answer waits exactly the grace or the wait | 11 windows, two sets of thresholds that open alike |
| `MCConversation` | no deadlock; what is heard answers a final turn; a void answer carries the cancel; the answers live as `ResponseLife` promises | 2 turns, 1 revision, answers of up to two units |
| `MCConversationLive` | responses close, turns settle, closing ends | 1 turn, 1 revision |
| `MCConversationStop` | **violated**: a stop's cancel can be lost | 1 turn |
| `MCClient` | an answer is filed with what was heard of it; a request says every turn once, in its last words; every answer is closed and its list arrives; a signal ends the client | 3 starts of speech, 2 units, a ring of 1 sample, 2 frames on the wire |
| `MCRequests` | every call answered in its place; the words of the rounds stay apart; an answer is whole or no answer; a sound request keeps its connection; no request runs twice or before its handshake; a session forgotten is healed; a cancel ends the request | 3 rounds of 2 deltas and 2 calls; 2 requests of 4 frames in chunks of 3; 3 calls, 4 sessions |
| `MCWorkers` | no stream hears another's history; a score, a memory and an error are the caller's own; every hop, window and turn is answered | 2 streams, 2 lives, 2 hops a life; 3 calls a session |
| `MCSettings` | a session is its last update, or an error tells; a key stays with its URL; page and server agree on the voice; the wake gate lets through what it should | 2 frames of the page, 1 change of voice, 2 answers, 3 URLs; 3 turns of any number of revisions, 2 answers queued |
| `MCSettingsEffect` | **violated**: a change of voice brings back an effect the client replaced | 1 update, 1 change of voice, 1 answer |
| `MCVoicePath` | the hops of microphone and reference are in step; the decoder ends and its text is whole; the units are those of the text; a unit is heard as it is read; a failure leaves nothing behind | 11 samples, 2 cancellers; 3 frames, 4 pieces, durations 0 to 2; every text of 5 bytes, deltas of 2; 2 voices, 2 units of 3 events before the last chunk; 5 models, 2 recognitions |
| `MCLogRing` | no line before the exit is lost on stderr, no line skipped by a follower that keeps up; followers are served; a crash ends, unless it found the heap locked or the pipe full behind `mtx_log` | 1 follower, a ring of 2, a pipe of 2, 4 lines |

The thresholds of the models keep the order of the defaults (`open = reopen <
barge`, `close < open`, `delay < wait`) with one to four windows each, and add
the extremes (no grace, a delay cut to the wait). `RunCap` is where the runs
saturate: they are only compared with thresholds below it. Two turns and two
revisions let a turn be final, resumed, or followed by another; the session
compares turn numbers with the latest only. `MaxWindows` bounds the stream of
`MCSessionAudio`: its eleven windows hold a turn with two resumptions, and a
state without a successor there is the end of the stream.

The smaller modules are bounded by what they count, and each bound leaves room
for the case that matters: two streams are enough for one to move into the slot
of the other and to grow past one slot; a third call finds the job, the error or
the memory the second left; a ring of two lines is overtaken by four; a pipe of two
is full before the last words; three events are a chunk without samples, the
text and its sound; a third
round follows a round without words; a third MCP call finds what a failed
handshake left behind; a second request finds the connection and the calls of
the first. A playback ring of one sample is full as soon as the callback is one
behind; three starts of speech give a turn, its resumption and the next turn.
With rates of 3 to 2 and hops of 3, frames of up to 4 samples divide neither,
and eleven samples give two hops between changes of the canceller. Two updates
are enough for one to leave out what the other gave. A terminator, a quote, a
space and both halves of a letter fit in five bytes.

The runs of parts that really stop do not check deadlock: an update sent, a
request returned, a turn transcribed, a program that refused to start, a
connection that ended, a log after its exit, a canceller whose growth failed
(its callers are told), and the eleventh window of `MCSessionAudio`. The runs
of `Conversation` and `MCSession` check it.

**Fairness.** `MCSession`: the audio keeps arriving. `MCConversationLive`: every
thread goes on with what it began (recognition, endpoint and synthesis end:
the endpoint by its timeout), a frame holds a finite number of windows, a
thread that waits for `session_mutex` gets it between two frames (strong
fairness of the releases), and the microphone keeps streaming while the client
is connected (strong fairness of `ReadAudio`). Nothing makes a client cancel, a
send fail or a connection close. `MCClient`: the sound card runs until it is
closed, writer and main thread go on, and an answer ends. `MCWorkers`: the
workers run, a caller that was answered returns, and a mutex is given in the
end to a thread that waits for it (strong fairness of `SetInputs` and `Post`:
weak fairness is not enough, since the lock is free only between two holders).
`MCLogRing`: the reader reads what is in the pipe, a process that began its
exit goes on with it, and followers take their turn, reader and followers as
long as nobody crashed with the lock of the heap they need; a handler that waits
for nothing goes on; and of the threads that wait for room in the pipe each gets
it in turn (strong fairness of `Logged` and `Named`: the room comes and goes). `MCRequests`: the client
and its watch run, and a connection is made or fails within its timeout; of the
endpoint nothing is asked, so the cancel has to work against its silence.

**Sensitivity.** Beside some definitions stands a variant with one mistake in
it: answers taken newest first (`TakeAnswerNewest`), an opening tried
before the resumption (`OpenOverCommitted`), a gate one turn early
(`GateOpensEarly`), a queue that counts what the ring dropped
(`CountsDropped`), an endpoint that keeps its key (`PointedKeepingKey`)... `PROJECT.json` pairs each with the property that rejects
it.

## What is proved

`SessionProofs` proves, for every set of thresholds and every bound:

* `SessionTypes`: `Spec => []TypeOK`.
* `GraceInvariant`: `Spec => []TurnInv`. `TurnInv` is inductive with the types:
  a committed turn is in `IDLE`, grace runs for it alone and within what it was
  given, and once released it always has grace left, so one of the two calls
  of `try_final` finds it. No run lists it: it is what the other properties of
  the session rest on, and they are.
* `CommittedTurnKept`: under `ReopenFirst` (a continuation takes no more speech
  than an opening or a barge-in), `Spec => NoTurnAbandoned`. Without the
  condition it is false (see below).
* `SessionImplementsLife`: under `ReopenFirst`, `Spec => LifeSpec`; every window
  maps to one step of `TurnLife` or to a stutter.

* `TurnIsTheStream`: `AudioSpec => []AudioContinuous`. Ring and turn are both a
  stretch of the stream that ends with its last window (`Stretch`, `Heard`); what
  has to be shown is that a turn that lives on took the window in and was not
  emptied by the final of the same call (`LivesOn`).
* `WaitIsWhole`: `AudioSpec => []HeardByWait`. While a turn is pending, its
  `pending_run` is the distance to the boundary and below the delay unless a
  patch came in between (`Counted`), so delay and grace add up to the wait.
* `RevisionsGrow`: `AudioSpec => RevisionsExtend`. What was handed over stays the
  beginning of the turn, and once the turn goes on there is speech past it
  (`Handed`): a resumption and a reopening both take a window of speech.

* `CommitsHandSpeech`: `AudioSpec /\ [][OnsetSpared]_allVars =>
  CommitHandsAllSpeech`. `OnsetSpared` says that no patch shortens the openings
  while the user has begun to speak, which is the one thing that clips an onset
  (see below); any other patch, in a turn or in silence, is allowed. Before a turn
  opens its run of speech is below the longest opening and all in the ring; a turn
  starts at its onset or before it, `speech_end` is a window of speech and what
  follows it is silence (`OnsetHeld`). So the windows handed over, an interval of
  the stream (`StretchWindows`), hold the speech, and at most the pad after it
  (`WithinPad`).

The assumptions are `ParamsAssumption`, `BoundsAssumption` and
`MaxWindowsAssumption`.

`ConversationProofs` proves, for every number of turns and revisions
(`ConversationAssumption`: natural numbers) and every thresholds:

* `VoidAnswersStop`: `Spec => []VoidAnswerStops`: while the floor is up, an
  answer that a later turn or revision made void carries the cancel. The
  argument has one step per thread. What voids an answer is `conn_opened`, what
  publishes one is `Publish`, and both look at the other's variables under
  `turn_mutex`, so whichever comes second raises the flag. The flag is lowered
  in one place, `ClearCancel`, before the floor is raised, so the invariant
  has to say where the responder is whenever the floor is down.
* `HeardStands`: `Spec => []HeardTurnStands`. Three orders have to agree: that of
  the session, that of the callbacks the reader still runs, and that of the
  work on its way to the gate. `EventsFit` says that an opening is the last
  callback of its window and that everything else a window tells is about what
  is open already; `FinalsFit` that the turn of a final is over in the session
  (`Stands`), so no later opening is a revision of it; `WorkFits` that no work
  is newer than what is open. At the gate they leave one turn and one revision
  (`GateOfFinal`). `WindowFits` is what the proof needs to know of a window of
  the session, whatever the thresholds.

* `ResponsesLive`: `Spec => ResponseSpec`, step by step: a step of a thread is a
  step of `ResponseLife` or changes nothing the client sees. That an answer taken
  is newer than the last is the order of the whole line a turn goes through: the
  job, the queue of answers, what the recognizer holds, its queue and the turn
  that is open or about to be committed, each newer than the one before
  (`LineInv`). A queue keeps its order only if nothing older is put behind: a
  window commits once at most, as the last thing it tells, and a resumption is a
  new revision. `StageInv` ties the response the client sees to the place of the
  responder; that a sound is of a final turn is `HeardInvariant`, on which
  `HeardStands` rests too.
* `ConversationDrivesSession`: `Spec => SessionSpec`. Every step of a thread is a
  call of the session or leaves it alone, so what `SessionProofs` shows of
  `Session` (`GraceInvariant`; under its condition `SessionImplementsLife`) is true
  of the session of a connection.

`VoicePathProofs` proves, about the parts of `MCVoicePath`:

* `LoopIsBounded`: `Spec => []DecodeIsBounded`, for every number of frames, cap
  of symbols, set of pieces and set of durations (`RecognizerAssumption`: natural
  numbers, and a piece is a text). The bound on all the steps says
  nothing of a frame that already took its share, so the invariant counts by
  frame: those behind took at most the cap each, and the frame at hand no more
  than its symbols, which stay below the cap until it is left.
* `TranscriptWhole`: `Spec => []TranscriptIsWhole`, under the same assumption.
  The code strips markers and reads them as spaces piece by piece, the reference
  does both to the whole. `StrippedConcat` and `SpacedConcat` say what becomes of
  a text that is laid behind another: its markers are stripped only when nothing
  but markers came before. Special and empty pieces are empty texts and change
  nothing (`PlainAppends`).
* `NothingStays`: `MCSpec => []NothingLeft`. Of each of the six plans it is shown
  once, step by step, that what was acquired when a step is reached stands on
  what was acquired before, and that the cleanup of every failure, its own or
  the catch of the loader, releases it all in that order (`PlanFits`,
  `PlansFit`); the invariant then only says where in its plan each context is
  (`Steady`, `Unwinding`, `Others`).
* `UnitsAreHeard`: `MCSpec => []UnitIsHeard`, for any files of any number of
  voices (`NamesAssumption`, which also says that `auto` is no language). What was sent of a unit has one shape (`Shape`),
  and a callback that was past its look at the flag when the cancel came is the
  only one that may still send (`Overrun`). That the talker is given the right
  files is a statement about the list the bridge makes of the directory: its
  entries are real, and the first is that of the first voice, with its reference
  when it is whole (`Lists`).
* `HopsStayInStep`: `MCSpec => []HopsInStep`, for any rates, lookahead, hop and
  lengths of frames (`MicAssumption`: rates and hop are positive). The two streams are
  written down as if they came in one piece (`Stream`, `Resampled`), and the
  invariant says of every sequence of the code which part of them it is
  (`HeardUpTo`): the histories start at the first sample of the next window, the
  resampled rests where the last hop ended. A frame joins parts (`PartJoins`),
  the windows and the hops cut them (`OutIs`, `RestIs`, `HopsAreCut`), and a
  frame left without reference is one during which nothing played. `Held` says
  the energy kept is that of the hop whose output comes next.

* `UnitsAreWritten`: `MCSpec => []UnitsOfWritten`, for any text in any deltas. The
  text is folded three times (`Points` joins the two bytes of a letter, `Clean`
  drops marks and joins spaces, `Utf16` counts), so it is proved first what one
  byte more makes of each. Then: a place where the code may cut the rest of the
  text is a cut of the whole text whatever follows it, and none is passed over
  (`CutsAt`), and what waits at the end is what lies after the last of them
  (`RemainderIs`), so the units handed out are those that end by the place reached
  (`UnitsTo`, `UnitsInv`); a delta that ends in a terminator leaves it in the
  rest, where the next byte decides (`PendingInv`).

Two parts need an induction over data, which the prover has no rule for. `Climbs`
proves the one on numbers from the finite sets of the library (on a finite set, a
function onto it is one to one), in `ClientProofs` it comes from its theorem on
well-founded relations; a set stands in the place of the predicate
(`SetInduction`, and `SeqInduction` for sequences). The folds of the library are
unfolded once for a function (`FoldOfAppend`: one element more, one step more),
and each operator folded is shown to be such a function.

`SettingsProofs` proves, for any number of frames, answers and changes of voice
and any URLs, hosts and keys (`SettingsAssumption`: the host of every URL is
known, and no name is the absent one):

* `KeyStaysWithItsUrl`: `Spec => []KeyTravels`. A key is read from four places,
  so the invariant (`KeysHeld`) follows a pair of URL and key from the options
  of the page through the frames on their way, which may be older than the
  options, to the session, the endpoint client and the agent: every hand that
  passes one on passes both.
* `UpdatesAreWhole`: `Spec => []UpdateIsWhole`. `conn_apply_patch` reads nothing
  of what the session held, but for the list (`UpdatedFields`); `Follows` says
  of every other step what it leaves of a session, the change of a voice by the
  model included. Of the canceller it says what the code keeps: none is left of a
  method that asks for none, and one that was asked for was made or failed to be.
  That it runs is not so (`CancellerAsAsked` below).
* `VoicesAgree`: `Spec => []VoiceAgrees`. The updates of the page and the calls
  of `set_voice` cross, so the property of the quiet moments is not inductive.
  Every change of the model is heard, on its way or yet to be told (`Counted`);
  the last update on its way says what the page says, unless the page heard of a
  change since it left (`Sent`); and with no update on its way the server has
  the voice the page will say once it heard all (`Settled`, `Coming`).
* `GateShut`: `MCSpec => []GateHolds`. A revision of a turn the gate let through is
  told from a new turn by one number, the last turn it let through, so the
  invariant (`GateOrder`) says that only that one may still come back.

`WorkersProofs` proves, for any finite set of streams (`EchoAssumption`) and any
bounds:

* `StreamsApart`: `Spec => []EchoApart`. A pass writes to every slot of the
  graph, so what a history takes in rests on three things at once: an open
  stream has a slot nobody shares (`Placed`), a slot is unmasked only for a
  stream whose hop is in the pass, with the window of that hop (`Queued`), and
  a hop still to be run is above all those of the history (`OwnHistory`).
  That a growth finds room is a pigeonhole over the slots (`RoomToGrow`).

`RequestsProofs` proves, for any number of rounds, calls, deltas and any tools
(`AgentAssumption`):

* `CallsAnswered`: `Spec => []RequestsAnswered`. The property speaks of the
  start of a round; `AnsweredSoFar` speaks of the middle of the calls, where
  the calls left are, in order, the ids of the last message that no answer
  stands for yet.
* `RoundsStayApart`: `Spec => []RoundsSpoken`. Within a round what was heard is
  what is written, the space of the tap included (`Spoken`), so the tap that
  looks at the text looks at the last word heard; a delta then makes no pair
  that `ApartIn` forbids. After a delta the caller refused, the turn is over and
  only the pairs are left to hold (`DeltaSpoken`).

and, for any number of calls and sessions of the MCP client,

* `CallsRepeatSafely`: `MCSpec => []RepeatsSafely`. The exchanges nest, so the
  invariant speaks of the whole stack: the call is its lowest entry and no other
  is a request (`CallBelow`), which is why it runs once; an exchange that repeats
  runs on a session opened since (`RepeatsOnNew`), which is why a second refusal is
  never the forgotten session alone.
* `ToolsRunWhenReady`: `MCSpec => RunsOnReadyOnce`. `opened` is trusted as the code
  trusts it; `OpenIsReady` says when it tells the truth about the server, at each of
  the three kinds of exchange, until an initialize is itself repeated.

and, for any number of requests, frames and chunks of the streamed request,

* `AnswersAreWhole`: `MCSpec => []AnswerIsWhole`. What was taken is what was said but
  for the frames of the chunk the receiver is in (`TakenSoFar`, counted by kind),
  and the chunk is read to its end unless the answer is done (`ChunkIsRead`).
* `ConnectionStays`: `MCSpec => []ConnectionKept`. A connection is lost for one of the
  reasons a request knows (`KeptSoFar`).

`ClientProofs` proves, for any ring, period and bounds (`ClientAssumption`: ring
and period are positive):

* `AnswersFiledAsHeard`: `Spec => []FiledAsHeard`. Filed is what the counters say
  began, sounded is what the loudspeaker took from the ring, and the two are
  written by different threads, so the invariant relates each place of the ring
  to the place in the answer its sample was queued at (`RingInStep`): with what
  the callback took but has yet to count (`Sounds`), the sound begun is that of
  the units whose start is below it (`SoundedOf`). It rests on the order of the
  frames on the wire (`WireOrder`: between two answers stands the frame that ends
  the first), since a unit that came after its answer would be another's. While
  the writer waits for its flush nothing of this can move but the callback
  (`WriterInv`).
* `RequestsSayTurns`: `Spec => []RequestSaysTurns`, on the same assumption. Of a
  list whose turns rise it is shown what `Messages` makes of it
  (`RequestIsOrderly`, by induction on the list: `SaysAll`). That every list the
  engine may hold has turns that rise, none after the last turn, is followed from
  the turns still to be recognized over the frames on the wire to the history and
  the lists on their way (`WireTurns`, `HistoryInv`, `ListsInv`). Two things make
  it hard. A revision replaces its message only as long as nothing was filed
  behind it, so an answer that can be filed must have no transcript of its turn
  left to come before it is closed (`Fenced`, `SpeaksFor`). And a list misses no
  turn that was heard before the last answer opened, although it was made by the
  client: as long as the frame that opened the answer has not arrived the count of
  the list is behind (`Numbered`), and once it has, so have the transcripts sent
  before it (`WordsInv`).

`WorkersProofs` also proves, for any sessions and calls (none of the sessions is
`Nobody`, who holds a mutex nobody holds):

* `ScoresStayOwn`: `Spec => []ScoresAreOwn`. The property looks at a session
  between its calls; the invariant follows one through: what it framed stands
  behind the tail of its last window (`Framed`), the inputs of the graph are
  those of the holder of the mutex (`Mine`), the job is that of the one session
  that waits (`Waits`), and as long as the job is to be taken or computed that
  session waits and the answer of the job before does not count (`OneJob`).

`LogProofs` proves, for any ring, pipe, lines and followers (`LogAssumption`: the
ring and the pipe have a place):

* `LinesKept`: `Spec => []NoLineLost`. A line is in the pipe or on the terminal, and
  the reader is done only once no write to the pipe is under way either
  (`AllSomewhere`, `entering`); what the reader holds and what the pipe holds are the next
  of the ring, in order (`InOrder`); the ring holds its latest lines (`Latest`,
  over the remainder that names a slot, `SlotsApart`); so the slot a follower
  looks at holds the line it looks for unless the ring went round (`InStep`).

Only model-checked is everything under fairness: the ten liveness properties of
the runs (`ReleasedTurnStands`, `ResponseCloses`, `TurnSettles`, `CloseEnds`,
`CancelEnds`, `AnswersClose`, `QuitEnds`, `EveryCallAnswered`,
`EveryLineFollowed`, `CrashEnds`) are out of the reach of the prover, as is
`ENABLED`. Every invariant and every action property of a passing run is proved,
the two of the table below under the conditions on the thresholds and the patches
that their theorems name.

## What the models found

`MCConversationStop` fails: `conn_answer` reads `stop` (774) and then lowers
`cancel` (780), so the cancel of a `conn_stop` between the two is lost, and an
answer starts on a connection that is closing.

`MCSettingsEffect` fails: `conn_set_voice` writes the effect of the answer's own
copy of the settings over the client's also when the call names none (625), so
an effect the client chose during the answer is undone.

Other statements of the documents and comments that the code does not keep are
in the modules, each marked so. No run lists them; the configuration named here
with the property in it shows each one.

| Property | Shown by | What happens |
| --- | --- | --- |
| `NoTurnAbandoned` | `MCSession.cfg` with `Params <- ReluctantParams` | nothing orders `min_speech_continuation_ms` and `min_speech_ms`; out of order, a committed turn is dropped without an event (`s2s-session.cpp:309`) |
| `CommitHandsAllSpeech` | `MCSessionAudio.cfg` with `Params <- OnsetSet`, `RunCap = 4` | a patch in the middle of an onset shrinks the lookback at once and clips it (`s2s-session.cpp:177`) |
| `ResumeTakesNewSpeech` | `MCSessionAudio.cfg` with `Params <- OneSet` | zeroing `speech_run` at a commit delays the resumption on the rest of a word, it does not prevent it (`s2s-session.cpp:303`) |
| `AnswerHeardWithoutAudio` | `MCConversationLive.cfg` with `SPECIFICATION ThreadSpec` | the grace is counted on the audio alone: no audio, no answer (`s2s-session.cpp:270`) |
| `OnlyCancelAborts` | `MCRequests.cfg` with `Endpoint!OnlyCancelAborts` | an error frame closes the connection too (`llm-client.cpp:366`) |
| `NoToolAfterCancel` | `MCRequests.cfg` | nothing looks at the flag between two calls (`llm-agent.cpp:276`) |
| `OnlyOfferedRuns` | `MCRequests.cfg` with `"unchecked"` in `Tools` | a call is looked up among all tools, not among those offered (`llm-agent.cpp:119`) |
| `OneNewSession` | `MCRequests.cfg` with `Server!OneNewSession` | the handshake repeats its own messages, so sessions open within sessions (`mcp-client.cpp:229`) |
| `RunsOnReady` | `MCRequests.cfg` with `Server!RunsOnReady` | a handshake nested in a repetition leaves `open` true on a session never initialized (`mcp-client.cpp:225`) |
| `GrowthKeepsStreams` | `MCWorkers.cfg` | a growth that fails loses the history of every stream (`localvqe.cpp:535`) |
| `FollowerInOrder` | `MCLogRing.cfg` | a follower that was overtaken is handed lines out of order (`log-capture.h:257`) |
| `CrashAlwaysEnds` | `MCLogRing.cfg` | "a crash must end the process, not hang it" (`log-capture.h:158-160`), but before its bounded wait the handler builds strings in the heap (163), where it hangs if the crash came with the lock of the heap held, and writes to the pipe (172), where it hangs if the pipe is full and the reader waits for the `mtx_log` of the thread that crashed |
| `CancellerAsAsked` | `MCSettings.cfg` | "server and both run a canceller here" (`s2s-conversation.cpp:245`), but when the graph does not grow (`localvqe.cpp:780`) the method is set and no canceller runs; no error is sent, and an update that names the method again finds it set and does not try again (`s2s-conversation.cpp:1146-1154`) |
| `UnitsFiledWereHeard` | `MCClient.cfg` | a unit the full ring had no room for at all starts where the next sound ends, and is filed with it (`s2s-cli.cpp:330`) |

A property of an instance is named in a definition of the module of the run
first (`OnlyCancelAborts == Endpoint!OnlyCancelAborts` in `MCRequests`).

`sleep` takes effect from the turn after the last one the recognizer let
through, which may be later than "the turn after this one"
(`s2s-conversation.cpp:635`) when the answer is slow; the turn that overtakes it
voids that answer, so the two hardly meet.

Met while modelling, and left to the models as they are:

* A `response.cancel` names no response (`s2s-conversation.cpp:1393`): sent as
  an answer ends, it cuts the next one.
* The list the page sends and the turn the server hears next may cross: a
  request that leaves before the list of the last close arrived does not know
  what was heard of the last answer (`docs/ARCHITECTURE.md`, 171-173, says so;
  `request.informed` of `Client`). A voice the model chose is undone by an
  update that left before the page heard of it (192-196, `crossed` of
  `Settings`).
* A number of an update outside the range of its use, but within that of its
  type, silently takes the default, a key without URL is dropped without an
  error, and of several invalid numbers the error names the first.
* In `tdt-decoder.h` (308-316) the count of symbols is not reset when a piece
  moves the frame by its duration: the cap is of pieces in a row without a
  blank, which the proof shows to be enough.
* A loader that throws leaves the file it mapped, since the catch does not know
  it, a recognition that throws before its transducer leaves its inputs, their
  buffer and its graph (`pipeline-asr.cpp`, 301-377 and 398), and one whose inputs
  cannot be placed leaves their context (about 289): the exceptions of
  `NothingLeft`. A
  `models_load` that fails ends the process without freeing the models before.
* A growth of the canceller whose graph cannot be built leaves the state buffer
  dangling for `lv_free` (`localvqe.cpp`, 433-438 and 516-537).
* A window whose voice network failed counts as silence, and a turn whose
  classifier failed as incomplete.

## Not modelled

* **Server** (`tools/s2s-server.cpp`): command line, routes and the loop of an
  external server library; the loop is the reader of `Conversation`.
* **Offline tools** (`quantize.cpp`, `parakeet-transcribe.cpp`), the voice
  effect, the helpers for text and audio: sequential I/O and arithmetic without
  a state that several steps could break.
* **The networks themselves**: the features, the encoder, the filters and their
  graphs are numeric. Models take any answer of a network.
* **JSON**: the frames of the protocol, of the endpoint and of the MCP servers
  are what they say, not how they are written.
* **The page** beyond its settings: its playback and its list follow the rules
  of the terminal client, which is modelled from its own source.
* **The talker** (another repository, whose directory is empty here) is
  external: it streams chunks, asks whether to go on, may fail.

## Plan

Done: the session, its audio, its abstract life and proofs; the threads of a
connection, the proof about void answers and the abstract life of a response,
which it implements; the wake gate, the settings, the
streamed request, the agent, the MCP client, the workers of canceller and
networks, the path of the microphone, the recognizer, the splitter, the speech
of a unit, the loading, the terminal client, the log; the proofs of every
invariant and of every action property a run checks.

Left, in this order:

1. `Agent` as an implementation of the stream `Conversation` takes as an input,
   and `Conversation` as one of the engine `Client` takes as one.
2. The page client from its own source, beside the terminal client.
