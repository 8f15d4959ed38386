----------------------------- MODULE LlmStream ------------------------------
(***************************************************************************)
(* One streamed request after another to the endpoint: llm_client_stream   *)
(* of src/llm-client.cpp, and the thread that closes its socket when the   *)
(* caller cancels, HttpCancelWatch of src/http-client.h.                   *)
(*                                                                         *)
(* The endpoint sends frames, in chunks of any size; it may also be        *)
(* silent, cut the stream, close it early, or refuse.  A frame is what it  *)
(* says: a delta of text, a fragment of a call, a finish_reason, an error, *)
(* the end of the answer, or nothing that is kept (a reasoning trace).     *)
(***************************************************************************)
EXTENDS Integers, Sequences, FiniteSets

CONSTANTS MaxRequests,   \* bound: requests of the client
          MaxFrames,     \* bound: frames of one answer
          MaxChunk       \* bound: frames of one chunk

Frames == {"delta", "call", "finish", "error", "done", "nothing"}

VARIABLES
  requests,    \* requests begun
  at,          \* "idle", "connecting", "reading", "over"
  socket,      \* the connection is open
  over,        \* how the request ended: "none", "clean", "cut", "status"
  pending,     \* the frames of the chunk the receiver is in
  text, heard, \* deltas written to the text, and handed to the callback
  calls,       \* fragments of calls received
  finish, done, failure, cancelled,
  cancel,      \* the flag of the caller
  tool_calls,  \* the calls of the answer, as the client hands them out
  result,      \* "none", "answered", "failed"
  frames,      \* history: frames sent so far
  said,        \* history: the deltas the endpoint sent before its end
  asked,       \* history: the fragments of calls it sent before its end
  ended,       \* history: the endpoint said that its answer was whole
  blame        \* history: the network, a cancel, or the endpoint between requests broke it

answer == <<text, heard, calls, finish, done, failure, cancelled>>
truth == <<frames, said, asked, ended>>
vars == <<requests, at, socket, over, pending, answer, cancel, tool_calls, result, truth, blame>>

Blank ==
  /\ over' = "none" /\ pending' = <<>> /\ text' = 0 /\ heard' = 0 /\ calls' = 0
  /\ finish' = FALSE /\ done' = FALSE /\ failure' = FALSE /\ cancelled' = FALSE
  /\ frames' = 0 /\ said' = 0 /\ asked' = 0 /\ ended' = FALSE /\ blame' = FALSE

Init ==
  /\ requests = 0 /\ at = "idle" /\ socket = FALSE
  /\ over = "none" /\ pending = <<>> /\ text = 0 /\ heard = 0 /\ calls = 0
  /\ finish = FALSE /\ done = FALSE /\ failure = FALSE /\ cancelled = FALSE
  /\ cancel = FALSE /\ tool_calls = 0 /\ result = "none"
  /\ frames = 0 /\ said = 0 /\ asked = 0 /\ ended = FALSE /\ blame = FALSE

\* A request goes out on the connection of the last one, when it is open.
Post ==
  /\ at = "idle" /\ requests < MaxRequests
  /\ requests' = requests + 1
  /\ at' = IF socket THEN "reading" ELSE "connecting"
  /\ cancel' = FALSE /\ tool_calls' = 0 /\ result' = "none"
  /\ Blank
  /\ UNCHANGED socket

Connected ==
  /\ at = "connecting"
  /\ at' = "reading" /\ socket' = TRUE
  /\ UNCHANGED <<requests, over, pending, answer, cancel, tool_calls, result, truth, blame>>

\* The request is over; a request cut closes its socket.
Over(how) ==
  /\ at' = "over" /\ over' = how
  /\ socket' = (socket /\ how # "cut")

\* An endpoint nobody answers at fails within the timeout, cancelled or not.
ConnectFails ==
  /\ at = "connecting"
  /\ Over("cut") /\ blame' = TRUE
  /\ UNCHANGED <<requests, pending, answer, cancel, tool_calls, result, truth>>

(* ----------------------------- the endpoint ---------------------------- *)

Reading == at = "reading" /\ pending = <<>>

\* How many frames of a kind a chunk holds up to the end of the answer.
Count(chunk, frame) ==
  Cardinality({i \in DOMAIN chunk : chunk[i] = frame /\ \A j \in 1 .. i - 1 : chunk[j] # "done"})

\* A chunk of a stream that goes on, received unless the caller cancelled.
Chunk ==
  /\ Reading /\ socket /\ ~done
  /\ \E n \in 1 .. MaxChunk : \E chunk \in [1 .. n -> Frames] :
       /\ frames + n <= MaxFrames
       /\ frames' = frames + n
       /\ said' = said + Count(chunk, "delta")
       /\ asked' = asked + Count(chunk, "call")
       /\ ended' = (ended \/ Count(chunk, "done") + Count(chunk, "finish") > 0)
       /\ blame' = (blame \/ cancel \/ Count(chunk, "error") > 0)
       /\ IF cancel
          THEN /\ cancelled' = TRUE /\ Over("cut") /\ UNCHANGED pending
          ELSE /\ pending' = chunk /\ UNCHANGED <<at, over, socket, cancelled>>
  /\ UNCHANGED <<requests, text, heard, calls, finish, done, failure, cancel, tool_calls, result>>

\* Whatever follows [DONE] is read and dropped.
Trailer ==
  /\ Reading /\ socket /\ done /\ frames < MaxFrames
  /\ frames' = frames + 1
  /\ UNCHANGED <<requests, at, socket, over, pending, answer, cancel, tool_calls, result,
                 said, asked, ended, blame>>

\* The body ends, as a stream should or too early.
EndOfBody ==
  /\ Reading /\ socket
  /\ Over("clean")
  /\ UNCHANGED <<requests, pending, answer, cancel, tool_calls, result, truth, blame>>

\* An error status, whose body is no stream.
Status ==
  /\ Reading /\ socket /\ frames = 0
  /\ Over("status")
  /\ UNCHANGED <<requests, pending, answer, cancel, tool_calls, result, truth, blame>>

\* The connection is lost, or the silence lasts past the timeout.
Broken ==
  /\ Reading /\ socket
  /\ Over("cut") /\ blame' = TRUE
  /\ UNCHANGED <<requests, pending, answer, cancel, tool_calls, result, truth>>

\* Between two requests the endpoint may close what was kept open.
Dropped ==
  /\ at = "idle" /\ socket
  /\ socket' = FALSE /\ blame' = TRUE
  /\ UNCHANGED <<requests, at, over, pending, answer, cancel, tool_calls, result, truth>>

(* ----------------------------- the receiver ---------------------------- *)

\* Variant: the receiver aborts the request it has the answer of.
AbortAtDone ==
  /\ done' = TRUE /\ pending' = <<>>
  /\ Over("cut")

\* [DONE] ends the answer, not the request: the rest is left to be read.
StopAtDone ==
  /\ done' = TRUE /\ pending' = <<>>
  /\ UNCHANGED <<at, over, socket>>

\* One frame; the callback returns false once the caller cancelled.
Frame ==
  /\ at = "reading" /\ pending # <<>>
  /\ LET frame == Head(pending)
         next == pending' = Tail(pending) /\ UNCHANGED <<at, over, socket, done>>
         abort == pending' = <<>> /\ Over("cut") /\ UNCHANGED done
     IN  \/ /\ frame = "done" /\ StopAtDone
            /\ UNCHANGED <<text, heard, calls, finish, failure, cancelled>>
         \/ /\ frame = "error" /\ failure' = TRUE /\ abort
            /\ UNCHANGED <<text, heard, calls, finish, cancelled>>
         \/ /\ frame = "finish" /\ finish' = TRUE /\ next
            /\ UNCHANGED <<text, heard, calls, failure, cancelled>>
         \/ /\ frame = "call" /\ calls' = calls + 1 /\ next
            /\ UNCHANGED <<text, heard, finish, failure, cancelled>>
         \/ /\ frame = "nothing" /\ next
            /\ UNCHANGED <<text, heard, calls, finish, failure, cancelled>>
         \/ /\ frame = "delta"
            /\ text' = text + 1 /\ heard' = heard + 1
            /\ IF cancel THEN cancelled' = TRUE /\ abort
                         ELSE next /\ UNCHANGED cancelled
            /\ UNCHANGED <<calls, finish, failure>>
  /\ UNCHANGED <<requests, cancel, tool_calls, result, truth, blame>>

(* ------------------------------- the cancel ---------------------------- *)

Cancel ==
  /\ at \in {"connecting", "reading", "over"} /\ ~cancel
  /\ cancel' = TRUE /\ blame' = TRUE
  /\ UNCHANGED <<requests, at, socket, over, pending, answer, tool_calls, result, truth>>

\* Variant: the watch looks only at the request as it begins.
WatchingOnce == at = "connecting"
\* It polls until the request returns, so a socket opened after the flag rose
\* is closed too.
Watching == at \in {"connecting", "reading"}

Watch ==
  /\ Watching /\ cancel /\ socket
  /\ socket' = FALSE
  /\ UNCHANGED <<requests, at, over, pending, answer, cancel, tool_calls, result, truth, blame>>

\* A read on a socket that was closed.
Closed ==
  /\ Reading /\ ~socket
  /\ Over("cut")
  /\ UNCHANGED <<requests, pending, answer, cancel, tool_calls, result, truth, blame>>

(* ------------------------------- the result ---------------------------- *)

\* Variant: an end is an end.
WholeAtEnd == done \/ over = "clean"

\* A stream that closes without [DONE] or a finish_reason was cut short.
Whole == done \/ (over = "clean" /\ finish)
\* The calls are handed out with a whole answer only.
Answered == ~failure /\ ~cancelled /\ ~cancel /\ Whole
Return ==
  /\ at = "over"
  /\ at' = "idle"
  /\ result' = IF Answered THEN "answered" ELSE "failed"
  /\ tool_calls' = IF Answered THEN calls ELSE tool_calls
  /\ UNCHANGED <<requests, socket, over, pending, answer, cancel, truth, blame>>

Next ==
  \/ Post \/ Connected \/ ConnectFails
  \/ Chunk \/ Trailer \/ EndOfBody \/ Status \/ Broken \/ Dropped
  \/ Frame \/ Cancel \/ Watch \/ Closed \/ Return

Spec == Init /\ [][Next]_vars

\* The client and its watch go on; the endpoint may be silent for as long as
\* its timeout, so nothing is asked of it, or of the timeout.
FairSpec ==
  /\ Spec
  /\ WF_vars(Connected \/ ConnectFails) /\ WF_vars(Frame) /\ WF_vars(Watch)
  /\ WF_vars(Closed) /\ WF_vars(Return)

(* ------------------------------ properties ----------------------------- *)

\* An answer is the whole answer: the endpoint said it was over, and every
\* delta and every fragment of a call it sent before that is in it.  A stream
\* that was cut, refused or cancelled hands out no calls, neither its complete
\* ones nor those of the request before: the agent runs none of them.
AnswerIsWhole ==
  IF result = "answered"
  THEN ended /\ text = said /\ heard = said /\ tool_calls = asked
  ELSE tool_calls = 0

\* A request nobody broke leaves its connection open for the next turn.
ConnectionKept == result = "answered" /\ ~blame => socket

\* What the comment of the receiver says: only a cancellation aborts a
\* request and closes its connection.
\* The code does not keep it: see the README.
OnlyCancelAborts == [][pending # <<>> /\ socket /\ ~socket' => cancel]_vars

\* A caller that cancels gets out, although the endpoint stays silent.
CancelEnds == (cancel /\ at # "idle") ~> at = "idle"
=============================================================================
