------------------------------- MODULE Agent --------------------------------
(***************************************************************************)
(* One turn with tools: llm_agent_run of src/llm-agent.cpp.                *)
(*                                                                         *)
(* A round is a stream of deltas and the calls it ends on.  The calls run  *)
(* one after the other, each is answered with a message, and the whole     *)
(* list of messages travels again with the next round.  The deltas reach   *)
(* the caller through a tap, which keeps the words of two rounds apart.    *)
(*                                                                         *)
(* A delta is a word or a space; a call is the tool it names; what a       *)
(* stream or a server answers is open, a failure included.                 *)
(***************************************************************************)
EXTENDS Integers, Sequences, SequencesExt

CONSTANTS MaxRounds,   \* max_rounds of the session
          MaxCalls,    \* bound: calls of one answer
          MaxDeltas,   \* bound: deltas of one answer
          Tools        \* the tools a model names, out of AllTools

\* A tool the process runs, one of a server, one the session did not check,
\* and a name no tool has.
AllTools == {"builtin", "server", "unchecked", "unknown"}

ASSUME AgentAssumption ==
  /\ MaxRounds \in Nat \ {0} /\ MaxCalls \in Nat /\ MaxDeltas \in Nat
  /\ Tools \subseteq AllTools

VARIABLES
  at,        \* "gather", "stream", "call", "over"
  round,     \* rounds begun
  messages,  \* assistant messages with their calls, and the tool messages
  calls,     \* the calls of the answer not run yet, ids and tools
  open,      \* on_call heard the first of calls start, not end
  text,      \* the words of the rounds that ended
  answer,    \* the words of this round
  separate, spaced,  \* of the tap
  cancel,    \* the flag of the caller
  result,    \* "none", "true", "false"
  heard,     \* history: what the caller heard, with the round that wrote it
  ids,       \* history: calls so far, each its own id
  ran        \* history: the tools that returned a result

tap == <<separate, spaced>>
vars == <<at, round, messages, calls, open, text, answer, tap, cancel, result, heard, ids, ran>>

Tap == 0   \* the writer of a space of the tap

Init ==
  /\ at = "gather" /\ round = 0 /\ messages = <<>> /\ calls = <<>> /\ open = FALSE
  /\ text = <<>> /\ answer = <<>> /\ separate = FALSE /\ spaced = FALSE
  /\ cancel = FALSE /\ result = "none" /\ heard = <<>> /\ ids = 0 /\ ran = {}

Over(how) == at' = "over" /\ result' = how

Cancel ==
  /\ at # "over" /\ ~cancel
  /\ cancel' = TRUE
  /\ UNCHANGED <<at, round, messages, calls, open, text, answer, tap, result, heard, ids, ran>>

(* ------------------------------- a round ------------------------------- *)

WordLast(words) == words # <<>> /\ Last(words) # "space"

\* Variant: the tap looks at the last round only, not at all of the text.
BeginAfterLast(words) ==
  /\ at' = "stream" /\ round' = round + 1
  /\ separate' = WordLast(answer) /\ spaced' = FALSE /\ answer' = <<>>

\* A round begins after the words of those before it.
Begin(words) ==
  /\ at' = "stream" /\ round' = round + 1
  /\ separate' = WordLast(words) /\ spaced' = FALSE /\ answer' = <<>>

\* The tools are listed.  It fails when a cancel cut the listing, or when
\* nobody offers a tool.
Gather ==
  /\ at = "gather"
  /\ Begin(text)
  /\ UNCHANGED <<messages, calls, open, text, cancel, result, heard, ids, ran>>

NoTools ==
  /\ at = "gather"
  /\ Over("false")
  /\ UNCHANGED <<round, messages, calls, open, text, answer, tap, cancel, heard, ids, ran>>

\* A delta goes through the tap; the caller refuses what follows a cancel.
Delta ==
  /\ at = "stream" /\ Len(answer) < MaxDeltas
  /\ \E delta \in {"word", "space"} :
       LET apart == separate /\ delta # "space"
           piece(word, writer) == [what |-> word, by |-> writer]
           gap == IF apart THEN <<piece("space", Tap)>> ELSE <<>>
       IN  /\ spaced' = (spaced \/ apart) /\ separate' = FALSE
           /\ answer' = Append(answer, delta)
           /\ heard' = heard \o gap \o (IF apart /\ cancel THEN <<>> ELSE <<piece(delta, round)>>)
  /\ IF cancel THEN Over("false") ELSE UNCHANGED <<at, result>>
  /\ UNCHANGED <<round, messages, calls, open, text, cancel, ids, ran>>

StreamFails ==
  /\ at = "stream"
  /\ Over("false")
  /\ UNCHANGED <<round, messages, calls, open, text, answer, tap, cancel, heard, ids, ran>>

\* The text of the rounds, the space of the tap included.
Written == text \o (IF spaced THEN <<"space">> ELSE <<>>) \o answer

\* The answer is whole: it ends the turn, or asks for calls.
StreamEnds ==
  /\ at = "stream" /\ ~cancel
  /\ text' = Written
  /\ \E n \in 0 .. MaxCalls : \E asked \in [1 .. n -> Tools] :
       /\ calls' = [i \in 1 .. n |-> [id |-> ids + i, tool |-> asked[i]]]
       /\ ids' = ids + n
       /\ IF n = 0
          THEN Over("true") /\ UNCHANGED messages
          ELSE /\ at' = "call" /\ UNCHANGED result
               /\ messages' = Append(messages,
                    [role |-> "assistant", ids |-> [i \in 1 .. n |-> ids + i]])
  /\ UNCHANGED <<round, open, answer, tap, cancel, heard, ran>>

(* ------------------------------- the calls ----------------------------- *)

Start ==
  /\ at = "call" /\ calls # <<>> /\ ~open
  /\ open' = TRUE
  /\ UNCHANGED <<at, round, messages, calls, text, answer, tap, cancel, result, heard, ids, ran>>

\* The call is answered with its result, or with its error.
Answer ==
  /\ messages' = Append(messages, [role |-> "tool", ids |-> <<Head(calls).id>>])
  /\ calls' = Tail(calls)

\* A tool of the process looks at no flag; one of a server is cut by it.
\* Every tool there is runs, one the session did not check like the others.
Runs(tool) == tool # "unknown" /\ (tool # "server" \/ ~cancel)

Returns ==
  /\ open /\ Runs(Head(calls).tool)
  /\ open' = FALSE /\ ran' = ran \cup {Head(calls).tool}
  /\ Answer
  /\ UNCHANGED <<at, round, text, answer, tap, cancel, result, heard, ids>>

\* Variant: a call that fails is passed over.
FailsUnanswered ==
  /\ open
  /\ open' = FALSE
  /\ IF cancel
     THEN Over("false") /\ UNCHANGED <<messages, calls>>
     ELSE calls' = Tail(calls) /\ UNCHANGED <<at, result, messages>>
  /\ UNCHANGED <<round, text, answer, tap, cancel, heard, ids, ran>>

\* The model reads why its call failed; a cancel ends the turn.
Fails ==
  /\ open
  /\ open' = FALSE
  /\ IF cancel
     THEN Over("false") /\ UNCHANGED <<messages, calls>>
     ELSE Answer /\ UNCHANGED <<at, result>>
  /\ UNCHANGED <<round, text, answer, tap, cancel, heard, ids, ran>>

\* The calls are done: another round, up to the cap.
Again ==
  /\ at = "call" /\ calls = <<>>
  /\ IF round < MaxRounds
     THEN Begin(text) /\ UNCHANGED result
     ELSE Over("false") /\ UNCHANGED <<round, answer, tap>>
  /\ UNCHANGED <<messages, calls, open, text, cancel, heard, ids, ran>>

Next ==
  \/ Cancel \/ Gather \/ NoTools
  \/ Delta \/ StreamFails \/ StreamEnds
  \/ Start \/ Returns \/ Fails \/ Again

Spec == Init /\ [][Next]_vars

(* ------------------------------ properties ----------------------------- *)

\* What a round sends is a conversation an endpoint accepts: the calls of an
\* assistant message are all answered, once and in order, by the messages
\* right after it, and nothing else is answered.  A call the caller heard
\* start was heard to end by then, a cancelled one too (llm-agent.h).
RequestsAnswered ==
  /\ open => at = "call" /\ calls # <<>>
  /\ at = "stream" =>
    /\ \A i \in DOMAIN messages : messages[i].role = "assistant" =>
         \A k \in DOMAIN messages[i].ids :
           /\ i + k \in DOMAIN messages
           /\ messages[i + k] = [role |-> "tool", ids |-> <<messages[i].ids[k]>>]
    /\ \A j \in DOMAIN messages : messages[j].role = "tool" =>
         \E i \in 1 .. j - 1 : messages[i].role = "assistant" /\ j <= i + Len(messages[i].ids)

\* llm-agent.h: the text of a turn that ends is what its caller heard.
TextIsHeard == result = "true" => text = [i \in DOMAIN heard |-> heard[i].what]

\* The words of two rounds are never glued, and the tap adds no space to a
\* space.
RoundsApart ==
  \A i \in 1 .. Len(heard) - 1 :
    LET a == heard[i]  b == heard[i + 1] IN
    /\ a.what = "word" /\ b.what = "word" => a.by = b.by
    /\ Tap \in {a.by, b.by} => a.what # b.what

\* The sentence before the calls and the one after stay two, for the splitter
\* that hears them and in the text.
RoundsSpoken == TextIsHeard /\ RoundsApart

\* docs/ARCHITECTURE.md 217: a barge-in cuts a round the way it cuts a plain
\* answer, a tool in flight included: no tool starts after it.
\* The code does not keep it: see the README.
NoToolAfterCancel == [][cancel /\ ~open => ~open']_vars

\* docs/ARCHITECTURE.md 223: a call of a tool that was not offered fails, and
\* is answered with the reason.
\* The code does not keep it: see the README.
OnlyOfferedRuns == "unchecked" \notin ran
=============================================================================
