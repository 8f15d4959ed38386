------------------------------ MODULE MCRequests ------------------------------
(***************************************************************************)
(* What a turn asks of others: the rounds of the agent, the streamed       *)
(* request of one round, and the session of one MCP server, checked side   *)
(* by side, each alone from its start.                                     *)
(***************************************************************************)
EXTENDS Agent

CONSTANTS MaxRequests, MaxFrames, MaxChunk, MaxServerCalls, MaxSessions

VARIABLES
  part,
  requests, where, socket, over, pending, written, passed, fragments, finish, done, failure,
  cancelled, dropped, tool_calls, outcome, frames, said, asked, ended, blame,
  opened, session, stack, stopped, keeps, known, ready, given, called, returned, runs, openings,
  trouble, doubled

stream ==
  <<requests, where, socket, over, pending, written, passed, fragments, finish, done, failure,
    cancelled, dropped, tool_calls, outcome, frames, said, asked, ended, blame>>
server ==
  <<opened, session, stack, stopped, keeps, known, ready, given, called, returned, runs,
    openings, trouble, doubled>>

Endpoint == INSTANCE LlmStream WITH
  at <- where, text <- written, heard <- passed, calls <- fragments, cancel <- dropped,
  result <- outcome
Server == INSTANCE Mcp WITH
  MaxCalls <- MaxServerCalls, open <- opened, cancel <- stopped, calls <- called,
  result <- returned

MCInit ==
  /\ part \in {"agent", "endpoint", "server"}
  /\ Init /\ Endpoint!Init /\ Server!Init
  /\ part # "server" => keeps

OfEndpoint(A) == part = "endpoint" /\ A /\ UNCHANGED <<part, vars, server>>
MCNext ==
  \/ part = "agent" /\ Next /\ UNCHANGED <<part, stream, server>>
  \/ OfEndpoint(Endpoint!Next)
  \/ part = "server" /\ Server!Next /\ UNCHANGED <<part, vars, stream>>

\* The client and its watch go on; the endpoint may be silent for as long as
\* its timeout, so nothing is asked of it, or of the timeout.
MCVars == <<part, vars, stream, server>>
MCSpec ==
  /\ MCInit /\ [][MCNext]_MCVars
  /\ WF_MCVars(OfEndpoint(Endpoint!Connected \/ Endpoint!ConnectFails))
  /\ WF_MCVars(OfEndpoint(Endpoint!Frame))
  /\ WF_MCVars(OfEndpoint(Endpoint!Watch))
  /\ WF_MCVars(OfEndpoint(Endpoint!Closed))
  /\ WF_MCVars(OfEndpoint(Endpoint!Return))

AnswerIsWhole == Endpoint!AnswerIsWhole
ConnectionKept == Endpoint!ConnectionKept
CancelEnds == Endpoint!CancelEnds
RepeatsSafely == Server!RepeatsSafely
RunsOnReadyOnce == Server!RunsOnReadyOnce
==============================================================================
