-------------------------------- MODULE Mcp ---------------------------------
(***************************************************************************)
(* The client of one MCP server, src/mcp-client.cpp: the handshake that    *)
(* opens a session, the requests on it, and the repetition of a request    *)
(* when the server forgot the session.                                     *)
(*                                                                         *)
(* A call of the client is a stack of exchanges: mcp_exchange opens a      *)
(* session, by exchanges of its own, before it repeats its message.  A     *)
(* step is one POST with what came back.  The server may forget a session  *)
(* at any time, run a request and lose its answer, or refuse it.           *)
(***************************************************************************)
EXTENDS Integers, Sequences

CONSTANTS MaxCalls,      \* bound: calls of the client
          MaxSessions    \* bound: sessions the server opens

VARIABLES
  open,       \* the handshake is over
  session,    \* Mcp-Session-Id, 0 for none
  stack,      \* the exchanges under way, the current one last
  cancel,
  keeps,      \* the server keeps sessions
  known,      \* the sessions it knows
  ready,      \* those whose handshake it saw the end of
  given,      \* sessions it opened so far
  calls,      \* calls begun
  result,     \* of the last call: "none" while it runs, "done", "failed"
  runs,       \* history: times the server ran the request of this call
  openings,   \* history: sessions this call opened
  trouble,    \* history: something else than an old session went wrong
  doubled     \* history: an initialize was itself repeated on a new session

client == <<open, session, stack>>
server == <<keeps, known, ready, given>>
history == <<calls, result, runs, openings, trouble, doubled>>
vars == <<client, cancel, server, history>>

Exchange(what, retry) == [what |-> what, retry |-> retry]

Init ==
  /\ open = FALSE /\ session = 0 /\ stack = <<>> /\ cancel = FALSE
  /\ keeps \in BOOLEAN /\ known = {} /\ ready = {} /\ given = 0
  /\ calls = 0 /\ result = "done" /\ runs = 0 /\ openings = 0 /\ trouble = FALSE
  /\ doubled = FALSE

Running == stack # <<>>
Current == stack[Len(stack)]
Outer == SubSeq(stack, 1, Len(stack) - 1)

\* mcp_client_open_session, the first of its two exchanges.
Opening == Exchange("initialize", TRUE)

\* mcp_client_tools or mcp_client_call: a client that is open does not open.
Begin ==
  /\ ~Running /\ calls < MaxCalls
  /\ calls' = calls + 1
  /\ result' = "none" /\ runs' = 0 /\ openings' = 0 /\ trouble' = FALSE
  /\ cancel' = FALSE
  /\ stack' = IF open THEN <<Exchange("request", TRUE)>>
                      ELSE <<Exchange("request", TRUE), Opening>>
  /\ UNCHANGED <<open, session, server, doubled>>

\* Every failure unwinds the whole stack: the call returns false.
Unwind ==
  /\ stack' = <<>>
  /\ result' = "failed"
Fail == Unwind /\ trouble' = TRUE

(* ----------------------------- the server ------------------------------ *)

Forgotten == keeps /\ session # 0 /\ session \notin known

\* The server takes the message: a session, the end of a handshake, or a run.
Serves(kind) ==
  /\ kind # "initialize" => ~Forgotten
  /\ given' = IF kind = "initialize" /\ keeps THEN given + 1 ELSE given
  /\ given' <= MaxSessions
  /\ known' = IF kind = "initialize" /\ keeps THEN known \union {given'} ELSE known
  /\ ready' = IF kind = "initialized" THEN ready \union ({session} \ {0}) ELSE ready
  /\ runs' = IF kind = "request" THEN runs + 1 ELSE runs
  /\ UNCHANGED keeps

\* A restart, or an expiry.  Within a call it is one of the troubles.
Forget ==
  /\ known # {}
  /\ known' = {}
  /\ trouble' = (trouble \/ Running)
  /\ UNCHANGED <<client, cancel, keeps, ready, given, calls, result, runs, openings, doubled>>

(* ------------------------------ exchanges ------------------------------ *)

\* Variant: the session counts as open before the server heard the end of
\* the handshake.
InitializedOpen ==
  /\ ~cancel /\ Running /\ Current.what = "initialize"
  /\ Serves("initialize")
  /\ session' = IF keeps THEN given' ELSE session
  /\ stack' = Append(Outer, Exchange("initialized", TRUE))
  /\ openings' = openings + 1
  /\ open' = TRUE
  /\ UNCHANGED <<cancel, calls, result, trouble, doubled>>

\* initialize answered: the session and the version are kept, and the
\* notification follows.
Initialized ==
  /\ ~cancel /\ Running /\ Current.what = "initialize"
  /\ Serves("initialize")
  /\ session' = IF keeps THEN given' ELSE session
  /\ stack' = Append(Outer, Exchange("initialized", TRUE))
  /\ openings' = openings + 1
  /\ UNCHANGED <<open, cancel, calls, result, trouble, doubled>>

\* initialize answered with a version nobody speaks, or without a result: the
\* session it gave is kept all the same.
Unsupported ==
  /\ ~cancel /\ Running /\ Current.what = "initialize"
  /\ Serves("initialize")
  /\ session' = IF keeps THEN given' ELSE session
  /\ openings' = openings + 1
  /\ Fail
  /\ UNCHANGED <<open, cancel, calls, doubled>>

\* The notification is taken: the session is open, and the exchange that
\* waited for it goes on.
Opened ==
  /\ ~cancel /\ Running /\ Current.what = "initialized"
  /\ Serves("initialized")
  /\ open' = TRUE
  /\ stack' = Outer
  /\ UNCHANGED <<session, cancel, calls, result, openings, trouble, doubled>>

Answered ==
  /\ ~cancel /\ Running /\ Current.what = "request"
  /\ Serves("request")
  /\ stack' = <<>>
  /\ result' = "done"
  /\ UNCHANGED <<open, session, cancel, calls, openings, trouble, doubled>>

\* 404 on a session the server forgot: a new session first, then the same
\* message, which is not repeated again.
Reopen ==
  /\ ~cancel /\ Running /\ Forgotten /\ Current.retry
  /\ session' = 0
  /\ open' = FALSE
  /\ stack' = Outer \o <<[Current EXCEPT !.retry = FALSE], Opening>>
  /\ doubled' = (doubled \/ Current.what = "initialize")
  /\ UNCHANGED <<cancel, server, calls, result, runs, openings, trouble>>

\* Another 404 for the message that was repeated: it is an error status now.
RefusedAgain ==
  /\ ~cancel /\ Running /\ Forgotten /\ ~Current.retry
  /\ Unwind
  /\ UNCHANGED <<open, session, cancel, server, calls, runs, openings, trouble, doubled>>

\* An error status, no connection.
Refused ==
  /\ ~cancel /\ Running
  /\ Fail
  /\ UNCHANGED <<open, session, cancel, server, calls, runs, openings, doubled>>

\* Variant: a message whose answer was lost is sent again.
LostRepeated ==
  /\ ~cancel /\ Running
  /\ Serves(Current.what)
  /\ IF Current.retry
     THEN /\ stack' = Append(Outer, [Current EXCEPT !.retry = FALSE])
          /\ UNCHANGED <<result, trouble>>
     ELSE Fail
  /\ UNCHANGED <<open, session, cancel, calls, openings, doubled>>

\* The server did what it was asked and its answer was lost.
Lost ==
  /\ ~cancel /\ Running
  /\ Serves(Current.what)
  /\ Fail
  /\ UNCHANGED <<open, session, cancel, calls, openings, doubled>>

\* A cancel, and the POST it ends, served or not: nothing of it is read.
Cancel ==
  /\ Running /\ ~cancel
  /\ cancel' = TRUE
  /\ UNCHANGED <<client, server, history>>

Cancelled ==
  /\ cancel /\ Running
  /\ Serves(Current.what) \/ UNCHANGED <<server, runs>>
  /\ Fail
  /\ UNCHANGED <<open, session, cancel, calls, openings, doubled>>

\* mcp_client_free: the session is ended on the server.
Free ==
  /\ ~Running /\ calls = MaxCalls /\ session # 0
  /\ known' = known \ {session}
  /\ session' = 0 /\ open' = FALSE
  /\ UNCHANGED <<stack, cancel, keeps, ready, given, history>>

Next ==
  \/ Begin \/ Initialized \/ Unsupported \/ Opened \/ Answered \/ Reopen
  \/ RefusedAgain \/ Refused \/ Lost \/ Cancel \/ Cancelled \/ Forget \/ Free

Spec == Init /\ [][Next]_vars

(* ------------------------------ properties ----------------------------- *)

\* A tool with an effect is not run twice for one call of the model: a
\* request is repeated only when the server had not taken it.  Yet a session
\* the server forgot between two calls costs the next one nothing: a new one
\* is opened and the request repeated.
RunsOnce == runs <= 1
OldSessionHeals == result = "failed" => trouble
RepeatsSafely == RunsOnce /\ OldSessionHeals

\* initialize and the notification open a session, then come the requests: a
\* request is only ever run on a session whose handshake the server saw the
\* end of.
\* The code does not keep it: see the README.
RunsOnReady ==
  [][runs' > runs => (keeps => session \in ready)]_vars

\* The same while no initialize was itself repeated: whatever failed, was lost
\* or was cancelled in an earlier handshake.
RunsOnReadyOnce ==
  [][runs' > runs /\ ~doubled => (keeps => session \in ready)]_vars

\* The header's words: a 404 starts a new session, and repeats the request
\* once.  A call opens a session at most twice, its own and the new one.
\* The code does not keep it: see the README.
OneNewSession == openings <= 2
=============================================================================
