------------------------------ MODULE Settings ------------------------------
(***************************************************************************)
(* The settings of a connection: rt_parse of src/realtime-proto.h and      *)
(* conn_apply_patch, conn_set_voice and conn_answer of                     *)
(* src/s2s-conversation.cpp.  The page owns the session: whenever one of   *)
(* its options changes it sends the whole of them, and it hears of what    *)
(* the model changed.  The reader applies an update, the responder takes a *)
(* copy for every answer, and the set_voice tool writes to both.           *)
(*                                                                         *)
(* A number is one of three fields, one for every way a number is read and *)
(* used; the fields that travel alike are abstracted into one.             *)
(***************************************************************************)
EXTENDS Integers, Sequences

CONSTANTS Urls, Keys,  \* what a client may name
          Host,        \* the host of every URL
          Hosts,       \* the hosts allowed, none for all
          Own,         \* the endpoint of the server, when it names one
          Voices,
          MaxSent,     \* bound: frames of the page
          MaxSwitches, \* bound: calls of set_voice
          MaxAnswers   \* bound: answers

None == "none"
ASSUME SettingsAssumption ==
  /\ DOMAIN Host = Urls /\ None \notin Urls \cup Keys \cup Voices
  /\ {MaxSent, MaxSwitches, MaxAnswers} \subseteq Nat

VARIABLES
  fixed,     \* the server names its endpoint, and its MCP servers
  \* the page
  options,   \* as it sends them
  heard,     \* how many changes of the voice it heard of
  up, down,  \* frames to the server, events to the page
  \* the connection
  client,    \* conn->client
  params,    \* conn->params
  session,   \* those its session runs with
  echo,
  canceller, \* "none", "runs", or "failed": asked for and not made
  llm,       \* the endpoint client: what it last was pointed at
  servers,   \* the MCP servers the agent was made for
  speech,    \* the copy of the answer in flight, and what it has to tell
  \* history variables
  sent, switches, started, \* how often each happened
  given,     \* the keys the page gave, each with its URL
  last,      \* the last update applied, and the list
  turned,    \* the tool changed the voice since
  crossed,   \* that update left before the page heard of the voice
  refused    \* it was answered with an error

page == <<options, heard, up>>
settings == <<client, params, session, echo, canceller>>
answer == <<llm, servers, speech>>
ghosts == <<sent, switches, started, given, last, turned, crossed, refused>>
vars == <<fixed, page, down, settings, answer, ghosts>>

(* ------------------------------- numbers ------------------------------- *)

Fields == {"temperature", "max_rounds", "barge_in_ms"}
Default == [temperature |-> -1, max_rounds |-> 10, barge_in_ms |-> 384]
Absent == [field |-> "temperature", given |-> "absent", n |-> 0]
Texts == {[field |-> f, given |-> "text", n |-> 0] : f \in Fields}
Number(f, n) == [field |-> f, given |-> "number", n |-> n]
Numbers ==
  {Absent} \cup Texts
    \cup {Number("temperature", n) : n \in {-1, 0, 1000001}}
    \cup {Number("max_rounds", n) : n \in {-1, 0, 1}}
    \cup {Number("barge_in_ms", n) : n \in {0, 60000, 60001}}

\* A real may be negative, a count and a duration may not.
InRange(m) ==
  /\ m.given = "number"
  /\ m.n >= (IF m.field = "temperature" THEN -1000000 ELSE 0)
  /\ m.n <= (IF m.field = "barge_in_ms" THEN 60000 ELSE 1000000)

\* A number out of its range is refused and read as absent.
Read(m) == IF InRange(m) THEN m.n ELSE -1
Invalid(m) == m.given # "absent" /\ ~InRange(m)

\* What reads as absent takes the default, and so do no rounds.
Takes(m) == Read(m) >= (IF m.field = "max_rounds" THEN 1 ELSE 0)
InForce(m) == IF Takes(m) THEN [Default EXCEPT ![m.field] = Read(m)] ELSE Default
Listening(numbers) == [barge_in_ms |-> numbers.barge_in_ms]

(* ------------------------------- updates ------------------------------- *)

Endpoint(url, key) == [url |-> url, key |-> key]
NoEndpoint == Endpoint(None, None)
Endpoints == [url : Urls \cup {None}, key : Keys \cup {None}]
Effects == {"off", "jarvis"}
\* How the echo is canceled: here, in the browser, in both ("off" as "client").
Methods == {"server", "both", "client"}
\* The mode is free: any of them may be in force.
Modes == {"loopback", "conversation", "agentic"}

Patch ==
  [endpoint |-> NoEndpoint, mcp |-> {}, voice |-> None, effect |-> None,
   echo |-> None, number |-> Absent]

OwnEndpoint == IF fixed THEN Own ELSE NoEndpoint
OwnServers == IF fixed THEN {Own} ELSE {}
Silent ==
  [on |-> FALSE, agentic |-> FALSE, voice |-> None, effect |-> "off", asked |-> None,
   tells |-> FALSE]
Defaults ==
  [endpoint |-> OwnEndpoint, mcp |-> OwnServers, voice |-> None, effect |-> "off",
   numbers |-> Default, history |-> 0]

Allowed(url) == Hosts = {} \/ Host[url] \in Hosts

\* A key travels with its URL, and an endpoint of the server stays.
Points(held, p) == IF fixed \/ p.url = None \/ ~Allowed(p.url) THEN held ELSE p

\* A field an update leaves out takes the default; the list stays.
Base(held) == [Defaults EXCEPT !.history = held.history]

Updated(held, p) ==
  LET base == Base(held) IN
  [endpoint |-> Points(base.endpoint, p.endpoint),
   mcp |-> IF fixed THEN base.mcp ELSE {s \in p.mcp : Allowed(s.url)},
   voice |-> IF p.voice = None THEN base.voice ELSE p.voice,
   effect |-> IF p.effect \in Effects THEN p.effect ELSE base.effect,
   numbers |-> IF Takes(p.number) THEN [base.numbers EXCEPT ![p.number.field] = Read(p.number)]
               ELSE base.numbers,
   history |-> base.history]

\* What the reader answers with an error.
Errors(p) ==
  \/ fixed /\ p.endpoint # NoEndpoint
  \/ ~fixed /\ p.endpoint.url # None /\ ~Allowed(p.endpoint.url)
  \/ p.mcp # {} /\ (fixed \/ \E s \in p.mcp : ~Allowed(s.url))
  \/ p.effect \notin Effects \cup {None}
  \/ Invalid(p.number)

(* -------------------------------- the page ----------------------------- *)

Init ==
  /\ fixed \in BOOLEAN
  /\ options = Patch /\ heard = 0 /\ up = <<>> /\ down = <<>>
  /\ client = Defaults /\ params = Listening(Default) /\ session = Listening(Default)
  /\ echo = "client" /\ canceller = "none"
  /\ llm = NoEndpoint /\ servers = {} /\ speech = Silent
  /\ sent = 0 /\ switches = 0 /\ started = 0
  /\ given = {} /\ last = [patch |-> Patch, history |-> 0]
  /\ turned = FALSE /\ crossed = FALSE /\ refused = FALSE

\* The user changes an option, and the page sends them all.
Changes ==
  \/ \E e \in Endpoints : options' = [options EXCEPT !.endpoint = e]
  \/ \E s \in {{}} \cup {{e} : e \in [url : Urls, key : Keys]} :
       options' = [options EXCEPT !.mcp = s]
  \/ \E v \in Voices \cup {None}, e \in Effects \cup {None, "unknown"} :
       options' = [options EXCEPT !.voice = v, !.effect = e]
  \/ \E m \in Methods \cup {None} : options' = [options EXCEPT !.echo = m]
  \/ \E m \in Numbers : options' = [options EXCEPT !.number = m]

SendUpdate ==
  /\ sent < MaxSent /\ sent' = sent + 1
  /\ Changes
  /\ up' = Append(up, [kind |-> "session.update", patch |-> options', heard |-> heard])
  /\ given' = given \cup {options'.endpoint} \cup options'.mcp
  /\ UNCHANGED <<fixed, heard, down, settings, answer, switches, started, last, turned,
                 crossed, refused>>

SendHistory ==
  /\ sent < MaxSent /\ sent' = sent + 1
  /\ up' = Append(up, [kind |-> "conversation.history", patch |-> options, heard |-> heard])
  /\ UNCHANGED <<fixed, options, heard, down, settings, answer, switches, started, given, last,
                 turned, crossed, refused>>

\* The page hears of another voice: its next update carries it.
HearVoice ==
  /\ down # <<>> /\ down' = Tail(down) /\ heard' = heard + 1
  /\ options' = [options EXCEPT !.voice = Head(down).voice, !.effect = Head(down).effect]
  /\ UNCHANGED <<fixed, up, settings, answer, ghosts>>

(* ------------------------------- the reader ---------------------------- *)

Asks(method) == method \in {"server", "both"}

\* A canceller is made anew when the method changes, and only then: one that
\* could not be made, lv_state_new having failed to grow, is told to nobody
\* and not tried again when the same method is named.
Cancels(method) ==
  \/ method \in {None, echo} /\ UNCHANGED <<echo, canceller>>
  \/ /\ method \notin {None, echo} /\ echo' = method
     /\ canceller' \in (IF Asks(method) THEN {"runs", "failed"} ELSE {"none"})

\* Variant: the parameters of before are read after they were reset.
ChangedSinceReset(new) == new # Listening(Default)
\* Only a change of the thresholds reaches the session.
Changed(new) == new # params

ApplyUpdate ==
  /\ up # <<>> /\ Head(up).kind = "session.update" /\ up' = Tail(up)
  /\ LET p == Head(up).patch
         new == Listening(InForce(p.number))
     IN  /\ client' = Updated(client, p)
         /\ Cancels(p.echo)
         /\ params' = new
         /\ session' = IF Changed(new) THEN new ELSE session
         /\ last' = [last EXCEPT !.patch = p]
         /\ refused' = Errors(p)
  /\ turned' = FALSE /\ crossed' = (Head(up).heard < switches)
  /\ UNCHANGED <<fixed, options, heard, down, answer, sent, switches, started, given>>

TakeHistory ==
  /\ up # <<>> /\ Head(up).kind = "conversation.history" /\ up' = Tail(up)
  /\ client' = [client EXCEPT !.history = @ + 1]
  /\ last' = [last EXCEPT !.history = @ + 1]
  /\ UNCHANGED <<fixed, options, heard, down, params, session, echo, canceller, answer, sent,
                 switches, started, given, turned, crossed, refused>>

(* ----------------------------- the responder --------------------------- *)

\* Variant: the endpoint client goes on with its key when the new URL has none.
PointedKeepingKey(e) == IF e.key = None THEN [e EXCEPT !.key = llm.key] ELSE e
\* The endpoint client is pointed at URL and key together.
Pointed(e) == e

\* An answer takes the settings as they stand, and the endpoint and the
\* agent follow them.
AnswerStarts ==
  /\ ~speech.on /\ started < MaxAnswers /\ started' = started + 1
  /\ \E mode \in Modes :
       LET asks == mode # "loopback" /\ client.endpoint.url # None IN
         /\ speech' = [Silent EXCEPT !.on = TRUE, !.agentic = asks /\ mode = "agentic",
                                     !.voice = client.voice, !.effect = client.effect]
         /\ llm' = IF asks THEN Pointed(client.endpoint) ELSE llm
         /\ servers' = IF asks /\ mode = "agentic" THEN client.mcp ELSE servers
  /\ UNCHANGED <<fixed, page, down, settings, sent, switches, given, last, turned, crossed,
                 refused>>

\* The model calls set_voice, with an effect or without.
SetVoice ==
  /\ speech.agentic /\ ~speech.tells /\ switches < MaxSwitches /\ switches' = switches + 1
  /\ \E v \in Voices, e \in Effects \cup {None} :
       LET effect == IF e = None THEN speech.effect ELSE e IN
         /\ speech' = [speech EXCEPT !.voice = v, !.effect = effect, !.asked = e, !.tells = TRUE]
         /\ client' = [client EXCEPT !.voice = v, !.effect = effect]
  /\ turned' = TRUE
  /\ UNCHANGED <<fixed, page, down, params, session, echo, canceller, llm, servers, sent, started,
                 given, last, crossed, refused>>

\* Variant: the client hears of the voice alone.
EventOfVoice == [voice |-> speech.voice, effect |-> options.effect]
Event == [voice |-> speech.voice, effect |-> speech.effect]

\* The client hears of it, once the mutex is released.
TellVoice ==
  /\ speech.tells /\ speech' = [speech EXCEPT !.tells = FALSE]
  /\ down' = Append(down, Event)
  /\ UNCHANGED <<fixed, page, settings, llm, servers, ghosts>>

AnswerEnds ==
  /\ speech.on /\ ~speech.tells /\ speech' = Silent
  /\ UNCHANGED <<fixed, page, down, settings, llm, servers, ghosts>>

Next ==
  \/ SendUpdate \/ SendHistory \/ HearVoice
  \/ ApplyUpdate \/ TakeHistory
  \/ AnswerStarts \/ SetVoice \/ TellVoice \/ AnswerEnds
Spec == Init /\ [][Next]_vars

(* ------------------------------ properties ----------------------------- *)

\* A session is its last update and nothing of the ones before: the settings
\* are those a new connection would have after it, but for the list, which
\* has its own frame, and the voice, which the model may have changed since.
\* The session listens with those very thresholds, and no canceller is left
\* of a method that is no longer in force.
NothingKept ==
  LET fresh == Updated(Defaults, last.patch)
      voice == IF turned THEN client.voice ELSE fresh.voice
      effect == IF turned THEN client.effect ELSE fresh.effect
  IN  /\ client = [fresh EXCEPT !.history = last.history, !.voice = voice, !.effect = effect]
      /\ session = params /\ params = Listening(client.numbers)
      /\ ~Asks(echo) => canceller = "none"

\* What an update asks for and was not answered with an error is in force,
\* but for the numbers that read as absent and for a canceller that could not
\* be made.
RefusalIsTold ==
  LET p == last.patch IN
    ~refused =>
      /\ p.endpoint.url # None => client.endpoint = p.endpoint
      /\ p.endpoint # NoEndpoint => ~fixed
      /\ p.mcp # {} => client.mcp = p.mcp
      /\ p.effect # None /\ ~turned => client.effect = p.effect
      /\ Takes(p.number) => client.numbers[p.number.field] = p.number.n
      /\ p.echo # None => echo = p.echo /\ (Asks(p.echo) => canceller # "none")

\* "server and both run a canceller here" (s2s-conversation.cpp:245).
\* The code does not keep it: see the README.
CancellerAsAsked == Asks(echo) => canceller = "runs"

\* All of an update, or an error that tells of the rest.
UpdateIsWhole == NothingKept /\ RefusalIsTold

\* A key is only ever held for the URL it was given with, by the session, by
\* the endpoint client or by the agent; a host is one of those allowed; and
\* nobody changes an endpoint of the server.
KeyTravels ==
  LET held == ({client.endpoint, llm} \cup client.mcp \cup servers) \ {NoEndpoint} IN
    IF fixed THEN held \subseteq {Own}
             ELSE \A e \in held : e \in given /\ Allowed(e.url)

\* Once nothing is under way, the page and the server agree on the voice and
\* its effect, whoever changed them last, unless the last update left before
\* the page heard of the change.
VoiceAgrees ==
  up = <<>> /\ down = <<>> /\ ~speech.tells /\ ~crossed =>
    /\ client.voice = options.voice
    /\ client.effect = IF options.effect \in Effects THEN options.effect ELSE "off"

\* "A call without effect leaves the effect as it is" (s2s-conversation.cpp:596),
\* in the words of the settings: no call of set_voice brings back an effect
\* the client had replaced during the answer.
EffectLeftAlone ==
  [][SetVoice /\ speech'.asked = None => client'.effect = client.effect]_vars
===============================================================================
