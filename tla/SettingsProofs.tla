--------------------------- MODULE SettingsProofs ---------------------------
(***************************************************************************)
(* What the settings of a connection promise, proved for any number of     *)
(* frames, answers and changes of voice, any URLs, keys and allowed hosts. *)
(*                                                                         *)
(* A key stays with its URL because every hand that passes one on passes   *)
(* both: the invariant follows a pair from the options of the page through *)
(* the frames on their way, the session, the endpoint client and the       *)
(* agent.  An update is whole because a session never reads what it held,  *)
(* but for the list: the invariant says so of every step between two.  The *)
(* voices agree because the page hears of every change: the invariant      *)
(* counts those on their way, and says whose word is the last.             *)
(***************************************************************************)
EXTENDS MCSettings, SequenceTheorems, TLAPS

(* -------------------------------- types -------------------------------- *)

VoiceNames == Voices \cup {None}
EffectNames == Effects \cup {None, "unknown"}
Kinds == {"session.update", "conversation.history"}
Patches ==
  [endpoint : Endpoints, mcp : SUBSET Endpoints, voice : VoiceNames, effect : EffectNames,
   echo : Methods \cup {None}, number : Numbers]
Frames == [kind : Kinds, patch : Patches, heard : Nat]

Typed ==
  /\ fixed \in BOOLEAN
  /\ options \in Patches /\ heard \in Nat
  /\ up \in Seq(Frames)
  /\ down \in Seq([voice : VoiceNames, effect : EffectNames])
  /\ DOMAIN client = {"endpoint", "mcp", "voice", "effect", "numbers", "history"}
  /\ client.voice \in VoiceNames /\ client.effect \in Effects
  /\ speech \in [on : BOOLEAN, agentic : BOOLEAN, voice : VoiceNames, effect : Effects,
                 asked : Effects \cup {None}, tells : BOOLEAN]
  /\ last \in [patch : Patches, history : Nat]
  /\ canceller \in {"none", "runs", "failed"}

LEMMA UpdatedShape ==
  \A held : \A p \in Patches :
    /\ DOMAIN Updated(held, p) =
         {"endpoint", "mcp", "voice", "effect", "numbers", "history"}
    /\ Updated(held, p).voice \in VoiceNames
    /\ Updated(held, p).effect \in Effects
BY DEF Updated, Base, Defaults, Patches, VoiceNames, Effects

\* An update reads nothing of what the session held.
LEMMA UpdatedEndpoint ==
  \A held : \A p \in Patches : Updated(held, p).endpoint = Points(OwnEndpoint, p.endpoint)
BY DEF Updated, Base, Defaults
LEMMA UpdatedServers ==
  \A held : \A p \in Patches :
    Updated(held, p).mcp = IF fixed THEN OwnServers ELSE {s \in p.mcp : Allowed(s.url)}
BY DEF Updated, Base, Defaults

LEMMA ChangesTyped == ASSUME options \in Patches, Changes PROVE options' \in Patches
<1>1. CASE \E e \in Endpoints : options' = [options EXCEPT !.endpoint = e]
  BY <1>1 DEF Patches
<1>2. CASE \E s \in {{}} \cup {{e} : e \in [url : Urls, key : Keys]} :
             options' = [options EXCEPT !.mcp = s]
  <2>1. PICK s \in {{}} \cup {{e} : e \in [url : Urls, key : Keys]} :
               options' = [options EXCEPT !.mcp = s]
    BY <1>2
  <2>2. s \in SUBSET Endpoints
    <3>1. [url : Urls, key : Keys] \subseteq Endpoints
      BY DEF Endpoints
    <3>2. QED BY <2>1, <3>1
  <2>3. QED BY <2>1, <2>2 DEF Patches
<1>3. CASE \E v \in Voices \cup {None}, e \in Effects \cup {None, "unknown"} :
             options' = [options EXCEPT !.voice = v, !.effect = e]
  BY <1>3 DEF Patches, VoiceNames, EffectNames
<1>4. CASE \E m \in Methods \cup {None} : options' = [options EXCEPT !.echo = m]
  BY <1>4 DEF Patches
<1>5. CASE \E m \in Numbers : options' = [options EXCEPT !.number = m]
  BY <1>5 DEF Patches
<1>6. QED BY <1>1, <1>2, <1>3, <1>4, <1>5 DEF Changes

LEMMA InitTyped == Init => Typed
<1>1. Patch \in Patches
  BY DEF Patch, Patches, NoEndpoint, Endpoint, Endpoints, VoiceNames, EffectNames, Numbers, None
<1>2. SUFFICES ASSUME Init PROVE Typed
  OBVIOUS
<1>3. QED BY <1>1, <1>2 DEF Init, Typed, Defaults, Silent, VoiceNames, EffectNames, Effects

LEMMA StepTyped == ASSUME Typed, [Next]_vars PROVE Typed'
<1>1. CASE SendUpdate
  <2>1. options' \in Patches
    BY <1>1, ChangesTyped DEF SendUpdate, Typed
  <2>2. QED BY <1>1, <2>1 DEF SendUpdate, Typed, Frames, Kinds, settings, answer
<1>2. CASE SendHistory
  BY <1>2 DEF SendHistory, Typed, Frames, Kinds, settings, answer
<1>3. CASE HearVoice
  <2>1. Head(down) \in [voice : VoiceNames, effect : EffectNames]
    BY <1>3, HeadTailProperties DEF HearVoice, Typed
  <2>2. options' \in Patches
    BY <1>3, <2>1 DEF HearVoice, Typed, Patches
  <2>3. QED BY <1>3, <2>2 DEF HearVoice, Typed, settings, answer, ghosts
<1>4. CASE ApplyUpdate
  <2>1. Head(up) \in Frames
    BY <1>4, HeadTailProperties DEF ApplyUpdate, Typed
  <2>2. client' = Updated(client, Head(up).patch) /\ Head(up).patch \in Patches
    BY <1>4, <2>1 DEF ApplyUpdate, Frames
  <2>3. /\ DOMAIN client' = {"endpoint", "mcp", "voice", "effect", "numbers", "history"}
        /\ client'.voice \in VoiceNames /\ client'.effect \in Effects
    BY <2>2, UpdatedShape
  <2>4. canceller' \in {"none", "runs", "failed"}
    BY <1>4 DEF ApplyUpdate, Cancels, Typed
  <2>5. last' \in [patch : Patches, history : Nat]
    BY <1>4, <2>2 DEF ApplyUpdate, Typed
  <2>6. up' \in Seq(Frames)
    BY <1>4 DEF ApplyUpdate, Typed
  <2>7. QED BY <1>4, <2>3, <2>4, <2>5, <2>6 DEF ApplyUpdate, Typed, answer
<1>5. CASE TakeHistory
  <2>1. up' \in Seq(Frames)
    BY <1>5, HeadTailProperties DEF TakeHistory, Typed
  <2>2. /\ DOMAIN client' = DOMAIN client
        /\ client'.voice = client.voice /\ client'.effect = client.effect
    BY <1>5 DEF TakeHistory, Typed
  <2>3. last' \in [patch : Patches, history : Nat]
    <3>1. last \in [patch : Patches, history : Nat] /\ last' = [last EXCEPT !.history = @ + 1]
      BY <1>5 DEF TakeHistory, Typed
    <3>2. last.history + 1 \in Nat
      BY <3>1
    <3>3. QED BY <3>1, <3>2
  <2>4. QED BY <1>5, <2>1, <2>2, <2>3 DEF TakeHistory, Typed, answer
<1>6. CASE AnswerStarts
  <2>1. speech' \in [on : BOOLEAN, agentic : BOOLEAN, voice : VoiceNames, effect : Effects,
                     asked : Effects \cup {None}, tells : BOOLEAN]
    BY <1>6, ZenonT(40) DEF AnswerStarts, Typed, Silent, Effects
  <2>2. QED BY <1>6, <2>1 DEF AnswerStarts, Typed, page, settings
<1>7. CASE SetVoice
  <2>1. /\ speech' \in [on : BOOLEAN, agentic : BOOLEAN, voice : VoiceNames, effect : Effects,
                        asked : Effects \cup {None}, tells : BOOLEAN]
        /\ DOMAIN client' = DOMAIN client
        /\ client'.voice \in VoiceNames /\ client'.effect \in Effects
    BY <1>7, ZenonT(40) DEF SetVoice, Typed, VoiceNames
  <2>2. QED BY <1>7, <2>1 DEF SetVoice, Typed, page
<1>8. CASE TellVoice
  <2>1. Event \in [voice : VoiceNames, effect : EffectNames]
    BY DEF Event, Typed, EffectNames
  <2>2. down' \in Seq([voice : VoiceNames, effect : EffectNames])
    BY <1>8, <2>1, AppendProperties DEF TellVoice, Typed
  <2>3. speech' \in [on : BOOLEAN, agentic : BOOLEAN, voice : VoiceNames, effect : Effects,
                     asked : Effects \cup {None}, tells : BOOLEAN]
    BY <1>8 DEF TellVoice, Typed
  <2>4. QED BY <1>8, <2>2, <2>3 DEF TellVoice, Typed, page, settings, ghosts
<1>9. CASE AnswerEnds
  BY <1>9 DEF AnswerEnds, Typed, page, settings, ghosts, Silent, VoiceNames, Effects
<1>10. CASE UNCHANGED vars
  BY <1>10 DEF Typed, vars, page, settings, answer, ghosts
<1>11. QED BY <1>1, <1>2, <1>3, <1>4, <1>5, <1>6, <1>7, <1>8, <1>9, <1>10 DEF Next

(* -------------------------------- keys --------------------------------- *)

\* An endpoint that may be held.
Held(e) == e = NoEndpoint \/ (IF fixed THEN e = Own ELSE e \in given /\ Allowed(e.url))
\* An update says nothing the page did not give.
Honest(pairs) ==
  {f \in Frames : f.kind = "session.update" => {f.patch.endpoint} \cup f.patch.mcp \subseteq pairs}

KeysHeld ==
  /\ up \in Seq(Honest(given))
  /\ Held(client.endpoint) /\ Held(llm)
  /\ \A e \in client.mcp \cup servers : Held(e)

LEMMA UpdatedHolds ==
  ASSUME NEW held, NEW p \in Patches, {p.endpoint} \cup p.mcp \subseteq given
  PROVE  /\ Held(Updated(held, p).endpoint)
         /\ \A e \in Updated(held, p).mcp : Held(e)
<1>1. Held(Points(OwnEndpoint, p.endpoint))
  BY DEF Held, Points, OwnEndpoint
<1>2. \A e \in (IF fixed THEN OwnServers ELSE {s \in p.mcp : Allowed(s.url)}) : Held(e)
  BY DEF Held, OwnServers
<1>3. QED BY <1>1, <1>2, UpdatedEndpoint, UpdatedServers

LEMMA InitHolds == Init => KeysHeld
BY DEF Init, KeysHeld, Held, Defaults, OwnEndpoint, OwnServers

LEMMA StepHolds == ASSUME Typed, KeysHeld, [Next]_vars PROVE KeysHeld'
<1>1. CASE SendUpdate
  <2>1. PICK frame : /\ frame = [kind |-> "session.update", patch |-> options', heard |-> heard]
                     /\ up' = Append(up, frame)
                     /\ UNCHANGED <<fixed, client, llm, servers>>
                     /\ given' = given \cup {options'.endpoint} \cup options'.mcp
    BY <1>1 DEF SendUpdate, settings, answer
  <2>2. frame \in Honest(given')
    <3>1. options' \in Patches /\ heard \in Nat
      BY StepTyped, <1>1 DEF Typed
    <3>2. frame \in Frames
      BY <2>1, <3>1 DEF Frames, Kinds
    <3>3. QED BY <2>1, <3>2 DEF Honest
  <2>3. up \in Seq(Honest(given'))
    <3>1. Honest(given) \subseteq Honest(given')
      BY <2>1 DEF Honest
    <3>2. QED BY <3>1 DEF KeysHeld
  <2>4. up' \in Seq(Honest(given'))
    BY <2>1, <2>2, <2>3, AppendProperties
  <2>5. QED BY <2>1, <2>4 DEF KeysHeld, Held, Allowed
<1>2. CASE SendHistory
  <2>1. PICK frame :
          /\ frame = [kind |-> "conversation.history", patch |-> options, heard |-> heard]
          /\ up' = Append(up, frame)
          /\ UNCHANGED <<fixed, client, llm, servers, given>>
    BY <1>2 DEF SendHistory, settings, answer
  <2>2. frame \in Honest(given)
    BY <2>1 DEF Honest, Frames, Kinds, Typed
  <2>3. up' \in Seq(Honest(given'))
    BY <2>1, <2>2, AppendProperties DEF KeysHeld
  <2>4. QED BY <2>1, <2>3 DEF KeysHeld, Held, Allowed
<1>3. CASE HearVoice
  BY <1>3 DEF HearVoice, KeysHeld, Held, Allowed, settings, answer, ghosts
<1>4. CASE ApplyUpdate
  <2>1. /\ up # <<>> /\ up' = Tail(up) /\ UNCHANGED <<fixed, llm, servers, given>>
        /\ Head(up).kind = "session.update" /\ client' = Updated(client, Head(up).patch)
    BY <1>4 DEF ApplyUpdate, answer
  <2>2. up' \in Seq(Honest(given')) /\ Head(up) \in Honest(given)
    BY <2>1, HeadTailProperties DEF KeysHeld
  <2>3. PICK p \in Patches : p = Head(up).patch /\ client' = Updated(client, p)
                            /\ {p.endpoint} \cup p.mcp \subseteq given
    BY <2>1, <2>2 DEF Honest, Frames
  <2>4. Held(Updated(client, p).endpoint) /\ \A e \in Updated(client, p).mcp : Held(e)
    BY <2>3, UpdatedHolds
  <2>5. Held(client'.endpoint) /\ \A e \in client'.mcp : Held(e)
    BY <2>3, <2>4
  <2>6. QED BY <2>1, <2>2, <2>5 DEF KeysHeld, Held, Allowed
<1>5. CASE TakeHistory
  <2>1. up # <<>> /\ up' = Tail(up) /\ UNCHANGED <<fixed, llm, servers, given>>
    BY <1>5 DEF TakeHistory, answer
  <2>2. up' \in Seq(Honest(given'))
    BY <2>1, HeadTailProperties DEF KeysHeld
  <2>3. client'.endpoint = client.endpoint /\ client'.mcp = client.mcp
    BY <1>5 DEF TakeHistory, Typed
  <2>4. QED BY <2>1, <2>2, <2>3 DEF KeysHeld, Held, Allowed
<1>6. CASE AnswerStarts
  <2>1. /\ UNCHANGED <<fixed, up, client, given>>
        /\ llm' \in {llm, client.endpoint} /\ servers' \in {servers, client.mcp}
    BY <1>6 DEF AnswerStarts, Pointed, page, settings
  <2>2. QED BY <2>1 DEF KeysHeld, Held, Allowed
<1>7. CASE SetVoice
  <2>1. UNCHANGED <<fixed, up, llm, servers, given>>
    BY <1>7 DEF SetVoice, page
  <2>2. client'.endpoint = client.endpoint /\ client'.mcp = client.mcp
    BY <1>7 DEF SetVoice, Typed
  <2>3. QED BY <2>1, <2>2 DEF KeysHeld, Held, Allowed
<1>8. CASE TellVoice \/ AnswerEnds \/ UNCHANGED vars
  <2>1. UNCHANGED <<fixed, up, client, llm, servers, given>>
    BY <1>8 DEF TellVoice, AnswerEnds, vars, page, settings, answer, ghosts
  <2>2. QED BY <2>1 DEF KeysHeld, Held, Allowed
<1>9. QED BY <1>1, <1>2, <1>3, <1>4, <1>5, <1>6, <1>7, <1>8 DEF Next
\* A key is only ever held for the URL the page gave it with, whatever crosses
\* whatever: conn_apply_patch, the endpoint client and the agent of conn_answer
\* take both or neither.
THEOREM KeyStaysWithItsUrl == Spec => []KeyTravels
<1>1. Init => Typed /\ KeysHeld
  BY InitTyped, InitHolds
<1>2. Typed /\ KeysHeld /\ [Next]_vars => (Typed /\ KeysHeld)'
  BY StepTyped, StepHolds
<1>3. KeysHeld => KeyTravels
  BY DEF KeysHeld, Held, KeyTravels
<1>4. QED BY <1>1, <1>2, <1>3, PTL DEF Spec

(* ------------------------------- updates ------------------------------- *)

EffectOf(p) == IF p.effect \in Effects THEN p.effect ELSE "off"
ServersOf(p) == IF fixed THEN OwnServers ELSE {s \in p.mcp : Allowed(s.url)}

\* The session, field by field, is what the last update makes of a new one.
FollowsEndpoint == client.endpoint = Points(OwnEndpoint, last.patch.endpoint)
FollowsServers == client.mcp = ServersOf(last.patch)
Told == ~refused => ~Errors(last.patch)
FollowsRest ==
  /\ client = [endpoint |-> client.endpoint, mcp |-> client.mcp, voice |-> client.voice,
               effect |-> client.effect, numbers |-> client.numbers, history |-> client.history]
  /\ client.numbers = InForce(last.patch.number)
  /\ client.history = last.history
  /\ ~turned => client.voice = last.patch.voice /\ client.effect = EffectOf(last.patch)
  /\ session = params /\ params = Listening(client.numbers)
  /\ (canceller = "none") = ~Asks(echo)
  /\ last.patch.echo # None => echo = last.patch.echo
Follows == FollowsEndpoint /\ FollowsServers /\ Told /\ FollowsRest

\* What no step but an update changes of a session.
FollowsClient ==
  /\ client' = [endpoint |-> client.endpoint, mcp |-> client.mcp, voice |-> client'.voice,
                effect |-> client'.effect, numbers |-> client.numbers,
                history |-> client'.history]
  /\ client'.history = last'.history
  /\ ~turned' => ~turned /\ client'.voice = client.voice /\ client'.effect = client.effect

LEMMA UpdatedFields ==
  \A held : \A p \in Patches :
    Updated(held, p) =
      [endpoint |-> Points(OwnEndpoint, p.endpoint), mcp |-> ServersOf(p), voice |-> p.voice,
       effect |-> EffectOf(p), numbers |-> InForce(p.number), history |-> held.history]
<1>1. \A held : /\ Base(held).endpoint = OwnEndpoint /\ Base(held).mcp = OwnServers
                /\ Base(held).voice = None /\ Base(held).effect = "off"
                /\ Base(held).numbers = Default /\ Base(held).history = held.history
  BY DEF Base, Defaults
<1>2. QED BY <1>1 DEF Updated, ServersOf, EffectOf, InForce

LEMMA InitFollows == Init => Follows
<1>1. Listening(Default) = Listening(InForce(Absent)) /\ InForce(Absent) = Default
  BY DEF InForce, Takes, Read, InRange, Absent
<1>2. ~Errors(Patch)
  BY DEF Errors, Patch, Invalid, Absent, NoEndpoint, Endpoint
<1>3. Points(OwnEndpoint, NoEndpoint) = OwnEndpoint /\ ServersOf(Patch) = OwnServers
  BY DEF Points, NoEndpoint, Endpoint, ServersOf, Patch, OwnServers
<1>4. EffectOf(Patch) = "off"
  BY DEF EffectOf, Patch, Effects, None
<1>5. /\ Patch.number = Absent /\ Patch.endpoint = NoEndpoint /\ Patch.voice = None
      /\ Patch.echo = None
  BY DEF Patch
<1>6. SUFFICES ASSUME Init PROVE Follows
  OBVIOUS
<1>7. /\ client = Defaults /\ last.patch = Patch /\ last.history = 0 /\ params = Listening(Default)
      /\ session = Listening(Default) /\ echo = "client" /\ canceller = "none"
  BY <1>6 DEF Init
<1>8. FollowsEndpoint /\ FollowsServers /\ Told
  BY <1>2, <1>3, <1>5, <1>7 DEF FollowsEndpoint, FollowsServers, Told, Defaults
<1>9. FollowsRest
  BY <1>1, <1>4, <1>5, <1>7 DEF FollowsRest, Defaults, None, Asks
<1>10. QED BY <1>8, <1>9 DEF Follows

LEMMA StepFollows == ASSUME Typed, Follows, [Next]_vars PROVE Follows'
<1>1. CASE ApplyUpdate
  <2>1. Head(up).patch \in Patches
    <3>1. Head(up) \in Frames
      BY <1>1, HeadTailProperties DEF ApplyUpdate, Typed
    <3>2. QED BY <3>1 DEF Frames
  <2>2. PICK p \in Patches : p = Head(up).patch
    BY <2>1
  <2>3. /\ client' = Updated(client, p)
        /\ params' = Listening(InForce(p.number))
        /\ session' = IF Changed(params') THEN params' ELSE session
        /\ Cancels(p.echo)
        /\ last' = [last EXCEPT !.patch = p] /\ refused' = Errors(p)
        /\ turned' = FALSE /\ fixed' = fixed
    BY <1>1, <2>2 DEF ApplyUpdate
  <2>4. client' =
          [endpoint |-> Points(OwnEndpoint, p.endpoint), mcp |-> ServersOf(p), voice |-> p.voice,
           effect |-> EffectOf(p), numbers |-> InForce(p.number), history |-> client.history]
    BY <2>3, UpdatedFields
  <2>5. last'.patch = p /\ last'.history = last.history
    BY <2>3 DEF Typed
  <2>6. FollowsEndpoint'
    BY <2>3, <2>4, <2>5 DEF FollowsEndpoint, Points, OwnEndpoint
  <2>7. FollowsServers'
    BY <2>3, <2>4, <2>5 DEF FollowsServers, ServersOf, OwnServers
  <2>8. Told'
    BY <2>3, <2>5 DEF Told, Errors
  <2>9. FollowsRest'
    <3>1. session' = params' /\ params' = Listening(client'.numbers)
      BY <2>3, <2>4 DEF Changed, Follows, FollowsRest
    <3>2. (canceller' = "none") = ~Asks(echo') /\ (p.echo # None => echo' = p.echo)
      BY <2>3 DEF Cancels, Follows, FollowsRest, Asks
    <3>3. client'.history = last'.history
      BY <2>4, <2>5 DEF Follows, FollowsRest
    <3>4. QED BY <2>3, <2>4, <2>5, <3>1, <3>2, <3>3 DEF FollowsRest
  <2>10. QED BY <2>6, <2>7, <2>8, <2>9 DEF Follows
<1>2. ASSUME \/ TakeHistory \/ SetVoice \/ SendUpdate \/ SendHistory \/ HearVoice
             \/ AnswerStarts \/ TellVoice \/ AnswerEnds \/ UNCHANGED vars
      PROVE  Follows'
  <2>1. /\ UNCHANGED <<fixed, params, session, echo, canceller, refused>>
        /\ last'.patch = last.patch
    BY <1>2 DEF TakeHistory, SetVoice, SendUpdate, SendHistory, HearVoice, AnswerStarts,
                TellVoice, AnswerEnds, vars, page, settings, answer, ghosts, Typed
  <2>2. FollowsClient
    <3>1. CASE TakeHistory
      <4>1. /\ client' = [client EXCEPT !.history = @ + 1] /\ turned' = turned
            /\ last'.history = last.history + 1
        BY <3>1 DEF TakeHistory, Typed
      <4>2. QED BY <4>1 DEF FollowsClient, Follows, FollowsRest
    <3>2. CASE SetVoice
      <4>1. PICK v, e : client' = [client EXCEPT !.voice = v, !.effect = e]
        BY <3>2 DEF SetVoice
      <4>2. turned' = TRUE /\ last' = last
        BY <3>2 DEF SetVoice
      <4>3. QED BY <4>1, <4>2 DEF FollowsClient, Follows, FollowsRest
    <3>3. ASSUME \/ SendUpdate \/ SendHistory \/ HearVoice \/ AnswerStarts \/ TellVoice
                 \/ AnswerEnds \/ UNCHANGED vars
          PROVE  FollowsClient
      <4>1. client' = client /\ turned' = turned /\ last' = last
        BY <3>3 DEF SendUpdate, SendHistory, HearVoice, AnswerStarts, TellVoice, AnswerEnds,
                    vars, page, settings, answer, ghosts
      <4>2. QED BY <4>1 DEF FollowsClient, Follows, FollowsRest
    <3>4. QED BY <1>2, <3>1, <3>2, <3>3
  <2>3. FollowsEndpoint'
    BY <2>1, <2>2 DEF FollowsClient, Follows, FollowsEndpoint, Points, OwnEndpoint
  <2>4. FollowsServers'
    BY <2>1, <2>2 DEF FollowsClient, Follows, FollowsServers, ServersOf, OwnServers
  <2>5. Told'
    BY <2>1 DEF Follows, Told, Errors
  <2>6. FollowsRest'
    BY <2>1, <2>2 DEF FollowsClient, Follows, FollowsRest
  <2>7. QED BY <2>3, <2>4, <2>5, <2>6 DEF Follows
<1>3. QED BY <1>1, <1>2 DEF Next

LEMMA FollowsIsWhole == Typed /\ Follows => UpdateIsWhole
<1>1. SUFFICES ASSUME Typed, Follows PROVE NothingKept /\ RefusalIsTold
  BY DEF UpdateIsWhole
<1>2. PICK p \in Patches : p = last.patch
  BY <1>1 DEF Typed
<1>3. NothingKept
  <2>1. PICK fresh : fresh = Updated(Defaults, p)
    OBVIOUS
  <2>2. fresh = [endpoint |-> client.endpoint, mcp |-> client.mcp, voice |-> p.voice,
                 effect |-> EffectOf(p), numbers |-> client.numbers, history |-> 0]
    <3>1. Defaults.history = 0
      BY DEF Defaults
    <3>2. QED BY <1>1, <1>2, <2>1, <3>1, UpdatedFields
           DEF Follows, FollowsEndpoint, FollowsServers, FollowsRest
  <2>3. PICK v, e : /\ v = IF turned THEN client.voice ELSE fresh.voice
                    /\ e = IF turned THEN client.effect ELSE fresh.effect
    OBVIOUS
  <2>4. v = client.voice /\ e = client.effect
    BY <1>1, <1>2, <2>2, <2>3 DEF Follows, FollowsRest
  <2>5. client = [fresh EXCEPT !.history = last.history, !.voice = v, !.effect = e]
    <3>1. PICK listed : listed = [fresh EXCEPT !.history = last.history]
      OBVIOUS
    <3>2. listed = [endpoint |-> client.endpoint, mcp |-> client.mcp, voice |-> p.voice,
                    effect |-> EffectOf(p), numbers |-> client.numbers,
                    history |-> last.history]
      BY <2>2, <3>1
    <3>3. PICK voiced : voiced = [listed EXCEPT !.voice = v]
      OBVIOUS
    <3>4. voiced = [endpoint |-> client.endpoint, mcp |-> client.mcp, voice |-> v,
                    effect |-> EffectOf(p), numbers |-> client.numbers,
                    history |-> last.history]
      BY <3>2, <3>3
    <3>5. [voiced EXCEPT !.effect = e] =
            [endpoint |-> client.endpoint, mcp |-> client.mcp, voice |-> v, effect |-> e,
             numbers |-> client.numbers, history |-> last.history]
      BY <3>4
    <3>6. [voiced EXCEPT !.effect = e] = client
      BY <1>1, <2>4, <3>5 DEF Follows, FollowsRest
    <3>7. QED BY <3>1, <3>3, <3>6
  <2>6. QED BY <1>1, <1>2, <2>1, <2>3, <2>5 DEF NothingKept, Follows, FollowsRest
<1>4. RefusalIsTold
  <2>1. SUFFICES ASSUME ~refused PROVE RefusalIsTold
    BY DEF RefusalIsTold
  <2>2. ~Errors(p)
    BY <1>1, <1>2, <2>1 DEF Follows, Told
  <2>3. /\ p.endpoint.url # None => client.endpoint = p.endpoint
        /\ p.endpoint # NoEndpoint => ~fixed
    BY <1>1, <1>2, <2>2
       DEF Follows, FollowsEndpoint, Errors, Points, NoEndpoint, Endpoint
  <2>4. p.mcp # {} => client.mcp = p.mcp
    BY <1>1, <1>2, <2>2 DEF Follows, FollowsServers, Errors, ServersOf
  <2>5. p.effect # None /\ ~turned => client.effect = p.effect
    BY <1>1, <1>2, <2>2 DEF Follows, FollowsRest, Errors, EffectOf
  <2>6. Takes(p.number) => client.numbers[p.number.field] = p.number.n
    <3>1. SUFFICES ASSUME Takes(p.number) PROVE client.numbers[p.number.field] = p.number.n
      OBVIOUS
    <3>2. p.number \in Numbers /\ p.number.field \in Fields
      BY <1>2 DEF Patches, Numbers, Absent, Texts, Number, Fields
    <3>3. Read(p.number) = p.number.n
      BY <3>1, <3>2 DEF Takes, Read
    <3>4. client.numbers = [Default EXCEPT ![p.number.field] = p.number.n]
      BY <1>1, <1>2, <3>1, <3>3 DEF Follows, FollowsRest, InForce
    <3>5. QED BY <3>2, <3>4 DEF Default, Fields
  <2>7. p.echo # None => echo = p.echo /\ (Asks(p.echo) => canceller # "none")
    BY <1>1, <1>2 DEF Follows, FollowsRest
  <2>8. QED BY <1>2, <2>3, <2>4, <2>5, <2>6, <2>7 DEF RefusalIsTold
<1>5. QED BY <1>3, <1>4

\* A session is its last update and nothing of the ones before, or the page
\* was answered with an error: conn_apply_patch, whatever updates, lists and
\* changes of voice came before and come in between.
THEOREM UpdatesAreWhole == Spec => []UpdateIsWhole
<1>1. Init => Typed /\ Follows
  BY InitTyped, InitFollows
<1>2. Typed /\ Follows /\ [Next]_vars => (Typed /\ Follows)'
  BY StepTyped, StepFollows
<1>3. QED BY <1>1, <1>2, FollowsIsWhole, PTL DEF Spec

(* ------------------------------- the voice ----------------------------- *)

EffectIn(e) == IF e \in Effects THEN e ELSE "off"
IsUpdate(frame) == frame.kind = "session.update"
\* What the page will say once it heard all there is to hear.
Coming ==
  IF speech.tells THEN [voice |-> speech.voice, effect |-> speech.effect]
  ELSE IF down # <<>> THEN down[Len(down)]
  ELSE [voice |-> options.voice, effect |-> options.effect]

\* Every change of the model is heard, on its way, or yet to be told.
Counted ==
  /\ switches \in Nat /\ (speech.tells \/ speech.agentic => speech.on)
  /\ switches = heard + Len(down) + (IF speech.tells THEN 1 ELSE 0)
\* The last update on its way says what the page says, unless the page heard
\* of a change since.
Sent ==
  \A i \in 1 .. Len(up) :
    /\ up[i].heard <= heard
    /\ IsUpdate(up[i]) /\ up[i].heard = heard /\ (\A j \in i + 1 .. Len(up) : ~IsUpdate(up[j]))
         => up[i].patch.voice = options.voice /\ up[i].patch.effect = options.effect
\* No update is on its way: the server has the voice the page will say.
Settled ==
  (\A i \in 1 .. Len(up) : ~IsUpdate(up[i])) /\ ~crossed =>
    client.voice = Coming.voice /\ client.effect = EffectIn(Coming.effect)

Agree == Counted /\ Sent /\ Settled

LEMMA InitAgrees == Init => Agree
<1> SUFFICES ASSUME Init PROVE Agree
  OBVIOUS
<1>1. /\ up = <<>> /\ down = <<>> /\ heard = 0 /\ switches = 0 /\ ~speech.tells /\ ~speech.agentic
      /\ client.voice = None /\ client.effect = "off"
      /\ options.voice = None /\ options.effect = None
  BY DEF Init, Silent, Defaults, Patch
<1>2. Len(up) = 0 /\ Len(down) = 0
  BY <1>1
<1>3. Counted
  BY <1>1, <1>2 DEF Counted
<1>4. Sent
  BY <1>2 DEF Sent
<1>5. Coming.voice = None /\ Coming.effect = None
  BY <1>1 DEF Coming
<1>6. Settled
  BY <1>1, <1>5 DEF Settled, EffectIn, Effects, None
<1> QED BY <1>3, <1>4, <1>6 DEF Agree

LEMMA UpAppended ==
  ASSUME Typed, NEW frame \in Frames, up' = Append(up, frame)
  PROVE  /\ Len(up') = Len(up) + 1 /\ up'[Len(up) + 1] = frame
         /\ \A i \in 1 .. Len(up) : up'[i] = up[i]
BY DEF Typed

LEMMA UpTaken ==
  ASSUME Typed, up # <<>>, up' = Tail(up)
  PROVE  /\ Len(up') = Len(up) - 1 /\ Len(up) \in Nat /\ Len(up) > 0 /\ Head(up) = up[1]
         /\ \A i \in 1 .. Len(up) : up[i] \in Frames
         /\ \A i \in 1 .. Len(up) - 1 : up'[i] = up[i + 1]
BY HeadTailProperties, ElementOfSeq DEF Typed

LEMMA SendUpdateAgrees == ASSUME Typed, Agree, SendUpdate PROVE Agree'
<1>1. options' \in Patches
  BY ChangesTyped DEF SendUpdate, Typed
<1> DEFINE frame == [kind |-> "session.update", patch |-> options', heard |-> heard]
<1>2. /\ up' = Append(up, frame) /\ frame \in Frames
      /\ UNCHANGED <<heard, down, client, speech, switches, crossed>>
  BY <1>1 DEF SendUpdate, Typed, Frames, Kinds, settings, answer
<1>3. /\ Len(up') = Len(up) + 1 /\ up'[Len(up) + 1] = frame /\ Len(up) \in Nat
      /\ \A i \in 1 .. Len(up) : up'[i] = up[i]
  BY <1>2, UpAppended DEF Typed
<1>4. IsUpdate(frame) /\ frame.heard = heard /\ frame.patch = options'
  BY DEF IsUpdate
<1> HIDE DEF frame
<1>5. Counted'
  BY <1>2 DEF Agree, Counted
<1>6. Sent'
  <2> SUFFICES ASSUME NEW i \in 1 .. Len(up) + 1
               PROVE  /\ up'[i].heard <= heard
                      /\ (\A j \in i + 1 .. Len(up) + 1 : ~IsUpdate(up'[j])) =>
                           /\ up'[i].patch.voice = options'.voice
                           /\ up'[i].patch.effect = options'.effect
    BY <1>2, <1>3 DEF Sent, IsUpdate
  <2>1. CASE i = Len(up) + 1
    BY <1>3, <1>4, <2>1 DEF Typed
  <2>2. CASE i \in 1 .. Len(up)
    <3>1. Len(up) + 1 \in i + 1 .. Len(up) + 1 /\ IsUpdate(up'[Len(up) + 1])
      BY <1>3, <1>4, <2>2
    <3> QED BY <1>3, <2>2, <3>1 DEF Agree, Sent
  <2> QED BY <1>3, <2>1, <2>2
<1>7. Settled'
  BY <1>3, <1>4 DEF Settled, IsUpdate
<1> QED BY <1>5, <1>6, <1>7 DEF Agree

LEMMA SendHistoryAgrees == ASSUME Typed, Agree, SendHistory PROVE Agree'
<1> DEFINE frame == [kind |-> "conversation.history", patch |-> options, heard |-> heard]
<1>1. /\ up' = Append(up, frame) /\ frame \in Frames
      /\ UNCHANGED <<options, heard, down, client, speech, switches, crossed>>
  BY DEF SendHistory, Typed, Frames, Kinds, settings, answer
<1>2. /\ Len(up') = Len(up) + 1 /\ up'[Len(up) + 1] = frame /\ Len(up) \in Nat /\ heard \in Nat
      /\ \A i \in 1 .. Len(up) : up'[i] = up[i]
  BY <1>1, UpAppended DEF Typed
<1>3. ~IsUpdate(frame) /\ frame.heard = heard
  BY DEF IsUpdate
<1> HIDE DEF frame
<1>4. Counted' /\ Coming' = Coming
  BY <1>1 DEF Agree, Counted, Coming
<1>5. Sent'
  <2> SUFFICES ASSUME NEW i \in 1 .. Len(up) + 1
               PROVE  /\ up'[i].heard <= heard
                      /\ /\ IsUpdate(up'[i]) /\ up'[i].heard = heard
                         /\ \A j \in i + 1 .. Len(up) + 1 : ~IsUpdate(up'[j])
                         => /\ up'[i].patch.voice = options.voice
                            /\ up'[i].patch.effect = options.effect
    BY <1>1, <1>2 DEF Sent, IsUpdate
  <2>1. CASE i = Len(up) + 1
    BY <1>2, <1>3, <2>1
  <2>2. CASE i \in 1 .. Len(up)
    <3>1. \A j \in i + 1 .. Len(up) : j \in i + 1 .. Len(up) + 1 /\ up'[j] = up[j]
      BY <1>2, <2>2
    <3> QED BY <1>2, <2>2, <3>1 DEF Agree, Sent
  <2> QED BY <1>2, <2>1, <2>2
<1>6. Settled'
  <2> SUFFICES ASSUME \A i \in 1 .. Len(up) + 1 : ~IsUpdate(up'[i]), ~crossed
               PROVE  client.voice = Coming.voice /\ client.effect = EffectIn(Coming.effect)
    BY <1>1, <1>2, <1>4 DEF Settled, IsUpdate
  <2>1. \A i \in 1 .. Len(up) : i \in 1 .. Len(up) + 1 /\ up'[i] = up[i]
    BY <1>2
  <2> QED BY <2>1 DEF Agree, Settled
<1> QED BY <1>4, <1>5, <1>6 DEF Agree

LEMMA HearVoiceAgrees == ASSUME Typed, Agree, HearVoice PROVE Agree'
<1> DEFINE Pair == [voice : VoiceNames, effect : EffectNames]
<1>1. /\ down \in Seq(Pair) /\ down # <<>> /\ down' = Tail(down) /\ heard' = heard + 1
      /\ options' = [options EXCEPT !.voice = Head(down).voice, !.effect = Head(down).effect]
      /\ UNCHANGED <<up, client, speech, switches, crossed>> /\ heard \in Nat
  BY DEF HearVoice, Typed, settings, answer, ghosts
<1>2. /\ options'.voice = Head(down).voice /\ options'.effect = Head(down).effect
  BY <1>1 DEF Typed, Patches
<1>3. /\ Len(down') = Len(down) - 1 /\ Len(down) > 0 /\ Head(down) = down[1] /\ Len(down) \in Nat
      /\ \A i \in 1 .. Len(down) - 1 : down'[i] = down[i + 1]
      /\ down' = <<>> <=> Len(down) = 1
  <2> HIDE DEF Pair
  <2>1. /\ Len(down) > 0 /\ Head(down) = down[1] /\ Len(down) \in Nat
        /\ down' \in Seq(Pair) /\ Len(down') = Len(down) - 1
        /\ \A i \in 1 .. Len(down) - 1 : down'[i] = down[i + 1]
    BY <1>1, HeadTailProperties
  <2>2. down' = <<>> <=> Len(down') = 0
    BY <2>1, EmptySeq
  <2> QED BY <2>1, <2>2
<1>4. Counted'
  BY <1>1, <1>3 DEF Agree, Counted
<1>5. Sent'
  <2> SUFFICES ASSUME NEW i \in 1 .. Len(up)
               PROVE  up[i].heard <= heard + 1 /\ up[i].heard # heard + 1
    BY <1>1 DEF Sent, IsUpdate
  <2>1. up[i] \in Frames
    BY ElementOfSeq DEF Typed
  <2> QED BY <1>1, <2>1 DEF Agree, Sent, Frames
<1>6. Coming'.voice = Coming.voice /\ Coming'.effect = Coming.effect
  <2>1. CASE speech.tells
    BY <1>1, <2>1 DEF Coming
  <2>2. CASE ~speech.tells /\ Len(down) = 1
    BY <1>1, <1>2, <1>3, <2>2 DEF Coming
  <2>3. CASE ~speech.tells /\ Len(down) # 1
    <3>1. down'[Len(down')] = down[Len(down)]
      BY <1>3, <2>3
    <3> QED BY <1>1, <1>3, <2>3, <3>1 DEF Coming
  <2> QED BY <2>1, <2>2, <2>3
<1>7. Settled'
  BY <1>1, <1>6 DEF Agree, Settled, IsUpdate, EffectIn
<1> QED BY <1>4, <1>5, <1>7 DEF Agree

LEMMA ApplyUpdateAgrees == ASSUME Typed, Agree, ApplyUpdate PROVE Agree'
<1> DEFINE p == Head(up).patch
<1>1. /\ up # <<>> /\ up' = Tail(up) /\ IsUpdate(Head(up))
      /\ client' = Updated(client, p) /\ crossed' = (Head(up).heard < switches)
      /\ UNCHANGED <<options, heard, down, speech, switches>>
  BY DEF ApplyUpdate, answer, IsUpdate
<1>2. /\ Len(up') = Len(up) - 1 /\ Len(up) \in Nat /\ Len(up) > 0 /\ Head(up) = up[1]
      /\ \A i \in 1 .. Len(up) : up[i] \in Frames
      /\ \A i \in 1 .. Len(up) - 1 : up'[i] = up[i + 1]
  BY <1>1, UpTaken
<1>3. Counted' /\ Coming' = Coming
  BY <1>1 DEF Agree, Counted, Coming
<1>4. Sent'
  <2> SUFFICES ASSUME NEW i \in 1 .. Len(up) - 1
               PROVE  /\ up'[i].heard <= heard
                      /\ /\ IsUpdate(up'[i]) /\ up'[i].heard = heard
                         /\ \A j \in i + 1 .. Len(up) - 1 : ~IsUpdate(up'[j])
                         => /\ up'[i].patch.voice = options.voice
                            /\ up'[i].patch.effect = options.effect
    BY <1>1, <1>2 DEF Sent, IsUpdate
  <2>1. i + 1 \in 1 .. Len(up) /\ up'[i] = up[i + 1]
    BY <1>2
  <2>2. ASSUME \A j \in i + 1 .. Len(up) - 1 : ~IsUpdate(up'[j]), NEW j \in i + 2 .. Len(up)
        PROVE  ~IsUpdate(up[j])
    <3>1. j - 1 \in i + 1 .. Len(up) - 1 /\ up'[j - 1] = up[j]
      BY <1>2
    <3> QED BY <2>2, <3>1
  <2>3. i + 1 + 1 = i + 2
    OBVIOUS
  <2> QED BY <2>1, <2>2, <2>3 DEF Agree, Sent
<1>5. Settled'
  <2> SUFFICES ASSUME \A i \in 1 .. Len(up) - 1 : ~IsUpdate(up'[i]), ~(Head(up).heard < switches)
               PROVE  client'.voice = Coming.voice /\ client'.effect = EffectIn(Coming.effect)
    BY <1>1, <1>2, <1>3 DEF Settled, IsUpdate, EffectIn
  <2>1. \A j \in 2 .. Len(up) : ~IsUpdate(up[j])
    <3> SUFFICES ASSUME NEW j \in 2 .. Len(up) PROVE ~IsUpdate(up[j])
      OBVIOUS
    <3>1. j - 1 \in 1 .. Len(up) - 1 /\ up'[j - 1] = up[j]
      BY <1>2
    <3> QED BY <3>1
  <2>2. Head(up) \in Frames /\ Head(up).heard \in Nat /\ p \in Patches
    BY <1>2 DEF Frames
  <2>3. Head(up).heard <= heard /\ heard \in Nat /\ Len(down) \in Nat
    BY <1>2 DEF Agree, Sent, Typed
  <2>4. Head(up).heard = heard /\ Len(down) = 0 /\ ~speech.tells
    BY <2>2, <2>3 DEF Agree, Counted
  <2>5. p.voice = options.voice /\ p.effect = options.effect
    BY <1>1, <1>2, <2>1, <2>4 DEF Agree, Sent
  <2>6. Coming.voice = options.voice /\ Coming.effect = options.effect
    BY <2>4 DEF Coming, Typed
  <2>7. client'.voice = p.voice /\ client'.effect = EffectIn(p.effect)
    BY <1>1, <2>2 DEF Updated, Base, Defaults, EffectIn
  <2> QED BY <2>5, <2>6, <2>7
<1> QED BY <1>3, <1>4, <1>5 DEF Agree

LEMMA TakeHistoryAgrees == ASSUME Typed, Agree, TakeHistory PROVE Agree'
<1>1. /\ up # <<>> /\ up' = Tail(up) /\ ~IsUpdate(Head(up))
      /\ client'.voice = client.voice /\ client'.effect = client.effect
      /\ UNCHANGED <<options, heard, down, speech, switches, crossed>>
  BY DEF TakeHistory, answer, IsUpdate, Typed
<1>2. /\ Len(up') = Len(up) - 1 /\ Len(up) \in Nat /\ Len(up) > 0 /\ Head(up) = up[1]
      /\ \A i \in 1 .. Len(up) : up[i] \in Frames
      /\ \A i \in 1 .. Len(up) - 1 : up'[i] = up[i + 1]
  BY <1>1, UpTaken
<1>3. Counted' /\ Coming' = Coming
  BY <1>1 DEF Agree, Counted, Coming
<1>4. Sent'
  <2> SUFFICES ASSUME NEW i \in 1 .. Len(up) - 1
               PROVE  /\ up'[i].heard <= heard
                      /\ /\ IsUpdate(up'[i]) /\ up'[i].heard = heard
                         /\ \A j \in i + 1 .. Len(up) - 1 : ~IsUpdate(up'[j])
                         => /\ up'[i].patch.voice = options.voice
                            /\ up'[i].patch.effect = options.effect
    BY <1>1, <1>2 DEF Sent, IsUpdate
  <2>1. i + 1 \in 1 .. Len(up) /\ up'[i] = up[i + 1]
    BY <1>2
  <2>2. ASSUME \A j \in i + 1 .. Len(up) - 1 : ~IsUpdate(up'[j]), NEW j \in i + 2 .. Len(up)
        PROVE  ~IsUpdate(up[j])
    <3>1. j - 1 \in i + 1 .. Len(up) - 1 /\ up'[j - 1] = up[j]
      BY <1>2
    <3> QED BY <2>2, <3>1
  <2>3. i + 1 + 1 = i + 2
    OBVIOUS
  <2> QED BY <2>1, <2>2, <2>3 DEF Agree, Sent
<1>5. Settled'
  <2> SUFFICES ASSUME \A i \in 1 .. Len(up) - 1 : ~IsUpdate(up'[i]), ~crossed
               PROVE  client.voice = Coming.voice /\ client.effect = EffectIn(Coming.effect)
    BY <1>1, <1>2, <1>3 DEF Settled, IsUpdate, EffectIn
  <2>1. \A j \in 1 .. Len(up) : ~IsUpdate(up[j])
    <3> SUFFICES ASSUME NEW j \in 1 .. Len(up) PROVE ~IsUpdate(up[j])
      OBVIOUS
    <3>1. CASE j = 1
      BY <1>1, <1>2, <3>1
    <3>2. CASE j # 1
      <4>1. j - 1 \in 1 .. Len(up) - 1 /\ up'[j - 1] = up[j]
        BY <1>2, <3>2
      <4> QED BY <4>1
    <3> QED BY <3>1, <3>2
  <2> QED BY <2>1 DEF Agree, Settled
<1> QED BY <1>3, <1>4, <1>5 DEF Agree

LEMMA SpeechAgrees ==
  ASSUME Typed, Agree, AnswerStarts \/ AnswerEnds \/ SetVoice \/ TellVoice \/ UNCHANGED vars
  PROVE  Agree'
<1>1. UNCHANGED <<up, options, heard, crossed>>
  BY DEF AnswerStarts, AnswerEnds, SetVoice, TellVoice, vars, page, settings, answer, ghosts
<1>2. Sent'
  BY <1>1 DEF Agree, Sent, IsUpdate
<1>3. CASE AnswerStarts \/ AnswerEnds \/ UNCHANGED vars
  <2>1. /\ UNCHANGED <<down, switches, client>>
        /\ (speech'.tells <=> speech.tells) /\ (speech'.tells => speech' = speech)
        /\ speech'.tells \/ speech'.agentic => speech'.on
    <3>1. CASE AnswerStarts \/ AnswerEnds
      <4>1. ~speech.tells /\ UNCHANGED <<down, switches, client>>
        BY <3>1 DEF AnswerStarts, AnswerEnds, page, settings, ghosts, Agree, Counted
      <4>2. ~speech'.tells /\ (speech'.agentic => speech'.on)
        <5>1. CASE AnswerEnds
          BY <5>1 DEF AnswerEnds, Silent
        <5>2. CASE AnswerStarts
          <6>1. PICK m \in Modes, b \in BOOLEAN :
                  speech' = [Silent EXCEPT !.on = TRUE, !.agentic = b, !.voice = client.voice,
                                           !.effect = client.effect]
            <7>1. PICK m \in Modes :
                    speech' = [Silent EXCEPT
                      !.on = TRUE, !.voice = client.voice, !.effect = client.effect,
                      !.agentic = /\ m # "loopback" /\ client.endpoint.url # None
                                  /\ m = "agentic"]
              BY <5>2, ZenonT(40) DEF AnswerStarts, Silent
            <7> QED BY <7>1
          <6> QED BY <6>1 DEF Silent
        <5> QED BY <3>1, <5>1, <5>2
      <4> QED BY <4>1, <4>2
    <3>2. CASE UNCHANGED vars
      BY <3>2 DEF vars, settings, answer, ghosts, Agree, Counted
    <3> QED BY <1>3, <3>1, <3>2
  <2>2. Counted' /\ Coming' = Coming
    BY <1>1, <2>1 DEF Agree, Counted, Coming
  <2> QED BY <1>1, <1>2, <2>1, <2>2 DEF Agree, Settled, IsUpdate, EffectIn
<1>4. CASE SetVoice
  <2>1. PICK v \in Voices, e \in Effects :
          /\ speech'.tells /\ speech'.voice = v /\ speech'.effect = e
          /\ speech'.on = speech.on /\ speech.on
          /\ client'.voice = v /\ client'.effect = e
    <3>1. PICK v \in Voices, e \in Effects \cup {None} :
            LET effect == IF e = None THEN speech.effect ELSE e IN
            /\ speech' = [speech EXCEPT !.voice = v, !.effect = effect, !.asked = e, !.tells = TRUE]
            /\ client' = [client EXCEPT !.voice = v, !.effect = effect]
      BY <1>4 DEF SetVoice
    <3> DEFINE effect == IF e = None THEN speech.effect ELSE e
    <3>2. effect \in Effects
      BY DEF Typed
    <3>3. /\ speech' = [speech EXCEPT !.voice = v, !.effect = effect, !.asked = e, !.tells = TRUE]
          /\ client' = [client EXCEPT !.voice = v, !.effect = effect]
      BY <3>1
    <3> HIDE DEF effect
    <3>4. /\ speech'.tells /\ speech'.voice = v /\ speech'.effect = effect
          /\ speech'.on = speech.on /\ client'.voice = v /\ client'.effect = effect
      BY <3>3 DEF Typed
    <3>5. speech.on
      BY <1>4 DEF SetVoice, Agree, Counted
    <3> QED BY <3>2, <3>4, <3>5
  <2>2. ~speech.tells /\ switches' = switches + 1 /\ UNCHANGED down
    BY <1>4 DEF SetVoice
  <2>3. Counted'
    BY <1>1, <2>1, <2>2 DEF Agree, Counted, Typed
  <2>4. Coming'.voice = v /\ Coming'.effect = e
    BY <2>1 DEF Coming
  <2>5. Settled'
    BY <2>1, <2>4 DEF Settled, EffectIn
  <2> QED BY <1>2, <2>3, <2>5 DEF Agree
<1>5. CASE TellVoice
  <2>1. /\ speech.tells /\ ~speech'.tells /\ down' = Append(down, Event)
        /\ UNCHANGED <<switches, client>>
        /\ Event \in [voice : VoiceNames, effect : EffectNames]
    BY <1>5 DEF TellVoice, Typed, settings, ghosts, Event, EffectNames
  <2>2. /\ Len(down') = Len(down) + 1 /\ down'[Len(down')] = Event /\ down' # <<>>
        /\ Len(down) \in Nat
    <3>1. down \in Seq([voice : VoiceNames, effect : EffectNames])
      BY DEF Typed
    <3> QED BY <2>1, <3>1, AppendProperties
  <2>3. Counted'
    <3>1. speech'.on = speech.on /\ speech'.agentic = speech.agentic
      <4>1. speech' = [speech EXCEPT !.tells = FALSE]
        BY <1>5 DEF TellVoice
      <4> QED BY <4>1 DEF Typed
    <3>2. speech'.tells \/ speech'.agentic => speech'.on
      BY <2>1, <3>1 DEF Agree, Counted
    <3>3. switches = heard + Len(down) + 1 /\ switches \in Nat /\ heard \in Nat
      BY <2>1 DEF Agree, Counted, Typed
    <3>4. switches' = heard' + Len(down') + 0
      BY <1>1, <2>1, <2>2, <3>3
    <3> QED BY <2>1, <3>2, <3>3, <3>4 DEF Counted
  <2>4. Coming'.voice = Coming.voice /\ Coming'.effect = Coming.effect
    BY <2>1, <2>2 DEF Coming, Event
  <2>5. Settled'
    BY <1>1, <2>1, <2>4 DEF Agree, Settled, EffectIn, IsUpdate
  <2> QED BY <1>2, <2>3, <2>5 DEF Agree
<1> QED BY <1>3, <1>4, <1>5

LEMMA AgreesIsHeard == Typed /\ Agree => VoiceAgrees
<1> SUFFICES ASSUME Typed, Agree, up = <<>>, down = <<>>, ~speech.tells, ~crossed
             PROVE  /\ client.voice = options.voice
                    /\ client.effect = IF options.effect \in Effects THEN options.effect ELSE "off"
  BY DEF VoiceAgrees
<1>1. Coming.voice = options.voice /\ Coming.effect = options.effect
  BY DEF Coming
<1> QED BY <1>1 DEF Agree, Settled, EffectIn

\* The page and the server agree on the voice and its effect once nothing is
\* under way, whoever changed them last and in whatever order the updates of
\* the page and the calls of set_voice cross.
THEOREM VoicesAgree == Spec => []VoiceAgrees
<1>1. Init => Typed /\ Agree
  BY InitTyped, InitAgrees
<1>2. Typed /\ Agree /\ [Next]_vars => (Typed /\ Agree)'
  BY StepTyped, SendUpdateAgrees, SendHistoryAgrees, HearVoiceAgrees, ApplyUpdateAgrees,
     TakeHistoryAgrees, SpeechAgrees DEF Next
<1>3. QED BY <1>1, <1>2, AgreesIsHeard, PTL DEF Spec

(* ----------------------------- the wake gate --------------------------- *)

\* Only the last turn the gate let through may come back as a revision: it
\* knows no later one, and hears none but that turn and those to come.  A
\* connection put to sleep is asleep until its gate changes or a phrase wakes
\* it.
GateOrder ==
  /\ turn \in Nat /\ admitted_turn \in Nat /\ through \subseteq Nat
  /\ admitted_turn <= turn
  /\ \A t \in through : t <= admitted_turn
  /\ admitted_turn # 0 => admitted_turn \in through
  /\ awake \in BOOLEAN /\ hushed \in BOOLEAN
  /\ hushed => ~awake

LEMMA GateRecognizes ==
  GateOrder /\ Gate!Recognize => GateOrder' /\ GateHolds'
<1> SUFFICES ASSUME GateOrder, Gate!Recognize
             PROVE  GateOrder' /\ GateHolds'
  OBVIOUS
<1> DEFINE gated == mode # "loopback"
<1>1. PICK t \in {turn, turn + 1} \cap 1 .. MaxTurns, heard_ \in Gate!Transcripts :
        LET pass == ~gated \/ Gate!Passes(t, heard_)
            wakes == gated /\ pass /\ t # admitted_turn /\ Gate!Wakes(heard_)
            hushes == gated /\ pass /\ wake # "off" /\ Gate!SleepHeard(heard_)
        IN  /\ turn' = t
            /\ admitted_turn' = IF gated /\ pass THEN t ELSE admitted_turn
            /\ awake' = IF gated /\ pass THEN Gate!AwakeAfter(t, heard_) ELSE awake
            /\ verdict' = [turn |-> t, heard |-> heard_, known |-> t \in through,
                           hushed |-> hushed, gated |-> gated, admitted |-> pass]
            /\ through' = IF gated /\ pass THEN through \cup {t} ELSE through
            /\ hushed' = (hushes \/ (hushed /\ ~wakes))
  BY DEF Gate!Recognize
<1> DEFINE pass == ~gated \/ Gate!Passes(t, heard_)
<1>2. t \in Nat /\ t # 0 /\ turn <= t
  BY DEF GateOrder
<1>3. admitted_turn' \in Nat /\ admitted_turn' <= turn' /\ turn' \in Nat
  BY <1>1, <1>2 DEF GateOrder
<1>4. /\ through' \subseteq Nat
      /\ \A s \in through' : s <= admitted_turn'
      /\ admitted_turn' # 0 => admitted_turn' \in through'
  BY <1>1, <1>2 DEF GateOrder
<1>5. awake' \in BOOLEAN /\ hushed' \in BOOLEAN
  BY <1>1 DEF GateOrder, Gate!AwakeAfter
<1>6. hushed' => ~awake'
  BY <1>1 DEF GateOrder, Gate!AwakeAfter, Gate!Passes, Gate!Wakes
<1>7. /\ verdict'.known <=> t \in through
      /\ verdict'.hushed <=> hushed
      /\ verdict'.gated <=> gated
      /\ verdict'.admitted <=> pass
      /\ verdict'.heard = heard_
  BY <1>1
<1>8. t \in through => t = admitted_turn
  BY <1>2 DEF GateOrder
<1>9. verdict'.known => verdict'.admitted
  BY <1>7, <1>8 DEF Gate!Passes
<1>10. verdict'.hushed /\ verdict'.gated /\ verdict'.admitted /\ ~verdict'.known =>
         Gate!WakeHeard(verdict'.heard, FALSE)
  BY <1>2, <1>7 DEF GateOrder, Gate!Passes, Gate!Wakes, Gate!WakeHeard
<1> QED
  BY <1>3, <1>4, <1>5, <1>6, <1>9, <1>10
     DEF GateOrder, GateHolds, Gate!GateHolds, Gate!RevisionsFollow, Gate!SleepHolds

LEMMA GateOthers ==
  GateOrder /\ GateHolds /\ (Gate!Take \/ Gate!Sleep \/ Gate!Answered \/ Gate!Update) =>
    GateOrder' /\ GateHolds'
<1> SUFFICES ASSUME GateOrder, GateHolds,
                    Gate!Take \/ Gate!Sleep \/ Gate!Answered \/ Gate!Update
             PROVE  GateOrder' /\ GateHolds'
  OBVIOUS
<1>1. /\ UNCHANGED <<admitted_turn, turn, verdict, through>>
      /\ awake' \in BOOLEAN /\ hushed' \in BOOLEAN
      /\ hushed' => ~awake'
  <2>1. CASE Gate!Take
    BY <2>1 DEF GateOrder, Gate!Take, Gate!history
  <2>2. CASE Gate!Sleep
    BY <2>2 DEF GateOrder, Gate!Sleep
  <2>3. CASE Gate!Answered
    BY <2>3 DEF GateOrder, Gate!Answered, Gate!history
  <2>4. CASE Gate!Update
    BY <2>4 DEF GateOrder, Gate!Update, Gate!AwakeIn
  <2> QED BY <2>1, <2>2, <2>3, <2>4
<1> QED
  BY <1>1 DEF GateOrder, GateHolds, Gate!GateHolds, Gate!RevisionsFollow, Gate!SleepHolds,
              Gate!WakeHeard

LEMMA GateAlone == Gate!Spec => []GateHolds
<1>1. Gate!Init => GateOrder /\ GateHolds
  <2> SUFFICES ASSUME Gate!Init PROVE GateOrder /\ GateHolds
    OBVIOUS
  <2>1. GateOrder
    <3>1. turn = 0 /\ admitted_turn = 0 /\ through = {} /\ awake /\ ~hushed
      BY DEF Gate!Init
    <3>2. awake \in BOOLEAN /\ hushed \in BOOLEAN
      BY DEF Gate!Init
    <3> QED BY <3>1, <3>2 DEF GateOrder
  <2>2. ~verdict.known /\ ~verdict.hushed
    BY DEF Gate!Init, Gate!NoVerdict
  <2> QED
    BY <2>1, <2>2 DEF GateHolds, Gate!GateHolds, Gate!RevisionsFollow, Gate!SleepHolds
<1>2. GateOrder /\ GateHolds /\ [Gate!Next]_(Gate!vars) => (GateOrder /\ GateHolds)'
  <2> SUFFICES ASSUME GateOrder, GateHolds, [Gate!Next]_(Gate!vars)
               PROVE  GateOrder' /\ GateHolds'
    OBVIOUS
  <2>1. CASE UNCHANGED Gate!vars
    BY <2>1 DEF Gate!vars, Gate!history, GateOrder, GateHolds, Gate!GateHolds,
                Gate!RevisionsFollow, Gate!SleepHolds, Gate!WakeHeard
  <2> QED BY <2>1, GateRecognizes, GateOthers DEF Gate!Next
<1> QED BY <1>1, <1>2, PTL DEF Gate!Spec

\* The settings and the gate are two parts of one connection: each behaves as
\* if it were alone.
LEMMA PartsAlone == MCSpec => Spec /\ Gate!Spec
<1>1. MCInit => Init /\ Gate!Init
  BY DEF MCInit
<1>2. [MCNext]_<<part, vars, gate>> => [Next]_vars /\ [Gate!Next]_(Gate!vars)
  BY DEF MCNext, gate, Gate!vars, Gate!history
<1> QED BY <1>1, <1>2, PTL DEF MCSpec, Spec, Gate!Spec

\* Asleep, the gate is shut to all but a wake phrase and the turns it let
\* through before: however many turns are heard, answered and changed in
\* between by the recognizer, the tool of an answer and the page.
THEOREM GateShut == MCSpec => []GateHolds
<1> QED BY PartsAlone, GateAlone, PTL
=============================================================================
