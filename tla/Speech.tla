------------------------------- MODULE Speech -------------------------------
(***************************************************************************)
(* The speech of one unit: the voices src/tts-bridge.cpp makes of the      *)
(* files of its directory, its request to the talker, and conn_speak of    *)
(* src/s2s-conversation.cpp, whose callback sends what the talker makes.   *)
(* The talker is external: it streams chunks from its own thread and asks  *)
(* between them whether to go on.  The cancel may be raised at any moment. *)
(***************************************************************************)
EXTENDS Integers, Sequences

CONSTANTS Names,      \* the files, voices in the order of their names
          Languages,  \* those of the talker
          MaxUnits,   \* bound: units spoken
          MaxEvents   \* bound: events of a unit before its last chunk

VARIABLES
  files,    \* [Names -> the files of each voice]
  bridge,   \* the entries, in order, or None while it is not loaded
  asked,    \* the voice, the language and those of the browser
  at,       \* "loading", "idle", "speaking", "done" or "refused"
  request,  \* what the talker was given
  verdict,  \* what the bridge returns: "spoke", "cancelled" or "failed"
  cancel,   \* conn->cancel
  sending,  \* the chunk of the callback: "nothing", "silence" or "sound"
  samples,  \* of this unit, one for every chunk that has some
  unit,     \* units so far
  events,   \* what the client was sent of this unit
  raised    \* history variable: how many events there were at the cancel

speech == <<files, bridge, asked, at, request, verdict, cancel, sending, samples, unit, events,
            raised>>

None == <<>>
States == {"absent", "good", "bad"}
Set == [spk : {"absent", "good", "bad"}, rvq : States, txt : States]

(* -------------------------------- the voices --------------------------- *)

\* A reference is two files, and both can be read.
Refused(f) == \/ f.spk = "bad"
              \/ (f.rvq = "absent") # (f.txt = "absent")
              \/ f.rvq # "absent" /\ "bad" \in {f.rvq, f.txt}

Entry(i, reference) == [voice |-> i, reference |-> reference]
EntriesOf(i) ==
  (IF files[i].rvq = "absent" THEN <<>> ELSE <<Entry(i, TRUE)>>) \o <<Entry(i, FALSE)>>

Voices == {i \in 1 .. Names : files[i].spk # "absent"}
Flatten(n) ==
  LET upto[i \in 0 .. n] ==
        IF i = 0 THEN <<>>
        ELSE upto[i - 1] \o (IF i \in Voices THEN EntriesOf(i) ELSE <<>>)
  IN  upto[n]

Init ==
  /\ files \in [1 .. Names -> Set] /\ bridge = None
  /\ asked = None /\ at = "loading" /\ request = None /\ verdict = "none"
  /\ cancel = FALSE /\ sending = "nothing" /\ samples = 0 /\ unit = 0
  /\ events = <<>> /\ raised = 0

\* One voice that cannot be read, or none at all, refuses the whole bridge.
Load ==
  /\ at = "loading"
  /\ IF Voices = {} \/ \E i \in Voices : Refused(files[i])
     THEN at' = "refused" /\ UNCHANGED bridge
     ELSE at' = "idle" /\ bridge' = Flatten(Names)
  /\ UNCHANGED <<files, asked, request, verdict, cancel, sending, samples, unit, events, raised>>

(* -------------------------------- a unit ------------------------------- *)

Default == bridge[1]
\* A label names one entry, no label the first one.
Find(label) == IF label = None THEN {Default}
               ELSE {bridge[i] : i \in {j \in DOMAIN bridge : bridge[j] = label}}

\* The language asked for, else the first of the browser the talker speaks.
Language(language, browser) ==
  LET spoken == {i \in DOMAIN browser : browser[i] \in Languages} IN
    IF language # "auto" \/ spoken = {} THEN language
    ELSE browser[CHOOSE i \in spoken : \A j \in spoken : i <= j]

Labels == {None, Entry(0, FALSE)} \union {Entry(i, r) : i \in 1 .. Names, r \in BOOLEAN}
Begin(label, language, browser) ==
  /\ at = "idle" /\ unit < MaxUnits /\ unit' = unit + 1
  /\ events' = <<>> /\ samples' = 0 /\ sending' = "nothing" /\ raised' = 0
  /\ asked' = [label |-> label, language |-> language, browser |-> browser]

\* What browsers ask for: "other" is a language the talker does not speak.
Browsers ==
  {<<>>, <<"other">>} \union {<<"other", l>> : l \in Languages}
    \union {<<l, "other">> : l \in Languages}

\* The bridge looks at the cancel, finds the voice and calls the talker, with
\* one language or none.
Speak ==
  /\ \E label \in Labels, language \in Languages \union {"auto"}, browser \in Browsers :
       /\ Begin(label, language, browser)
       /\ IF cancel THEN at' = "done" /\ verdict' = "cancelled" /\ UNCHANGED request
          ELSE IF Find(label) = {} THEN at' = "done" /\ verdict' = "failed" /\ UNCHANGED request
          ELSE LET entry == CHOOSE e \in Find(label) : TRUE IN
               /\ at' = "speaking" /\ UNCHANGED verdict
               /\ request' = [spk |-> entry.voice,
                              lang |-> {Language(language, browser)} \ {"auto"},
                              ref |-> IF entry.reference THEN entry.voice ELSE 0]
  /\ UNCHANGED <<files, bridge, cancel>>

\* Another thread takes the floor back.
Cancel ==
  /\ at \in {"idle", "speaking", "done"} /\ ~cancel /\ cancel' = TRUE
  /\ raised' = Len(events)
  /\ UNCHANGED <<files, bridge, asked, at, request, verdict, sending, samples, unit, events>>

Stops == at' = "done" /\ verdict' = "cancelled"

\* The talker asks, or hands a chunk: a cancel that is up stops it.
Poll ==
  /\ at = "speaking" /\ sending = "nothing" /\ cancel /\ Stops
  /\ UNCHANGED <<files, bridge, asked, request, cancel, sending, samples, unit, events, raised>>
Chunk ==
  /\ at = "speaking" /\ sending = "nothing" /\ ~cancel /\ Len(events) < MaxEvents
  /\ sending' \in {"silence", "sound"}
  /\ UNCHANGED <<files, bridge, asked, at, request, verdict, cancel, samples, unit, events, raised>>

\* Variant: the text goes out before the first chunk, one without samples too.
TextOfAny == IF samples = 0 THEN <<"text">> ELSE <<>>
\* The text goes out right before the first chunk with samples.
Text == IF samples = 0 /\ sending = "sound" THEN <<"text">> ELSE <<>>

\* The chunk is sent, whatever came meanwhile, and the cancel looked at again.
Send ==
  /\ sending # "nothing" /\ sending' = "nothing"
  /\ events' = events \o Text \o <<sending>>
  /\ samples' = samples + (IF sending = "sound" THEN 1 ELSE 0)
  /\ IF cancel THEN Stops ELSE UNCHANGED <<at, verdict>>
  /\ UNCHANGED <<files, bridge, asked, request, cancel, unit, raised>>

\* The talker ends, having spoken or not.
End ==
  /\ at = "speaking" /\ sending = "nothing" /\ at' = "done"
  /\ verdict' \in {"spoke", "failed"}
  /\ UNCHANGED <<files, bridge, asked, request, cancel, sending, samples, unit, events, raised>>

\* A failure is told, unless the answer was cancelled.
Finish ==
  /\ at = "done" /\ at' = "idle"
  /\ events' = IF verdict # "spoke" /\ ~cancel THEN Append(events, "error") ELSE events
  /\ verdict' = "none" /\ request' = None
  /\ UNCHANGED <<files, bridge, asked, cancel, sending, samples, unit, raised>>

\* The next answer lowers the cancel, the other units of this one find it.
Answer ==
  /\ at = "idle" /\ cancel /\ cancel' = FALSE
  /\ UNCHANGED <<files, bridge, asked, at, request, verdict, sending, samples, unit, events,
                 raised>>

Next == Load \/ Speak \/ Cancel \/ Poll \/ Chunk \/ Send \/ End \/ Finish \/ Answer
Spec == Init /\ [][Next]_speech

(* ------------------------------ properties ----------------------------- *)

Places(event) == {i \in DOMAIN events : events[i] = event}

\* The language asked for, else the first of the browser the talker speaks,
\* else none.
Speaks(lang) ==
  IF asked.language # "auto" THEN lang = {asked.language}
  ELSE \/ lang = {} /\ \A i \in DOMAIN asked.browser : asked.browser[i] \notin Languages
       \/ \E i \in DOMAIN asked.browser :
            /\ asked.browser[i] \in Languages /\ lang = {asked.browser[i]}
            /\ \A j \in 1 .. i - 1 : asked.browser[j] \notin Languages

\* A unit is heard as it is read: its text goes once, right before its first
\* sound and never without, and after a cancel comes the chunk that was on its
\* way at most, with its text, and no error.  The talker is given the language
\* it should speak, the files of the voice that was named, the first voice
\* with its reference when it has one when none was, and a reference only
\* whole.
UnitIsHeard ==
  /\ Places("text") =
       {i - 1 : i \in {j \in Places("sound") : \A k \in Places("sound") : j <= k}}
  /\ cancel =>
       /\ Len(events) <= raised + (IF \E i \in Places("sound") : i <= raised THEN 1 ELSE 2)
       /\ \A i \in raised + 1 .. Len(events) : events[i] # "error"
  /\ request # None =>
       LET first == CHOOSE i \in Voices : \A j \in Voices : i <= j
           voice == IF asked.label = None THEN first ELSE asked.label.voice
           whole == files[voice].rvq = "good" /\ files[voice].txt = "good"
           reference == IF asked.label = None THEN whole ELSE asked.label.reference
       IN  /\ request.spk = voice /\ files[voice].spk = "good"
           /\ request.ref = IF reference THEN voice ELSE 0
           /\ reference => whole
           /\ Speaks(request.lang)
=============================================================================
