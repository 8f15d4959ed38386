----------------------------- MODULE ClientProofs -----------------------------
(***************************************************************************)
(* For any number of units and samples, any ring and any period of the     *)
(* sound card, an answer is filed with what was heard of it.  The argument *)
(* has two halves.  The frames on the wire come in the order the engine    *)
(* gives them (WireOrder): an answer opens only behind a frame that closes *)
(* the one before, a transcript ends the line it came under, a chunk       *)
(* follows the unit it speaks.  And the ring, the counters of the callback *)
(* and the units stay in step (CardInv): where a unit starts is where its  *)
(* first sample stands, in what was played or in what waits.               *)
(*                                                                         *)
(* And a request says the turns: each once, in their order, with the last  *)
(* words of those transcribed before it.  What the model is asked is a     *)
(* fold over the list the engine was told; a fold takes one step for one   *)
(* element, which is proved first, by induction with a set in the place of *)
(* a predicate.  That the lists deserve it is TalkInv: turns reach the     *)
(* wire, the history and the lists in order (WireTurns, HistoryInv), an    *)
(* answer is filed only when no transcript of the turn it answers can      *)
(* follow (Fenced), and a list that tells of the last answer that opened   *)
(* tells of every turn that waits for no answer (WordsInv, ListInv).       *)
(***************************************************************************)
EXTENDS Client, SequenceTheorems, WellFoundedInduction, TLAPS

Positive == Nat \ {0}
Turns == [turn : Positive, rev : Nat]
Kinds == {"started", "transcript", "created", "text", "tool", "unit", "audio", "cancelled", "done"}
Frames == [kind : Kinds, turn : Nat, rev : Nat]
Samples == [answer : Nat, unit : Nat]
Units == [unit : Nat, start : Nat]

\* The types of the engine, and of the thread that brings its frames.
EngineTyped ==
  /\ turn \in Nat /\ rev \in Nat /\ user \in {"open", "committed", "final"}
  /\ user # "final" => turn # 0
  /\ commits \in Seq(Turns) /\ jobs \in Seq(Turns) /\ job \in Turns \cup {Nobody}
  /\ spoken \in Nat \X Nat /\ wire \in Seq(Frames)

\* The types of the client; nothing is said of the lists it sends.
ClientTyped ==
  /\ ring \in Seq(Samples) /\ heard \in Nat /\ consumed \in Nat
  /\ callback \in [at : {"idle", "counts", "consumes"}, took : Nat]
  /\ units \in Seq(Units) /\ queued \in Nat /\ answer \in Nat /\ lines \in Nat
  /\ sounded \subseteq Samples /\ placed \subseteq Samples /\ filed \subseteq Samples
Typed == EngineTyped /\ ClientTyped /\ (writer = "flushing" => wire # <<>>)

(* --------------------------- the order of the wire --------------------- *)

\* The frames that close the answer before them, and those that write.
Ends(f) == f.kind \in {"started", "cancelled"}
Writes(f) == f.kind \in {"text", "tool", "unit"}

\* Before place j of the frames w, every answer that opened was closed.
Quiet(w, j) ==
  /\ answering => \E k \in 1 .. j - 1 : Ends(w[k])
  /\ \A i \in 1 .. j - 1 : w[i].kind = "created" => \E k \in i + 1 .. j - 1 : Ends(w[k])

\* Before place j, an answer opened since the line was ended.
Fresh(w, j) ==
  /\ \A i \in 1 .. j - 1 :
       w[i].kind = "transcript" => \E k \in i + 1 .. j - 1 : w[k].kind = "created"
  /\ answering /\ lines # 0 /\ ~line_open => \E k \in 1 .. j - 1 : w[k].kind = "created"

\* Before place j, the unit n is the last one of its answer.
Speaks(w, j, n) ==
  \/ \E i \in 1 .. j - 1 : /\ w[i].kind = "unit" /\ w[i].rev = n
                           /\ \A k \in i + 1 .. j - 1 : w[k].kind \notin {"unit", "created"}
  \/ /\ \A k \in 1 .. j - 1 : w[k].kind \notin {"unit", "created"}
     /\ answering => units # <<>> /\ units[Len(units)].unit = n

\* Before place j, the units of its answer are below n.
Above(w, j, n) ==
  /\ \A i \in 1 .. j - 1 : \/ w[i].kind # "unit" \/ w[i].rev < n
                           \/ \E k \in i + 1 .. j - 1 : w[k].kind = "created"
  /\ \/ ~answering \/ \E k \in 1 .. j - 1 : w[k].kind = "created"
     \/ \A m \in DOMAIN units : units[m].unit < n

\* A frame f may stand at place j.
Fits(w, j, f) ==
  /\ f.kind = "created" => Quiet(w, j)
  /\ Writes(f) => Fresh(w, j)
  /\ f.kind = "audio" => Speaks(w, j, f.rev)
  /\ f.kind = "unit" => Above(w, j, f.rev)
InOrder(w) == \A j \in DOMAIN w : Fits(w, j, w[j])

\* What the writer finds, and what the engine may add to it.
WireOrder == InOrder(wire)
WireEnd ==
  LET end == Len(wire) + 1 IN
    /\ job = Nobody /\ (jobs # <<>> \/ commits # <<>> \/ user = "open") => Quiet(wire, end)
    /\ job # Nobody /\ ~void => Fresh(wire, end)
    /\ spoken[1] > 0 => Speaks(wire, end, spoken[1])
    /\ job # Nobody => Above(wire, end, spoken[1] + 1)

\* The turns that wait are those that opened, the last one last.
UpTo(c, l) == c.turn < l.turn \/ (c.turn = l.turn /\ c.rev <= l.rev)
TurnsInOrder ==
  /\ \A i \in DOMAIN commits : /\ UpTo(commits[i], Latest)
                               /\ commits[i] = Latest => i = Len(commits) /\ user # "open"
  /\ \A i \in DOMAIN jobs :
       /\ UpTo(jobs[i], Latest)
       /\ jobs[i] = Latest => i = Len(jobs) /\ commits = <<>> /\ user # "open"
  /\ job # Nobody /\ ~void => jobs = <<>> /\ commits = <<>> /\ user # "open"
  /\ job = Nobody => spoken[1] = 0

(* ----------------------- the sound card in step ------------------------ *)

\* The samples the loudspeaker played, counted or not.
Sounds == heard + (IF callback.at = "counts" THEN callback.took ELSE 0)
\* The ring was flushed, and the writer has yet to see it.
Cut == writer = "flushing" /\ ~flush

\* The mutex is kept from the flush to the frame that asked for it.
WriterInv ==
  /\ flush => writer = "flushing"
  /\ writer = "flushing" => Ends(wire[1])
  /\ callback.at = "idle" <=> callback.took = 0
  /\ Cut \/ ~answering => callback.at = "idle" /\ ring = <<>>
  /\ lines <= 1 /\ (line_open => lines = 1)

\* The units of the answer begin one after the other, each at a sample.
UnitsInOrder ==
  /\ \A i \in DOMAIN units : units[i].start <= queued
  /\ \A i, m \in DOMAIN units : i < m => units[i].unit < units[m].unit
  /\ units # <<>> /\ units[Len(units)].start < queued =>
       [answer |-> answer, unit |-> units[Len(units)].unit] \in placed
  /\ \A s \in placed : \E i \in DOMAIN units : units[i].unit = s.unit

\* A sample of the ring stands behind the start of its unit, and the first one
\* of a unit that did not sound yet stands where the unit starts.
RingInStep ==
  /\ consumed + callback.took + Len(ring) = queued
  /\ \A k \in DOMAIN ring :
       /\ ring[k] \in placed
       /\ \E i \in DOMAIN units : units[i].unit = ring[k].unit /\ units[i].start <= Sounds + k - 1
  /\ ~Cut => /\ Sounds + Len(ring) = queued
             /\ \A i \in DOMAIN units :
                  LET k == units[i].start - Sounds + 1 IN
                    /\ [answer |-> answer, unit |-> units[i].unit] \in placed
                    /\ k >= 1
                    => k \in DOMAIN ring /\ ring[k].unit = units[i].unit

SoundedOf(count) ==
  {s \in placed : \E i \in DOMAIN units : units[i].unit = s.unit /\ units[i].start < count}
CardInv ==
  /\ sounded \subseteq placed /\ \A s \in placed : s.answer = answer
  /\ answering => UnitsInOrder /\ RingInStep /\ sounded = SoundedOf(Sounds)
  /\ ~answering => sounded = filed \cap placed /\ ~line_open /\ units = <<>>

ClientInv ==
  ~g_stop => WireOrder /\ WireEnd /\ TurnsInOrder /\ WriterInv /\ CardInv

(* ------------------------------- the types ----------------------------- *)

LEMMA InitTyped == Init => Typed
BY DEF Init, Typed, EngineTyped, ClientTyped, Turns, Positive, Frames, Kinds, Samples, Units, Nobody

\* The engine only adds to the wire.
WireGrows == /\ wire' \in Seq(Frames)
             /\ wire # <<>> => wire' # <<>> /\ wire'[1] = wire[1]

LEMMA EngineTypes ==
  ASSUME Typed, Engine PROVE  Typed' /\ WireGrows
<1>1. ClientTyped'
  BY DEF Typed, ClientTyped, Engine, SpeechStarts, SpeechCommits, TurnFinal, Recognize,
         AnswerOpens, AnswerWrites, AnswerSpeaks, AnswerSounds, AnswerEnds, Outside, card, context,
         display, threads
<1>f. ASSUME NEW kind \in Kinds, NEW r \in Nat
      PROVE Frame(kind) \in Frames /\ [Frame(kind) EXCEPT !.rev = r] \in Frames
  BY <1>f DEF Frame, Frames
<1>e. ASSUME NEW f \in Frames, Emit(<<f>>) PROVE WireGrows
  BY <1>e DEF Emit, Typed, EngineTyped, WireGrows
<1>g. ASSUME NEW f \in Frames, NEW g \in Frames, Emit(<<f, g>>) PROVE WireGrows
  BY <1>g DEF Emit, Typed, EngineTyped, WireGrows
<1>2. EngineTyped' /\ WireGrows
  <2>. USE DEF Typed, EngineTyped, Latest
  <2>1. CASE SpeechStarts
    <3>1. WireGrows
      BY <2>1, <1>f, <1>e DEF SpeechStarts, Kinds
    <3>w. wire' \in Seq(Frames)
      BY <3>1 DEF WireGrows
    <3>. QED BY <2>1, <3>1, <3>w DEF SpeechStarts
  <2>2. CASE SpeechCommits
    BY <2>2 DEF SpeechCommits, Turns, Positive, WireGrows
  <2>3. CASE TurnFinal
    BY <2>3 DEF TurnFinal, WireGrows
  <2>4. CASE Recognize
    <3>1. Head(commits) \in Turns /\ Tail(commits) \in Seq(Turns)
      BY <2>4 DEF Recognize
    <3>. DEFINE c == Head(commits)
                f == [kind |-> "transcript", turn |-> c.turn, rev |-> c.rev]
    <3>2. f \in Frames
      BY <3>1 DEF Frames, Kinds, Turns, Positive
    <3>3. Emit(<<f>>) \/ wire' = wire
      BY <2>4 DEF Recognize
    <3>3j. jobs' = Append(jobs, c) \/ jobs' = jobs
      BY <2>4 DEF Recognize
    <3>. HIDE DEF c, f
    <3>4. WireGrows
      BY <3>2, <3>3, <1>e DEF WireGrows
    <3>5. c \in Turns
      BY <3>1 DEF c
    <3>6. jobs' \in Seq(Turns)
      <4>1. jobs \in Seq(Turns)
        OBVIOUS
      <4>2. Append(jobs, c) \in Seq(Turns)
        BY <3>5, <4>1
      <4>. QED BY <3>3j, <4>1, <4>2
    <3>w. wire' \in Seq(Frames)
      BY <3>4 DEF WireGrows
    <3>. QED BY <2>4, <3>1, <3>4, <3>6, <3>w DEF Recognize
  <2>5. CASE AnswerOpens
    <3>1. Head(jobs) \in Turns /\ Tail(jobs) \in Seq(Turns)
      BY <2>5 DEF AnswerOpens
    <3>2. WireGrows
      BY <2>5, <1>f, <1>e DEF AnswerOpens, Kinds
    <3>w. wire' \in Seq(Frames)
      BY <3>2 DEF WireGrows
    <3>. QED BY <2>5, <3>1, <3>2, <3>w DEF AnswerOpens
  <2>6. CASE AnswerWrites
    <3>1. WireGrows
      BY <2>6, <1>f, <1>e DEF AnswerWrites, Kinds
    <3>w. wire' \in Seq(Frames)
      BY <3>1 DEF WireGrows
    <3>. QED BY <2>6, <3>1, <3>w DEF AnswerWrites
  <2>7. CASE AnswerSpeaks
    <3>1. spoken' \in Nat \X Nat
      BY <2>7 DEF AnswerSpeaks
    <3>2. /\ [Frame("unit") EXCEPT !.rev = spoken'[1]] \in Frames
          /\ [Frame("audio") EXCEPT !.rev = spoken'[1]] \in Frames
      BY <3>1, <1>f DEF Kinds
    <3>3. WireGrows
      BY <2>7, <3>2, <1>g DEF AnswerSpeaks
    <3>w. wire' \in Seq(Frames)
      BY <3>3 DEF WireGrows
    <3>. QED BY <2>7, <3>1, <3>3, <3>w DEF AnswerSpeaks
  <2>8. CASE AnswerSounds
    <3>1. WireGrows
      BY <2>8, <1>f, <1>e DEF AnswerSounds, Kinds
    <3>w. wire' \in Seq(Frames)
      BY <3>1 DEF WireGrows
    <3>. QED BY <2>8, <3>1, <3>w DEF AnswerSounds
  <2>9. CASE AnswerEnds
    <3>1. WireGrows
      BY <2>9, <1>f, <1>e DEF AnswerEnds, Kinds
    <3>w. wire' \in Seq(Frames)
      BY <3>1 DEF WireGrows
    <3>. QED BY <2>9, <3>1, <3>w DEF AnswerEnds
  <2>. QED BY <2>1, <2>2, <2>3, <2>4, <2>5, <2>6, <2>7, <2>8, <2>9 DEF Engine
<1>3. writer' = writer
  BY DEF Engine, SpeechStarts, SpeechCommits, TurnFinal, Recognize, AnswerOpens, AnswerWrites,
         AnswerSpeaks, AnswerSounds, AnswerEnds, Outside, threads
<1>. QED BY <1>1, <1>2, <1>3 DEF Typed, WireGrows

\* What a callback takes is what the ring has, a period at most.
LEMMA Least ==
  ASSUME NEW a \in Nat, NEW b \in Nat
  PROVE Min({a, b}) = IF a <= b THEN a ELSE b
BY DEF Min

LEMMA CardTypes ==
  ASSUME ClientAssumption, Typed, Callback PROVE Typed'
<1>. USE DEF ClientTyped
<1>0. ClientTyped /\ EngineTyped
  BY DEF Typed
<1>1. EngineTyped'
  BY <1>0
  DEF EngineTyped, Callback, CallbackPlays, CallbackHeard, CallbackConsumed, Elsewhere, engine
<1>2. ClientTyped'
  <2>1. CASE CallbackPlays
    <3>. DEFINE rest == IF flush THEN <<>> ELSE ring
                n == Min({Period, Len(rest)})
    <3>1. rest \in Seq(Samples) /\ Len(rest) \in Nat /\ Period \in Nat
      BY <1>0 DEF ClientAssumption
    <3>2. n \in 0 .. Len(rest)
      <4>. DEFINE b == Len(rest)
      <4>1. b \in Nat
        BY <3>1
      <4>. HIDE DEF b
      <4>2. Min({Period, b}) \in 0 .. b
        BY <3>1, <4>1, Least
      <4>. QED BY <4>2 DEF b
    <3>3. /\ callback' = [at |-> IF n = 0 THEN "idle" ELSE "counts", took |-> n]
          /\ ring' = SubSeq(rest, n + 1, Len(rest))
          /\ sounded' = sounded \cup Range(SubSeq(rest, 1, n))
          /\ consumed' = IF flush THEN consumed + Len(ring) ELSE consumed
          /\ flush' = FALSE
          /\ UNCHANGED <<heard, placed, filed, lines>>
          /\ UNCHANGED <<context, display, threads>>
      BY <2>1 DEF CallbackPlays, Elsewhere
    <3>. HIDE DEF rest, n
    <3>4. SubSeq(rest, n + 1, Len(rest)) \in Seq(Samples)
      BY <3>1, <3>2
    <3>5. SubSeq(rest, 1, n) \in Seq(Samples)
      BY <3>1, <3>2
    <3>6. Range(SubSeq(rest, 1, n)) \subseteq Samples
      BY <3>5 DEF Range
    <3>7. sounded' \in SUBSET Samples
      BY <1>0, <3>3, <3>6
    <3>8. /\ consumed' \in Nat
          /\ ring' \in Seq(Samples)
      <4>1. Len(ring) \in Nat
        BY <1>0
      <4>2. consumed' \in Nat
        BY <1>0, <3>3, <4>1
      <4>. QED BY <3>3, <3>4, <4>2
    <3>9. callback' \in [at : {"idle", "counts", "consumes"}, took : Nat]
      BY <3>2, <3>1, <3>3
    <3>. QED BY <1>0, <3>3, <3>7, <3>8, <3>9 DEF context, display, threads
  <2>2. CASE CallbackHeard
    <3>1. callback' \in [at : {"idle", "counts", "consumes"}, took : Nat] /\ heard' \in Nat
      <4>1. callback \in [at : {"idle", "counts", "consumes"}, took : Nat] /\ heard \in Nat
        BY <1>0
      <4>2. callback' = [callback EXCEPT !.at = "consumes"] /\ heard' = heard + callback.took
        BY <2>2 DEF CallbackHeard
      <4>. HIDE DEF ClientTyped
      <4>3. heard' \in Nat
        BY <4>1, <4>2
      <4>. QED BY <4>1, <4>2, <4>3
    <3>. QED BY <1>0, <2>2, <3>1 DEF CallbackHeard, Elsewhere, context, display, threads
  <2>3. CASE CallbackConsumed
    BY <1>0, <2>3, SMTT(30) DEF CallbackConsumed, Elsewhere, context, display, threads
  <2>. QED BY <2>1, <2>2, <2>3 DEF Callback
<1>3. wire' = wire /\ writer' = writer
  BY DEF Callback, CallbackPlays, CallbackHeard, CallbackConsumed, Elsewhere, threads
<1>. QED BY <1>1, <1>2, <1>3 DEF Typed

\* A close files samples and leaves no unit.
LEMMA CloseTypes ==
  ASSUME ClientTyped, FileAnswer PROVE units' \in Seq(Units) /\ filed' \subseteq Samples
<1>0. units \in Seq(Units)
  BY DEF ClientTyped
<1>1. \A i \in DOMAIN units : units[i].unit \in Nat
  <2>1. \A i \in DOMAIN units : units[i] \in Units
    BY <1>0
  <2>. QED BY <2>1 DEF Units
<1>2. \A u \in Range(units) : u.unit \in Nat
  BY <1>1 DEF Range
<1>3. answer \in Nat
  BY DEF ClientTyped
<1>4. filed' \subseteq Samples
  BY <1>2, <1>3 DEF FileAnswer, Started, Samples
<1>. QED BY <1>4 DEF FileAnswer

\* The writer reads the wire, and nothing else of the engine.
LEMMA WriterReads ==
  ASSUME Typed, Writer
  PROVE  /\ UNCHANGED <<engine, callback, g_stop>> /\ wire # <<>>
         /\ \/ wire' = wire /\ writer' = "flushing"
            \/ wire' = Tail(wire) /\ writer' = "idle"
<1>. USE DEF Delivers, Handled, WriterRest, NoClose, Closes
<1>1. CASE OnStarted
  BY <1>1 DEF OnStarted
<1>2. CASE OnTranscript
  BY <1>2 DEF OnTranscript
<1>3. CASE OnCreated
  BY <1>3 DEF OnCreated
<1>4. CASE OnText
  BY <1>4 DEF OnText
<1>5. CASE OnUnit
  BY <1>5 DEF OnUnit
<1>6. CASE OnAudio
  BY <1>6 DEF OnAudio
<1>7. CASE OnCancelled
  BY <1>7 DEF OnCancelled
<1>8. CASE OnDone
  BY <1>8 DEF OnDone
<1>9. CASE Flushed
  BY <1>9 DEF Flushed, Typed
<1>. QED BY <1>1, <1>2, <1>3, <1>4, <1>5, <1>6, <1>7, <1>8, <1>9 DEF Writer, Deliver

LEMMA WriterTypes ==
  ASSUME Typed, Writer PROVE Typed'
<1>1. ClientTyped /\ EngineTyped
  BY DEF Typed
<1>w. /\ UNCHANGED <<engine, callback, g_stop>> /\ wire # <<>>
      /\ \/ wire' = wire /\ writer' = "flushing"
         \/ wire' = Tail(wire) /\ writer' = "idle"
  BY WriterReads
<1>h. Head(wire).rev \in Nat /\ Tail(wire) \in Seq(Frames)
  <2>1. wire \in Seq(Frames)
    BY <1>1 DEF EngineTyped
  <2>2. Head(wire) \in Frames /\ Tail(wire) \in Seq(Frames)
    BY <2>1, <1>w
  <2>. QED BY <2>2 DEF Frames
<1>2. EngineTyped'
  BY <1>1, <1>w, <1>h DEF EngineTyped, engine
<1>3. ClientTyped'
  <2>. USE DEF SameAnswer, SameCard, NoClose, FilesNothing, Takes, Closes, WriteLine, ClientTyped
  <2>0. callback' = callback
    BY <1>w
  <2>1. CASE OnStarted
    BY <1>1, <2>0, <2>1 DEF OnStarted
  <2>2. CASE OnTranscript
    BY <1>1, <2>0, <2>2 DEF OnTranscript
  <2>3. CASE OnCreated
    <3>1. units' \in Seq(Units) /\ filed' \subseteq Samples
      BY <1>1, <2>3, CloseTypes DEF OnCreated
    <3>. QED BY <1>1, <2>0, <2>3, <3>1 DEF OnCreated
  <2>4. CASE OnText
    BY <1>1, <2>0, <2>4 DEF OnText
  <2>5. CASE OnUnit
    <3>1. Head(wire).rev \in Nat
      BY <1>h
    <3>2. [unit |-> Head(wire).rev, start |-> queued] \in Units
      BY <1>1, <3>1 DEF Units
    <3>. DEFINE u == [unit |-> Head(wire).rev, start |-> queued]
    <3>3. units' = Append(units, u) \/ units' = units
      BY <2>5 DEF OnUnit
    <3>4. units \in Seq(Units) /\ u \in Units
      BY <1>1, <3>2
    <3>. HIDE DEF u
    <3>5. units' \in Seq(Units)
      BY <3>3, <3>4
    <3>. QED BY <1>1, <2>0, <2>5, <3>5 DEF OnUnit
  <2>6. CASE OnAudio
    <3>. DEFINE sample == [answer |-> answer, unit |-> Head(wire).rev]
    <3>1. Head(wire).rev \in Nat
      BY <1>h
    <3>2. sample \in Samples
      BY <1>1, <3>1 DEF Samples
    <3>3. /\ ring' = ring \/ ring' = Append(ring, sample)
          /\ placed' = placed \/ placed' = placed \cup {sample}
          /\ queued' \in {queued, queued + 1, queued + 0}
      BY <2>6 DEF OnAudio, Counts
    <3>. HIDE DEF sample
    <3>4. ring' \in Seq(Samples)
      <4>1. ring \in Seq(Samples)
        BY <1>1
      <4>2. Append(ring, sample) \in Seq(Samples)
        BY <3>2, <4>1
      <4>. QED BY <3>3, <4>1, <4>2
    <3>5. placed' \subseteq Samples
      BY <1>1, <3>2, <3>3
    <3>. QED BY <1>1, <2>0, <2>6, <3>3, <3>4, <3>5 DEF OnAudio
  <2>7. CASE OnCancelled
    BY <1>1, <2>0, <2>7 DEF OnCancelled
  <2>8. CASE OnDone
    BY <1>1, <2>0, <2>8 DEF OnDone
  <2>9. CASE Flushed
    <3>1. units' \in Seq(Units) /\ filed' \subseteq Samples
      BY <1>1, <2>9, CloseTypes DEF Flushed
    <3>. QED BY <1>1, <2>0, <2>9, <3>1 DEF Flushed
  <2>. QED BY <2>1, <2>2, <2>3, <2>4, <2>5, <2>6, <2>7, <2>8, <2>9 DEF Writer, Deliver
<1>4. writer' = "flushing" => wire' # <<>>
  BY <1>w
<1>. QED BY <1>2, <1>3, <1>4 DEF Typed

LEMMA MainTypes ==
  ASSUME Typed, Read \/ Send \/ Stop \/ Leave PROVE Typed'
<1>1. ClientTyped /\ EngineTyped
  BY DEF Typed
<1>2. /\ UNCHANGED <<engine, wire, writer, card, queued, answer, lines, sounded, placed>>
      /\ FileAnswer \/ UNCHANGED <<units, filed>>
  BY DEF Read, Send, Stop, Leave, MainRest, Closes, NoClose, FilesNothing
<1>3. units' \in Seq(Units) /\ filed' \subseteq Samples
  BY <1>1, <1>2, CloseTypes DEF ClientTyped
<1>4. EngineTyped'
  BY <1>1, <1>2 DEF EngineTyped, engine
<1>5. ClientTyped'
  BY <1>1, <1>2, <1>3 DEF ClientTyped, card
<1>. QED BY <1>2, <1>4, <1>5 DEF Typed

LEMMA StepTyped ==
  ASSUME ClientAssumption, Typed, [Next]_vars PROVE Typed'
<1>1. CASE Engine
  BY <1>1, EngineTypes
<1>2. CASE Callback
  BY <1>2, CardTypes
<1>3. CASE Writer
  BY <1>3, WriterTypes
<1>4. CASE Read \/ Send \/ Stop \/ Leave
  BY <1>4, MainTypes
<1>5. CASE UNCHANGED vars
  BY <1>5 DEF vars, Typed, EngineTyped, ClientTyped, engine, card, context, threads, ghosts
<1>. QED BY <1>1, <1>2, <1>3, <1>4, <1>5 DEF Next

(* --------------------------- the wire in order ------------------------- *)

\* A frame more: what stood keeps its place, and where the end leads.
LEMMA OneMore ==
  ASSUME NEW w \in Seq(Frames), NEW f \in Frames, NEW n \in Nat
  PROVE  LET e == Len(w) + 1
             v == Append(w, f)
         IN  /\ Len(v) = e
             /\ InOrder(w) /\ Fits(w, e, f) => InOrder(v)
             /\ Ends(f) \/ (f.kind # "created" /\ Quiet(w, e)) => Quiet(v, e + 1)
             /\ f.kind = "created" \/ (f.kind # "transcript" /\ Fresh(w, e)) => Fresh(v, e + 1)
             /\ \/ f.kind = "unit" /\ f.rev = n
                \/ f.kind \notin {"unit", "created"} /\ Speaks(w, e, n)
                => Speaks(v, e + 1, n)
             /\ f.kind = "created" \/ (Above(w, e, n) /\ (f.kind = "unit" => f.rev < n))
                => Above(v, e + 1, n)
<1>. DEFINE e == Len(w) + 1
            v == Append(w, f)
<1>1. /\ Len(v) = e /\ v[e] = f /\ e \in Nat /\ e >= 1
      /\ \A i \in 1 .. e - 1 : v[i] = w[i]
      /\ DOMAIN w = 1 .. e - 1 /\ DOMAIN v = 1 .. e
  OBVIOUS
<1>. HIDE DEF e, v
<1>2. ASSUME NEW j \in 1 .. e, NEW m \in Nat
      PROVE  /\ Quiet(w, j) => Quiet(v, j)
             /\ Fresh(w, j) => Fresh(v, j)
             /\ Speaks(w, j, m) => Speaks(v, j, m)
             /\ Above(w, j, m) => Above(v, j, m)
  <2>1. \A i \in 1 .. j - 1 : v[i] = w[i]
    BY <1>1
  <2>2. Quiet(w, j) => Quiet(v, j)
    BY <2>1 DEF Quiet
  <2>3. Fresh(w, j) => Fresh(v, j)
    BY <2>1 DEF Fresh
  <2>4. Speaks(w, j, m) => Speaks(v, j, m)
    BY <2>1 DEF Speaks
  <2>5. Above(w, j, m) => Above(v, j, m)
    BY <2>1 DEF Above
  <2>. QED BY <2>2, <2>3, <2>4, <2>5
<1>3. InOrder(w) /\ Fits(w, e, f) => InOrder(v)
  <2>. SUFFICES ASSUME InOrder(w), Fits(w, e, f), NEW j \in 1 .. e
                PROVE  Fits(v, j, v[j])
    BY <1>1 DEF InOrder
  <2>1. Fits(w, j, v[j])
    BY <1>1 DEF InOrder
  <2>2. v[j] \in Frames
    BY <1>1
  <2>3. v[j].rev \in Nat
    BY <2>2 DEF Frames
  <2>. QED BY <1>2, <2>1, <2>3 DEF Fits
<1>4. Ends(f) \/ (f.kind # "created" /\ Quiet(w, e)) => Quiet(v, e + 1)
  <2>1. CASE Ends(f)
    <3>1. f.kind # "created"
      BY <2>1 DEF Ends
    <3>. QED BY <1>1, <2>1, <3>1 DEF Quiet
  <2>2. CASE f.kind # "created" /\ Quiet(w, e)
    BY <1>1, <2>2 DEF Quiet
  <2>. QED BY <2>1, <2>2
<1>5. f.kind = "created" \/ (f.kind # "transcript" /\ Fresh(w, e)) => Fresh(v, e + 1)
  <2>1. CASE f.kind = "created"
    BY <1>1, <2>1 DEF Fresh
  <2>2. CASE f.kind # "transcript" /\ Fresh(w, e)
    BY <1>1, <2>2 DEF Fresh
  <2>. QED BY <2>1, <2>2
<1>6. \/ f.kind = "unit" /\ f.rev = n
      \/ f.kind \notin {"unit", "created"} /\ Speaks(w, e, n)
      => Speaks(v, e + 1, n)
  <2>1. CASE f.kind = "unit" /\ f.rev = n
    BY <1>1, <2>1 DEF Speaks
  <2>2. CASE f.kind \notin {"unit", "created"} /\ Speaks(w, e, n)
    BY <1>1, <2>2 DEF Speaks
  <2>. QED BY <2>1, <2>2
<1>7. f.kind = "created" \/ (Above(w, e, n) /\ (f.kind = "unit" => f.rev < n))
      => Above(v, e + 1, n)
  <2>1. CASE f.kind = "created"
    BY <1>1, <2>1 DEF Above
  <2>2. CASE Above(w, e, n) /\ (f.kind = "unit" => f.rev < n)
    BY <1>1, <2>2 DEF Above
  <2>. QED BY <2>1, <2>2
<1>. QED BY <1>1, <1>3, <1>4, <1>5, <1>6, <1>7 DEF e, v

\* The engine moves nothing the order of the wire is told by but the wire.
LEMMA EngineAside ==
  ASSUME UNCHANGED <<answering, lines, line_open, units>>
  PROVE  LET e == Len(wire') + 1 IN
           /\ WireOrder' <=> InOrder(wire')
           /\ WireEnd' <=>
                /\ job' = Nobody /\ (jobs' # <<>> \/ commits' # <<>> \/ user' = "open")
                   => Quiet(wire', e)
                /\ job' # Nobody /\ ~void' => Fresh(wire', e)
                /\ spoken'[1] > 0 => Speaks(wire', e, spoken'[1])
                /\ job' # Nobody => Above(wire', e, spoken'[1] + 1)
<1>. DEFINE e == Len(wire') + 1
<1>1. ASSUME NEW j, NEW n
      PROVE  /\ Quiet(wire', j) <=> Quiet(wire, j)'
             /\ Fresh(wire', j) <=> Fresh(wire, j)'
             /\ Speaks(wire', j, n) <=> Speaks(wire, j, n)'
             /\ Above(wire', j, n) <=> Above(wire, j, n)'
  BY DEF Quiet, Fresh, Speaks, Above
<1>2. WireOrder' <=> InOrder(wire')
  BY <1>1 DEF WireOrder, InOrder, Fits
<1>3. /\ Quiet(wire', e) <=> Quiet(wire, Len(wire) + 1)'
      /\ Fresh(wire', e) <=> Fresh(wire, Len(wire) + 1)'
      /\ Speaks(wire', e, spoken'[1]) <=> Speaks(wire, Len(wire) + 1, spoken[1])'
      /\ Above(wire', e, spoken'[1] + 1) <=> Above(wire, Len(wire) + 1, spoken[1] + 1)'
  BY DEF Quiet, Fresh, Speaks, Above
<1>. QED BY <1>2, <1>3 DEF WireEnd

\* Whatever the engine does, it adds what fits.
LEMMA EngineOrder ==
  ASSUME Typed, WireOrder, WireEnd, TurnsInOrder, Engine
  PROVE  WireOrder' /\ WireEnd'
<1>. DEFINE e == Len(wire) + 1
<1>0. /\ wire \in Seq(Frames) /\ e \in Nat
      /\ spoken \in Nat \X Nat /\ spoken[1] \in Nat
      /\ commits \in Seq(Turns) /\ jobs \in Seq(Turns)
      /\ Nobody \notin Turns
  BY DEF Typed, EngineTyped, Turns, Positive, Nobody
<1>1. UNCHANGED <<answering, lines, line_open, units>>
  BY DEF Engine, SpeechStarts, SpeechCommits, TurnFinal, Recognize, AnswerOpens, AnswerWrites,
         AnswerSpeaks, AnswerSounds, AnswerEnds, Outside, context, display
<1>f. ASSUME NEW kind \in Kinds, NEW r \in Nat
      PROVE  /\ Frame(kind) \in Frames /\ Frame(kind).kind = kind
             /\ [Frame(kind) EXCEPT !.rev = r] \in Frames
             /\ [Frame(kind) EXCEPT !.rev = r].kind = kind
             /\ [Frame(kind) EXCEPT !.rev = r].rev = r
  BY <1>f DEF Frame, Frames
<1>e. ASSUME NEW f \in Frames, Emit(<<f>>) PROVE wire' = Append(wire, f) /\ Len(wire') = e
  BY <1>0, <1>e DEF Emit
<1>w. /\ InOrder(wire)
      /\ job = Nobody /\ (jobs # <<>> \/ commits # <<>> \/ user = "open") => Quiet(wire, e)
      /\ job # Nobody /\ ~void => Fresh(wire, e)
      /\ spoken[1] > 0 => Speaks(wire, e, spoken[1])
      /\ job # Nobody => Above(wire, e, spoken[1] + 1)
  BY DEF WireOrder, WireEnd
<1>m. ASSUME NEW f \in Frames, NEW n \in Nat
      PROVE  LET v == Append(wire, f) IN
             /\ Fits(wire, e, f) => InOrder(v)
             /\ Ends(f) \/ (f.kind # "created" /\ Quiet(wire, e)) => Quiet(v, e + 1)
             /\ f.kind = "created" \/ (f.kind # "transcript" /\ Fresh(wire, e)) => Fresh(v, e + 1)
             /\ \/ f.kind = "unit" /\ f.rev = n
                \/ f.kind \notin {"unit", "created"} /\ Speaks(wire, e, n)
                => Speaks(v, e + 1, n)
             /\ f.kind = "created" \/ (Above(wire, e, n) /\ (f.kind = "unit" => f.rev < n))
                => Above(v, e + 1, n)
  BY <1>0, <1>w, OneMore
<1>. DEFINE d == Len(wire') + 1
            Good == /\ InOrder(wire')
                    /\ job' = Nobody /\ (jobs' # <<>> \/ commits' # <<>> \/ user' = "open")
                       => Quiet(wire', d)
                    /\ job' # Nobody /\ ~void' => Fresh(wire', d)
                    /\ spoken'[1] > 0 => Speaks(wire', d, spoken'[1])
                    /\ job' # Nobody => Above(wire', d, spoken'[1] + 1)
<1>2. Good => WireOrder' /\ WireEnd'
  BY <1>1, EngineAside
<1>3. CASE SpeechStarts
  <2>. DEFINE f == Frame("started")
  <2>1. f \in Frames /\ f.kind = "started"
    BY <1>f DEF Kinds
  <2>2. /\ Emit(<<f>>) /\ job' = job /\ spoken' = spoken
        /\ job # Nobody => void'
    BY <1>3 DEF SpeechStarts
  <2>. HIDE DEF f
  <2>3. wire' = Append(wire, f) /\ d = e + 1
    BY <1>e, <2>1, <2>2
  <2>4. Fits(wire, e, f) /\ Ends(f)
    BY <2>1 DEF Fits, Writes, Ends
  <2>5. Quiet(wire', d) /\ InOrder(wire')
    BY <1>0, <1>m, <2>1, <2>3, <2>4
  <2>6. spoken[1] > 0 => Speaks(wire', d, spoken[1])
    BY <1>0, <1>w, <1>m, <2>1, <2>3
  <2>7. job # Nobody => Above(wire', d, spoken[1] + 1)
    <3>1. spoken[1] + 1 \in Nat
      BY <1>0
    <3>. QED BY <1>w, <1>m, <2>1, <2>3, <3>1
  <2>. QED BY <1>2, <2>2, <2>5, <2>6, <2>7
<1>4. CASE SpeechCommits
  <2>1. /\ UNCHANGED <<wire, job, jobs, void, spoken>> /\ user = "open"
        /\ commits' # <<>>
    BY <1>0, <1>4 DEF SpeechCommits
  <2>. QED BY <1>2, <1>w, <2>1
<1>5. CASE TurnFinal
  <2>1. /\ UNCHANGED <<wire, job, jobs, commits, void, spoken>>
        /\ user' # "open"
    BY <1>5 DEF TurnFinal
  <2>. QED BY <1>2, <1>w, <2>1
<1>6. CASE Recognize
  <2>. DEFINE c == Head(commits)
              f == [kind |-> "transcript", turn |-> c.turn, rev |-> c.rev]
  <2>1. f \in Frames /\ f.kind = "transcript"
    <3>1. c \in Turns
      BY <1>0, <1>6 DEF Recognize
    <3>. QED BY <3>1 DEF Turns, Positive, Frames, Kinds
  <2>2. /\ UNCHANGED <<job, void, spoken, user>> /\ commits # <<>>
        /\ \/ Emit(<<f>>)
           \/ wire' = wire /\ jobs' = jobs
    BY <1>6 DEF Recognize
  <2>. HIDE DEF c, f
  <2>3. CASE Emit(<<f>>)
    <3>1. wire' = Append(wire, f) /\ d = e + 1
      BY <1>e, <2>1, <2>3
    <3>2. Fits(wire, e, f)
      BY <2>1 DEF Fits, Writes
    <3>3. InOrder(wire')
      BY <1>0, <1>m, <2>1, <3>1, <3>2
    <3>4. job = Nobody => Quiet(wire', d)
      BY <1>0, <1>w, <1>m, <2>1, <2>2, <3>1
    <3>5. job # Nobody => void
      BY <2>2 DEF TurnsInOrder
    <3>6. spoken[1] > 0 => Speaks(wire', d, spoken[1])
      BY <1>0, <1>w, <1>m, <2>1, <3>1
    <3>7. job # Nobody => Above(wire', d, spoken[1] + 1)
      <4>1. spoken[1] + 1 \in Nat
        BY <1>0
      <4>. QED BY <1>w, <1>m, <2>1, <3>1, <4>1
    <3>. QED BY <1>2, <2>2, <3>3, <3>4, <3>5, <3>6, <3>7
  <2>4. CASE wire' = wire /\ jobs' = jobs
    BY <1>2, <1>w, <2>2, <2>4
  <2>. QED BY <2>2, <2>3, <2>4
<1>7. CASE AnswerOpens
  <2>. DEFINE f == Frame("created")
  <2>1. f \in Frames /\ f.kind = "created"
    BY <1>f DEF Kinds
  <2>2. /\ Emit(<<f>>) /\ job = Nobody /\ jobs # <<>> /\ job' = Head(jobs) /\ spoken' = spoken
    BY <1>7 DEF AnswerOpens
  <2>. HIDE DEF f
  <2>3. wire' = Append(wire, f) /\ d = e + 1
    BY <1>e, <2>1, <2>2
  <2>4. job' # Nobody
    BY <1>0, <2>2
  <2>5. Fits(wire, e, f)
    BY <1>w, <2>1, <2>2 DEF Fits, Writes
  <2>6. InOrder(wire') /\ Fresh(wire', d)
    BY <1>0, <1>m, <2>1, <2>3, <2>5
  <2>7. spoken[1] = 0
    BY <2>2 DEF TurnsInOrder
  <2>8. Above(wire', d, spoken[1] + 1)
    <3>1. spoken[1] + 1 \in Nat
      BY <1>0
    <3>. QED BY <1>m, <2>1, <2>3, <3>1
  <2>. QED BY <1>2, <2>2, <2>4, <2>6, <2>7, <2>8
<1>8. CASE AnswerWrites
  <2>1. PICK kind \in {"text", "tool"} : Emit(<<Frame(kind)>>)
    BY <1>8 DEF AnswerWrites
  <2>. DEFINE f == Frame(kind)
  <2>2. f \in Frames /\ f.kind \in {"text", "tool"}
    <3>1. kind \in Kinds /\ 0 \in Nat
      BY DEF Kinds
    <3>. QED BY <1>f, <3>1
  <2>3. /\ UNCHANGED <<job, void, spoken>> /\ job # Nobody /\ ~void
    BY <1>8 DEF AnswerWrites
  <2>. HIDE DEF f
  <2>4. wire' = Append(wire, f) /\ d = e + 1
    BY <1>e, <2>1, <2>2 DEF f
  <2>5. Fits(wire, e, f)
    BY <1>w, <2>2, <2>3 DEF Fits, Writes
  <2>6. InOrder(wire') /\ Fresh(wire', d)
    BY <1>0, <1>w, <1>m, <2>2, <2>3, <2>4, <2>5
  <2>7. spoken[1] > 0 => Speaks(wire', d, spoken[1])
    BY <1>0, <1>w, <1>m, <2>2, <2>4
  <2>8. Above(wire', d, spoken[1] + 1)
    <3>1. spoken[1] + 1 \in Nat
      BY <1>0
    <3>. QED BY <1>w, <1>m, <2>2, <2>3, <2>4, <3>1
  <2>. QED BY <1>2, <2>3, <2>6, <2>7, <2>8
<1>9. CASE AnswerSpeaks
  <2>. DEFINE n == spoken[1] + 1
              f == [Frame("unit") EXCEPT !.rev = n]
              g == [Frame("audio") EXCEPT !.rev = n]
              v == Append(wire, f)
  <2>1. n \in Nat /\ n > 0 /\ n + 1 \in Nat
    BY <1>0
  <2>2. /\ f \in Frames /\ f.kind = "unit" /\ f.rev = n
        /\ g \in Frames /\ g.kind = "audio" /\ g.rev = n
    <3>. HIDE DEF n
    <3>. QED BY <1>f, <2>1 DEF Kinds
  <2>3. /\ UNCHANGED <<job, void>> /\ job # Nobody /\ ~void
        /\ spoken' = <<n, 1>>
        /\ Emit(<<f, g>>)
    BY <1>9 DEF AnswerSpeaks
  <2>. HIDE DEF n, f, g
  <2>4. wire' = Append(v, g) /\ v \in Seq(Frames) /\ Len(v) = e /\ d = e + 2
    BY <1>0, <2>2, <2>3 DEF Emit
  <2>5. Above(wire, e, n) /\ Fresh(wire, e)
    BY <1>w, <2>3 DEF n
  <2>6. Fits(wire, e, f)
    BY <2>2, <2>5 DEF Fits, Writes
  <2>7. InOrder(v) /\ Fresh(v, e + 1) /\ Speaks(v, e + 1, n)
    BY <1>m, <2>1, <2>2, <2>5, <2>6
  <2>8. Above(v, e + 1, n + 1)
    <3>1. Above(wire, e, n + 1)
      <4>1. \A i \in 1 .. e - 1 : wire[i].rev < n => wire[i].rev < n + 1
        <5>1. \A i \in 1 .. e - 1 : wire[i] \in Frames
          BY <1>0
        <5>. QED BY <2>1, <5>1 DEF Frames
      <4>2. \A m \in DOMAIN units : units[m].unit < n => units[m].unit < n + 1
        <5>1. units \in Seq(Units)
          BY DEF Typed, ClientTyped
        <5>2. \A m \in DOMAIN units : units[m] \in Units
          BY <5>1
        <5>. QED BY <2>1, <5>2 DEF Units
      <4>. QED BY <2>5, <4>1, <4>2 DEF Above
    <3>2. f.rev < n + 1
      BY <2>1, <2>2
    <3>. QED BY <1>m, <2>1, <2>2, <3>1, <3>2
  <2>9. Fits(v, e + 1, g)
    BY <2>2, <2>7 DEF Fits, Writes
  <2>10. ASSUME NEW k \in Nat
         PROVE  /\ Fits(v, e + 1, g) => InOrder(wire')
                /\ Fresh(v, e + 1) => Fresh(wire', d)
                /\ Speaks(v, e + 1, k) => Speaks(wire', d, k)
                /\ Above(v, e + 1, k) => Above(wire', d, k)
    <3>1. d = (e + 1) + 1 /\ Len(v) + 1 = e + 1
      BY <1>0, <2>4
    <3>. HIDE DEF d, e, v
    <3>. QED BY <2>2, <2>4, <2>7, <3>1, OneMore
  <2>11. spoken'[1] = n
    BY <2>3
  <2>. HIDE DEF v
  <2>12. /\ InOrder(wire') /\ Fresh(wire', d) /\ Speaks(wire', d, n) /\ Above(wire', d, n + 1)
    BY <2>1, <2>7, <2>8, <2>9, <2>10
  <2>. QED BY <1>2, <2>3, <2>11, <2>12
<1>10. CASE AnswerSounds
  <2>. DEFINE n == spoken[1]
              f == [Frame("audio") EXCEPT !.rev = n]
  <2>1. f \in Frames /\ f.kind = "audio" /\ f.rev = n
    BY <1>0, <1>f DEF Kinds
  <2>2. /\ UNCHANGED <<job, void>> /\ job # Nobody /\ spoken[1] > 0
        /\ spoken'[1] = spoken[1]
        /\ Emit(<<f>>)
    BY <1>10 DEF AnswerSounds
  <2>. HIDE DEF f
  <2>3. wire' = Append(wire, f) /\ d = e + 1
    BY <1>e, <2>1, <2>2
  <2>4. Fits(wire, e, f)
    BY <1>w, <2>1, <2>2 DEF Fits, Writes
  <2>5. InOrder(wire') /\ Speaks(wire', d, spoken[1])
    BY <1>0, <1>w, <1>m, <2>1, <2>2, <2>3, <2>4
  <2>6. ~void => Fresh(wire', d)
    BY <1>0, <1>w, <1>m, <2>1, <2>2, <2>3
  <2>7. Above(wire', d, spoken[1] + 1)
    <3>1. spoken[1] + 1 \in Nat
      BY <1>0
    <3>. QED BY <1>w, <1>m, <2>1, <2>2, <2>3, <3>1
  <2>. QED BY <1>2, <2>2, <2>5, <2>6, <2>7
<1>11. CASE AnswerEnds
  <2>. DEFINE f == Frame(IF void THEN "cancelled" ELSE "done")
  <2>1. f \in Frames /\ f.kind = IF void THEN "cancelled" ELSE "done"
    <3>1. CASE void
      BY <1>f, <3>1 DEF Kinds
    <3>2. CASE ~void
      BY <1>f, <3>2 DEF Kinds
    <3>. QED BY <3>1, <3>2
  <2>2. /\ UNCHANGED <<user, commits, jobs>> /\ job # Nobody /\ job' = Nobody
        /\ spoken'[1] = 0
        /\ Emit(<<f>>)
    BY <1>11 DEF AnswerEnds
  <2>. HIDE DEF f
  <2>3. wire' = Append(wire, f) /\ d = e + 1
    BY <1>e, <2>1, <2>2
  <2>4. Fits(wire, e, f)
    BY <2>1 DEF Fits, Writes
  <2>5. InOrder(wire')
    BY <1>0, <1>m, <2>1, <2>3, <2>4
  <2>6. CASE void
    <3>1. Ends(f)
      BY <2>1, <2>6 DEF Ends
    <3>2. Quiet(wire', d)
      BY <1>0, <1>m, <2>1, <2>3, <3>1
    <3>. QED BY <1>2, <2>2, <2>5, <3>2
  <2>7. CASE ~void
    <3>1. jobs = <<>> /\ commits = <<>> /\ user # "open"
      BY <2>2, <2>7 DEF TurnsInOrder
    <3>. QED BY <1>2, <2>2, <2>5, <3>1
  <2>. QED BY <2>6, <2>7
<1>. QED BY <1>3, <1>4, <1>5, <1>6, <1>7, <1>8, <1>9, <1>10, <1>11 DEF Engine

\* The turns that wait stay in order: what opens is beyond all of them.
LEMMA EngineTurns ==
  ASSUME Typed, TurnsInOrder, Engine PROVE TurnsInOrder'
<1>0. /\ commits \in Seq(Turns) /\ jobs \in Seq(Turns) /\ job \in Turns \cup {Nobody}
      /\ turn \in Nat /\ rev \in Nat
      /\ \A i \in DOMAIN commits : commits[i] \in Turns
      /\ \A i \in DOMAIN jobs : jobs[i] \in Turns
      /\ Nobody \notin Turns
  <2>1. /\ commits \in Seq(Turns) /\ jobs \in Seq(Turns) /\ job \in Turns \cup {Nobody}
        /\ turn \in Nat /\ rev \in Nat
    BY DEF Typed, EngineTyped
  <2>2. Nobody \notin Turns
    BY DEF Turns, Positive, Nobody
  <2>. QED BY <2>1, <2>2
<1>1. CASE SpeechStarts
  <2>1. /\ UNCHANGED <<commits, jobs, job, spoken>> /\ (job # Nobody => void')
        /\ turn' = turn + 1 \/ (turn' = turn /\ rev' = rev + 1)
    BY <1>1 DEF SpeechStarts
  <2>2. ASSUME NEW c \in Turns, UpTo(c, Latest) PROVE UpTo(c, Latest') /\ c # Latest'
    BY <1>0, <2>1, <2>2 DEF UpTo, Latest, Turns, Positive
  <2>. QED BY <1>0, <2>1, <2>2 DEF TurnsInOrder
<1>2. CASE SpeechCommits
  <2>1. /\ UNCHANGED <<jobs, job, spoken, turn, rev, void>> /\ user = "open" /\ user' = "committed"
        /\ commits' = Append(commits, Latest)
    BY <1>2 DEF SpeechCommits
  <2>2. UpTo(Latest, Latest) /\ Latest' = Latest
    BY <1>0, <2>1 DEF UpTo, Latest
  <2>3. /\ Len(commits') = Len(commits) + 1 /\ DOMAIN commits' = 1 .. Len(commits')
        /\ commits'[Len(commits')] = Latest
        /\ \A i \in DOMAIN commits' : i < Len(commits') => i \in DOMAIN commits
                                                           /\ commits'[i] = commits[i]
    BY <1>0, <2>1
  <2>4. job # Nobody => void
    BY <2>1 DEF TurnsInOrder
  <2>5. ASSUME NEW c, UpTo(c, Latest) PROVE UpTo(c, Latest')
    BY <2>2, <2>5
  <2>6. ASSUME NEW i \in DOMAIN commits'
        PROVE  /\ UpTo(commits'[i], Latest')
               /\ commits'[i] = Latest' => i = Len(commits') /\ user' # "open"
    <3>1. CASE i = Len(commits')
      BY <2>1, <2>2, <2>3, <2>5, <3>1
    <3>2. CASE i < Len(commits')
      <4>1. UpTo(commits[i], Latest) /\ commits[i] # Latest
        BY <2>1, <2>3, <3>2 DEF TurnsInOrder
      <4>. QED BY <2>2, <2>3, <2>5, <3>2, <4>1
    <3>. QED BY <2>3, <3>1, <3>2
  <2>7. ASSUME NEW i \in DOMAIN jobs PROVE UpTo(jobs[i], Latest') /\ jobs[i] # Latest'
    BY <2>1, <2>2, <2>5 DEF TurnsInOrder
  <2>. QED BY <2>1, <2>4, <2>6, <2>7 DEF TurnsInOrder
<1>3. CASE TurnFinal
  BY <1>3 DEF TurnFinal, TurnsInOrder, UpTo, Latest
<1>4. CASE Recognize
  <2>. DEFINE c == Head(commits)
  <2>1. /\ UNCHANGED <<job, void, spoken, user, turn, rev>> /\ commits # <<>>
        /\ commits' = Tail(commits)
        /\ jobs' = Append(jobs, c) \/ jobs' = jobs
    BY <1>4 DEF Recognize
  <2>2. /\ Len(commits') = Len(commits) - 1 /\ DOMAIN commits' = 1 .. Len(commits')
        /\ \A i \in DOMAIN commits' : i + 1 \in DOMAIN commits /\ commits'[i] = commits[i + 1]
        /\ c = commits[1] /\ 1 \in DOMAIN commits
    BY <1>0, <2>1
  <2>3. Latest' = Latest
    BY <2>1 DEF Latest
  <2>4. ASSUME NEW x, UpTo(x, Latest) PROVE UpTo(x, Latest')
    BY <2>3, <2>4
  <2>5. ASSUME NEW i \in DOMAIN commits'
        PROVE  /\ UpTo(commits'[i], Latest')
               /\ commits'[i] = Latest' => i = Len(commits') /\ user' # "open"
    <3>1. UpTo(commits[i + 1], Latest)
      BY <2>2 DEF TurnsInOrder
    <3>2. commits[i + 1] = Latest => i + 1 = Len(commits) /\ user # "open"
      BY <2>2 DEF TurnsInOrder
    <3>. QED BY <1>0, <2>1, <2>2, <2>3, <2>4, <3>1, <3>2
  <2>6. ASSUME NEW i \in DOMAIN jobs
        PROVE  UpTo(jobs[i], Latest') /\ jobs[i] # Latest
    BY <2>1, <2>4 DEF TurnsInOrder
  <2>7. UpTo(c, Latest') /\ (c = Latest => commits' = <<>> /\ user # "open")
    <3>1. UpTo(c, Latest) /\ (c = Latest => Len(commits) = 1 /\ user # "open")
      BY <2>2 DEF TurnsInOrder
    <3>2. Len(commits) = 1 => commits' = <<>>
      BY <1>0, <2>1
    <3>. QED BY <2>4, <3>1, <3>2
  <2>8. ASSUME NEW i \in DOMAIN jobs'
        PROVE  /\ UpTo(jobs'[i], Latest')
               /\ jobs'[i] = Latest' => i = Len(jobs') /\ commits' = <<>> /\ user' # "open"
    <3>1. CASE jobs' = jobs
      BY <2>3, <2>6, <3>1
    <3>2. CASE jobs' = Append(jobs, c)
      <4>1. \/ i \in DOMAIN jobs /\ jobs'[i] = jobs[i]
            \/ i = Len(jobs') /\ jobs'[i] = c
        BY <1>0, <3>2
      <4>. QED BY <2>1, <2>3, <2>6, <2>7, <4>1
    <3>. QED BY <2>1, <3>1, <3>2
  <2>9. job # Nobody => void
    BY <2>1 DEF TurnsInOrder
  <2>. QED BY <2>1, <2>5, <2>8, <2>9 DEF TurnsInOrder
<1>5. CASE AnswerOpens
  <2>1. /\ UNCHANGED <<commits, user, turn, rev, spoken>> /\ job = Nobody /\ jobs # <<>>
        /\ job' = Head(jobs) /\ jobs' = Tail(jobs)
        /\ void' <=> Head(jobs) # Latest
    BY <1>5 DEF AnswerOpens
  <2>2. /\ Len(jobs') = Len(jobs) - 1 /\ DOMAIN jobs' = 1 .. Len(jobs')
        /\ \A i \in DOMAIN jobs' : i + 1 \in DOMAIN jobs /\ jobs'[i] = jobs[i + 1]
        /\ Head(jobs) = jobs[1] /\ 1 \in DOMAIN jobs
    BY <1>0, <2>1
  <2>3. Latest' = Latest
    BY <2>1 DEF Latest
  <2>4. ASSUME NEW x, UpTo(x, Latest) PROVE UpTo(x, Latest')
    BY <2>3, <2>4
  <2>5. ASSUME NEW i \in DOMAIN jobs'
        PROVE  /\ UpTo(jobs'[i], Latest')
               /\ jobs'[i] = Latest' => i = Len(jobs') /\ commits' = <<>> /\ user' # "open"
    <3>1. UpTo(jobs[i + 1], Latest)
      BY <2>2 DEF TurnsInOrder
    <3>2. jobs[i + 1] = Latest => i + 1 = Len(jobs) /\ commits = <<>> /\ user # "open"
      BY <2>2 DEF TurnsInOrder
    <3>. QED BY <1>0, <2>1, <2>2, <2>3, <2>4, <3>1, <3>2
  <2>6. job' # Nobody
    BY <1>0, <2>1, <2>2
  <2>7. ~void' => jobs' = <<>> /\ commits' = <<>> /\ user' # "open"
    <3>1. jobs[1] = Latest => Len(jobs) = 1 /\ commits = <<>> /\ user # "open"
      BY <2>2 DEF TurnsInOrder
    <3>2. Len(jobs) = 1 => jobs' = <<>>
      BY <1>0, <2>1
    <3>. QED BY <2>1, <2>2, <3>1, <3>2
  <2>8. ASSUME NEW i \in DOMAIN commits'
        PROVE  /\ UpTo(commits'[i], Latest')
               /\ commits'[i] = Latest' => i = Len(commits') /\ user' # "open"
    BY <2>1, <2>3, <2>4 DEF TurnsInOrder
  <2>. QED BY <2>5, <2>6, <2>7, <2>8 DEF TurnsInOrder
<1>6. CASE AnswerWrites \/ AnswerSpeaks \/ AnswerSounds
  <2>1. /\ UNCHANGED <<commits, jobs, job, void, user, turn, rev>> /\ job # Nobody
    BY <1>6 DEF AnswerWrites, AnswerSpeaks, AnswerSounds
  <2>. QED BY <2>1 DEF TurnsInOrder, UpTo, Latest
<1>7. CASE AnswerEnds
  <2>1. /\ UNCHANGED <<commits, jobs, user, turn, rev>> /\ job' = Nobody /\ spoken'[1] = 0
    BY <1>7 DEF AnswerEnds
  <2>. QED BY <2>1 DEF TurnsInOrder, UpTo, Latest
<1>. QED BY <1>1, <1>2, <1>3, <1>4, <1>5, <1>6, <1>7 DEF Engine

(* ------------------------- the sound card in step ---------------------- *)

\* The engine touches neither the client nor the frame at the head.
LEMMA EngineCard ==
  ASSUME Typed, WriterInv, CardInv, Engine PROVE WriterInv' /\ CardInv'
<1>1. /\ UNCHANGED <<ring, flush, heard, consumed, callback, units, answering, queued, answer,
                    line_open, writer, sounded, placed, filed, lines>>
  BY DEF Engine, SpeechStarts, SpeechCommits, TurnFinal, Recognize, AnswerOpens, AnswerWrites,
         AnswerSpeaks, AnswerSounds, AnswerEnds, Outside, context, display, card, threads
<1>2. writer = "flushing" => wire'[1] = wire[1]
  BY EngineTypes DEF WireGrows, Typed
<1>3. WriterInv'
  BY <1>1, <1>2 DEF WriterInv, Cut
<1>4. CardInv'
  BY <1>1 DEF CardInv, UnitsInOrder, RingInStep, SoundedOf, Sounds, Cut
<1>. QED BY <1>3, <1>4

\* What the sound card leaves alone.
LEMMA CallbackAside ==
  ASSUME Callback, WireOrder, WireEnd, TurnsInOrder
  PROVE  /\ WireOrder' /\ WireEnd' /\ TurnsInOrder'
         /\ UNCHANGED <<wire, placed, units, answering, queued, answer, line_open, writer, filed,
                        lines>>
<1>1. UNCHANGED <<wire, placed, units, answering, queued, answer, line_open, writer, filed, lines>>
  BY DEF Callback, CallbackPlays, CallbackHeard, CallbackConsumed, Elsewhere, context, display,
         threads
<1>2. UNCHANGED engine
  BY DEF Callback, CallbackPlays, CallbackHeard, CallbackConsumed, Elsewhere
<1>3. WireOrder' /\ WireEnd'
  BY <1>1, <1>2 DEF WireOrder, WireEnd, InOrder, Fits, Quiet, Fresh, Speaks, Above, engine
<1>4. TurnsInOrder'
  BY <1>2 DEF TurnsInOrder, Latest, engine
<1>. QED BY <1>1, <1>3, <1>4

\* What a callback takes it played, whatever it counted yet.
LEMMA CallbackCounts ==
  ASSUME Typed, WriterInv, CardInv, CallbackHeard \/ CallbackConsumed
  PROVE  WriterInv' /\ CardInv'
<1>1. UNCHANGED <<wire, placed, units, answering, queued, answer, line_open, writer, filed, lines,
                  ring, flush, sounded>>
  BY DEF CallbackHeard, CallbackConsumed, Elsewhere, context, display, threads
<1>2. /\ heard \in Nat /\ consumed \in Nat /\ queued \in Nat /\ Len(ring) \in Nat
      /\ callback \in [at : {"idle", "counts", "consumes"}, took : Nat]
  BY DEF Typed, ClientTyped
<1>3. callback.at # "idle" /\ answering /\ ~Cut /\ callback.took # 0
  BY DEF CallbackHeard, CallbackConsumed, WriterInv
<1>4. /\ Sounds' = Sounds
      /\ consumed' + callback'.took = consumed + callback.took
      /\ callback'.at = "idle" <=> callback'.took = 0
  <2>1. CASE CallbackHeard
    <3>1. /\ callback.at = "counts" /\ heard' = heard + callback.took
          /\ callback' = [callback EXCEPT !.at = "consumes"] /\ consumed' = consumed
      BY <2>1 DEF CallbackHeard
    <3>2. callback'.at = "consumes" /\ callback'.took = callback.took
      BY <1>2, <3>1
    <3>. QED BY <1>2, <1>3, <3>1, <3>2 DEF Sounds
  <2>2. CASE CallbackConsumed
    <3>1. /\ callback.at = "consumes" /\ consumed' = consumed + callback.took
          /\ callback' = [at |-> "idle", took |-> 0] /\ heard' = heard
      BY <2>2 DEF CallbackConsumed
    <3>. QED BY <1>2, <3>1 DEF Sounds
  <2>. QED BY <2>1, <2>2
<1>5. Cut' <=> Cut
  BY <1>1 DEF Cut
<1>6. WriterInv'
  BY <1>1, <1>3, <1>4, <1>5 DEF WriterInv
<1>7. UnitsInOrder' /\ SoundedOf(Sounds)' = SoundedOf(Sounds)
  BY <1>1, <1>3, <1>4 DEF CardInv, UnitsInOrder, SoundedOf
<1>8. RingInStep'
  <2>1. RingInStep
    BY <1>3 DEF CardInv
  <2>2. consumed' + callback'.took + Len(ring') = queued'
    BY <1>1, <1>4, <2>1 DEF RingInStep
  <2>. QED BY <1>1, <1>4, <1>5, <2>1, <2>2 DEF RingInStep
<1>. QED BY <1>1, <1>3, <1>6, <1>7, <1>8 DEF CardInv

\* A flush empties the ring, and nothing of it sounds.
LEMMA CallbackFlushes ==
  ASSUME Typed, WriterInv, CardInv, CallbackPlays, flush
  PROVE  WriterInv' /\ CardInv'
<1>1. UNCHANGED <<wire, placed, units, answering, queued, answer, line_open, writer, filed, lines,
                  heard>>
  BY DEF CallbackPlays, Elsewhere, context, display, threads
<1>2. /\ ring \in Seq(Samples) /\ Len(ring) \in Nat /\ consumed \in Nat /\ queued \in Nat
      /\ heard \in Nat
  BY DEF Typed, ClientTyped
<1>3. Min({Period, Len(<<>>)}) = 0
  <2>1. Period \in Nat
    BY ClientAssumption DEF ClientAssumption
  <2>2. Min({Period, 0}) = 0
    BY <2>1, Least
  <2>. QED BY <2>2
<1>4. /\ callback.at = "idle" /\ callback.took = 0
      /\ callback' = [at |-> "idle", took |-> 0]
      /\ ring' = <<>> /\ sounded' = sounded /\ consumed' = consumed + Len(ring) /\ ~flush'
  <2>. DEFINE n == Min({Period, Len(<<>>)})
  <2>1. /\ callback' = [at |-> IF n = 0 THEN "idle" ELSE "counts", took |-> n]
        /\ ring' = SubSeq(<<>>, n + 1, Len(<<>>))
        /\ sounded' = sounded \cup Range(SubSeq(<<>>, 1, n))
        /\ consumed' = consumed + Len(ring) /\ ~flush' /\ callback.at = "idle"
    BY DEF CallbackPlays
  <2>2. /\ callback' = [at |-> IF 0 = 0 THEN "idle" ELSE "counts", took |-> 0]
        /\ ring' = SubSeq(<<>>, 0 + 1, Len(<<>>))
        /\ sounded' = sounded \cup Range(SubSeq(<<>>, 1, 0))
    <3>. HIDE DEF n
    <3>1. n = 0
      BY <1>3 DEF n
    <3>. QED BY <2>1, <3>1
  <2>3. SubSeq(<<>>, 0 + 1, Len(<<>>)) = <<>> /\ SubSeq(<<>>, 1, 0) = <<>>
    OBVIOUS
  <2>4. Range(<<>>) = {}
    BY DEF Range
  <2>5. callback.took = 0
    BY <2>1 DEF WriterInv
  <2>. QED BY <2>1, <2>2, <2>3, <2>4, <2>5
<1>5. WriterInv'
  BY <1>1, <1>4 DEF WriterInv, Cut
<1>6. Sounds' = Sounds /\ Cut'
  <2>1. Sounds' = heard /\ Sounds = heard
    BY <1>1, <1>2, <1>4 DEF Sounds
  <2>2. writer = "flushing"
    BY DEF WriterInv
  <2>. QED BY <1>1, <1>4, <2>1, <2>2 DEF Cut
<1>7. CASE ~answering
  BY <1>1, <1>4, <1>5, <1>7 DEF CardInv
<1>8. CASE answering
  <2>1. UnitsInOrder' /\ SoundedOf(Sounds)' = SoundedOf(Sounds)
    BY <1>1, <1>6, <1>8 DEF CardInv, UnitsInOrder, SoundedOf
  <2>2. RingInStep
    BY <1>8 DEF CardInv
  <2>3. RingInStep'
    <3>1. consumed' + callback'.took + Len(ring') = queued'
      <4>1. consumed + 0 + Len(ring) = queued
        BY <1>4, <2>2 DEF RingInStep
      <4>2. callback'.took = 0 /\ Len(ring') = 0
        BY <1>4
      <4>. QED BY <1>1, <1>2, <1>4, <4>1, <4>2
    <3>. QED BY <1>4, <1>6, <3>1 DEF RingInStep
  <2>. QED BY <1>1, <1>4, <1>5, <1>6, <1>8, <2>1, <2>3 DEF CardInv
<1>. QED BY <1>5, <1>7, <1>8

\* A period of the ring sounds: the units that start in it do from now on.
LEMMA CallbackSounds ==
  ASSUME Typed, WriterInv, CardInv, CallbackPlays, ~flush
  PROVE  WriterInv' /\ CardInv'
<1>. DEFINE n == Min({Period, Len(ring)})
<1>1. UNCHANGED <<wire, placed, units, answering, queued, answer, line_open, writer, filed, lines,
                  heard, consumed>> /\ ~flush'
  BY DEF CallbackPlays, Elsewhere, context, display, threads
<1>2. /\ ring \in Seq(Samples) /\ Len(ring) \in Nat /\ consumed \in Nat /\ queued \in Nat
      /\ heard \in Nat /\ units \in Seq(Units)
      /\ \A i \in DOMAIN units : units[i].start \in Nat
  <2>1. /\ ring \in Seq(Samples) /\ Len(ring) \in Nat /\ consumed \in Nat /\ queued \in Nat
        /\ heard \in Nat /\ units \in Seq(Units)
    BY DEF Typed, ClientTyped
  <2>2. \A i \in DOMAIN units : units[i] \in Units
    BY <2>1
  <2>. QED BY <2>1, <2>2 DEF Units
<1>3. ring # <<>> /\ answering /\ ~Cut /\ callback.at = "idle" /\ callback.took = 0
  BY DEF CallbackPlays, WriterInv
<1>4. n \in 1 .. Len(ring)
  <2>1. Period \in Nat /\ Period # 0
    BY ClientAssumption DEF ClientAssumption
  <2>2. Len(ring) # 0
    BY <1>2, <1>3
  <2>3. n = IF Period <= Len(ring) THEN Period ELSE Len(ring)
    BY <1>2, <2>1, Least
  <2>. HIDE DEF n
  <2>. QED BY <1>2, <2>1, <2>2, <2>3
<1>5. /\ callback' = [at |-> IF n = 0 THEN "idle" ELSE "counts", took |-> n]
      /\ ring' = SubSeq(ring, n + 1, Len(ring))
      /\ sounded' = sounded \cup Range(SubSeq(ring, 1, n))
  BY DEF CallbackPlays
<1>. HIDE DEF n
<1>6. callback'.at = "counts" /\ callback'.took = n
  BY <1>4, <1>5
<1>7. /\ Len(ring') = Len(ring) - n /\ DOMAIN ring' = 1 .. Len(ring) - n
      /\ \A k \in DOMAIN ring' : ring'[k] = ring[k + n] /\ k + n \in DOMAIN ring
      /\ DOMAIN ring = 1 .. Len(ring)
  BY <1>2, <1>4, <1>5
<1>8. /\ DOMAIN SubSeq(ring, 1, n) = 1 .. n
      /\ \A k \in 1 .. n : SubSeq(ring, 1, n)[k] = ring[k]
  BY <1>2, <1>4
<1>9. Range(SubSeq(ring, 1, n)) = {ring[k] : k \in 1 .. n}
  BY <1>8 DEF Range
<1>10. /\ Sounds = heard /\ Sounds' = heard + n
       /\ Sounds \in Nat
  BY <1>1, <1>2, <1>3, <1>6 DEF Sounds
<1>11. ~Cut'
  BY <1>1, <1>3 DEF Cut
<1>12. WriterInv'
  BY <1>1, <1>3, <1>4, <1>6, <1>11 DEF WriterInv
<1>13. UnitsInOrder /\ RingInStep /\ sounded = SoundedOf(Sounds)
  BY <1>3 DEF CardInv
<1>14. UnitsInOrder'
  BY <1>1, <1>13 DEF UnitsInOrder
<1>15. RingInStep'
  <2>1. consumed' + callback'.took + Len(ring') = queued'
    <3>1. consumed + 0 + Len(ring) = queued
      BY <1>3, <1>13 DEF RingInStep
    <3>. QED BY <1>1, <1>2, <1>4, <1>6, <1>7, <3>1
  <2>2. Sounds' + Len(ring') = queued'
    <3>1. Sounds + Len(ring) = queued
      BY <1>3, <1>13 DEF RingInStep
    <3>. QED BY <1>1, <1>2, <1>4, <1>7, <1>10, <3>1
  <2>3. ASSUME NEW k \in DOMAIN ring'
        PROVE  /\ ring'[k] \in placed'
               /\ \E i \in DOMAIN units' : /\ units'[i].unit = ring'[k].unit
                                           /\ units'[i].start <= Sounds' + k - 1
    <3>1. k \in Nat /\ k + n \in DOMAIN ring /\ ring'[k] = ring[k + n]
      BY <1>2, <1>4, <1>7
    <3>2. PICK i \in DOMAIN units : /\ units[i].unit = ring[k + n].unit
                                    /\ units[i].start <= Sounds + (k + n) - 1
      BY <1>13, <3>1 DEF RingInStep
    <3>3. Sounds + (k + n) - 1 = Sounds' + k - 1
      BY <1>2, <1>4, <1>10, <3>1
    <3>4. ring[k + n] \in placed
      BY <1>13, <3>1 DEF RingInStep
    <3>. QED BY <1>1, <3>1, <3>2, <3>3, <3>4
  <2>4. ASSUME NEW i \in DOMAIN units,
               [answer |-> answer, unit |-> units[i].unit] \in placed,
               units[i].start - Sounds' + 1 >= 1
        PROVE  /\ units[i].start - Sounds' + 1 \in DOMAIN ring'
               /\ ring'[units[i].start - Sounds' + 1].unit = units[i].unit
    <3>. DEFINE u == units[i].start
                k == u - Sounds + 1
    <3>1. u \in Nat
      BY <1>2
    <3>2. k >= 1 /\ u - Sounds' + 1 = k - n /\ k - n >= 1 /\ k \in Int /\ n \in Int
      BY <1>2, <1>4, <1>10, <2>4, <3>1, SMTT(30)
    <3>3. k \in DOMAIN ring /\ ring[k].unit = units[i].unit
      BY <1>3, <1>13, <2>4, <3>2 DEF RingInStep
    <3>. HIDE DEF k
    <3>4. k - n \in DOMAIN ring' /\ (k - n) + n = k
      BY <1>2, <1>4, <1>7, <3>2, <3>3
    <3>. QED BY <1>7, <3>2, <3>3, <3>4
  <2>. QED BY <1>1, <2>1, <2>2, <2>3, <2>4 DEF RingInStep
<1>16. sounded' = SoundedOf(Sounds)'
  <2>1. SoundedOf(Sounds)' =
          {s \in placed : \E i \in DOMAIN units :
                             units[i].unit = s.unit /\ units[i].start < heard + n}
    BY <1>1, <1>10 DEF SoundedOf
  <2>2. sounded =
          {s \in placed : \E i \in DOMAIN units : units[i].unit = s.unit /\ units[i].start < heard}
    BY <1>10, <1>13 DEF SoundedOf
  <2>3. sounded' = sounded \cup {ring[k] : k \in 1 .. n}
    BY <1>5, <1>9
  <2>4. ASSUME NEW k \in 1 .. n
        PROVE  /\ ring[k] \in placed
               /\ \E i \in DOMAIN units : /\ units[i].unit = ring[k].unit
                                          /\ units[i].start < heard + n
    <3>1. k \in DOMAIN ring /\ k \in Nat /\ n \in Nat
      BY <1>4, <1>7
    <3>2. PICK i \in DOMAIN units : /\ units[i].unit = ring[k].unit
                                    /\ units[i].start <= Sounds + k - 1
      BY <1>13, <3>1 DEF RingInStep
    <3>3. units[i].start < heard + n
      BY <1>2, <1>10, <3>1, <3>2
    <3>4. ring[k] \in placed
      BY <1>13, <3>1 DEF RingInStep
    <3>. QED BY <3>2, <3>3, <3>4
  <2>5. ASSUME NEW s \in placed, NEW i \in DOMAIN units, units[i].unit = s.unit,
               units[i].start < heard + n, ~(units[i].start < heard)
        PROVE  \E k \in 1 .. n : ring[k] = s
    <3>. DEFINE u == units[i].start
                k == u - Sounds + 1
    <3>1. u \in Nat
      BY <1>2
    <3>2. k \in 1 .. n
      BY <1>2, <1>4, <1>10, <2>5, <3>1
    <3>3. placed \subseteq Samples /\ answer \in Nat
      BY DEF Typed, ClientTyped
    <3>4. s.answer = answer /\ s \in Samples
      BY <3>3 DEF CardInv
    <3>5. [answer |-> answer, unit |-> units[i].unit] = s
      BY <2>5, <3>4 DEF Samples
    <3>6. k \in DOMAIN ring /\ ring[k].unit = units[i].unit
      BY <1>3, <1>13, <3>2, <3>5 DEF RingInStep
    <3>7. ring[k] \in placed
      BY <1>13, <3>6 DEF RingInStep
    <3>8. ring[k].answer = answer /\ ring[k] \in Samples
      BY <3>3, <3>7 DEF CardInv
    <3>. HIDE DEF k
    <3>9. ring[k] = s
      BY <2>5, <3>4, <3>6, <3>8 DEF Samples
    <3>. QED BY <3>2, <3>9
  <2>6. \A i \in DOMAIN units : units[i].start < heard => units[i].start < heard + n
    BY <1>2, <1>4
  <2>. QED BY <2>1, <2>2, <2>3, <2>4, <2>5, <2>6
<1>17. sounded' \subseteq placed'
  BY <1>16, <1>1 DEF SoundedOf
<1>. QED BY <1>1, <1>3, <1>12, <1>14, <1>15, <1>16, <1>17 DEF CardInv

(* -------------------------- the writer and the wire -------------------- *)

\* What the client makes of the frame f it took.
Follows(f) ==
  /\ answering' => f.kind = "created" \/ (answering /\ ~Ends(f))
  /\ answering' /\ lines' # 0 /\ ~line_open' =>
       \/ f.kind = "transcript"
       \/ answering /\ lines # 0 /\ ~line_open /\ f.kind # "created"
  /\ answering' =>
       CASE f.kind = "created" -> units' = <<>>
         [] f.kind = "unit" -> units' = Append(units, [unit |-> f.rev, start |-> queued])
         [] OTHER -> units' = units

\* A frame that is taken leaves the others in order.
LEMMA OneLess ==
  ASSUME Typed, wire # <<>>, wire' = Tail(wire), Follows(wire[1]), NEW n \in Nat
  PROVE  \A j \in 1 .. Len(wire) :
           /\ Quiet(wire, j + 1) => Quiet(wire, j)'
           /\ Fresh(wire, j + 1) => Fresh(wire, j)'
           /\ Speaks(wire, j + 1, n) => Speaks(wire, j, n)'
           /\ Above(wire, j + 1, n) => Above(wire, j, n)'
<1>. SUFFICES ASSUME NEW j \in 1 .. Len(wire)
              PROVE  /\ Quiet(wire, j + 1) => Quiet(wire, j)'
                     /\ Fresh(wire, j + 1) => Fresh(wire, j)'
                     /\ Speaks(wire, j + 1, n) => Speaks(wire, j, n)'
                     /\ Above(wire, j + 1, n) => Above(wire, j, n)'
  OBVIOUS
<1>. DEFINE f == wire[1]
<1>1. /\ wire \in Seq(Frames) /\ units \in Seq(Units) /\ j \in Nat /\ j >= 1
      /\ \A i \in 1 .. j - 1 : wire'[i] = wire[i + 1]
      /\ f \in Frames
  BY DEF Typed, EngineTyped, ClientTyped
<1>2. \A i \in 1 .. j - 1 : i + 1 \in 1 .. (j + 1) - 1
  BY <1>1
<1>3. \A k \in 1 .. (j + 1) - 1 : k = 1 \/ (k - 1 \in 1 .. j - 1 /\ wire[k] = wire'[k - 1])
  BY <1>1
<1>4. \A i \in 1 .. j - 1 : \A k \in (i + 1) + 1 .. (j + 1) - 1 :
         k - 1 \in i + 1 .. j - 1 /\ wire[k] = wire'[k - 1]
  BY <1>1
<1>5. \A k \in 1 + 1 .. (j + 1) - 1 : k - 1 \in 1 .. j - 1 /\ wire[k] = wire'[k - 1]
  BY <1>1
<1>6. \A i \in 1 .. j - 1 : \A k \in i + 1 .. j - 1 :
         k + 1 \in (i + 1) + 1 .. (j + 1) - 1 /\ wire[k + 1] = wire'[k]
  BY <1>1
<1>7. \A k \in 1 .. j - 1 : k + 1 \in 1 + 1 .. (j + 1) - 1
  BY <1>1
<1>8. 1 \in 1 .. (j + 1) - 1
  BY <1>1
<1>9. Quiet(wire, j + 1) => Quiet(wire, j)'
  <2>. SUFFICES ASSUME Quiet(wire, j + 1) PROVE Quiet(wire, j)'
    OBVIOUS
  <2>1. ASSUME NEW i \in 1 .. j - 1, wire'[i].kind = "created"
        PROVE  \E k \in i + 1 .. j - 1 : Ends(wire'[k])
    <3>1. wire[i + 1].kind = "created"
      BY <1>1, <2>1
    <3>2. PICK k \in (i + 1) + 1 .. (j + 1) - 1 : Ends(wire[k])
      BY <1>2, <3>1 DEF Quiet
    <3>. QED BY <1>4, <3>2
  <2>2. ASSUME answering' PROVE \E k \in 1 .. j - 1 : Ends(wire'[k])
    <3>1. CASE f.kind = "created"
      <4>1. PICK k \in 1 + 1 .. (j + 1) - 1 : Ends(wire[k])
        BY <1>8, <3>1 DEF Quiet
      <4>. QED BY <1>5, <4>1
    <3>2. CASE answering /\ ~Ends(f)
      <4>1. PICK k \in 1 .. (j + 1) - 1 : Ends(wire[k])
        BY <3>2 DEF Quiet
      <4>. QED BY <1>3, <3>2, <4>1
    <3>. QED BY <2>2, <3>1, <3>2 DEF Follows
  <2>. QED BY <2>1, <2>2 DEF Quiet, Ends
<1>10. Fresh(wire, j + 1) => Fresh(wire, j)'
  <2>. SUFFICES ASSUME Fresh(wire, j + 1) PROVE Fresh(wire, j)'
    OBVIOUS
  <2>1. ASSUME NEW i \in 1 .. j - 1, wire'[i].kind = "transcript"
        PROVE  \E k \in i + 1 .. j - 1 : wire'[k].kind = "created"
    <3>1. wire[i + 1].kind = "transcript"
      BY <1>1, <2>1
    <3>2. PICK k \in (i + 1) + 1 .. (j + 1) - 1 : wire[k].kind = "created"
      BY <1>2, <3>1 DEF Fresh
    <3>. QED BY <1>4, <3>2
  <2>2. ASSUME answering' /\ lines' # 0 /\ ~line_open'
        PROVE  \E k \in 1 .. j - 1 : wire'[k].kind = "created"
    <3>1. CASE f.kind = "transcript"
      <4>1. PICK k \in 1 + 1 .. (j + 1) - 1 : wire[k].kind = "created"
        BY <1>8, <3>1 DEF Fresh
      <4>. QED BY <1>5, <4>1
    <3>2. CASE answering /\ lines # 0 /\ ~line_open /\ f.kind # "created"
      <4>1. PICK k \in 1 .. (j + 1) - 1 : wire[k].kind = "created"
        BY <3>2 DEF Fresh
      <4>. QED BY <1>3, <3>2, <4>1
    <3>. QED BY <2>2, <3>1, <3>2 DEF Follows
  <2>. QED BY <2>1, <2>2 DEF Fresh
<1>11. Speaks(wire, j + 1, n) => Speaks(wire, j, n)'
  <2>. DEFINE Starts(i) == /\ wire[i].kind = "unit" /\ wire[i].rev = n
                           /\ \A k \in i + 1 .. (j + 1) - 1 :
                                wire[k].kind \notin {"unit", "created"}
              Silent == \A k \in 1 .. j - 1 : wire'[k].kind \notin {"unit", "created"}
  <2>1. ASSUME NEW i \in 1 + 1 .. (j + 1) - 1, Starts(i) PROVE Speaks(wire, j, n)'
    <3>. DEFINE h == i - 1
    <3>1. h \in 1 .. j - 1 /\ h + 1 = i /\ wire'[h] = wire[i]
      BY <1>1, <1>5
    <3>. HIDE DEF h
    <3>2. \A k \in h + 1 .. j - 1 : wire'[k].kind \notin {"unit", "created"}
      BY <1>6, <2>1, <3>1
    <3>. QED BY <2>1, <3>1, <3>2 DEF Speaks
  <2>2. ASSUME Starts(1) PROVE Speaks(wire, j, n)'
    <3>1. Silent
      BY <1>1, <1>7, <2>2
    <3>2. answering' => units' # <<>> /\ units'[Len(units')].unit = n
      <4>1. answering' => units' = Append(units, [unit |-> n, start |-> queued])
        BY <2>2 DEF Follows
      <4>. QED BY <1>1, <4>1
    <3>. QED BY <3>1, <3>2 DEF Speaks
  <2>3. ASSUME \A k \in 1 .. (j + 1) - 1 : wire[k].kind \notin {"unit", "created"},
               answering => units # <<>> /\ units[Len(units)].unit = n
        PROVE  Speaks(wire, j, n)'
    <3>1. Silent
      BY <1>1, <1>2, <2>3
    <3>2. f.kind \notin {"unit", "created"}
      BY <1>8, <2>3
    <3>3. answering' => answering /\ units' = units
      BY <3>2 DEF Follows
    <3>. QED BY <2>3, <3>1, <3>3 DEF Speaks
  <2>4. \A i \in 1 .. (j + 1) - 1 : i = 1 \/ i \in 1 + 1 .. (j + 1) - 1
    OBVIOUS
  <2>. QED BY <2>1, <2>2, <2>3, <2>4 DEF Speaks
<1>12. Above(wire, j + 1, n) => Above(wire, j, n)'
  <2>. SUFFICES ASSUME Above(wire, j + 1, n) PROVE Above(wire, j, n)'
    OBVIOUS
  <2>1. ASSUME NEW i \in 1 .. j - 1
        PROVE  \/ wire'[i].kind # "unit" \/ wire'[i].rev < n
               \/ \E k \in i + 1 .. j - 1 : wire'[k].kind = "created"
    <3>1. \/ wire[i + 1].kind # "unit" \/ wire[i + 1].rev < n
          \/ \E k \in (i + 1) + 1 .. (j + 1) - 1 : wire[k].kind = "created"
      BY <1>2 DEF Above
    <3>. QED BY <1>1, <1>4, <3>1
  <2>2. ASSUME answering', ~\E k \in 1 .. j - 1 : wire'[k].kind = "created",
               NEW m \in DOMAIN units'
        PROVE  units'[m].unit < n
    <3>1. ~\E k \in 1 + 1 .. (j + 1) - 1 : wire[k].kind = "created"
      BY <1>5, <2>2
    <3>2. CASE f.kind = "created"
      BY <2>2, <3>2 DEF Follows
    <3>3. CASE f.kind # "created"
      <4>1. answering
        BY <2>2, <3>3 DEF Follows
      <4>2. ~\E k \in 1 .. (j + 1) - 1 : wire[k].kind = "created"
        BY <1>3, <2>2, <3>3
      <4>3. \A i \in DOMAIN units : units[i].unit < n
        BY <4>1, <4>2 DEF Above
      <4>4. CASE f.kind = "unit"
        <5>1. f.rev < n
          BY <1>8, <3>1, <4>4 DEF Above
        <5>2. units' = Append(units, [unit |-> f.rev, start |-> queued])
          BY <2>2, <4>4 DEF Follows
        <5>. QED BY <1>1, <4>3, <5>1, <5>2
      <4>5. CASE f.kind # "unit"
        BY <2>2, <3>3, <4>3, <4>5 DEF Follows
      <4>. QED BY <4>4, <4>5
    <3>. QED BY <3>2, <3>3
  <2>. QED BY <2>1, <2>2 DEF Above
<1>. QED BY <1>9, <1>10, <1>11, <1>12

LEMMA WireTaken ==
  ASSUME Typed, wire # <<>>, wire' = Tail(wire), UNCHANGED engine, Follows(wire[1]),
         WireOrder, WireEnd
  PROVE  WireOrder' /\ WireEnd'
<1>1. /\ wire \in Seq(Frames) /\ Len(wire) \in 1 .. Len(wire) /\ Len(wire') + 1 = Len(wire)
      /\ \A j \in DOMAIN wire' : /\ j + 1 \in DOMAIN wire /\ wire'[j] = wire[j + 1]
                                 /\ wire[j + 1] \in Frames /\ j \in 1 .. Len(wire)
      /\ spoken \in Nat \X Nat
  BY DEF Typed, EngineTyped
<1>2. WireOrder'
  <2>. SUFFICES ASSUME NEW j \in DOMAIN wire' PROVE Fits(wire, j, wire[j])'
    BY DEF WireOrder, InOrder
  <2>1. Fits(wire, j + 1, wire[j + 1]) /\ wire'[j] = wire[j + 1] /\ j \in 1 .. Len(wire)
    BY <1>1 DEF WireOrder, InOrder
  <2>2. wire[j + 1].rev \in Nat
    BY <1>1 DEF Frames
  <2>3. /\ Quiet(wire, j + 1) => Quiet(wire, j)'
        /\ Fresh(wire, j + 1) => Fresh(wire, j)'
        /\ Speaks(wire, j + 1, wire[j + 1].rev) => Speaks(wire, j, wire[j].rev)'
        /\ Above(wire, j + 1, wire[j + 1].rev) => Above(wire, j, wire[j].rev)'
    <3>1. ASSUME NEW n \in Nat
          PROVE  /\ Quiet(wire, j + 1) => Quiet(wire, j)'
                 /\ Fresh(wire, j + 1) => Fresh(wire, j)'
                 /\ Speaks(wire, j + 1, n) => Speaks(wire, j, n)'
                 /\ Above(wire, j + 1, n) => Above(wire, j, n)'
      BY <2>1, OneLess
    <3>2. ASSUME NEW n \in Nat, n = wire'[j].rev
          PROVE  /\ Speaks(wire, j, n)' => Speaks(wire, j, wire[j].rev)'
                 /\ Above(wire, j, n)' => Above(wire, j, wire[j].rev)'
      BY <3>2 DEF Speaks, Above
    <3>. QED BY <2>1, <2>2, <3>1, <3>2
  <2>. QED BY <2>1, <2>3 DEF Fits, Writes
<1>3. WireEnd'
  <2>. DEFINE e == Len(wire)
  <2>1. ASSUME NEW n \in Nat
        PROVE  /\ Quiet(wire, e + 1) => Quiet(wire, Len(wire) + 1)'
               /\ Fresh(wire, e + 1) => Fresh(wire, Len(wire) + 1)'
               /\ Speaks(wire, e + 1, n) => Speaks(wire, Len(wire) + 1, n)'
               /\ Above(wire, e + 1, n) => Above(wire, Len(wire) + 1, n)'
    <3>1. ASSUME NEW j \in 1 .. e, j = e
          PROVE  /\ Quiet(wire, j + 1) => Quiet(wire, j)'
                 /\ Fresh(wire, j + 1) => Fresh(wire, j)'
                 /\ Speaks(wire, j + 1, n) => Speaks(wire, j, n)'
                 /\ Above(wire, j + 1, n) => Above(wire, j, n)'
      BY OneLess
    <3>2. ASSUME NEW j \in 1 .. e, j = e
          PROVE  /\ Quiet(wire, j)' => Quiet(wire, Len(wire) + 1)'
                 /\ Fresh(wire, j)' => Fresh(wire, Len(wire) + 1)'
                 /\ Speaks(wire, j, n)' => Speaks(wire, Len(wire) + 1, n)'
                 /\ Above(wire, j, n)' => Above(wire, Len(wire) + 1, n)'
      BY <1>1, <3>2 DEF Quiet, Fresh, Speaks, Above
    <3>. QED BY <1>1, <3>1, <3>2
  <2>2. spoken[1] \in Nat /\ spoken[1] + 1 \in Nat
    BY <1>1
  <2>3. /\ job = Nobody /\ (jobs # <<>> \/ commits # <<>> \/ user = "open") => Quiet(wire, e + 1)
        /\ job # Nobody /\ ~void => Fresh(wire, e + 1)
        /\ spoken[1] > 0 => Speaks(wire, e + 1, spoken[1])
        /\ job # Nobody => Above(wire, e + 1, spoken[1] + 1)
    BY DEF WireEnd
  <2>4. UNCHANGED <<job, jobs, commits, user, void, spoken>>
    BY DEF engine
  <2>5. /\ spoken[1] > 0 => Speaks(wire, Len(wire) + 1, spoken[1])'
        /\ job # Nobody => Above(wire, Len(wire) + 1, spoken[1] + 1)'
    <3>1. ASSUME NEW n \in Nat
          PROVE  /\ spoken[1] = n /\ Speaks(wire, Len(wire) + 1, n)'
                    => Speaks(wire, Len(wire) + 1, spoken[1])'
                 /\ spoken[1] + 1 = n /\ Above(wire, Len(wire) + 1, n)'
                    => Above(wire, Len(wire) + 1, spoken[1] + 1)'
      BY <2>4 DEF Speaks, Above
    <3>. HIDE DEF e
    <3>. QED BY <2>1, <2>2, <2>3, <3>1
  <2>6. 0 \in Nat
    OBVIOUS
  <2>. HIDE DEF e
  <2>7. /\ Quiet(wire, e + 1) => Quiet(wire, Len(wire) + 1)'
        /\ Fresh(wire, e + 1) => Fresh(wire, Len(wire) + 1)'
    BY <2>1, <2>6
  <2>. QED BY <2>3, <2>4, <2>5, <2>7 DEF WireEnd
<1>. QED BY <1>2, <1>3

(* -------------------------- the writer and the card -------------------- *)

\* What the writer knows when a frame comes, and what it leaves.
Before == Typed /\ WireOrder /\ WriterInv /\ CardInv
Waiting == wire' = wire /\ UNCHANGED <<answering, lines, line_open, units>>
Taken == wire' = Tail(wire) /\ Follows(wire[1])
After == WriterInv' /\ CardInv' /\ (Waiting \/ Taken)

\* With nothing of the sound card in flight, a close files what sounded.
LEMMA CloseIsTrue ==
  ASSUME Typed, CardInv, answering, callback.at = "idle", FileAnswer,
         UNCHANGED <<answer, placed, sounded>>, ~answering'
  PROVE  CardInv'
<1>1. /\ heard \in Nat /\ units \in Seq(Units) /\ placed \subseteq Samples
  BY DEF Typed, ClientTyped
<1>2. Sounds = heard
  BY <1>1 DEF Sounds
<1>3. sounded = SoundedOf(heard) /\ sounded \subseteq placed
  BY <1>2 DEF CardInv
<1>4. filed' = {[answer |-> answer, unit |-> u.unit] : u \in {x \in Range(units) : x.start < heard}}
  BY DEF FileAnswer, Started, Began
<1>5. ASSUME NEW s \in placed
      PROVE  s \in sounded <=> s \in filed'
  <2>1. s.answer = answer /\ s \in Samples
    BY <1>1 DEF CardInv
  <2>2. \A i \in DOMAIN units : s = [answer |-> answer, unit |-> units[i].unit]
                                <=> units[i].unit = s.unit
    BY <2>1 DEF Samples
  <2>3. s \in filed' <=> \E i \in DOMAIN units : /\ s = [answer |-> answer, unit |-> units[i].unit]
                                                /\ units[i].start < heard
    BY <1>4 DEF Range
  <2>4. s \in sounded <=> \E i \in DOMAIN units : units[i].unit = s.unit /\ units[i].start < heard
    BY <1>3 DEF SoundedOf
  <2>. QED BY <2>2, <2>3, <2>4
<1>6. sounded = filed' \cap placed
  BY <1>3, <1>5
<1>7. ~line_open' /\ units' = <<>>
  BY DEF FileAnswer
<1>8. \A s \in placed : s.answer = answer
  BY DEF CardInv
<1>. QED BY <1>3, <1>6, <1>7, <1>8 DEF CardInv

\* What the sound card and the units are told by.
LEMMA CardKept ==
  ASSUME CardInv, UNCHANGED <<ring, heard, consumed, callback, units, queued, answer, sounded,
                              placed, filed, answering>>,
         Cut <=> Cut', ~answering => ~line_open'
  PROVE  CardInv'
<1>1. UnitsInOrder' <=> UnitsInOrder
  BY DEF UnitsInOrder
<1>2. Sounds' = Sounds
  BY DEF Sounds
<1>3. RingInStep' <=> RingInStep
  BY <1>2 DEF RingInStep
<1>4. SoundedOf(Sounds)' = SoundedOf(Sounds)
  BY <1>2 DEF SoundedOf
<1>. QED BY <1>1, <1>3, <1>4 DEF CardInv

LEMMA FlushAsked ==
  ASSUME Before, OnStarted \/ OnCancelled PROVE After
<1>1. /\ Typed /\ WriterInv /\ CardInv /\ wire # <<>> /\ writer = "idle" /\ Ends(wire[1])
      /\ wire \in Seq(Frames)
  <2>1. wire \in Seq(Frames)
    BY DEF Before, Typed, EngineTyped
  <2>2. wire # <<>> => Head(wire) = wire[1]
    BY <2>1
  <2>. QED BY <2>1, <2>2 DEF Before, OnStarted, OnCancelled, Delivers, Ends
<1>2. /\ UNCHANGED <<ring, heard, consumed, callback, units, queued, answer, sounded, placed, filed,
                    answering, lines, line_open>>
  BY DEF OnStarted, OnCancelled, NoClose, FilesNothing, SameAnswer, WriterRest
<1>3. CASE OnStarted /\ ~answering
  <2>1. wire' = Tail(wire) /\ writer' = "idle" /\ flush' = flush
    BY <1>3 DEF OnStarted, Handled
  <2>2. Cut' <=> Cut
    BY <1>1, <2>1 DEF Cut
  <2>3. WriterInv'
    BY <1>1, <1>2, <1>3, <2>1, <2>2 DEF WriterInv
  <2>4. CardInv'
    BY <1>1, <1>2, <2>2, CardKept DEF CardInv
  <2>5. Follows(wire[1])
    BY <1>2, <1>3 DEF Follows
  <2>. QED BY <2>1, <2>3, <2>4, <2>5 DEF After, Taken
<1>4. CASE ~(OnStarted /\ ~answering)
  <2>1. wire' = wire /\ writer' = "flushing" /\ flush'
    BY <1>4 DEF OnStarted, OnCancelled
  <2>2. Cut' <=> Cut
    BY <1>1, <2>1 DEF Cut
  <2>3. WriterInv'
    BY <1>1, <1>2, <2>1, <2>2 DEF WriterInv
  <2>4. CardInv'
    BY <1>1, <1>2, <2>2, CardKept DEF CardInv
  <2>. QED BY <1>2, <2>1, <2>3, <2>4 DEF After, Waiting
<1>. QED BY <1>3, <1>4

\* A frame that is handled at once.
LEMMA HandledAtOnce ==
  ASSUME Before, Handled, writer = "idle", wire # <<>>
  PROVE  /\ Typed /\ WriterInv /\ CardInv /\ ~flush /\ ~Cut
         /\ wire' = Tail(wire) /\ writer' = "idle" /\ ~Cut'
         /\ Head(wire) = wire[1] /\ wire[1] \in Frames /\ Fits(wire, 1, wire[1])
<1>1. wire \in Seq(Frames)
  BY DEF Before, Typed, EngineTyped
<1>2. Head(wire) = wire[1] /\ wire[1] \in Frames /\ 1 \in DOMAIN wire
  BY <1>1
<1>3. Fits(wire, 1, wire[1])
  BY <1>2 DEF Before, WireOrder, InOrder
<1>. QED BY <1>2, <1>3 DEF Before, Handled, Cut, WriterInv

LEMMA TranscriptTaken ==
  ASSUME Before, OnTranscript PROVE After
<1>1. /\ Typed /\ WriterInv /\ CardInv /\ ~flush /\ ~Cut
      /\ wire' = Tail(wire) /\ writer' = "idle" /\ ~Cut'
      /\ wire[1].kind = "transcript"
  BY HandledAtOnce DEF OnTranscript, Delivers
<1>2. /\ UNCHANGED <<ring, heard, consumed, callback, units, queued, answer, sounded, placed, filed,
                    answering, lines, flush>> /\ ~line_open'
  BY DEF OnTranscript, SameAnswer, SameCard, WriterRest
<1>3. CardInv'
  BY <1>1, <1>2, CardKept
<1>4. WriterInv'
  BY <1>1, <1>2 DEF WriterInv
<1>5. Follows(wire[1])
  BY <1>1, <1>2 DEF Follows, Ends
<1>. QED BY <1>1, <1>3, <1>4, <1>5 DEF After, Taken

LEMMA CreatedTaken ==
  ASSUME Before, OnCreated PROVE After
<1>1. /\ Typed /\ WriterInv /\ CardInv /\ ~flush /\ ~Cut
      /\ wire' = Tail(wire) /\ writer' = "idle" /\ ~Cut'
      /\ wire[1].kind = "created" /\ Fits(wire, 1, wire[1])
  BY HandledAtOnce DEF OnCreated, Delivers
<1>2. ~answering
  BY <1>1 DEF Fits, Quiet
<1>3. units = <<>> /\ ~line_open /\ ring = <<>> /\ callback.at = "idle" /\ callback.took = 0
  BY <1>1, <1>2 DEF CardInv, WriterInv
<1>4. /\ UNCHANGED <<ring, flush, callback, units, line_open>>
      /\ answering' /\ queued' = 0 /\ heard' = 0 /\ consumed' = 0
      /\ sounded' = {} /\ placed' = {} /\ lines' = 0
  BY <1>2 DEF OnCreated, FilesNothing, WriterRest
<1>5. WriterInv'
  BY <1>1, <1>3, <1>4 DEF WriterInv
<1>6. CardInv'
  <2>1. DOMAIN units' = {} /\ DOMAIN ring' = {} /\ Len(ring') = 0 /\ units' = <<>>
    BY <1>3, <1>4
  <2>2. Sounds' = 0
    BY <1>3, <1>4 DEF Sounds
  <2>3. UnitsInOrder'
    BY <1>4, <2>1 DEF UnitsInOrder
  <2>4. RingInStep'
    <3>1. consumed' + callback'.took + Len(ring') = queued' /\ Sounds' + Len(ring') = queued'
      BY <1>3, <1>4, <2>1, <2>2
    <3>. QED BY <2>1, <3>1 DEF RingInStep
  <2>5. SoundedOf(Sounds)' = {}
    BY <1>4 DEF SoundedOf
  <2>. QED BY <1>4, <2>3, <2>4, <2>5 DEF CardInv
<1>7. Follows(wire[1])
  BY <1>1, <1>3, <1>4 DEF Follows
<1>. QED BY <1>1, <1>5, <1>6, <1>7 DEF After, Taken

LEMMA TextTaken ==
  ASSUME Before, OnText PROVE After
<1>1. /\ Typed /\ WriterInv /\ CardInv /\ ~flush /\ ~Cut
      /\ wire' = Tail(wire) /\ writer' = "idle" /\ ~Cut'
      /\ wire[1].kind \in {"text", "tool"} /\ Fits(wire, 1, wire[1])
  BY HandledAtOnce DEF OnText, Delivers
<1>2. /\ UNCHANGED <<ring, heard, consumed, callback, units, queued, answer, sounded, placed, filed,
                    answering, flush>>
      /\ IF answering THEN WriteLine ELSE UNCHANGED <<line_open, lines>>
  BY DEF OnText, SameAnswer, SameCard, WriterRest, Takes
<1>3. answering => line_open \/ lines = 0
  BY <1>1 DEF Fits, Fresh, Writes
<1>4. lines \in Nat
  BY <1>1 DEF Typed, ClientTyped
<1>5. lines' <= 1 /\ (line_open' => lines' = 1) /\ (answering => line_open')
      /\ (~answering => line_open' = line_open)
  BY <1>1, <1>2, <1>3, <1>4 DEF WriteLine, WriterInv
<1>6. CardInv'
  BY <1>1, <1>2, <1>5, CardKept DEF CardInv
<1>7. WriterInv'
  BY <1>1, <1>2, <1>5 DEF WriterInv
<1>8. Follows(wire[1])
  BY <1>1, <1>2, <1>5 DEF Follows, Ends
<1>. QED BY <1>1, <1>6, <1>7, <1>8 DEF After, Taken

LEMMA DoneTaken ==
  ASSUME Before, OnDone PROVE After
<1>1. /\ Typed /\ WriterInv /\ CardInv /\ ~flush /\ ~Cut
      /\ wire' = Tail(wire) /\ writer' = "idle" /\ ~Cut'
      /\ wire[1].kind = "done"
  BY HandledAtOnce DEF OnDone, Delivers
<1>2. /\ UNCHANGED <<ring, heard, consumed, callback, units, queued, answer, sounded, placed, filed,
                    answering, lines, line_open, flush>>
  BY DEF OnDone, FilesNothing, SameAnswer, SameCard, WriterRest
<1>3. CardInv'
  BY <1>1, <1>2, CardKept DEF CardInv
<1>4. WriterInv'
  BY <1>1, <1>2 DEF WriterInv
<1>5. Follows(wire[1])
  BY <1>1, <1>2 DEF Follows, Ends
<1>. QED BY <1>1, <1>3, <1>4, <1>5 DEF After, Taken

LEMMA FlushTaken ==
  ASSUME Before, Flushed, ~g_stop PROVE After
<1>1. /\ Typed /\ WriterInv /\ CardInv /\ ~flush /\ writer = "flushing" /\ Cut
      /\ wire' = Tail(wire) /\ writer' = "idle" /\ ~Cut'
  BY DEF Before, Flushed, FlushOver, Handled, Cut
<1>2. Ends(wire[1]) /\ callback.at = "idle" /\ ring = <<>> /\ callback.took = 0
  BY <1>1 DEF WriterInv
<1>3. UNCHANGED <<ring, heard, consumed, callback, queued, answer, sounded, placed, lines, flush>>
  BY DEF Flushed, SameAnswer, SameCard, WriterRest
<1>4. ~answering'
  BY DEF Flushed, Closes, NoClose
<1>5. CASE answering
  <2>1. FileAnswer
    BY <1>5 DEF Flushed, Closes
  <2>2. CardInv'
    BY <1>1, <1>2, <1>3, <1>4, <1>5, <2>1, CloseIsTrue
  <2>3. ~line_open'
    BY <2>1 DEF FileAnswer
  <2>4. WriterInv'
    BY <1>1, <1>2, <1>3, <2>3 DEF WriterInv
  <2>5. Follows(wire[1])
    BY <1>4 DEF Follows
  <2>. QED BY <1>1, <2>2, <2>4, <2>5 DEF After, Taken
<1>6. CASE ~answering
  <2>1. UNCHANGED <<units, line_open, filed, answering>>
    BY <1>6 DEF Flushed, NoClose, FilesNothing
  <2>2. CardInv'
    BY <1>1, <1>3, <1>6, <2>1 DEF CardInv
  <2>3. WriterInv'
    BY <1>1, <1>2, <1>3, <2>1 DEF WriterInv
  <2>4. Follows(wire[1])
    BY <1>4 DEF Follows
  <2>. QED BY <1>1, <2>2, <2>3, <2>4 DEF After, Taken
<1>. QED BY <1>5, <1>6

\* A unit is above those before it: none of it is in the ring yet.
LEMMA UnitTaken ==
  ASSUME Before, OnUnit PROVE After
<1>. DEFINE u == [unit |-> wire[1].rev, start |-> queued]
<1>1. /\ Typed /\ WriterInv /\ CardInv /\ ~flush /\ ~Cut
      /\ wire' = Tail(wire) /\ writer' = "idle" /\ ~Cut'
      /\ wire[1].kind = "unit" /\ wire[1] \in Frames /\ Head(wire) = wire[1]
      /\ Fits(wire, 1, wire[1])
  BY HandledAtOnce DEF OnUnit, Delivers
<1>2. /\ UNCHANGED <<ring, heard, consumed, callback, queued, answer, sounded, placed, filed,
                    answering, flush>>
      /\ IF answering
         THEN /\ units' = Append(units, u)
              /\ IF written THEN UNCHANGED <<line_open, lines>> ELSE WriteLine
         ELSE UNCHANGED <<units, line_open, lines>>
  BY <1>1 DEF OnUnit, SameAnswer, SameCard, WriterRest
<1>3. /\ lines \in Nat /\ queued \in Nat /\ wire[1].rev \in Nat /\ units \in Seq(Units)
      /\ heard \in Nat /\ placed \subseteq Samples /\ ring \in Seq(Samples)
      /\ Len(ring) \in Nat
      /\ \A i \in DOMAIN units : units[i].unit \in Nat /\ units[i].start \in Nat
  <2>1. /\ lines \in Nat /\ queued \in Nat /\ units \in Seq(Units)
        /\ heard \in Nat /\ placed \subseteq Samples /\ ring \in Seq(Samples)
    BY <1>1 DEF Typed, ClientTyped
  <2>2. \A i \in DOMAIN units : units[i] \in Units
    BY <2>1
  <2>. QED BY <1>1, <2>1, <2>2 DEF Units, Frames
<1>4. answering => line_open \/ lines = 0
  BY <1>1 DEF Fits, Fresh, Writes
<1>5. /\ lines' <= 1 /\ (line_open' => lines' = 1)
      /\ answering => line_open' \/ lines' = 0
      /\ ~answering => line_open' = line_open
  BY <1>1, <1>2, <1>3, <1>4 DEF WriteLine, WriterInv
<1>6. WriterInv'
  BY <1>1, <1>2, <1>5 DEF WriterInv
<1>7. Follows(wire[1])
  BY <1>1, <1>2, <1>5 DEF Follows, Ends
<1>8. CASE ~answering
  <2>1. CardInv'
    BY <1>1, <1>2, <1>5, <1>8, CardKept DEF CardInv
  <2>. QED BY <1>1, <1>6, <1>7, <2>1 DEF After, Taken
<1>9. CASE answering
  <2>1. UnitsInOrder /\ RingInStep /\ sounded = SoundedOf(Sounds)
    BY <1>1, <1>9 DEF CardInv
  <2>2. /\ u \in Units /\ u.unit = wire[1].rev /\ u.start = queued
        /\ units' = Append(units, u)
    BY <1>2, <1>3, <1>9 DEF Units
  <2>. HIDE DEF u
  <2>3. /\ Len(units') = Len(units) + 1 /\ DOMAIN units' = 1 .. Len(units')
        /\ DOMAIN units = 1 .. Len(units) /\ Len(units) \in Nat
        /\ units'[Len(units')] = u
        /\ \A i \in DOMAIN units : i \in DOMAIN units' /\ i < Len(units') /\ units'[i] = units[i]
        /\ \A i \in DOMAIN units' : i = Len(units') \/ i \in DOMAIN units
    BY <1>3, <2>2
  <2>4. \A i \in DOMAIN units : units[i].unit < u.unit
    BY <1>1, <1>9, <2>2 DEF Fits, Above
  <2>5. \A i \in DOMAIN units : units[i].unit # u.unit
    BY <1>1, <1>3, <2>2, <2>4
  <2>6. \A s \in placed : s.unit # u.unit
    BY <2>1, <2>5 DEF UnitsInOrder
  <2>7. [answer |-> answer, unit |-> u.unit] \notin placed
    BY <2>6
  <2>8. Sounds' = Sounds /\ Sounds \in Nat
    <3>1. callback \in [at : {"idle", "counts", "consumes"}, took : Nat]
      BY <1>1 DEF Typed, ClientTyped
    <3>. QED BY <1>2, <1>3, <3>1 DEF Sounds
  <2>9. UnitsInOrder'
    <3>0. units'[Len(units')].start = queued /\ queued' = queued /\ queued <= queued
      <4>1. queued <= queued
        BY <1>3
      <4>2. units'[Len(units')].start = u.start
        BY <2>3
      <4>. QED BY <1>2, <2>2, <4>1, <4>2
    <3>1. ASSUME NEW i \in DOMAIN units' PROVE units'[i].start <= queued'
      <4>1. CASE i = Len(units')
        BY <3>0, <4>1
      <4>2. CASE i \in DOMAIN units
        BY <2>1, <2>3, <3>0, <4>2 DEF UnitsInOrder
      <4>. QED BY <2>3, <4>1, <4>2
    <3>2. ASSUME NEW i \in DOMAIN units', NEW m \in DOMAIN units', i < m
          PROVE  units'[i].unit < units'[m].unit
      <4>1. i \in DOMAIN units
        BY <2>3, <3>2
      <4>2. CASE m = Len(units')
        BY <2>3, <2>4, <4>1, <4>2
      <4>3. CASE m \in DOMAIN units
        BY <2>1, <2>3, <3>2, <4>1, <4>3 DEF UnitsInOrder
      <4>. QED BY <2>3, <4>2, <4>3
    <3>3. ~(units'[Len(units')].start < queued')
      <4>1. ~(queued < queued)
        BY <1>3
      <4>. QED BY <3>0, <4>1
    <3>4. ASSUME NEW s \in placed' PROVE \E i \in DOMAIN units' : units'[i].unit = s.unit
      <4>1. PICK i \in DOMAIN units : units[i].unit = s.unit
        BY <1>2, <2>1 DEF UnitsInOrder
      <4>. QED BY <2>3, <4>1
    <3>. QED BY <3>1, <3>2, <3>3, <3>4 DEF UnitsInOrder
  <2>10. RingInStep'
    <3>1. consumed' + callback'.took + Len(ring') = queued' /\ Sounds' + Len(ring') = queued'
      BY <1>1, <1>2, <2>1, <2>8 DEF RingInStep
    <3>2. ASSUME NEW k \in DOMAIN ring'
          PROVE  /\ ring'[k] \in placed'
                 /\ \E i \in DOMAIN units' : /\ units'[i].unit = ring'[k].unit
                                             /\ units'[i].start <= Sounds' + k - 1
      <4>1. ring[k] \in placed /\ ring' = ring
        BY <1>2, <2>1 DEF RingInStep
      <4>2. PICK i \in DOMAIN units : /\ units[i].unit = ring[k].unit
                                      /\ units[i].start <= Sounds + k - 1
        BY <1>2, <2>1 DEF RingInStep
      <4>3. i \in DOMAIN units' /\ units'[i] = units[i]
        BY <2>3
      <4>. QED BY <1>2, <2>8, <4>1, <4>2, <4>3
    <3>3. ASSUME NEW i \in DOMAIN units',
                 [answer |-> answer', unit |-> units'[i].unit] \in placed',
                 units'[i].start - Sounds' + 1 >= 1
          PROVE  /\ units'[i].start - Sounds' + 1 \in DOMAIN ring'
                 /\ ring'[units'[i].start - Sounds' + 1].unit = units'[i].unit
      <4>1. i \in DOMAIN units
        BY <1>2, <2>3, <2>7, <3>3
      <4>2. units'[i] = units[i]
        BY <2>3, <4>1
      <4>. QED BY <1>1, <1>2, <2>1, <2>8, <3>3, <4>1, <4>2 DEF RingInStep
    <3>. QED BY <3>1, <3>2, <3>3 DEF RingInStep
  <2>11. SoundedOf(Sounds)' = SoundedOf(Sounds)
    <3>1. ASSUME NEW s \in placed
          PROVE  (\E i \in DOMAIN units' : units'[i].unit = s.unit /\ units'[i].start < Sounds)
                 <=> (\E i \in DOMAIN units : units[i].unit = s.unit /\ units[i].start < Sounds)
      BY <2>3, <2>6
    <3>. QED BY <1>2, <2>8, <3>1 DEF SoundedOf
  <2>12. CardInv'
    BY <1>1, <1>2, <1>9, <2>1, <2>9, <2>10, <2>11 DEF CardInv
  <2>. QED BY <1>1, <1>6, <1>7, <2>12 DEF After, Taken
<1>. QED BY <1>8, <1>9

\* A chunk stands behind what is queued, and is of the last unit.
LEMMA AudioTaken ==
  ASSUME Before, OnAudio PROVE After
<1>. DEFINE sample == [answer |-> answer, unit |-> wire[1].rev]
<1>1. /\ Typed /\ WriterInv /\ CardInv /\ ~flush /\ ~Cut
      /\ wire' = Tail(wire) /\ writer' = "idle" /\ ~Cut'
      /\ wire[1].kind = "audio" /\ wire[1] \in Frames /\ Head(wire) = wire[1]
      /\ Fits(wire, 1, wire[1])
  BY HandledAtOnce DEF OnAudio, Delivers
<1>2. /\ UNCHANGED <<heard, consumed, callback, units, answer, sounded, filed, answering, lines,
                    line_open, flush>>
      /\ \/ UNCHANGED <<ring, placed>> /\ (queued' = queued \/ queued' = queued + 0)
         \/ /\ answering
            /\ ring' = Append(ring, sample) /\ placed' = placed \cup {sample}
            /\ queued' = queued + 1
  BY <1>1 DEF OnAudio, NoClose, FilesNothing, WriterRest, Counts
<1>3. /\ queued \in Nat /\ units \in Seq(Units) /\ consumed \in Nat
      /\ heard \in Nat /\ placed \subseteq Samples /\ ring \in Seq(Samples)
      /\ Len(ring) \in Nat /\ callback.took \in Nat
      /\ \A i \in DOMAIN units : units[i].unit \in Nat /\ units[i].start \in Nat
  <2>1. /\ queued \in Nat /\ units \in Seq(Units) /\ consumed \in Nat
        /\ heard \in Nat /\ placed \subseteq Samples /\ ring \in Seq(Samples)
        /\ callback \in [at : {"idle", "counts", "consumes"}, took : Nat]
    BY <1>1 DEF Typed, ClientTyped
  <2>2. \A i \in DOMAIN units : units[i] \in Units
    BY <2>1
  <2>. QED BY <2>1, <2>2 DEF Units
<1>4. Follows(wire[1])
  BY <1>1, <1>2 DEF Follows, Ends
<1>5. CASE UNCHANGED <<ring, placed>> /\ (queued' = queued \/ queued' = queued + 0)
  <2>1. queued' = queued
    BY <1>3, <1>5
  <2>2. CardInv'
    BY <1>1, <1>2, <1>5, <2>1, CardKept DEF CardInv
  <2>3. WriterInv'
    BY <1>1, <1>2, <1>5 DEF WriterInv
  <2>. QED BY <1>1, <1>4, <2>2, <2>3 DEF After, Taken
<1>6. CASE /\ answering
           /\ ring' = Append(ring, sample) /\ placed' = placed \cup {sample}
           /\ queued' = queued + 1
  <2>. DEFINE l == Len(units)
  <2>1. UnitsInOrder /\ RingInStep /\ sounded = SoundedOf(Sounds)
    BY <1>1, <1>6 DEF CardInv
  <2>2. units # <<>> /\ units[l].unit = wire[1].rev
    BY <1>1, <1>6 DEF Fits, Speaks
  <2>3. /\ l \in DOMAIN units /\ DOMAIN units = 1 .. l /\ l \in Nat
        /\ \A i \in DOMAIN units : i = l \/ i < l
    BY <1>3, <2>2
  <2>4. sample.answer = answer /\ sample.unit = units[l].unit /\ sample \in Samples
    <3>1. answer \in Nat
      BY <1>1 DEF Typed, ClientTyped
    <3>. QED BY <1>3, <2>2, <2>3, <3>1 DEF Samples
  <2>5. sample = [answer |-> answer, unit |-> units[l].unit]
    BY <2>2
  <2>. HIDE DEF sample, l
  <2>6. /\ Len(ring') = Len(ring) + 1 /\ DOMAIN ring' = 1 .. Len(ring) + 1
        /\ ring'[Len(ring) + 1] = sample /\ DOMAIN ring = 1 .. Len(ring)
        /\ \A k \in DOMAIN ring : k \in DOMAIN ring' /\ ring'[k] = ring[k]
        /\ \A k \in DOMAIN ring' : k = Len(ring) + 1 \/ k \in DOMAIN ring
    BY <1>3, <1>6, <2>4
  <2>7. Sounds' = Sounds /\ Sounds \in Nat /\ Sounds + Len(ring) = queued
    <3>1. Sounds + Len(ring) = queued
      BY <1>1, <2>1 DEF RingInStep
    <3>. QED BY <1>2, <1>3, <3>1 DEF Sounds
  <2>8. units[l].start <= queued /\ (units[l].start < queued => sample \in placed)
    BY <2>1, <2>2, <2>3, <2>5 DEF UnitsInOrder, l
  <2>9. \A i \in DOMAIN units : units[i].unit = units[l].unit => i = l
    <3>1. \A i \in DOMAIN units : i < l => units[i].unit < units[l].unit
      BY <2>1, <2>3 DEF UnitsInOrder
    <3>. QED BY <1>3, <2>3, <3>1
  <2>10. WriterInv'
    BY <1>1, <1>2, <1>6 DEF WriterInv
  <2>11. UnitsInOrder'
    <3>1. \A i \in DOMAIN units : units[i].start <= queued'
      BY <1>3, <1>6, <2>1 DEF UnitsInOrder
    <3>2. [answer |-> answer, unit |-> units[Len(units)].unit] \in placed'
      BY <1>6, <2>5 DEF l
    <3>3. \A s \in placed' : \E i \in DOMAIN units : units[i].unit = s.unit
      BY <1>6, <2>1, <2>3, <2>4 DEF UnitsInOrder
    <3>. QED BY <1>2, <2>1, <3>1, <3>2, <3>3 DEF UnitsInOrder
  <2>12. RingInStep'
    <3>1. consumed' + callback'.took + Len(ring') = queued' /\ Sounds' + Len(ring') = queued'
      <4>1. consumed + callback.took + Len(ring) = queued
        BY <2>1 DEF RingInStep
      <4>. QED BY <1>2, <1>3, <1>6, <2>6, <2>7, <4>1, SMTT(30)
    <3>2. ASSUME NEW k \in DOMAIN ring'
          PROVE  /\ ring'[k] \in placed'
                 /\ \E i \in DOMAIN units' : /\ units'[i].unit = ring'[k].unit
                                             /\ units'[i].start <= Sounds' + k - 1
      <4>1. CASE k \in DOMAIN ring
        BY <1>2, <1>6, <2>1, <2>6, <2>7, <4>1 DEF RingInStep
      <4>2. CASE k = Len(ring) + 1
        <5>1. Sounds + k - 1 = queued
          BY <1>3, <2>7, <4>2
        <5>. QED BY <1>2, <1>6, <2>3, <2>4, <2>6, <2>7, <2>8, <4>2, <5>1
      <4>. QED BY <2>6, <4>1, <4>2
    <3>3. ASSUME NEW i \in DOMAIN units,
                 [answer |-> answer, unit |-> units[i].unit] \in placed',
                 units[i].start - Sounds + 1 >= 1
          PROVE  /\ units[i].start - Sounds + 1 \in DOMAIN ring'
                 /\ ring'[units[i].start - Sounds + 1].unit = units[i].unit
      <4>. DEFINE k == units[i].start - Sounds + 1
      <4>1. CASE [answer |-> answer, unit |-> units[i].unit] \in placed
        <5>1. k \in DOMAIN ring /\ ring[k].unit = units[i].unit
          BY <1>1, <2>1, <3>3, <4>1 DEF RingInStep
        <5>. HIDE DEF k
        <5>2. k \in DOMAIN ring' /\ ring'[k].unit = units[i].unit
          BY <2>6, <5>1
        <5>. QED BY <5>2 DEF k
      <4>2. CASE [answer |-> answer, unit |-> units[i].unit] \notin placed
        <5>1. [answer |-> answer, unit |-> units[i].unit] = sample
          BY <1>6, <3>3, <4>2
        <5>2. units[i].unit = units[l].unit /\ sample \notin placed
          BY <2>4, <4>2, <5>1
        <5>3. i = l
          BY <2>9, <5>2
        <5>4. units[i].start = queued
          BY <1>3, <2>3, <2>8, <5>2, <5>3
        <5>5. k = Len(ring) + 1
          <6>1. ASSUME NEW a \in Nat, NEW b \in Nat, NEW c \in Nat, a + b = c
                PROVE  c - a + 1 = b + 1
            BY <6>1
          <6>2. Len(ring) \in Nat /\ Sounds \in Nat /\ Sounds + Len(ring) = queued
            BY <1>3, <2>7
          <6>3. queued - Sounds + 1 = Len(ring) + 1
            BY <6>1, <6>2
          <6>. QED BY <5>4, <6>3
        <5>. QED BY <1>3, <2>4, <2>6, <5>2, <5>5
      <4>. QED BY <4>1, <4>2
    <3>. QED BY <1>2, <2>7, <3>1, <3>2, <3>3 DEF RingInStep
  <2>13. sounded = SoundedOf(Sounds)'
    <3>1. SoundedOf(Sounds)' = {s \in placed \cup {sample} :
                                  \E i \in DOMAIN units : /\ units[i].unit = s.unit
                                                          /\ units[i].start < Sounds}
      BY <1>2, <1>6, <2>7 DEF SoundedOf
    <3>2. ASSUME NEW i \in DOMAIN units, units[i].unit = sample.unit, units[i].start < Sounds
          PROVE  sample \in placed
      <4>1. i = l
        BY <2>4, <2>9, <3>2
      <4>2. units[l].start < queued
        BY <1>3, <2>3, <2>7, <3>2, <4>1
      <4>. QED BY <2>8, <4>2
    <3>. QED BY <2>1, <3>1, <3>2 DEF SoundedOf
  <2>14. CardInv'
    BY <1>1, <1>2, <1>6, <2>1, <2>4, <2>11, <2>12, <2>13 DEF CardInv
  <2>. QED BY <1>1, <1>4, <2>10, <2>14 DEF After, Taken
<1>. QED BY <1>2, <1>5, <1>6

\* Every frame, and the end of every flush, keeps the client in step.
LEMMA WriterStep ==
  ASSUME Typed, ~g_stop, WireOrder, WireEnd, TurnsInOrder, WriterInv, CardInv, Writer
  PROVE  WireOrder' /\ WireEnd' /\ TurnsInOrder' /\ WriterInv' /\ CardInv'
<1>1. Before
  BY DEF Before
<1>2. After
  BY <1>1, FlushAsked, TranscriptTaken, CreatedTaken, TextTaken, UnitTaken, AudioTaken, DoneTaken,
     FlushTaken
     DEF Writer, Deliver
<1>3. UNCHANGED engine /\ wire # <<>>
  BY WriterReads
<1>4. TurnsInOrder'
  BY <1>3 DEF TurnsInOrder, Latest, engine
<1>5. CASE Waiting
  <2>1. WireOrder' /\ WireEnd'
    BY <1>3, <1>5
    DEF Waiting, WireOrder, WireEnd, InOrder, Fits, Quiet, Fresh, Speaks, Above, engine
  <2>. QED BY <1>2, <1>4, <2>1 DEF After
<1>6. CASE Taken
  <2>1. WireOrder' /\ WireEnd'
    BY <1>3, <1>6, WireTaken DEF Taken
  <2>. QED BY <1>2, <1>4, <2>1 DEF After
<1>. QED BY <1>2, <1>5, <1>6 DEF After

(* ---------------------------- the main thread -------------------------- *)

\* An answer the reader closes played out: nothing of it is in flight.
LEMMA MainStep ==
  ASSUME Typed, ~g_stop, WireOrder, WireEnd, TurnsInOrder, WriterInv, CardInv,
         Read \/ Send \/ Stop \/ Leave
  PROVE  WireOrder' /\ WireEnd' /\ TurnsInOrder' /\ WriterInv' /\ CardInv'
<1>1. UNCHANGED <<engine, wire, ring, flush, heard, consumed, callback, queued, answer, writer,
                  sounded, placed, lines>>
  BY DEF Read, Send, Stop, Leave, MainRest, card
<1>2. TurnsInOrder'
  BY <1>1 DEF TurnsInOrder, Latest, engine
<1>3. Cut' <=> Cut
  BY <1>1 DEF Cut
<1>4. CASE Read /\ ClosesNow
  <2>1. /\ FileAnswer /\ answering /\ ~answering' /\ consumed >= queued
    BY <1>4 DEF Read, ClosesNow, Played, Closes
  <2>2. callback.at = "idle" /\ ring = <<>> /\ callback.took = 0
    <3>1. consumed + callback.took + Len(ring) = queued
      BY <2>1 DEF CardInv, RingInStep
    <3>2. /\ consumed \in Nat /\ queued \in Nat /\ ring \in Seq(Samples)
          /\ callback \in [at : {"idle", "counts", "consumes"}, took : Nat]
      BY DEF Typed, ClientTyped
    <3>3. callback.took \in Nat /\ Len(ring) \in Nat
      BY <3>2
    <3>4. callback.took = 0 /\ Len(ring) = 0
      BY <2>1, <3>1, <3>2, <3>3
    <3>5. ring = <<>>
      BY <3>2, <3>4
    <3>. QED BY <3>4, <3>5 DEF WriterInv
  <2>3. CardInv'
    BY <1>1, <2>1, <2>2, CloseIsTrue
  <2>4. ~line_open'
    BY <2>1 DEF FileAnswer
  <2>5. WriterInv'
    BY <1>1, <1>3, <2>2, <2>4 DEF WriterInv
  <2>6. WireOrder' /\ WireEnd'
    BY <1>1, <2>1 DEF WireOrder, WireEnd, InOrder, Fits, Quiet, Fresh, Speaks, Above, engine
  <2>. QED BY <1>2, <2>3, <2>5, <2>6
<1>5. CASE ~(Read /\ ClosesNow)
  <2>1. UNCHANGED <<units, line_open, filed, answering>>
    BY <1>5 DEF Read, Send, Stop, Leave, NoClose, FilesNothing
  <2>2. CardInv'
    BY <1>1, <1>3, <2>1, CardKept DEF CardInv
  <2>3. WriterInv'
    BY <1>1, <1>3, <2>1 DEF WriterInv
  <2>4. WireOrder' /\ WireEnd'
    BY <1>1, <2>1 DEF WireOrder, WireEnd, InOrder, Fits, Quiet, Fresh, Speaks, Above, engine
  <2>. QED BY <1>2, <2>2, <2>3, <2>4
<1>. QED BY <1>4, <1>5

(* -------------------------------- the theorem -------------------------- *)

LEMMA InitInv == Init => ClientInv
<1>. SUFFICES ASSUME Init PROVE ClientInv
  OBVIOUS
<1>1. WireOrder /\ WireEnd /\ TurnsInOrder
  BY DEF Init, WireOrder, InOrder, WireEnd, TurnsInOrder, Nobody
<1>2. WriterInv
  BY DEF Init, WriterInv, Cut
<1>3. CardInv
  BY DEF Init, CardInv
<1>. QED BY <1>1, <1>2, <1>3 DEF ClientInv

LEMMA StepInv ==
  ASSUME Typed, ClientInv, [Next]_vars PROVE ClientInv'
<1>. SUFFICES ASSUME ~g_stop'
     PROVE  WireOrder' /\ WireEnd' /\ TurnsInOrder' /\ WriterInv' /\ CardInv'
  BY DEF ClientInv
<1>1. ~g_stop
  <2>1. CASE Engine
    BY <2>1 DEF Engine
  <2>2. CASE Callback
    BY <2>2 DEF Callback, CallbackPlays, CallbackHeard, CallbackConsumed, Elsewhere, threads
  <2>3. CASE Writer
    BY <2>3, WriterReads
  <2>4. CASE Read \/ Send \/ Stop \/ Leave
    BY <2>4 DEF Read, Send, Stop, Leave
  <2>5. CASE UNCHANGED vars
    BY <2>5 DEF vars, threads
  <2>. QED BY <2>1, <2>2, <2>3, <2>4, <2>5 DEF Next
<1>2. WireOrder /\ WireEnd /\ TurnsInOrder /\ WriterInv /\ CardInv
  BY <1>1 DEF ClientInv
<1>3. CASE Engine
  BY <1>2, <1>3, EngineOrder, EngineTurns, EngineCard
<1>4. CASE Callback
  <2>1. WireOrder' /\ WireEnd' /\ TurnsInOrder'
    BY <1>2, <1>4, CallbackAside
  <2>2. WriterInv' /\ CardInv'
    BY <1>2, <1>4, CallbackFlushes, CallbackSounds, CallbackCounts DEF Callback
  <2>. QED BY <2>1, <2>2
<1>5. CASE Writer
  BY <1>1, <1>2, <1>5, WriterStep
<1>6. CASE Read \/ Send \/ Stop \/ Leave
  BY <1>1, <1>2, <1>6, MainStep
<1>7. CASE UNCHANGED vars
  <2>1. /\ UNCHANGED <<ring, flush, heard, consumed, callback, units, queued, answer, sounded,
                       placed, filed, answering, lines, line_open, writer, wire>>
        /\ UNCHANGED engine
    BY <1>7 DEF vars, card, context, display, threads, ghosts
  <2>2. Cut' <=> Cut
    BY <2>1 DEF Cut
  <2>3. CardInv'
    BY <1>2, <2>1, <2>2, CardKept DEF CardInv
  <2>4. WriterInv'
    BY <1>2, <2>1, <2>2 DEF WriterInv
  <2>5. WireOrder' /\ WireEnd'
    BY <1>2, <2>1 DEF WireOrder, WireEnd, InOrder, Fits, Quiet, Fresh, Speaks, Above, engine
  <2>6. TurnsInOrder'
    BY <1>2, <2>1 DEF TurnsInOrder, Latest, engine
  <2>. QED BY <2>3, <2>4, <2>5, <2>6
<1>. QED BY <1>3, <1>4, <1>5, <1>6, <1>7 DEF Next

\* What sounded of an answer that is closed is what it was filed with, as far
\* as it found room, and it had one line at most (context_close, audio_flush,
\* on_audio and the reader of s2s-cli.cpp).
THEOREM AnswersFiledAsHeard == Spec => []FiledAsHeard
<1>1. Init => Typed /\ ClientInv
  BY InitTyped, InitInv
<1>2. Typed /\ ClientInv /\ [Next]_vars => Typed' /\ ClientInv'
  BY ClientAssumption, StepTyped, StepInv
<1>3. Typed /\ ClientInv => FiledAsHeard
  <2>. SUFFICES ASSUME Typed, ClientInv, ~g_stop PROVE FiledAsHeard
    BY DEF FiledAsHeard
  <2>1. WriterInv /\ CardInv
    BY DEF ClientInv
  <2>. QED BY <2>1 DEF FiledAsHeard, WriterInv, CardInv
<1>. QED BY <1>1, <1>2, <1>3, PTL DEF Spec

(* ------------------------- the folds of the library -------------------- *)

\* Induction on the numbers, with a set in the place of a predicate.
LEMMA SetInduction ==
  ASSUME NEW S, 0 \in S, \A n \in Nat : n \in S => n + 1 \in S
  PROVE  Nat \subseteq S
<1>. DEFINE R == {p \in Nat \X Nat : p[1] < p[2]}
            T == Nat \ S
<1>1. IsWellFoundedOn(R, Nat)
  BY NatLessThanWellFounded, Zenon DEF OpToRel
<1>2. \A y, x \in Nat : y < x => <<y, x>> \in R
  OBVIOUS
<1>3. \A x \in T : x - 1 \in T /\ x - 1 < x
  OBVIOUS
<1>. HIDE DEF R
<1>4. ASSUME T # {} PROVE FALSE
  <2>1. T \subseteq Nat
    OBVIOUS
  <2>. HIDE DEF T
  <2>2. \E x \in T : \A y \in T : ~ (<<y, x>> \in R)
    BY <1>1, <1>4, <2>1, WFMin, Zenon
  <2>3. PICK x \in T : \A y \in T : ~ (<<y, x>> \in R)
    BY <2>2
  <2>4. x \in Nat /\ x - 1 \in T /\ x - 1 \in Nat /\ x - 1 < x
    BY <1>3, <2>1
  <2>. QED BY <1>2, <2>3, <2>4
<1>. QED BY <1>4

\* A part of 1 .. m that is not empty has a largest element.
LEMMA HasLargest ==
  ASSUME NEW m \in Nat
  PROVE  \A U : U \subseteq 1 .. m /\ U # {} => \E x \in U : \A y \in U : y <= x
<1>. DEFINE P(n) == \A U : U \subseteq 1 .. n /\ U # {} => \E x \in U : \A y \in U : y <= x
            S == {n \in Nat : P(n)}
<1>1. P(0)
  <2>1. 1 .. 0 = {}
    OBVIOUS
  <2>. QED BY <2>1
<1>2. ASSUME NEW n \in Nat, P(n) PROVE P(n + 1)
  <2>1. ASSUME NEW U, U \subseteq 1 .. n + 1, U # {} PROVE \E x \in U : \A y \in U : y <= x
    <3>1. CASE n + 1 \in U
      <4>1. \A y \in U : y <= n + 1
        BY <2>1
      <4>. QED BY <3>1, <4>1
    <3>2. CASE n + 1 \notin U
      <4>1. U \subseteq 1 .. n
        BY <3>2, <2>1
      <4>. QED BY <4>1, <1>2, <2>1
    <3>. QED BY <3>1, <3>2
  <2>. QED BY <2>1
<1>. HIDE DEF P
<1>3. 0 \in S /\ \A n \in Nat : n \in S => n + 1 \in S
  BY <1>1, <1>2
<1>. HIDE DEF S
<1>4. Nat \subseteq S
  BY <1>3, SetInduction
<1>5. P(m)
  BY <1>4 DEF S
<1>. QED BY <1>5 DEF P

\* Max picks the largest element of a part of 1 .. m, which the folds of the library
\* need to take the places of a sequence in order.
LEMMA Largest ==
  ASSUME NEW m \in Nat, NEW T, T \subseteq 1 .. m, T # {}
  PROVE  Max(T) \in T /\ \A y \in T : y <= Max(T)
<1>1. \E x \in T : \A y \in T : y <= x
  BY HasLargest
<1>2. \E x \in T : \A y \in T : x >= y
  <2>1. \A x, y \in T : y <= x => x >= y
    OBVIOUS
  <2>. QED BY <1>1, <2>1
<1>3. Max(T) \in T /\ \A y \in T : Max(T) >= y
  BY <1>2, Zenon DEF Max
<1>. QED BY <1>3

\* What the folded function has to be, on the parts of the places of s.
Folds(A, B, f, base, s, g) ==
  /\ g \in [SUBSET (DOMAIN s) -> A]
  /\ \A T \in SUBSET (DOMAIN s) :
       g[T] = IF T = {} THEN base ELSE f[<<g[T \ {Max(T)}], s[Max(T)]>>]

\* There is a function that satisfies the equation of the fold, by induction on the places.
LEMMA FoldFunctionExists ==
  ASSUME NEW A, NEW B, NEW f \in [A \X B -> A], NEW base \in A, NEW s \in Seq(B)
  PROVE  \E g : Folds(A, B, f, base, s, g)
<1>. DEFINE Next1(g, T) == IF T = {} THEN base ELSE f[<<g[T \ {Max(T)}], s[Max(T)]>>]
            Q(g, m) == /\ g \in [SUBSET (1 .. m) -> A]
                       /\ \A T \in SUBSET (1 .. m) : g[T] = Next1(g, T)
            P(m) == m <= Len(s) => \E g : Q(g, m)
            S == {m \in Nat : P(m)}
<1>1. P(0)
  <2>. DEFINE g == [T \in SUBSET (1 .. 0) |-> base]
  <2>1. \A T \in SUBSET (1 .. 0) : T = {}
    OBVIOUS
  <2>2. Q(g, 0)
    BY <2>1
  <2>. QED BY <2>2
<1>2. ASSUME NEW m \in Nat, P(m) PROVE P(m + 1)
  <2>. SUFFICES ASSUME m + 1 <= Len(s) PROVE \E g : Q(g, m + 1)
    OBVIOUS
  <2>0. m <= Len(s) /\ Len(s) \in Nat
    OBVIOUS
  <2>1. PICK h : Q(h, m)
    BY <1>2, <2>0
  <2>. DEFINE n == m + 1
              g == [T \in SUBSET (1 .. n) |-> IF n \in T THEN f[<<h[T \ {n}], s[n]>>] ELSE h[T]]
  <2>2. ASSUME NEW T \in SUBSET (1 .. n), n \in T
        PROVE  Max(T) = n
    <3>1. n \in Nat /\ T \subseteq 1 .. n /\ T # {}
      BY <2>2
    <3>. HIDE DEF n
    <3>2. Max(T) \in T /\ \A y \in T : y <= Max(T)
      BY <3>1, Largest
    <3>3. Max(T) \in 1 .. n /\ n <= Max(T)
      BY <3>1, <3>2, <2>2
    <3>. QED BY <3>1, <3>3
  <2>3. \A T \in SUBSET (1 .. n) : T \ {n} \in SUBSET (1 .. m)
    OBVIOUS
  <2>4. s[n] \in B
    BY <2>0
  <2>4n. SUBSET (1 .. m) \subseteq SUBSET (1 .. n) /\ \A T \in SUBSET (1 .. m) : n \notin T
    OBVIOUS
  <2>. HIDE DEF n
  <2>5. g \in [SUBSET (1 .. n) -> A]
    <3>1. ASSUME NEW T \in SUBSET (1 .. n)
          PROVE  (IF n \in T THEN f[<<h[T \ {n}], s[n]>>] ELSE h[T]) \in A
      <4>1. CASE n \in T
        <5>1. h[T \ {n}] \in A
          BY <2>1, <2>3
        <5>. QED BY <4>1, <5>1, <2>4
      <4>2. CASE n \notin T
        <5>1. T = T \ {n}
          BY <4>2
        <5>2. h[T] \in A
          BY <5>1, <2>1, <2>3
        <5>. QED BY <4>2, <5>2
      <4>. QED BY <4>1, <4>2
    <3>. QED BY <3>1
  <2>6. \A T \in SUBSET (1 .. m) : T \in SUBSET (1 .. n) /\ g[T] = h[T]
    BY <2>4n
  <2>7. ASSUME NEW T \in SUBSET (1 .. n) PROVE g[T] = Next1(g, T)
    <3>1. CASE n \in T
      <4>1. g[T] = f[<<h[T \ {n}], s[n]>>]
        BY <3>1
      <4>2. g[T \ {n}] = h[T \ {n}]
        BY <2>3, <2>6
      <4>3. Max(T) = n
        BY <3>1, <2>2
      <4>4. T # {}
        BY <3>1
      <4>. HIDE DEF g
      <4>. QED BY <4>1, <4>2, <4>3, <4>4
    <3>2. CASE n \notin T
      <4>0. T = T \ {n}
        BY <3>2
      <4>1. T \in SUBSET (1 .. m) /\ g[T] = h[T]
        BY <4>0, <2>3, <2>6
      <4>2. h[T] = Next1(h, T)
        BY <4>1, <2>1
      <4>3. CASE T = {}
        BY <4>1, <4>2, <4>3
      <4>4. CASE T # {}
        <5>1. T \ {Max(T)} \in SUBSET (1 .. m)
          BY <4>1
        <5>2. g[T \ {Max(T)}] = h[T \ {Max(T)}]
          BY <5>1, <2>6
        <5>. HIDE DEF g
        <5>. QED BY <5>2, <4>1, <4>2, <4>4
      <4>. QED BY <4>3, <4>4
    <3>. QED BY <3>1, <3>2
  <2>. HIDE DEF g, Next1
  <2>8. Q(g, n)
    BY <2>5, <2>7
  <2>. QED BY <2>8 DEF n
<1>. HIDE DEF P
<1>3. 0 \in S /\ \A n \in Nat : n \in S => n + 1 \in S
  BY <1>1, <1>2
<1>. HIDE DEF S
<1>4. Nat \subseteq S
  BY <1>3, SetInduction
<1>5. Len(s) \in Nat /\ DOMAIN s = 1 .. Len(s)
  OBVIOUS
<1>6. P(Len(s))
  BY <1>4, <1>5 DEF S
<1>. HIDE DEF Next1
<1>7. \E g : Q(g, Len(s))
  <2>. DEFINE l == Len(s)
  <2>1. l \in Nat /\ l <= l
    BY <1>5
  <2>. QED BY <1>6, <2>1 DEF P
<1>. QED BY <1>5, <1>7, Zenon DEF Folds, Next1

\* The fold of a sequence with a function in the place of the operator.
FoldOf(f, base, s) ==
  (CHOOSE g : g = [T \in SUBSET (DOMAIN s) |->
                     IF T = {} THEN base ELSE f[<<g[T \ {Max(T)}], s[Max(T)]>>]])
    [DOMAIN s]

\* Its values on the first places of s, one after the other.
Steps(A, f, base, s, v) ==
  /\ v \in [0 .. Len(s) -> A] /\ v[0] = base
  /\ \A k \in 1 .. Len(s) : v[k] = f[<<v[k - 1], s[k]>>]

\* x is the last of these values.
Reaches(A, B, f, base, s, x) == \E v : Steps(A, f, base, s, v) /\ v[Len(s)] = x

\* Induction on 0 .. n.
LEMMA UpInduction ==
  ASSUME NEW n \in Nat, NEW S, 0 \in S, \A k \in 1 .. n : k - 1 \in S => k \in S
  PROVE  0 .. n \subseteq S
<1>. DEFINE T == {k \in Nat : k <= n => k \in S}
<1>1. 0 \in T /\ \A k \in Nat : k \in T => k + 1 \in T
  OBVIOUS
<1>. HIDE DEF T
<1>2. Nat \subseteq T
  BY <1>1, SetInduction
<1>. QED BY <1>2 DEF T

\* The values of a fold on the first places depend on these places alone.
LEMMA StepsUnique ==
  ASSUME NEW A, NEW f, NEW base, NEW s, NEW t, Len(s) \in Nat, Len(t) \in Nat, Len(s) <= Len(t),
         \A k \in 1 .. Len(s) : s[k] = t[k],
         NEW v, NEW w, Steps(A, f, base, s, v), Steps(A, f, base, t, w)
  PROVE  v[Len(s)] = w[Len(s)]
<1>. DEFINE S == {k \in 0 .. Len(s) : v[k] = w[k]}
<1>1. 0 \in S
  BY DEF Steps
<1>2. ASSUME NEW k \in 1 .. Len(s), k - 1 \in S PROVE k \in S
  <2>1. v[k - 1] = w[k - 1] /\ s[k] = t[k] /\ k \in 1 .. Len(t)
    BY <1>2
  <2>2. v[k] = f[<<v[k - 1], s[k]>>] /\ w[k] = f[<<w[k - 1], t[k]>>]
    BY <2>1 DEF Steps
  <2>. QED BY <2>1, <2>2
<1>. HIDE DEF S
<1>3. 0 .. Len(s) \subseteq S
  BY <1>1, <1>2, UpInduction
<1>. QED BY <1>3 DEF S

\* Whatever satisfies the equation of the fold has its values.
LEMMA StepsOf ==
  ASSUME NEW A, NEW B, NEW f \in [A \X B -> A], NEW base \in A, NEW s \in Seq(B), NEW h,
         h[{}] = base,
         \A T \in SUBSET (DOMAIN s) : T # {} /\ h[T \ {Max(T)}] \in A =>
           h[T] = f[<<h[T \ {Max(T)}], s[Max(T)]>>]
  PROVE  Reaches(A, B, f, base, s, h[DOMAIN s])
<1>. DEFINE n == Len(s)
            v == [k \in 0 .. n |-> h[1 .. k]]
            S == {k \in 0 .. n : v[k] \in A /\ (k > 0 => v[k] = f[<<v[k - 1], s[k]>>])}
<1>0. n \in Nat /\ DOMAIN s = 1 .. n
  OBVIOUS
<1>1. v[0] = base /\ v[n] = h[DOMAIN s]
  <2>1. 1 .. 0 = {} /\ v[0] = h[1 .. 0]
    BY <1>0
  <2>. QED BY <1>0, <2>1
<1>2. 0 \in S
  BY <1>0, <1>1
<1>3. ASSUME NEW k \in 1 .. n, k - 1 \in S PROVE k \in S
  <2>. DEFINE K == 1 .. k
  <2>1. K \subseteq 1 .. k /\ K # {} /\ k \in Nat /\ K \in SUBSET (DOMAIN s) /\ k \in K
    <3>1. k \in K /\ k \in Nat /\ K \subseteq 1 .. n
      BY <1>0
    <3>. QED BY <1>0, <3>1
  <2>2. Max(K) = k
    <3>1. Max(K) \in K /\ \A y \in K : y <= Max(K)
      BY <2>1, Largest
    <3>. QED BY <2>1, <3>1
  <2>3. K \ {k} = 1 .. k - 1
    OBVIOUS
  <2>4. v[k - 1] = h[1 .. k - 1] /\ v[k - 1] \in A /\ v[k] = h[K]
    BY <1>3
  <2>5. h[K] = f[<<h[K \ {k}], s[k]>>]
    <3>1. h[K \ {Max(K)}] \in A
      BY <2>2, <2>3, <2>4
    <3>. HIDE DEF K
    <3>. QED BY <2>1, <2>2, <3>1
  <2>6. s[k] \in B
    BY <1>0
  <2>. HIDE DEF K, v
  <2>7. v[k] = f[<<v[k - 1], s[k]>>]
    BY <2>3, <2>4, <2>5
  <2>8. v[k] \in A
    BY <2>4, <2>6, <2>7
  <2>. QED BY <2>7, <2>8
<1>. HIDE DEF S
<1>4. 0 .. n \subseteq S
  <2>. HIDE DEF n
  <2>. QED BY <1>0, <1>2, <1>3, UpInduction
<1>5. \A k \in 0 .. n : v[k] \in A /\ (k > 0 => v[k] = f[<<v[k - 1], s[k]>>])
  BY <1>4 DEF S
<1>6. Steps(A, f, base, s, v)
  <2>1. v \in [0 .. n -> A]
    BY <1>5
  <2>2. \A k \in 1 .. n : v[k] = f[<<v[k - 1], s[k]>>]
    <3>1. \A k \in 1 .. n : k \in 0 .. n /\ k > 0
      BY <1>0
    <3>. HIDE DEF v, n
    <3>. QED BY <1>5, <3>1
  <2>. HIDE DEF v
  <2>. QED BY <1>1, <2>1, <2>2 DEF Steps
<1>. HIDE DEF v
<1>. QED BY <1>1, <1>6 DEF Reaches

\* The fold with a function has the last of its values.
LEMMA FoldOfSteps ==
  ASSUME NEW A, NEW B, NEW f \in [A \X B -> A], NEW base \in A, NEW s \in Seq(B)
  PROVE  Reaches(A, B, f, base, s, FoldOf(f, base, s))
<1>. DEFINE Eq(g) == g = [T \in SUBSET (DOMAIN s) |->
                     IF T = {} THEN base ELSE f[<<g[T \ {Max(T)}], s[Max(T)]>>]]
            h == CHOOSE g : Eq(g)
<1>1. PICK g : Folds(A, B, f, base, s, g)
  BY FoldFunctionExists
<1>2. Eq(g)
  BY <1>1 DEF Folds
<1>3. Eq(h)
  <2>. HIDE DEF Eq
  <2>. QED BY <1>2
<1>4. h[{}] = base /\ \A T \in SUBSET (DOMAIN s) : T # {} =>
           h[T] = f[<<h[T \ {Max(T)}], s[Max(T)]>>]
  <2>. HIDE DEF h
  <2>1. \A T \in SUBSET (DOMAIN s) :
           h[T] = IF T = {} THEN base ELSE f[<<h[T \ {Max(T)}], s[Max(T)]>>]
    BY <1>3, Zenon
  <2>. QED BY <2>1
<1>5. FoldOf(f, base, s) = h[DOMAIN s]
  BY Zenon DEF FoldOf
<1>. HIDE DEF h
<1>6. Reaches(A, B, f, base, s, h[DOMAIN s])
  BY <1>4, StepsOf
<1>. QED BY <1>5, <1>6

\* The fold of the empty sequence, its type, and what one element more does.
FoldsOn(A, B, f, base) ==
  /\ FoldOf(f, base, <<>>) = base
  /\ \A s \in Seq(B) : FoldOf(f, base, s) \in A
  /\ \A s \in Seq(B), e \in B : FoldOf(f, base, Append(s, e)) = f[<<FoldOf(f, base, s), e>>]

\* A fold takes its base on the empty sequence, stays in its type, and takes one step
\* more for one element more.
LEMMA FoldOfAppend ==
  ASSUME NEW A, NEW B, NEW f \in [A \X B -> A], NEW base \in A PROVE FoldsOn(A, B, f, base)
<1>1. FoldOf(f, base, <<>>) = base
  <2>1. <<>> \in Seq(B) /\ Len(<<>>) = 0
    OBVIOUS
  <2>2. Reaches(A, B, f, base, <<>>, FoldOf(f, base, <<>>))
    BY <2>1, FoldOfSteps
  <2>. QED BY <2>1, <2>2 DEF Reaches, Steps
<1>2. ASSUME NEW s \in Seq(B) PROVE FoldOf(f, base, s) \in A
  <2>0. Reaches(A, B, f, base, s, FoldOf(f, base, s))
    BY FoldOfSteps
  <2>1. PICK v : Steps(A, f, base, s, v) /\ v[Len(s)] = FoldOf(f, base, s)
    BY <2>0 DEF Reaches
  <2>2. Len(s) \in 0 .. Len(s)
    OBVIOUS
  <2>. QED BY <2>1, <2>2 DEF Steps
<1>3. ASSUME NEW s \in Seq(B), NEW e \in B
      PROVE  FoldOf(f, base, Append(s, e)) = f[<<FoldOf(f, base, s), e>>]
  <2>. DEFINE t == Append(s, e)
  <2>1. /\ t \in Seq(B) /\ Len(t) = Len(s) + 1 /\ Len(s) \in Nat /\ t[Len(t)] = e
        /\ \A k \in 1 .. Len(s) : s[k] = t[k]
    OBVIOUS
  <2>. HIDE DEF t
  <2>0. /\ Reaches(A, B, f, base, s, FoldOf(f, base, s))
        /\ Reaches(A, B, f, base, t, FoldOf(f, base, t))
    BY <2>1, FoldOfSteps
  <2>2. PICK v : Steps(A, f, base, s, v) /\ v[Len(s)] = FoldOf(f, base, s)
    BY <2>0 DEF Reaches
  <2>3. PICK w : Steps(A, f, base, t, w) /\ w[Len(t)] = FoldOf(f, base, t)
    BY <2>0 DEF Reaches
  <2>4. Len(t) \in Nat /\ Len(s) <= Len(t) /\ Len(t) \in 1 .. Len(t) /\ Len(t) - 1 = Len(s)
    BY <2>1
  <2>5. v[Len(s)] = w[Len(s)]
    BY <2>1, <2>2, <2>3, <2>4, StepsUnique
  <2>6. w[Len(t)] = f[<<w[Len(t) - 1], t[Len(t)]>>]
    BY <2>3, <2>4 DEF Steps
  <2>. QED BY <2>1, <2>2, <2>3, <2>4, <2>5, <2>6 DEF t
<1>. QED BY <1>1, <1>2, <1>3 DEF FoldsOn

\* A fold has one last value.
LEMMA ReachesOne ==
  ASSUME NEW A, NEW B, NEW f, NEW base, NEW s \in Seq(B), NEW x, NEW y,
         Reaches(A, B, f, base, s, x), Reaches(A, B, f, base, s, y)
  PROVE  x = y
<1>1. PICK v : Steps(A, f, base, s, v) /\ v[Len(s)] = x
  BY DEF Reaches
<1>2. PICK w : Steps(A, f, base, s, w) /\ w[Len(s)] = y
  BY DEF Reaches
<1>3. Len(s) \in Nat /\ Len(s) <= Len(s) /\ \A k \in 1 .. Len(s) : s[k] = s[k]
  OBVIOUS
<1>4. v[Len(s)] = w[Len(s)]
  BY <1>1, <1>2, <1>3, StepsUnique
<1>. QED BY <1>1, <1>2, <1>4

\* The largest place of a part of a sequence, and what is left of the part.
LEMMA LargestPlace ==
  ASSUME NEW B, NEW s \in Seq(B), NEW T \in SUBSET (DOMAIN s), T # {}
  PROVE  /\ Max(T) \in DOMAIN s /\ s[Max(T)] \in B
         /\ T \ {Max(T)} \in SUBSET (DOMAIN s)
<1>1. Len(s) \in Nat /\ T \subseteq 1 .. Len(s) /\ DOMAIN s = 1 .. Len(s)
  OBVIOUS
<1>2. Max(T) \in T
  BY <1>1, Largest
<1>. QED BY <1>1, <1>2

\* Induction on the sequences by their last element, with a set in the place of a predicate.
LEMMA SeqInduction ==
  ASSUME NEW B, NEW S, <<>> \in S,
         \A s \in Seq(B), e \in B : s \in S => Append(s, e) \in S
  PROVE  Seq(B) \subseteq S
<1>. DEFINE T == {n \in Nat : \A s \in Seq(B) : Len(s) = n => s \in S}
<1>1. 0 \in T
  <2>1. \A s \in Seq(B) : Len(s) = 0 => s = <<>>
    OBVIOUS
  <2>. QED BY <2>1
<1>2. ASSUME NEW n \in Nat, n \in T PROVE n + 1 \in T
  <2>1. ASSUME NEW s \in Seq(B), Len(s) = n + 1 PROVE s \in S
    <3>. DEFINE r == SubSeq(s, 1, n)
    <3>1. r \in Seq(B) /\ Len(r) = n /\ s[n + 1] \in B
      BY <2>1
    <3>2. s = Append(r, s[n + 1])
      BY <2>1
    <3>3. r \in S
      BY <1>2, <3>1
    <3>. HIDE DEF r
    <3>. QED BY <3>1, <3>2, <3>3
  <2>. QED BY <2>1
<1>. HIDE DEF T
<1>3. Nat \subseteq T
  BY <1>1, <1>2, SetInduction
<1>4. \A s \in Seq(B) : Len(s) \in Nat
  OBVIOUS
<1>. QED BY <1>3, <1>4 DEF T

(* --------------------------- what the model is asked ------------------- *)

WordSet == [turn : Nat, rev : Nat]
\* A message of the conversation, and one the model is asked: those of several
\* turns may be joined.
Message == {Said(t, r) : t \in Positive, r \in Nat} \cup {Answered(a) : a \in Nat}
Asked == [role : {"user", "assistant"}, item : Nat, words : Seq(WordSet)]

KeepOther(t, messages, m) ==
  IF m.role # "user" \/ m.item # t THEN Push(messages, m) ELSE messages
KeepingOther(t) == [x \in Seq(Asked) \X Message |-> KeepOther(t, x[1], x[2])]
Others(t, list) == FoldOf(KeepingOther(t), <<>>, list)

\* A message of the conversation is one the model may be asked, and one of the user holds the
\* one word of its turn.
LEMMA MessageIsAsked ==
  ASSUME NEW m \in Message
  PROVE  /\ m \in Asked
         /\ m.role = "user" => /\ m.item \in Positive /\ \E r \in Nat : m = Said(m.item, r)
                               /\ m.words = <<m.words[1]>> /\ m.words[1] \in WordSet
                               /\ m.words[1].turn = m.item
<1>1. CASE m \in {Said(t, r) : t \in Positive, r \in Nat}
  <2>1. PICK t \in Positive, r \in Nat : m = Said(t, r)
    BY <1>1
  <2>2. [turn |-> t, rev |-> r] \in WordSet
    BY DEF WordSet, Positive
  <2>. DEFINE w == [turn |-> t, rev |-> r]
  <2>3. w.turn = t
    OBVIOUS
  <2>4. m = [role |-> "user", item |-> t, words |-> <<w>>]
    BY <2>1 DEF Said
  <2>. HIDE DEF w
  <2>5. <<w>> \in Seq(WordSet) /\ <<w>>[1] = w
    BY <2>2 DEF w
  <2>6. t \in Nat
    BY DEF Positive
  <2>7. m \in Asked /\ m.item = t /\ m.words = <<w>>
    BY <2>4, <2>5, <2>6 DEF Asked
  <2>. QED BY <2>1, <2>2, <2>3, <2>5, <2>7 DEF w
<1>2. CASE m \in {Answered(a) : a \in Nat}
  <2>1. PICK a \in Nat : m = Answered(a)
    BY <1>2
  <2>. DEFINE w == [turn |-> 0, rev |-> a]
  <2>2. w \in WordSet
    BY DEF WordSet
  <2>3. m = [role |-> "assistant", item |-> 0, words |-> <<w>>]
    BY <2>1 DEF Answered
  <2>. HIDE DEF w
  <2>4. <<w>> \in Seq(WordSet)
    BY <2>2
  <2>. QED BY <2>3, <2>4 DEF Asked
<1>. QED BY <1>1, <1>2 DEF Message

\* A message of the user joined to the one before: that one with a word more.
LEMMA JoinedMessage ==
  ASSUME NEW e \in Asked, NEW w \in WordSet
  PROVE  LET f == [e EXCEPT !.words = @ \o <<w>>] IN
         /\ f \in Asked /\ f.role = e.role /\ f.words = Append(e.words, w)
<1>1. e.words \in Seq(WordSet)
  BY DEF Asked
<1>2. e.words \o <<w>> = Append(e.words, w)
  BY <1>1, AppendIsConcat
<1>3. Append(e.words, w) \in Seq(WordSet)
  BY <1>1
<1>. DEFINE s == e.words \o <<w>>
            f == [e EXCEPT !.words = s]
<1>4. s \in Seq(WordSet) /\ s = Append(e.words, w)
  BY <1>2, <1>3
<1>. HIDE DEF s
<1>5. f \in Asked /\ f.role = e.role /\ f.words = s
  BY <1>4 DEF Asked
<1>. QED BY <1>4, <1>5 DEF s

\* Where the words of messages stand, one after another.
Holds(ms, i, k, w) == i \in Users(ms) /\ k \in DOMAIN ms[i].words /\ ms[i].words[k] = w
EndsWith(ms, w) ==
  /\ ms # <<>> /\ ms[Len(ms)].role = "user" /\ ms[Len(ms)].words # <<>>
  /\ ms[Len(ms)].words[Len(ms[Len(ms)].words)] = w
Apart(ms) == \A i \in Users(ms) : i + 1 \notin Users(ms)

\* A word of the user pushed on messages: it comes last, the others stay.
Pushes(ms, ns, w) ==
  /\ ns \in Seq(Asked) /\ EndsWith(ns, w) /\ Apart(ns)
  /\ \A i \in Users(ms) : \A k \in DOMAIN ms[i].words : Holds(ns, i, k, ms[i].words[k])
  /\ \A i \in Users(ns) : \A k \in DOMAIN ns[i].words :
       \/ i = Len(ns) /\ k = Len(ns[i].words)
       \/ Holds(ms, i, k, ns[i].words[k]) /\ (i < Len(ns) \/ k < Len(ns[i].words))

\* A message of the user pushed on messages adds its word after all others.
LEMMA PushUser ==
  ASSUME NEW ms \in Seq(Asked), Apart(ms), NEW m \in Message, m.role = "user"
  PROVE  Pushes(ms, Push(ms, m), m.words[1])
<1>. DEFINE w == m.words[1]
            ns == Push(ms, m)
            n == Len(ms)
<1>1. m \in Asked /\ m.words = <<w>> /\ w \in WordSet
  BY MessageIsAsked
<1>0. DOMAIN ms = 1 .. n /\ n \in Nat /\ (ms = <<>> <=> n = 0)
  OBVIOUS
<1>. HIDE DEF w
<1>w. <<w>> # <<>> /\ Len(<<w>>) = 1 /\ DOMAIN <<w>> = 1 .. 1 /\ <<w>>[1] = w
  OBVIOUS
<1>a. \A i \in DOMAIN ms : ms[i] \in Asked
  OBVIOUS
<1>s. \A i \in DOMAIN ms : ms[i].words \in Seq(WordSet)
  BY <1>a DEF Asked
<1>d. \A i \in DOMAIN ms : DOMAIN ms[i].words = 1 .. Len(ms[i].words) /\ Len(ms[i].words) \in Nat
  BY <1>s
<1>2. CASE ms # <<>> /\ Last(ms).role = "user"
  <2>. DEFINE e == ms[n]
              f == [e EXCEPT !.words = @ \o <<w>>]
              b == Front(ms)
  <2>1. Last(ms) = e /\ e \in Asked /\ n \in DOMAIN ms /\ e.role = "user" /\ n \in Positive
    BY <1>0, <1>2 DEF Last, Positive
  <2>2. ns = Append(b, f)
    BY <1>1, <1>2, <2>1, Zenon DEF Push
  <2>3. f \in Asked /\ f.role = "user" /\ f.words = Append(e.words, w)
    BY <1>1, <2>1, JoinedMessage
  <2>4. b \in Seq(Asked) /\ Len(b) = n - 1 /\ \A i \in 1 .. n - 1 : b[i] = ms[i]
    BY <1>0, <1>2 DEF Front
  <2>. DEFINE l == Len(e.words)
  <2>5. /\ DOMAIN e.words = 1 .. l /\ l \in Nat
        /\ DOMAIN f.words = 1 .. l + 1 /\ Len(f.words) = l + 1 /\ f.words[l + 1] = w
        /\ \A k \in 1 .. l : f.words[k] = e.words[k]
        /\ f.words # <<>>
    <3>. DEFINE x == e.words
    <3>1. x \in Seq(WordSet)
      BY <1>s, <2>1
    <3>. HIDE DEF x, f
    <3>2. /\ DOMAIN x = 1 .. Len(x) /\ Len(x) \in Nat
          /\ DOMAIN Append(x, w) = 1 .. Len(x) + 1 /\ Len(Append(x, w)) = Len(x) + 1
          /\ Append(x, w)[Len(x) + 1] = w /\ Append(x, w) # <<>>
          /\ \A k \in 1 .. Len(x) : Append(x, w)[k] = x[k]
      BY <1>1, <3>1
    <3>. QED BY <2>3, <3>2 DEF x
  <2>. HIDE DEF b, f, ns
  <2>6. /\ ns \in Seq(Asked) /\ Len(ns) = n /\ DOMAIN ns = 1 .. n /\ ns[n] = f
        /\ \A i \in 1 .. n - 1 : ns[i] = ms[i]
    <3>1. Append(b, f) \in Seq(Asked)
      BY <2>3, <2>4
    <3>2. /\ Len(Append(b, f)) = Len(b) + 1 /\ Append(b, f)[Len(b) + 1] = f
          /\ \A i \in 1 .. Len(b) : Append(b, f)[i] = b[i]
      BY <2>3, <2>4
    <3>3. (n - 1) + 1 = n
      BY <2>1 DEF Positive
    <3>4. DOMAIN ns = 1 .. Len(ns)
      BY <2>2, <3>1
    <3>. HIDE DEF n
    <3>. QED BY <2>2, <2>4, <3>1, <3>2, <3>3, <3>4
  <2>. HIDE DEF e, l, n
  <2>n. n \in Nat /\ n >= 1 /\ n \in 1 .. n /\ \A i \in 1 .. n : i = n \/ i \in 1 .. n - 1
    BY <2>1 DEF Positive
  <2>7. Users(ns) = Users(ms)
    <3>1. \A i \in 1 .. n : ns[i].role = ms[i].role
      BY <2>1, <2>3, <2>6, <2>n DEF e
    <3>. QED BY <1>0, <2>6, <3>1 DEF Users
  <2>8. EndsWith(ns, w)
    BY <2>3, <2>5, <2>6, <2>n DEF EndsWith, Positive
  <2>9. Apart(ns)
    BY <2>7 DEF Apart
  <2>10. ASSUME NEW i \in Users(ms), NEW k \in DOMAIN ms[i].words
         PROVE  Holds(ns, i, k, ms[i].words[k])
    <3>1. i \in Users(ns) /\ i \in 1 .. n
      BY <1>0, <2>7 DEF Users
    <3>2. CASE i = n
      <4>1. k \in 1 .. l /\ ms[i].words[k] = e.words[k] /\ ns[i] = f
        BY <2>5, <2>6, <3>2 DEF e
      <4>2. k \in DOMAIN f.words /\ f.words[k] = e.words[k]
        BY <2>5, <4>1
      <4>. QED BY <3>1, <4>1, <4>2 DEF Holds
    <3>3. CASE i \in 1 .. n - 1
      BY <2>6, <3>1, <3>3 DEF Holds
    <3>. QED BY <2>n, <3>1, <3>2, <3>3
  <2>11. ASSUME NEW i \in Users(ns), NEW k \in DOMAIN ns[i].words
         PROVE  \/ i = Len(ns) /\ k = Len(ns[i].words)
                \/ Holds(ms, i, k, ns[i].words[k]) /\ (i < Len(ns) \/ k < Len(ns[i].words))
    <3>1. i \in Users(ms) /\ i \in 1 .. n
      BY <1>0, <2>7 DEF Users
    <3>2. CASE i = n
      <4>1. k \in 1 .. l + 1 /\ ns[i] = f /\ Len(ns[i].words) = l + 1 /\ Len(ns) = n
        BY <2>5, <2>6, <3>2
      <4>2. CASE k = l + 1
        BY <3>2, <4>1, <4>2
      <4>3. CASE k # l + 1
        <5>1. k \in 1 .. l /\ k < l + 1
          BY <2>5, <4>1, <4>3
        <5>2. ms[i].words[k] = ns[i].words[k] /\ k \in DOMAIN ms[i].words
          BY <2>5, <3>2, <4>1, <5>1 DEF e
        <5>. QED BY <3>1, <4>1, <5>1, <5>2 DEF Holds
      <4>. QED BY <4>2, <4>3
    <3>3. CASE i \in 1 .. n - 1
      <4>1. ns[i] = ms[i] /\ i < Len(ns)
        BY <2>6, <2>n, <3>3
      <4>. QED BY <3>1, <4>1 DEF Holds
    <3>. QED BY <2>n, <3>1, <3>2, <3>3
  <2>. QED BY <2>6, <2>8, <2>9, <2>10, <2>11 DEF Pushes, ns, w
<1>3. CASE ~ (ms # <<>> /\ Last(ms).role = "user")
  <2>1. ns = Append(ms, m)
    BY <1>3, Zenon DEF Push
  <2>. HIDE DEF ns
  <2>2. /\ ns \in Seq(Asked) /\ Len(ns) = n + 1 /\ DOMAIN ns = 1 .. n + 1 /\ ns[n + 1] = m
        /\ \A i \in 1 .. n : ns[i] = ms[i]
    BY <1>1, <2>1
  <2>. DEFINE p == n + 1
  <2>3. p \in Nat /\ p >= 1 /\ \A i \in 1 .. p : i = p \/ (i \in 1 .. n /\ i < p)
    BY <1>0
  <2>4. n \notin Users(ms)
    <3>1. ASSUME n \in Users(ms) PROVE FALSE
      <4>1. ms # <<>> /\ ms[n].role = "user"
        BY <1>0, <3>1 DEF Users
      <4>. QED BY <1>3, <4>1 DEF Last
    <3>. QED BY <3>1
  <2>5. Users(ns) = Users(ms) \cup {p}
    <3>1. \A i \in 1 .. p : ns[i].role = "user" <=> i = p \/ (i \in 1 .. n /\ ms[i].role = "user")
      BY <2>2, <2>3
    <3>2. \A i \in 1 .. n : i \in 1 .. p
      BY <1>0
    <3>3. p \in 1 .. p
      BY <2>3
    <3>. HIDE DEF p, n
    <3>4. DOMAIN ns = 1 .. p
      BY <2>2 DEF p
    <3>. QED BY <1>0, <3>1, <3>2, <3>3, <3>4 DEF Users
  <2>. HIDE DEF p
  <2>6. EndsWith(ns, w)
    <3>1. Len(ns) = p /\ ns[p] = m /\ ns # <<>>
      BY <2>2, <2>3 DEF p
    <3>2. m.words = <<w>> /\ m.role = "user"
      BY <1>1
    <3>. QED BY <1>w, <3>1, <3>2, Zenon DEF EndsWith
  <2>7. Apart(ns)
    <3>1. ASSUME NEW i \in Users(ns), i + 1 \in Users(ns) PROVE FALSE
      <4>1. i \in 1 .. n /\ i \in Users(ms)
        <5>1. \A j \in Users(ns) : j \in 1 .. p
          BY <2>2, <2>3 DEF Users, p
        <5>2. i \in 1 .. p /\ i + 1 \in 1 .. p
          BY <3>1, <5>1
        <5>3. i # p
          BY <2>3, <5>2
        <5>. QED BY <2>3, <2>5, <5>2, <5>3
      <4>2. i + 1 \notin Users(ms)
        BY <4>1 DEF Apart
      <4>3. i + 1 = p
        BY <2>5, <3>1, <4>2
      <4>4. i = n
        <5>1. i \in Nat /\ n \in Nat /\ i + 1 = n + 1
          BY <1>0, <4>1, <4>3 DEF p
        <5>. HIDE DEF n
        <5>. QED BY <5>1
      <4>. QED BY <2>4, <4>1, <4>4
    <3>. QED BY <3>1 DEF Apart
  <2>8. ASSUME NEW i \in Users(ms), NEW k \in DOMAIN ms[i].words
        PROVE  Holds(ns, i, k, ms[i].words[k])
    <3>1. i \in 1 .. n
      BY <1>0 DEF Users
    <3>2. ns[i] = ms[i]
      BY <2>2, <3>1
    <3>. QED BY <2>5, <3>2 DEF Holds
  <2>9. ASSUME NEW i \in Users(ns), NEW k \in DOMAIN ns[i].words
        PROVE  \/ i = Len(ns) /\ k = Len(ns[i].words)
               \/ Holds(ms, i, k, ns[i].words[k]) /\ (i < Len(ns) \/ k < Len(ns[i].words))
    <3>1. CASE i = p
      <4>1. ns[i].words = <<w>> /\ Len(ns) = p
        BY <1>1, <2>2, <3>1 DEF p
      <4>. QED BY <1>w, <3>1, <4>1
    <3>2. CASE i \in Users(ms)
      <4>1. i \in 1 .. n
        BY <1>0, <3>2 DEF Users
      <4>2. ns[i] = ms[i] /\ i < Len(ns)
        BY <1>0, <2>2, <4>1
      <4>. QED BY <3>2, <4>2 DEF Holds
    <3>. QED BY <2>5, <3>1, <3>2
  <2>. QED BY <2>2, <2>6, <2>7, <2>8, <2>9 DEF Pushes, ns, w
<1>. QED BY <1>2, <1>3

\* An answer pushed on messages changes nothing of what the user said.
Keeps(ms, ns) ==
  /\ ns \in Seq(Asked) /\ Apart(ns) /\ Users(ns) = Users(ms)
  /\ \A i \in Users(ms) : ns[i] = ms[i]

\* An answer pushed on messages keeps what the user said.
LEMMA PushAnswer ==
  ASSUME NEW ms \in Seq(Asked), Apart(ms), NEW m \in Message, m.role # "user"
  PROVE  Keeps(ms, Push(ms, m))
<1>. DEFINE ns == Push(ms, m)
            n == Len(ms)
            p == n + 1
<1>1. m \in Asked
  BY MessageIsAsked
<1>2. ns = Append(ms, m)
  BY Zenon DEF Push
<1>. HIDE DEF ns
<1>3. /\ ns \in Seq(Asked) /\ DOMAIN ns = 1 .. p /\ ns[p] = m
      /\ \A i \in 1 .. n : ns[i] = ms[i]
      /\ DOMAIN ms = 1 .. n /\ n \in Nat
  BY <1>1, <1>2
<1>4. p \in 1 .. p /\ \A i \in 1 .. p : i = p \/ i \in 1 .. n
  BY <1>3
<1>4a. \A i \in 1 .. n : i \in 1 .. p
  BY <1>3
<1>5. \A i \in 1 .. p : ns[i].role = "user" <=> (i \in 1 .. n /\ ms[i].role = "user")
  <2>1. p \notin 1 .. n
    BY <1>3
  <2>. HIDE DEF p
  <2>. QED BY <1>3, <1>4, <2>1
<1>. HIDE DEF p, n
<1>6. Users(ns) = Users(ms)
  BY <1>3, <1>4a, <1>5 DEF Users
<1>7. \A i \in Users(ms) : ns[i] = ms[i]
  BY <1>3 DEF Users
<1>8. Apart(ns)
  BY <1>6 DEF Apart
<1>. QED BY <1>3, <1>6, <1>7, <1>8 DEF Keeps, ns

\* The list has its messages of the user in the order of their turns, none later than n.
Rising(list) == \A i, j \in Users(list) : i < j => list[i].item < list[j].item
In(w, list) == \E i \in DOMAIN list : list[i] = Said(w.turn, w.rev)

\* The words of messages stand in the order of their turns.
WordsRise(ms) ==
  \A i, j \in Users(ms) : \A k \in DOMAIN ms[i].words, l \in DOMAIN ms[j].words :
    i < j \/ (i = j /\ k < l) => ms[i].words[k].turn < ms[j].words[l].turn

\* Messages that say what the list says, but for turn t.
SaysList(ms, list, t) ==
  /\ ms \in Seq(Asked) /\ Apart(ms) /\ WordsRise(ms)
  /\ \A w \in WordSet : In(w, list) /\ w.turn # t => \E i, k \in Nat : Holds(ms, i, k, w)
  /\ \A i \in Users(ms) : \A k \in DOMAIN ms[i].words :
       In(ms[i].words[k], list) /\ ms[i].words[k].turn # t

\* One message more makes one step more.
OthersStep(t) ==
  /\ Others(t, <<>>) = <<>>
  /\ \A s \in Seq(Message) : Others(t, s) \in Seq(Asked)
  /\ \A s \in Seq(Message), e \in Message :
       Others(t, Append(s, e)) = KeepOther(t, Others(t, s), e)

\* A message pushed on messages leaves messages.
LEMMA PushTyped ==
  ASSUME NEW ms \in Seq(Asked), NEW m \in Message
  PROVE  Push(ms, m) \in Seq(Asked)
<1>. DEFINE n == Len(ms)
<1>1. m \in Asked
  BY MessageIsAsked
<1>2. CASE m.role = "user" /\ ms # <<>> /\ Last(ms).role = "user"
  <2>. DEFINE e == Last(ms)
              w == m.words[1]
              f == [e EXCEPT !.words = @ \o <<w>>]
              b == Front(ms)
  <2>1. m.words = <<w>> /\ w \in WordSet
    BY <1>2, MessageIsAsked
  <2>2. e \in Asked /\ b \in Seq(Asked)
    BY <1>2 DEF Last, Front
  <2>. HIDE DEF w
  <2>3. Push(ms, m) = Append(b, f)
    BY <1>2, <2>1, Zenon DEF Push
  <2>. HIDE DEF b, e
  <2>4. f \in Asked
    BY <2>1, <2>2, JoinedMessage
  <2>. HIDE DEF f
  <2>. QED BY <2>2, <2>3, <2>4
<1>3. CASE ~(m.role = "user" /\ ms # <<>> /\ Last(ms).role = "user")
  <2>1. Push(ms, m) = Append(ms, m)
    BY <1>3, Zenon DEF Push
  <2>. QED BY <1>1, <2>1
<1>. QED BY <1>2, <1>3

\* The fold over the list takes one step for one message more.
LEMMA OthersOne ==
  ASSUME NEW t PROVE OthersStep(t)
<1>. DEFINE A == Seq(Asked)
            B == Message
            f == KeepingOther(t)
<1>1. ASSUME NEW ms \in A, NEW m \in B PROVE KeepOther(t, ms, m) \in A
  <2>1. CASE m.role # "user" \/ m.item # t
    BY <2>1, PushTyped DEF KeepOther
  <2>2. CASE ~(m.role # "user" \/ m.item # t)
    BY <2>2 DEF KeepOther
  <2>. QED BY <2>1, <2>2
<1>2. f \in [A \X B -> A]
  BY <1>1 DEF KeepingOther
<1>3. \A ms \in A, m \in B : f[<<ms, m>>] = KeepOther(t, ms, m)
  BY DEF KeepingOther
<1>. HIDE DEF f
<1>4. <<>> \in A
  OBVIOUS
<1>. HIDE DEF A, B
<1>5. FoldsOn(A, B, f, <<>>)
  BY <1>2, <1>4, FoldOfAppend
<1>6. \A s : Others(t, s) = FoldOf(f, <<>>, s)
  BY DEF Others, f
<1>7. /\ Others(t, <<>>) = <<>>
      /\ \A s \in Seq(B) : Others(t, s) \in A
      /\ \A s \in Seq(B), e \in B : Others(t, Append(s, e)) = f[<<Others(t, s), e>>]
  BY <1>5, <1>6 DEF FoldsOn
<1>. QED BY <1>3, <1>7, Zenon DEF OthersStep, A, B

\* What the model is asked is the fold of the list, with the turn itself pushed last.
LEMMA MessagesFold ==
  ASSUME NEW list \in Seq(Message), NEW t, NEW r
  PROVE  Messages(list, t, r) = Push(Others(t, list), Said(t, r))
<1>. DEFINE A == Seq(Asked)
            B == Message
            f == KeepingOther(t)
            Eq(g) == g = [T \in SUBSET (DOMAIN list) |->
                            IF T = {} THEN <<>>
                            ELSE KeepOther(t, g[T \ {Max(T)}], list[Max(T)])]
            h == CHOOSE g : Eq(g)
<1>1. ASSUME NEW ms \in A, NEW m \in B PROVE KeepOther(t, ms, m) \in A
  <2>1. CASE m.role # "user" \/ m.item # t
    BY <2>1, PushTyped DEF KeepOther
  <2>2. CASE ~(m.role # "user" \/ m.item # t)
    BY <2>2 DEF KeepOther
  <2>. QED BY <2>1, <2>2
<1>2. f \in [A \X B -> A] /\ <<>> \in A
  BY <1>1 DEF KeepingOther
<1>3. \A a \in A, b \in B : f[<<a, b>>] = KeepOther(t, a, b)
  BY DEF KeepingOther
<1>s. list \in Seq(B)
  OBVIOUS
<1>8. Messages(list, t, r) = Push(h[DOMAIN list], Said(t, r))
  BY Zenon DEF Messages, FoldLeft, MapThenFoldSet, KeepOther
<1>. HIDE DEF A, B, f
<1>g. PICK g : Folds(A, B, f, <<>>, list, g)
  BY <1>2, <1>s, FoldFunctionExists
<1>4. ASSUME NEW T \in SUBSET (DOMAIN list), T # {}, NEW k, k[T \ {Max(T)}] \in A
      PROVE  f[<<k[T \ {Max(T)}], list[Max(T)]>>]
               = KeepOther(t, k[T \ {Max(T)}], list[Max(T)])
  BY <1>3, <1>4, <1>s, LargestPlace
<1>5. Eq(g)
  <2>1. \A T \in SUBSET (DOMAIN list) : T # {} => g[T \ {Max(T)}] \in A
    BY <1>g, <1>s, LargestPlace DEF Folds
  <2>. QED BY <1>g, <1>4, <2>1 DEF Folds
<1>6. Eq(h)
  <2>. HIDE DEF Eq
  <2>. QED BY <1>5
<1>7. /\ h[{}] = <<>>
      /\ \A T \in SUBSET (DOMAIN list) : T # {} /\ h[T \ {Max(T)}] \in A =>
           h[T] = f[<<h[T \ {Max(T)}], list[Max(T)]>>]
  <2>. HIDE DEF h
  <2>1. \A T \in SUBSET (DOMAIN list) :
           h[T] = IF T = {} THEN <<>> ELSE KeepOther(t, h[T \ {Max(T)}], list[Max(T)])
    BY <1>6, Zenon
  <2>. QED BY <1>4, <2>1
<1>. HIDE DEF h
<1>9. Reaches(A, B, f, <<>>, list, h[DOMAIN list])
  BY <1>2, <1>7, <1>s, StepsOf
<1>10. Reaches(A, B, f, <<>>, list, FoldOf(f, <<>>, list))
  BY <1>2, <1>s, FoldOfSteps
<1>11. h[DOMAIN list] = Others(t, list)
  BY <1>9, <1>10, <1>s, ReachesOne DEF Others, f
<1>. QED BY <1>8, <1>11, Zenon

\* No messages say the empty list.
LEMMA SaysNothing ==
  ASSUME NEW t PROVE SaysList(<<>>, <<>>, t)
<1>1. /\ <<>> \in Seq(Asked) /\ DOMAIN <<>> = {}
  OBVIOUS
<1>2. Users(<<>>) = {}
  BY <1>1 DEF Users
<1>. QED BY <1>1, <1>2 DEF SaysList, Apart, WordsRise, In

\* What a list said is said in the list with a message more.
LEMMA InGrows ==
  ASSUME NEW s \in Seq(Message), NEW e \in Message, NEW w
  PROVE  In(w, Append(s, e)) <=> In(w, s) \/ e = Said(w.turn, w.rev)
<1>. DEFINE n == Len(s)
            p == n + 1
            q == Append(s, e)
<1>1. /\ n \in Nat /\ DOMAIN q = 1 .. p /\ q[p] = e /\ DOMAIN s = 1 .. n
      /\ \A i \in 1 .. n : q[i] = s[i]
  OBVIOUS
<1>2. p \in 1 .. p /\ \A i \in 1 .. p : i = p \/ i \in 1 .. n
  BY <1>1
<1>3. \A i \in 1 .. n : i \in 1 .. p
  BY <1>1
<1>. HIDE DEF n, p, q
<1>. QED BY <1>1, <1>2, <1>3 DEF In, q

\* A list that rises, rises without its last message, whose turn is the latest.
LEMMA RisingShorter ==
  ASSUME NEW s \in Seq(Message), NEW e \in Message, Rising(Append(s, e))
  PROVE  /\ Rising(s)
         /\ e.role = "user" => \A i \in Users(s) : s[i].item < e.item
<1>. DEFINE n == Len(s)
            p == n + 1
            q == Append(s, e)
<1>1. /\ n \in Nat /\ DOMAIN q = 1 .. p /\ q[p] = e /\ DOMAIN s = 1 .. n
      /\ \A i \in 1 .. n : q[i] = s[i]
  OBVIOUS
<1>2. p \in 1 .. p
  BY <1>1
<1>3. \A i \in 1 .. n : i \in 1 .. p /\ i < p
  BY <1>1
<1>. HIDE DEF n, p, q
<1>4. \A i \in Users(s) : i \in Users(q) /\ q[i] = s[i] /\ i < p
  BY <1>1, <1>3 DEF Users
<1>5. e.role = "user" => p \in Users(q)
  BY <1>1, <1>2 DEF Users
<1>6. Rising(q)
  BY DEF q
<1>7. Rising(s)
  BY <1>4, <1>6 DEF Rising
<1>8. e.role = "user" => \A i \in Users(s) : s[i].item < e.item
  BY <1>1, <1>4, <1>5, <1>6 DEF Rising
<1>. QED BY <1>7, <1>8

\* A word of the user said after all others.
LEMMA WordsRiseOn ==
  ASSUME NEW ms \in Seq(Asked), NEW ns, NEW w, Pushes(ms, ns, w), WordsRise(ms),
         w \in WordSet,
         \A i \in Users(ms) : \A k \in DOMAIN ms[i].words : ms[i].words[k].turn < w.turn
  PROVE  WordsRise(ns)
<1>1. ASSUME NEW i \in Users(ns), NEW j \in Users(ns),
             NEW k \in DOMAIN ns[i].words, NEW l \in DOMAIN ns[j].words,
             i < j \/ (i = j /\ k < l)
      PROVE  ns[i].words[k].turn < ns[j].words[l].turn
  <2>0. /\ ns \in Seq(Asked) /\ EndsWith(ns, w)
        /\ \A x \in Users(ns) : \A y \in DOMAIN ns[x].words :
             \/ x = Len(ns) /\ y = Len(ns[x].words)
             \/ Holds(ms, x, y, ns[x].words[y])
    BY DEF Pushes
  <2>t. i \in 1 .. Len(ns) /\ j \in 1 .. Len(ns) /\ Len(ns) \in Nat /\ ns[i] \in Asked
    BY <2>0 DEF Users
  <2>w. ns[i].words \in Seq(WordSet)
    BY <2>t DEF Asked
  <2>k. k \in 1 .. Len(ns[i].words) /\ Len(ns[i].words) \in Nat
    BY <2>w
  <2>1. ~(i = Len(ns) /\ k = Len(ns[i].words))
    <3>1. ASSUME i = Len(ns), k = Len(ns[i].words) PROVE FALSE
      <4>1. i = j /\ k < l
        BY <1>1, <2>t, <3>1
      <4>2. l \in 1 .. Len(ns[i].words)
        BY <2>w, <4>1
      <4>. QED BY <2>k, <3>1, <4>1, <4>2
    <3>. QED BY <3>1
  <2>2. Holds(ms, i, k, ns[i].words[k])
    BY <2>0, <2>1
  <2>3. i \in Users(ms) /\ k \in DOMAIN ms[i].words /\ ms[i].words[k] = ns[i].words[k]
    BY <2>2 DEF Holds
  <2>4. CASE j = Len(ns) /\ l = Len(ns[j].words)
    <3>1. ns[j].words[l] = w
      BY <2>0, <2>4 DEF EndsWith
    <3>. QED BY <2>3, <3>1
  <2>5. CASE ~(j = Len(ns) /\ l = Len(ns[j].words))
    <3>1. Holds(ms, j, l, ns[j].words[l])
      BY <2>0, <2>5
    <3>2. j \in Users(ms) /\ l \in DOMAIN ms[j].words /\ ms[j].words[l] = ns[j].words[l]
      BY <3>1 DEF Holds
    <3>3. ms[i].words[k].turn < ms[j].words[l].turn
      BY <1>1, <2>3, <3>2 DEF WordsRise
    <3>. QED BY <2>3, <3>2, <3>3
  <2>. QED BY <2>4, <2>5
<1>. QED BY <1>1 DEF WordsRise

\* A message of the user is the word it holds.
LEMMA SaidWord ==
  ASSUME NEW m \in Message, m.role = "user"
  PROVE  /\ m.words[1] \in WordSet /\ m.words[1].turn = m.item /\ m.item \in Positive
         /\ \A w \in WordSet : m = Said(w.turn, w.rev) <=> w = m.words[1]
<1>1. PICK r \in Nat : m = Said(m.item, r)
  BY MessageIsAsked
<1>. DEFINE t == m.item
            v == [turn |-> t, rev |-> r]
<1>2. m.words[1] \in WordSet /\ m.words[1].turn = m.item /\ m.item \in Positive
  BY MessageIsAsked
<1>. HIDE DEF t
<1>3. m = [role |-> "user", item |-> t, words |-> <<v>>]
  BY <1>1 DEF Said, t
<1>4. m.words[1] = v
  BY <1>3
<1>5. ASSUME NEW w \in WordSet, m = Said(w.turn, w.rev) PROVE w = m.words[1]
  <2>1. w = [turn |-> w.turn, rev |-> w.rev]
    BY DEF WordSet
  <2>2. m.words = <<[turn |-> w.turn, rev |-> w.rev]>>
    BY <1>5 DEF Said
  <2>. QED BY <2>1, <2>2
<1>6. ASSUME NEW w \in WordSet, w = m.words[1] PROVE m = Said(w.turn, w.rev)
  <2>1. w.turn = t /\ w.rev = r
    BY <1>4, <1>6
  <2>. QED BY <1>1, <2>1 DEF t
<1>. QED BY <1>2, <1>5, <1>6

\* A list with an answer more.
LEMMA SaysAnswer ==
  ASSUME NEW t, NEW s \in Seq(Message), NEW e \in Message, e.role # "user",
         NEW ms, SaysList(ms, s, t)
  PROVE  SaysList(Push(ms, e), Append(s, e), t)
<1>. DEFINE ns == Push(ms, e)
            q == Append(s, e)
<1>1. Keeps(ms, ns)
  BY PushAnswer DEF SaysList
<1>2. \A w : e # Said(w.turn, w.rev)
  BY DEF Said
<1>3. \A w : In(w, q) <=> In(w, s)
  BY <1>2, InGrows
<1>. HIDE DEF ns, q
<1>4. \A i, k, w : Holds(ms, i, k, w) => Holds(ns, i, k, w)
  BY <1>1 DEF Keeps, Holds
<1>5. \A w \in WordSet : In(w, q) /\ w.turn # t => \E i, k \in Nat : Holds(ns, i, k, w)
  BY <1>3, <1>4 DEF SaysList
<1>6. \A i \in Users(ns) : \A k \in DOMAIN ns[i].words :
        In(ns[i].words[k], q) /\ ns[i].words[k].turn # t
  BY <1>1, <1>3 DEF SaysList, Keeps
<1>7. WordsRise(ns)
  BY <1>1 DEF SaysList, Keeps, WordsRise
<1>. QED BY <1>1, <1>5, <1>6, <1>7 DEF SaysList, Keeps, ns, q

\* A word in a list that rises stands in one of its messages of the user.
LEMMA InIsBelow ==
  ASSUME NEW s \in Seq(Message), NEW w, In(w, s)
  PROVE  \E i \in Users(s) : s[i].item = w.turn
<1>1. PICK i \in DOMAIN s : s[i] = Said(w.turn, w.rev)
  BY DEF In
<1>2. s[i].role = "user" /\ s[i].item = w.turn
  BY <1>1 DEF Said
<1>. QED BY <1>2 DEF Users

\* A list with a turn more, another one than t.
LEMMA SaysTurn ==
  ASSUME NEW t, NEW s \in Seq(Message), NEW e \in Message, e.role = "user", e.item # t,
         NEW ms, SaysList(ms, s, t), \A i \in Users(s) : s[i].item < e.item
  PROVE  SaysList(Push(ms, e), Append(s, e), t)
<1>. DEFINE ns == Push(ms, e)
            q == Append(s, e)
            v == e.words[1]
<1>0. ms \in Seq(Asked) /\ Apart(ms) /\ WordsRise(ms)
  BY DEF SaysList
<1>1. Pushes(ms, ns, v)
  BY <1>0, PushUser
<1>2. /\ v \in WordSet /\ v.turn = e.item /\ e.item \in Positive
      /\ \A w \in WordSet : e = Said(w.turn, w.rev) <=> w = v
  BY SaidWord
<1>. HIDE DEF v
<1>3. \A w \in WordSet : In(w, q) <=> In(w, s) \/ w = v
  <2>1. \A w \in WordSet : In(w, q) <=> In(w, s) \/ e = Said(w.turn, w.rev)
    BY InGrows
  <2>. HIDE DEF q
  <2>. QED BY <1>2, <2>1
<1>. HIDE DEF ns, q
<1>w. \A i \in Users(ns) : ns[i] \in Asked /\ ns[i].words \in Seq(WordSet) /\ i \in Nat
  <2>1. \A i \in Users(ns) : i \in DOMAIN ns
    BY DEF Users
  <2>2. \A i \in DOMAIN ns : ns[i] \in Asked /\ i \in Nat
    BY <1>1 DEF Pushes
  <2>. QED BY <2>1, <2>2 DEF Asked
<1>v. \A i \in Users(ns) : \A k \in DOMAIN ns[i].words : ns[i].words[k] \in WordSet /\ k \in Nat
  BY <1>w
<1>e. \A i \in Users(ns) : \A k \in DOMAIN ns[i].words :
        \/ ns[i].words[k] = v
        \/ Holds(ms, i, k, ns[i].words[k])
  BY <1>1 DEF Pushes, EndsWith
<1>4. ASSUME NEW w \in WordSet, In(w, q), w.turn # t PROVE \E i, k \in Nat : Holds(ns, i, k, w)
  <2>1. CASE In(w, s)
    <3>1. PICK i \in Nat, k \in Nat : Holds(ms, i, k, w)
      BY <1>4, <2>1 DEF SaysList
    <3>2. Holds(ns, i, k, w)
      BY <1>1, <3>1 DEF Pushes, Holds
    <3>. QED BY <3>2
  <2>2. CASE w = v
    <3>. DEFINE i == Len(ns)
                k == Len(ns[i].words)
    <3>1. ns \in Seq(Asked) /\ EndsWith(ns, v)
      BY <1>1 DEF Pushes
    <3>2. i \in Nat /\ i \in DOMAIN ns
      BY <3>1 DEF EndsWith
    <3>3. ns[i].role = "user" /\ ns[i].words # <<>> /\ ns[i].words[k] = v
      BY <3>1 DEF EndsWith
    <3>4. i \in Users(ns)
      BY <3>2, <3>3 DEF Users
    <3>5. k \in Nat /\ k \in DOMAIN ns[i].words
      <4>1. ns[i].words \in Seq(WordSet)
        BY <1>w, <3>4
      <4>. QED BY <3>3, <4>1
    <3>6. Holds(ns, i, k, w)
      BY <2>2, <3>3, <3>4, <3>5, Zenon DEF Holds
    <3>. HIDE DEF i, k
    <3>. QED BY <3>2, <3>5, <3>6
  <2>. QED BY <1>3, <1>4, <2>1, <2>2
<1>h. \A i, k, w : Holds(ms, i, k, w) => In(w, s) /\ w.turn # t
  BY DEF SaysList, Holds
<1>5. \A i \in Users(ns) : \A k \in DOMAIN ns[i].words :
        In(ns[i].words[k], q) /\ ns[i].words[k].turn # t
  BY <1>2, <1>3, <1>e, <1>h, <1>v
<1>6. ASSUME NEW i \in Users(ms), NEW k \in DOMAIN ms[i].words
      PROVE  ms[i].words[k].turn < v.turn
  <2>1. Holds(ms, i, k, ms[i].words[k])
    BY DEF Holds
  <2>2. In(ms[i].words[k], s)
    BY <1>h, <2>1
  <2>3. PICK j \in Users(s) : s[j].item = ms[i].words[k].turn
    BY <2>2, InIsBelow
  <2>. QED BY <1>2, <2>3
<1>7. WordsRise(ns)
  BY <1>0, <1>1, <1>2, <1>6, WordsRiseOn
<1>8. ns \in Seq(Asked) /\ Apart(ns)
  BY <1>1 DEF Pushes
<1>9. \A w \in WordSet : In(w, q) /\ w.turn # t => \E i, k \in Nat : Holds(ns, i, k, w)
  BY <1>4
<1>10. SaysList(ns, q, t)
  BY <1>5, <1>7, <1>8, <1>9 DEF SaysList
<1>. QED BY <1>10 DEF ns, q

\* A list with turn t more.
LEMMA SaysSame ==
  ASSUME NEW t, NEW s \in Seq(Message), NEW e \in Message, e.role = "user", e.item = t,
         NEW ms, SaysList(ms, s, t)
  PROVE  SaysList(ms, Append(s, e), t)
<1>. DEFINE q == Append(s, e)
<1>1. \A w : In(w, q) <=> In(w, s) \/ e = Said(w.turn, w.rev)
  BY InGrows
<1>2. \A w : e = Said(w.turn, w.rev) => w.turn = t
  BY DEF Said
<1>. HIDE DEF q
<1>3. \A w \in WordSet : In(w, q) /\ w.turn # t => \E i, k \in Nat : Holds(ms, i, k, w)
  BY <1>1, <1>2 DEF SaysList
<1>4. \A i \in Users(ms) : \A k \in DOMAIN ms[i].words :
        In(ms[i].words[k], q) /\ ms[i].words[k].turn # t
  BY <1>1 DEF SaysList
<1>5. SaysList(ms, q, t)
  BY <1>3, <1>4 DEF SaysList
<1>. QED BY <1>5 DEF q

\* What the fold makes of a list that rises says what the list says, but for t.
LEMMA SaysAll ==
  ASSUME NEW t, NEW list \in Seq(Message), Rising(list)
  PROVE  SaysList(Others(t, list), list, t)
<1>. DEFINE S == {s \in Seq(Message) : Rising(s) => SaysList(Others(t, s), s, t)}
<1>1. OthersStep(t)
  BY OthersOne
<1>2. <<>> \in S
  BY <1>1, SaysNothing DEF OthersStep
<1>3. ASSUME NEW s \in Seq(Message), NEW e \in Message, s \in S PROVE Append(s, e) \in S
  <2>1. SUFFICES ASSUME Rising(Append(s, e))
                 PROVE  SaysList(Others(t, Append(s, e)), Append(s, e), t)
    BY Zenon, AppendProperties
  <2>. DEFINE ms == Others(t, s)
              q == Append(s, e)
  <2>2. Rising(s) /\ (e.role = "user" => \A i \in Users(s) : s[i].item < e.item)
    BY <2>1, RisingShorter
  <2>3. SaysList(ms, s, t)
    BY <1>3, <2>2
  <2>4. Others(t, q) = KeepOther(t, ms, e)
    BY <1>1, Zenon DEF OthersStep
  <2>. HIDE DEF ms
  <2>5. CASE e.role # "user"
    BY <2>3, <2>4, <2>5, SaysAnswer DEF KeepOther
  <2>6. CASE e.role = "user" /\ e.item # t
    BY <2>2, <2>3, <2>4, <2>6, SaysTurn DEF KeepOther
  <2>7. CASE e.role = "user" /\ e.item = t
    BY <2>3, <2>4, <2>7, SaysSame DEF KeepOther
  <2>. QED BY <2>5, <2>6, <2>7
<1>. HIDE DEF S
<1>4. Seq(Message) \subseteq S
  BY <1>2, <1>3, SeqInduction
<1>. QED BY <1>4 DEF S

\* What RequestSaysTurns asks of the messages: turns once, in order if they rise, the
\* words of the request last, and no two messages of the user in a row.
Orderly(asked, rise, t, r) ==
  /\ \A i, j \in Users(asked) : \A k \in DOMAIN asked[i].words, l \in DOMAIN asked[j].words :
       i < j \/ (i = j /\ k < l) =>
         /\ asked[i].words[k].turn # asked[j].words[l].turn
         /\ rise => asked[i].words[k].turn < asked[j].words[l].turn
  /\ Last(asked).role = "user"
  /\ Last(Last(asked).words) = [turn |-> t, rev |-> r]
  /\ Apart(asked)
\* The messages say every word of list of another turn than t.
Covers(asked, list, t) ==
  \A w \in WordSet : In(w, list) /\ w.turn # t =>
    \E i \in Users(asked) : w \in Range(asked[i].words)

\* A request made of a list that rises.
LEMMA RequestIsOrderly ==
  ASSUME NEW list \in Seq(Message), Rising(list), NEW t \in Positive, NEW r \in Nat,
         NEW rise, rise => \A i \in Users(list) : list[i].item <= t
  PROVE  /\ Orderly(Messages(list, t, r), rise, t, r)
         /\ Covers(Messages(list, t, r), list, t)
<1>. DEFINE ms == Others(t, list)
            e == Said(t, r)
            ns == Push(ms, e)
            v == [turn |-> t, rev |-> r]
<1>1. Messages(list, t, r) = ns
  BY MessagesFold
<1>2. e \in Message /\ e.role = "user" /\ e.words[1] = v /\ e.item = t
  BY DEF Message, Said
<1>3. v \in WordSet
  BY DEF WordSet, Positive
<1>3t. v.turn = t
  OBVIOUS
<1>4. SaysList(ms, list, t)
  BY SaysAll
<1>. HIDE DEF ms, e, v
<1>5. Pushes(ms, ns, v)
  BY <1>2, <1>4, PushUser DEF SaysList
<1>. HIDE DEF ns
<1>6. /\ ns \in Seq(Asked) /\ EndsWith(ns, v) /\ Apart(ns)
      /\ \A i \in Users(ns) : \A k \in DOMAIN ns[i].words :
           \/ i = Len(ns) /\ k = Len(ns[i].words)
           \/ Holds(ms, i, k, ns[i].words[k])
  BY <1>5 DEF Pushes
<1>7. Last(ns).role = "user" /\ Last(Last(ns).words) = v
  BY <1>6 DEF EndsWith, Last
<1>w. \A i \in Users(ns) : ns[i].words \in Seq(WordSet) /\ i \in 1 .. Len(ns) /\ Len(ns) \in Nat
  <2>1. \A i \in Users(ns) : i \in DOMAIN ns
    BY DEF Users
  <2>2. DOMAIN ns = 1 .. Len(ns) /\ Len(ns) \in Nat /\ \A i \in DOMAIN ns : ns[i] \in Asked
    BY <1>6
  <2>. QED BY <2>1, <2>2 DEF Asked
<1>m. \A i \in Users(ms) : \A k \in DOMAIN ms[i].words :
        ms[i].words[k] \in WordSet /\ ms[i].words[k].turn # t /\ In(ms[i].words[k], list)
  <2>1. \A i \in Users(ms) : i \in DOMAIN ms
    BY DEF Users
  <2>2. \A i \in DOMAIN ms : ms[i].words \in Seq(WordSet)
    <3>1. ms \in Seq(Asked)
      BY <1>4 DEF SaysList
    <3>2. \A i \in DOMAIN ms : ms[i] \in Asked
      BY <3>1
    <3>. QED BY <3>2 DEF Asked
  <2>3. \A i \in Users(ms) : \A k \in DOMAIN ms[i].words : ms[i].words[k] \in WordSet
    BY <2>1, <2>2
  <2>. QED BY <1>4, <2>3 DEF SaysList
<1>8. ASSUME NEW i \in Users(ns), NEW j \in Users(ns),
             NEW k \in DOMAIN ns[i].words, NEW l \in DOMAIN ns[j].words,
             i < j \/ (i = j /\ k < l)
      PROVE  /\ ns[i].words[k].turn # ns[j].words[l].turn
             /\ rise => ns[i].words[k].turn < ns[j].words[l].turn
  <2>k. k \in 1 .. Len(ns[i].words) /\ Len(ns[i].words) \in Nat
    <3>1. ns[i].words \in Seq(WordSet)
      BY <1>w
    <3>. QED BY <3>1
  <2>1. ~(i = Len(ns) /\ k = Len(ns[i].words))
    <3>1. ASSUME i = Len(ns), k = Len(ns[i].words) PROVE FALSE
      <4>1. i = j /\ k < l
        BY <1>8, <1>w, <3>1
      <4>2. l \in 1 .. Len(ns[i].words)
        BY <1>w, <4>1
      <4>. QED BY <2>k, <3>1, <4>1, <4>2
    <3>. QED BY <3>1
  <2>2. Holds(ms, i, k, ns[i].words[k])
    BY <1>6, <2>1
  <2>3. i \in Users(ms) /\ k \in DOMAIN ms[i].words /\ ms[i].words[k] = ns[i].words[k]
    BY <2>2 DEF Holds
  <2>a. ns[i].words[k] \in WordSet /\ ns[i].words[k].turn # t /\ In(ns[i].words[k], list)
    BY <1>m, <2>3
  <2>4. CASE j = Len(ns) /\ l = Len(ns[j].words)
    <3>1. ns[j].words[l] = v
      BY <1>6, <2>4 DEF EndsWith
    <3>2. ASSUME rise PROVE ns[i].words[k].turn < t
      <4>1. PICK x \in Users(list) : list[x].item = ns[i].words[k].turn
        BY <2>a, InIsBelow
      <4>2. ns[i].words[k].turn <= t
        BY <3>2, <4>1
      <4>3. ns[i].words[k].turn \in Nat /\ t \in Nat
        BY <2>a DEF WordSet, Positive
      <4>. QED BY <2>a, <4>2, <4>3
    <3>. QED BY <1>3t, <2>a, <3>1, <3>2 DEF v
  <2>5. CASE ~(j = Len(ns) /\ l = Len(ns[j].words))
    <3>1. Holds(ms, j, l, ns[j].words[l])
      BY <1>6, <2>5
    <3>2. j \in Users(ms) /\ l \in DOMAIN ms[j].words /\ ms[j].words[l] = ns[j].words[l]
      BY <3>1 DEF Holds
    <3>3. ms[i].words[k].turn < ms[j].words[l].turn
      BY <1>4, <1>8, <2>3, <3>2 DEF SaysList, WordsRise
    <3>4. ms[i].words[k].turn \in Nat /\ ms[j].words[l].turn \in Nat
      BY <1>m, <2>3, <3>2 DEF WordSet
    <3>. QED BY <2>3, <3>2, <3>3, <3>4
  <2>. QED BY <2>4, <2>5
<1>9. Orderly(ns, rise, t, r)
  BY <1>6, <1>7, <1>8, Zenon DEF Orderly, v
<1>10. Covers(ns, list, t)
  <2>1. ASSUME NEW w \in WordSet, In(w, list), w.turn # t
        PROVE  \E i \in Users(ns) : w \in Range(ns[i].words)
    <3>1. PICK i \in Nat, k \in Nat : Holds(ms, i, k, w)
      BY <1>4, <2>1 DEF SaysList
    <3>2. Holds(ns, i, k, w)
      BY <1>5, <3>1 DEF Pushes, Holds
    <3>3. i \in Users(ns) /\ k \in DOMAIN ns[i].words /\ ns[i].words[k] = w
      BY <3>2 DEF Holds
    <3>4. w \in Range(ns[i].words)
      BY <3>3, Zenon DEF Range
    <3>. QED BY <3>3, <3>4
  <2>. QED BY <2>1 DEF Covers
<1>. QED BY <1>1, <1>9, <1>10

Listed == [list : Seq(Message), after : Nat]
TalkTyped ==
  /\ history \in Seq(Message) /\ user_item \in Nat
  /\ known \in Listed /\ outbox \in Seq(Listed) /\ sending \in Seq(Listed)
  /\ heard_words \subseteq Turns /\ opened \in Nat

\* What is still to be transcribed, and what will open, is of turn n or a later one.
Coming(n) ==
  /\ \A i \in DOMAIN commits : commits[i].turn >= n
  /\ turn >= n \/ (user = "final" /\ turn + 1 = n)
Transcript(k) == k \in DOMAIN wire /\ wire[k].kind = "transcript"
From(j, n) ==
  /\ \A k \in DOMAIN wire : k > j /\ Transcript(k) => wire[k].turn >= n
  /\ Coming(n)
\* What follows place j, and is of a turn, follows a frame that closes the answer.
Fenced(j) ==
  /\ \A k \in DOMAIN wire : k > j /\ Transcript(k) =>
       \E s \in j + 1 .. k - 1 : wire[s].kind = "started"
  /\ \/ user = "final" /\ commits = <<>>
     \/ \E s \in j + 1 .. Len(wire) : wire[s].kind = "started"
\* The unit at place j speaks for turn n.
SpeaksFor(j, n) ==
  /\ From(j, n + 1) /\ user_item <= n
  /\ \A i \in 1 .. j - 1 : Transcript(i) => wire[i].turn <= n
LastIs(list, role) == list # <<>> /\ list[Len(list)].role = role

WireTurns ==
  /\ From(0, user_item) /\ user_item <= turn
  /\ \A j \in DOMAIN wire : Transcript(j) =>
       From(j, wire[j].turn) /\ wire[j].turn <= turn /\ wire[j].turn \in Positive
  /\ \A j \in DOMAIN wire : wire[j].kind = "unit" =>
       (\E n \in Nat : SpeaksFor(j, n)) /\ Fenced(j)
  /\ units # <<>> => Fenced(0)
  /\ units # <<>> \/ LastIs(history, "assistant") => From(0, user_item + 1)

\* The turns that wait come one after the other.
Ascend(s) == \A i, j \in DOMAIN s : i < j => s[i].turn <= s[j].turn
TurnsCome ==
  /\ Ascend(commits) /\ Ascend(jobs)
  /\ \A i \in DOMAIN jobs : Coming(jobs[i].turn)
  /\ job # Nobody => Coming(job.turn)

UpToItem(list, n) == \A i \in Users(list) : list[i].item <= n
HistoryInv ==
  /\ Rising(history) /\ UpToItem(history, user_item)
  /\ LastIs(history, "user") => history[Len(history)].item = user_item
  /\ history = <<>> => user_item = 0

Lists == {known} \cup Range(outbox) \cup Range(sending)
\* Frame q is the last transcript of its turn, and of revision r.
LastOf(q, t, r) ==
  /\ Transcript(q) /\ wire[q].turn = t /\ wire[q].rev = r
  /\ \A k \in DOMAIN wire : k > q /\ Transcript(k) => wire[k].turn # t
Waits(t) == \E k \in DOMAIN wire : Transcript(k) /\ wire[k].turn = t
WordsInv ==
  /\ \A w \in heard_words : Waits(w.turn) => \E q \in DOMAIN wire : LastOf(q, w.turn, w.rev)
  /\ \A w \in heard_words : ~Waits(w.turn) => In(w, history)
  /\ \A w \in heard_words : w \notin Range(jobs) =>
       \A q \in DOMAIN wire : Transcript(q) /\ wire[q].turn = w.turn =>
         \E c \in q + 1 .. Len(wire) : wire[c].kind = "created"

ListInv(l) ==
  /\ Rising(l.list) /\ UpToItem(l.list, turn) /\ l.after <= answer
  /\ l.after = opened => \A w \in heard_words : w \in Range(jobs) \/ In(w, l.list)
ListsInv == \A l \in Lists : ListInv(l)

\* The answers that opened, counted along the wire.
CountsAlong(num) ==
  /\ num \in [0 .. Len(wire) -> Nat] /\ num[0] = answer /\ num[Len(wire)] = opened
  /\ \A i, j \in 0 .. Len(wire) : i <= j => num[i] <= num[j]
  /\ \A k \in DOMAIN wire :
       num[k] = num[k - 1] + (IF wire[k].kind = "created" THEN 1 ELSE 0)
Numbered == \E num : CountsAlong(num)

RequestOf ==
  request # NoRequest => job # Nobody /\ job = [turn |-> request.turn, rev |-> request.rev]

TalkInv ==
  /\ TalkTyped /\ WireTurns /\ TurnsCome /\ HistoryInv /\ WordsInv /\ ListsInv /\ Numbered
  /\ RequestOf

(* --------------------------------- the engine -------------------------- *)

Prefix ==
  /\ wire \in Seq(Frames) /\ wire' \in Seq(Frames) /\ Len(wire) <= Len(wire')
  /\ \A k \in 1 .. Len(wire) : wire'[k] = wire[k]
News(kind) == {k \in DOMAIN wire' : k > Len(wire) /\ wire'[k].kind = kind}
Hears ==
  LET c == Head(commits) IN
    /\ commits # <<>> /\ commits' = Tail(commits)
    /\ Len(wire') = Len(wire) + 1
    /\ wire'[Len(wire')].turn = c.turn /\ wire'[Len(wire')].rev = c.rev
    /\ wire'[Len(wire')].kind = "transcript"
    /\ jobs' = Append(jobs, c)
    /\ heard_words' = {w \in heard_words : w.turn # c.turn} \cup {c}

\* A frame put on the wire is the last one.
LEMMA OneFrame ==
  ASSUME Typed, NEW f \in Frames, Emit(<<f>>)
  PROVE  /\ Prefix /\ Len(wire') = Len(wire) + 1 /\ wire'[Len(wire')] = f
         /\ \A kind : News(kind) = IF f.kind = kind THEN {Len(wire')} ELSE {}
<1>1. wire \in Seq(Frames) /\ wire' = Append(wire, f)
  BY DEF Typed, EngineTyped, Emit
<1>2. /\ Prefix /\ Len(wire') = Len(wire) + 1 /\ wire'[Len(wire')] = f
      /\ DOMAIN wire' = 1 .. Len(wire) + 1 /\ Len(wire) \in Nat
  BY <1>1 DEF Prefix
<1>3. ASSUME NEW kind PROVE News(kind) = IF f.kind = kind THEN {Len(wire')} ELSE {}
  BY <1>2 DEF News
<1>. QED BY <1>2, <1>3

\* Nothing put on the wire is nothing new.
LEMMA NoFrame ==
  ASSUME Typed, wire' = wire
  PROVE  Prefix /\ \A kind : News(kind) = {}
BY DEF Typed, EngineTyped, Prefix, News

\* Two frames put on the wire are of no other kind than theirs.
LEMMA TwoFrames ==
  ASSUME Typed, NEW f \in Frames, NEW g \in Frames, Emit(<<f, g>>)
  PROVE  /\ Prefix
         /\ \A kind : kind \notin {f.kind, g.kind} => News(kind) = {}
<1>1. wire \in Seq(Frames) /\ wire' = wire \o <<f, g>>
  BY DEF Typed, EngineTyped, Emit
<1>2. /\ wire' \in Seq(Frames) /\ Len(wire') = Len(wire) + 2 /\ Len(wire) \in Nat
      /\ \A k \in 1 .. Len(wire) : wire'[k] = wire[k]
      /\ wire'[Len(wire) + 1] = f /\ wire'[Len(wire) + 2] = g
      /\ DOMAIN wire' = 1 .. Len(wire) + 2
  BY <1>1
<1>3. Prefix
  BY <1>1, <1>2 DEF Prefix
<1>4. \A k \in DOMAIN wire' : k > Len(wire) => k = Len(wire) + 1 \/ k = Len(wire) + 2
  BY <1>2
<1>5. ASSUME NEW kind, kind \notin {f.kind, g.kind} PROVE News(kind) = {}
  BY <1>2, <1>4, <1>5 DEF News
<1>. QED BY <1>3, <1>5

\* What the engine adds to the wire, with what it does besides.
Adds ==
  /\ Prefix
  /\ \/ News("transcript") = {} /\ heard_words' = heard_words
     \/ News("transcript") = {Len(wire')} /\ Hears
  /\ \/ News("unit") = {}
     \/ /\ News("transcript") = {} /\ user = "final" /\ commits = <<>>
        /\ UNCHANGED <<user, commits, turn>>
  /\ \/ /\ News("created") = {} /\ opened' = opened
        /\ jobs' = jobs \/ Hears
     \/ /\ News("created") = {Len(wire')} /\ opened' = opened + 1 /\ Len(wire') = Len(wire) + 1
        /\ jobs # <<>> /\ jobs' = Tail(jobs) /\ News("transcript") = {}
  /\ \/ News("started") # {}
     \/ user = "final" /\ commits = <<>> => user' = "final" /\ commits' = <<>>
  /\ UNCHANGED <<known, history, user_item, units, answering, answer, outbox, sending>>

\* Every step of the engine adds to the wire like this.
LEMMA EngineAdds ==
  ASSUME Typed, TurnsInOrder, Engine PROVE Adds
<1>f. ASSUME NEW kind \in Kinds, NEW r \in Nat
      PROVE  /\ Frame(kind) \in Frames /\ Frame(kind).kind = kind
             /\ [Frame(kind) EXCEPT !.rev = r] \in Frames
             /\ [Frame(kind) EXCEPT !.rev = r].kind = kind
  BY <1>f DEF Frame, Frames
<1>o. UNCHANGED <<known, history, user_item, units, answering, answer, outbox, sending>>
  BY DEF Engine, SpeechStarts, SpeechCommits, TurnFinal, Recognize, AnswerOpens, AnswerWrites,
         AnswerSpeaks, AnswerSounds, AnswerEnds, Outside, context, threads
<1>1. CASE SpeechStarts
  <2>1. Emit(<<Frame("started")>>) /\ UNCHANGED <<heard_words, jobs, opened>>
    BY <1>1 DEF SpeechStarts
  <2>2. Frame("started") \in Frames /\ Frame("started").kind = "started"
    BY <1>f DEF Kinds
  <2>3. /\ Prefix /\ News("transcript") = {} /\ News("unit") = {} /\ News("created") = {}
        /\ News("started") # {}
    BY <2>1, <2>2, OneFrame
  <2>. QED BY <1>o, <2>1, <2>3 DEF Adds
<1>2. CASE SpeechCommits \/ TurnFinal
  <2>1. /\ wire' = wire /\ UNCHANGED <<heard_words, jobs, opened>>
        /\ user = "final" /\ commits = <<>> => user' = "final" /\ commits' = <<>>
    BY <1>2 DEF SpeechCommits, TurnFinal
  <2>2. Prefix /\ News("transcript") = {} /\ News("unit") = {} /\ News("created") = {}
    BY <2>1, NoFrame
  <2>. QED BY <1>o, <2>1, <2>2 DEF Adds
<1>3. CASE Recognize
  <2>. DEFINE c == Head(commits)
              f == [kind |-> "transcript", turn |-> c.turn, rev |-> c.rev]
  <2>1. commits # <<>> /\ commits' = Tail(commits) /\ opened' = opened /\ c \in Turns
    BY <1>3 DEF Recognize, Typed, EngineTyped
  <2>2. CASE Emit(<<f>>) /\ jobs' = Append(jobs, c)
             /\ heard_words' = {w \in heard_words : w.turn # c.turn} \cup {c}
    <3>1. f \in Frames /\ f.kind = "transcript" /\ f.turn = c.turn /\ f.rev = c.rev
      BY <2>1 DEF Frames, Kinds, Turns, Positive
    <3>. HIDE DEF f
    <3>2. /\ Prefix /\ Len(wire') = Len(wire) + 1 /\ wire'[Len(wire')] = f
          /\ News("transcript") = {Len(wire')} /\ News("unit") = {} /\ News("created") = {}
      BY <2>2, <3>1, OneFrame
    <3>3. Hears
      BY <2>1, <2>2, <3>1, <3>2 DEF Hears
    <3>. QED BY <1>o, <2>1, <3>2, <3>3 DEF Adds
  <2>3. CASE UNCHANGED <<wire, jobs, heard_words>>
    <3>1. Prefix /\ News("transcript") = {} /\ News("unit") = {} /\ News("created") = {}
      BY <2>3, NoFrame
    <3>. QED BY <1>o, <2>1, <2>3, <3>1 DEF Adds
  <2>. QED BY <1>3, <2>2, <2>3 DEF Recognize
<1>4. CASE AnswerOpens
  <2>1. /\ Emit(<<Frame("created")>>) /\ UNCHANGED <<heard_words, user, commits>>
        /\ opened' = opened + 1 /\ jobs # <<>> /\ jobs' = Tail(jobs)
    BY <1>4 DEF AnswerOpens
  <2>2. Frame("created") \in Frames /\ Frame("created").kind = "created"
    BY <1>f DEF Kinds
  <2>3. /\ Prefix /\ News("transcript") = {} /\ News("unit") = {} /\ News("created") = {Len(wire')}
        /\ Len(wire') = Len(wire) + 1
    BY <2>1, <2>2, OneFrame
  <2>. QED BY <1>o, <2>1, <2>3 DEF Adds
<1>5. CASE AnswerWrites \/ AnswerSounds \/ AnswerEnds
  <2>1. UNCHANGED <<heard_words, jobs, opened, user, commits>>
    BY <1>5 DEF AnswerWrites, AnswerSounds, AnswerEnds
  <2>2. \E f \in Frames : /\ f.kind \notin {"transcript", "unit", "created"} /\ Emit(<<f>>)
    <3>1. CASE AnswerWrites
      <4>1. PICK kind \in {"text", "tool"} : Emit(<<Frame(kind)>>)
        BY <3>1 DEF AnswerWrites
      <4>2. Frame(kind) \in Frames /\ Frame(kind).kind = kind
        BY <1>f DEF Kinds
      <4>. QED BY <4>1, <4>2
    <3>2. CASE AnswerSounds
      <4>. DEFINE f == [Frame("audio") EXCEPT !.rev = spoken[1]]
      <4>1. Emit(<<f>>)
        BY <3>2 DEF AnswerSounds
      <4>2. spoken[1] \in Nat /\ "audio" \in Kinds
        BY DEF Typed, EngineTyped, Kinds
      <4>3. f \in Frames /\ f.kind = "audio"
        BY <1>f, <4>2
      <4>. HIDE DEF f
      <4>. QED BY <4>1, <4>3
    <3>3. CASE AnswerEnds
      <4>1. PICK kind \in {"cancelled", "done"} : Emit(<<Frame(kind)>>)
        BY <3>3, Zenon DEF AnswerEnds
      <4>2. Frame(kind) \in Frames /\ Frame(kind).kind = kind
        BY <1>f DEF Kinds
      <4>. QED BY <4>1, <4>2
    <3>. QED BY <1>5, <3>1, <3>2, <3>3
  <2>3. Prefix /\ News("transcript") = {} /\ News("unit") = {} /\ News("created") = {}
    BY <2>2, OneFrame
  <2>. QED BY <1>o, <2>1, <2>3 DEF Adds
<1>6. CASE AnswerSpeaks
  <2>. DEFINE f == [Frame("unit") EXCEPT !.rev = spoken'[1]]
              g == [Frame("audio") EXCEPT !.rev = spoken'[1]]
  <2>1. /\ Emit(<<f, g>>) /\ UNCHANGED <<heard_words, jobs, opened, user, commits, turn>>
        /\ user = "final" /\ job # Nobody /\ ~void
    BY <1>6 DEF AnswerSpeaks
  <2>2. spoken'[1] \in Nat
    BY <1>6 DEF AnswerSpeaks, Typed, EngineTyped
  <2>3. f \in Frames /\ f.kind = "unit" /\ g \in Frames /\ g.kind = "audio"
    BY <1>f, <2>2 DEF Kinds
  <2>. HIDE DEF f, g
  <2>c. commits = <<>>
    BY <2>1 DEF TurnsInOrder
  <2>4. Prefix /\ News("transcript") = {} /\ News("created") = {}
    BY <2>1, <2>3, TwoFrames
  <2>. QED BY <1>o, <2>1, <2>c, <2>4 DEF Adds
<1>. QED BY <1>1, <1>2, <1>3, <1>4, <1>5, <1>6 DEF Engine

\* No step of the engine brings back a turn before one still to come.
LEMMA EngineComing ==
  ASSUME Typed, Engine, NEW n \in Nat, Coming(n) PROVE Coming(n)'
<1>0. /\ commits \in Seq(Turns) /\ turn \in Nat /\ Latest.turn = turn
      /\ (\A i \in DOMAIN commits : commits[i].turn >= n)
      /\ turn >= n \/ (user = "final" /\ turn + 1 = n)
  BY DEF Typed, EngineTyped, Latest, Coming
<1>1. CASE SpeechStarts
  BY <1>0, <1>1 DEF SpeechStarts, Coming
<1>2. CASE SpeechCommits
  <2>1. commits' = Append(commits, Latest) /\ user = "open" /\ turn' = turn
    BY <1>2 DEF SpeechCommits
  <2>2. turn >= n
    BY <1>0, <2>1
  <2>. DEFINE c == Latest
  <2>3. c.turn >= n
    BY <1>0, <2>2
  <2>. HIDE DEF c
  <2>4. \A i \in DOMAIN Append(commits, c) :
          Append(commits, c)[i] = c \/ (i \in DOMAIN commits /\ Append(commits, c)[i] = commits[i])
    BY <1>0
  <2>5. \A i \in DOMAIN Append(commits, c) : Append(commits, c)[i].turn >= n
    BY <1>0, <2>3, <2>4
  <2>. QED BY <2>1, <2>2, <2>5 DEF Coming, c
<1>3. CASE TurnFinal
  <2>1. commits' = commits /\ user = "committed" /\ turn' = turn
    BY <1>3 DEF TurnFinal
  <2>. QED BY <1>0, <2>1 DEF Coming
<1>4. CASE Recognize
  <2>1. commits # <<>> /\ commits' = Tail(commits) /\ turn' = turn /\ user' = user
    BY <1>4 DEF Recognize
  <2>2. \A i \in DOMAIN Tail(commits) :
          i + 1 \in DOMAIN commits /\ Tail(commits)[i] = commits[i + 1]
    BY <1>0, <2>1
  <2>. QED BY <1>0, <2>1, <2>2 DEF Coming
<1>5. CASE AnswerOpens \/ AnswerWrites \/ AnswerSpeaks \/ AnswerSounds \/ AnswerEnds
  <2>1. UNCHANGED <<commits, turn, user>>
    BY <1>5 DEF AnswerOpens, AnswerWrites, AnswerSpeaks, AnswerSounds, AnswerEnds
  <2>. QED BY <1>0, <2>1 DEF Coming
<1>. QED BY <1>1, <1>2, <1>3, <1>4, <1>5 DEF Engine

\* The turn to recognize next is one still to come.
LEMMA HeadComes ==
  ASSUME Typed, commits # <<>>, NEW n, Coming(n)
  PROVE  Head(commits) \in Turns /\ Head(commits).turn >= n /\ Head(commits) = commits[1]
         /\ 1 \in DOMAIN commits
BY DEF Typed, EngineTyped, Coming

\* What was told of the wire from some place on stays true of the longer wire.
LEMMA EngineFrom ==
  ASSUME Typed, Engine, Adds, NEW j \in 0 .. Len(wire), NEW n \in Nat, From(j, n)
  PROVE  From(j, n)'
<1>1. Coming(n) /\ Coming(n)'
  BY EngineComing DEF From
<1>2. ASSUME NEW k \in DOMAIN wire', k > j, wire'[k].kind = "transcript" PROVE wire'[k].turn >= n
  <2>0. /\ Prefix /\ DOMAIN wire' = 1 .. Len(wire') /\ DOMAIN wire = 1 .. Len(wire)
        /\ Len(wire) \in Nat
        /\ Len(wire') \in Nat
    BY DEF Adds, Prefix
  <2>1. CASE k <= Len(wire)
    <3>1. k \in DOMAIN wire /\ wire'[k] = wire[k]
      BY <1>2, <2>0, <2>1 DEF Prefix
    <3>. QED BY <1>2, <3>1 DEF From, Transcript
  <2>2. CASE ~(k <= Len(wire))
    <3>1. k \in News("transcript")
      BY <1>2, <2>0, <2>2 DEF News
    <3>2. k = Len(wire') /\ Hears
      BY <3>1 DEF Adds
    <3>. QED BY <1>1, <3>2, HeadComes DEF Hears
  <2>. QED BY <2>1, <2>2
<1>. QED BY <1>1, <1>2 DEF From, Transcript

\* A place of the wire that is fenced off stays so when the engine goes on.
LEMMA EngineFenced ==
  ASSUME Typed, Engine, Adds, NEW j \in 0 .. Len(wire), Fenced(j)
  PROVE  Fenced(j)'
<1>0. Prefix /\ DOMAIN wire' = 1 .. Len(wire') /\ DOMAIN wire = 1 .. Len(wire) /\ Len(wire) \in Nat
      /\ Len(wire') \in Nat /\ Len(wire) <= Len(wire') /\ j \in Nat
  BY DEF Adds, Prefix
<1>1. \A s \in j + 1 .. Len(wire) : wire'[s] = wire[s] /\ s \in j + 1 .. Len(wire')
  BY <1>0 DEF Prefix
<1>2. ASSUME NEW k \in DOMAIN wire', k > j, wire'[k].kind = "transcript"
      PROVE  \E s \in j + 1 .. k - 1 : wire'[s].kind = "started"
  <2>1. CASE k <= Len(wire)
    <3>1. k \in DOMAIN wire /\ wire'[k] = wire[k]
      BY <1>2, <1>0, <2>1 DEF Prefix
    <3>2. PICK s \in j + 1 .. k - 1 : wire[s].kind = "started"
      BY <1>2, <3>1 DEF Fenced, Transcript
    <3>3. s \in j + 1 .. Len(wire)
      BY <1>0, <2>1, <3>1
    <3>. QED BY <1>1, <3>2, <3>3
  <2>2. CASE ~(k <= Len(wire))
    <3>1. k \in News("transcript")
      BY <1>2, <1>0, <2>2 DEF News
    <3>2. k = Len(wire') /\ Hears
      BY <3>1 DEF Adds
    <3>3. commits # <<>> /\ k = Len(wire) + 1
      BY <3>2 DEF Hears
    <3>4. PICK s \in j + 1 .. Len(wire) : wire[s].kind = "started"
      BY <3>3 DEF Fenced
    <3>5. s \in j + 1 .. k - 1
      BY <1>0, <3>3
    <3>. QED BY <1>1, <3>4, <3>5
  <2>. QED BY <2>1, <2>2
<1>3. \/ user' = "final" /\ commits' = <<>>
      \/ \E s \in j + 1 .. Len(wire') : wire'[s].kind = "started"
  <2>1. CASE News("started") # {}
    <3>1. PICK s \in DOMAIN wire' : s > Len(wire) /\ wire'[s].kind = "started"
      BY <2>1 DEF News
    <3>2. s \in j + 1 .. Len(wire')
      BY <1>0, <3>1
    <3>. QED BY <3>1, <3>2
  <2>2. CASE user = "final" /\ commits = <<>>
    BY <2>1, <2>2 DEF Adds
  <2>3. CASE \E s \in j + 1 .. Len(wire) : wire[s].kind = "started"
    BY <1>1, <2>3
  <2>. QED BY <2>2, <2>3 DEF Fenced
<1>. QED BY <1>2, <1>3 DEF Fenced, Transcript

\* Turns are numbered upwards.
LEMMA EngineTurnGrows ==
  ASSUME Typed, Engine PROVE turn' \in Nat /\ turn <= turn'
<1>1. turn' = turn \/ turn' = turn + 1
  BY DEF Engine, SpeechStarts, SpeechCommits, TurnFinal, Recognize, AnswerOpens, AnswerWrites,
         AnswerSpeaks, AnswerSounds, AnswerEnds
<1>2. turn \in Nat
  BY DEF Typed, EngineTyped
<1>. QED BY <1>1, <1>2

\* The engine puts the turns on the wire in their order, and units only where no transcript can
\* follow before the user speaks again.
LEMMA EngineWireTurns ==
  ASSUME Typed, TurnsInOrder, Engine, Adds, TalkTyped, WireTurns, TurnsCome PROVE WireTurns'
<1>0. Prefix /\ DOMAIN wire' = 1 .. Len(wire') /\ DOMAIN wire = 1 .. Len(wire) /\ Len(wire) \in Nat
      /\ Len(wire') \in Nat /\ Len(wire) <= Len(wire') /\ 0 \in 0 .. Len(wire)
  BY DEF Adds, Prefix
<1>1. UNCHANGED <<history, user_item, units>> /\ user_item \in Nat /\ turn \in Nat
      /\ turn' \in Nat /\ turn <= turn'
  BY EngineTurnGrows DEF Adds, TalkTyped, Typed, EngineTyped
<1>2. From(0, user_item)' /\ user_item' <= turn'
  <2>1. From(0, user_item) /\ user_item <= turn
    BY DEF WireTurns
  <2>2. PICK n \in Nat : n = user_item
    BY <1>1
  <2>3. From(0, n)'
    BY <1>0, <2>1, <2>2, EngineFrom
  <2>4. From(0, user_item)'
    BY <1>1, <2>2, <2>3
  <2>. QED BY <1>1, <2>1, <2>4
<1>3. ASSUME NEW j \in DOMAIN wire', wire'[j].kind = "transcript"
      PROVE  From(j, wire[j].turn)' /\ wire'[j].turn <= turn' /\ wire'[j].turn \in Positive
  <2>1. CASE j <= Len(wire)
    <3>1. j \in DOMAIN wire /\ wire'[j] = wire[j] /\ j \in 0 .. Len(wire)
      BY <1>0, <1>3, <2>1 DEF Prefix
    <3>2. From(j, wire[j].turn) /\ wire[j].turn <= turn /\ wire[j].turn \in Positive
      BY <1>3, <3>1 DEF WireTurns, Transcript
    <3>3. PICK n \in Nat : n = wire[j].turn
      BY <3>2 DEF Positive
    <3>4. From(j, n)'
      BY <3>1, <3>2, <3>3, EngineFrom
    <3>. QED BY <1>1, <3>1, <3>2, <3>3, <3>4 DEF Positive
  <2>2. CASE ~(j <= Len(wire))
    <3>1. j \in News("transcript")
      BY <1>0, <1>3, <2>2 DEF News
    <3>2. j = Len(wire') /\ Hears
      BY <3>1 DEF Adds
    <3>. DEFINE c == Head(commits)
    <3>3. commits # <<>> /\ commits' = Tail(commits) /\ wire'[j].turn = c.turn
      BY <3>2 DEF Hears
    <3>4. c \in Turns /\ c = commits[1] /\ commits \in Seq(Turns)
      BY <3>3 DEF Typed, EngineTyped
    <3>5. c.turn <= turn /\ c.turn \in Positive
      <4>1. UpTo(c, Latest)
        BY <3>3, <3>4 DEF TurnsInOrder
      <4>. QED BY <1>1, <3>4, <4>1 DEF UpTo, Latest, Turns, Positive
    <3>. HIDE DEF c
    <3>6. turn' = turn
      BY <3>3 DEF Engine, SpeechStarts, SpeechCommits, TurnFinal, Recognize, AnswerOpens,
                  AnswerWrites, AnswerSpeaks, AnswerSounds, AnswerEnds
    <3>7. \A i \in DOMAIN commits' : commits'[i].turn >= c.turn
      <4>1. \A i \in DOMAIN Tail(commits) :
              i + 1 \in DOMAIN commits /\ 1 < i + 1 /\ Tail(commits)[i] = commits[i + 1]
        BY <3>3, <3>4
      <4>2. \A i \in DOMAIN commits : 1 < i => c.turn <= commits[i].turn
        <5>1. 1 \in DOMAIN commits
          BY <3>3, <3>4
        <5>. QED BY <3>4, <5>1 DEF TurnsCome, Ascend
      <4>3. \A i \in DOMAIN commits : commits[i].turn \in Nat
        <5>1. \A i \in DOMAIN commits : commits[i] \in Turns
          BY <3>4
        <5>. QED BY <5>1 DEF Turns, Positive
      <4>. QED BY <3>3, <3>5, <4>1, <4>2, <4>3 DEF Positive
    <3>8. turn' >= c.turn
      BY <1>1, <3>5, <3>6 DEF Positive
    <3>9. \A k \in DOMAIN wire' : ~(k > j)
      BY <1>0, <3>2
    <3>10. From(j, wire[j].turn)'
      BY <3>3, <3>7, <3>8, <3>9 DEF From, Coming, Transcript
    <3>. QED BY <1>1, <3>3, <3>5, <3>6, <3>10
  <2>. QED BY <2>1, <2>2
<1>4. ASSUME NEW j \in DOMAIN wire', wire'[j].kind = "unit"
      PROVE  (\E n \in Nat : SpeaksFor(j, n)') /\ Fenced(j)'
  <2>1. CASE j <= Len(wire)
    <3>1. j \in DOMAIN wire /\ wire'[j] = wire[j] /\ j \in 0 .. Len(wire)
      BY <1>0, <1>4, <2>1 DEF Prefix
    <3>2. PICK n \in Nat : SpeaksFor(j, n)
      BY <1>4, <3>1 DEF WireTurns
    <3>3. From(j, n + 1)'
      BY <3>1, <3>2, EngineFrom DEF SpeaksFor
    <3>4. \A i \in 1 .. j - 1 : wire'[i] = wire[i] /\ i \in DOMAIN wire
      BY <1>0, <3>1 DEF Prefix
    <3>5. SpeaksFor(j, n)'
      BY <1>1, <3>2, <3>3, <3>4 DEF SpeaksFor, Transcript
    <3>6. Fenced(j)'
      BY <1>4, <3>1, EngineFenced DEF WireTurns
    <3>. QED BY <3>5, <3>6
  <2>2. CASE ~(j <= Len(wire))
    <3>1. j \in News("unit")
      BY <1>0, <1>4, <2>2 DEF News
    <3>2. News("transcript") = {} /\ user' = "final" /\ commits' = <<>> /\ turn' = turn
      BY <3>1 DEF Adds
    <3>3. \A k \in DOMAIN wire' : wire'[k].kind = "transcript" => k \in 1 .. Len(wire)
      BY <1>0, <3>2 DEF News
    <3>4. Fenced(j)'
      BY <1>0, <2>2, <3>2, <3>3 DEF Fenced, Transcript
    <3>5. From(j, turn + 1)'
      BY <1>0, <1>1, <2>2, <3>2, <3>3 DEF From, Coming, Transcript
    <3>6. \A i \in 1 .. Len(wire) : wire'[i].kind = "transcript" => wire'[i].turn <= turn
      BY <1>0 DEF Prefix, WireTurns, Transcript
    <3>7. SpeaksFor(j, turn)'
      <4>1. user_item' <= turn'
        BY <1>2
      <4>2. \A i \in 1 .. j - 1 :
              i \in DOMAIN wire' /\ wire'[i].kind = "transcript" => wire'[i].turn <= turn'
        BY <3>2, <3>3, <3>6
      <4>. QED BY <3>5, <4>1, <4>2 DEF SpeaksFor, Transcript
    <3>8. PICK n \in Nat : n = turn'
      BY <1>1
    <3>9. SpeaksFor(j, n)'
      BY <3>7, <3>8
    <3>. QED BY <3>4, <3>9
  <2>. QED BY <2>1, <2>2
<1>5. units' # <<>> => Fenced(0)'
  BY <1>0, <1>1, EngineFenced DEF WireTurns
<1>6. units' # <<>> \/ LastIs(history, "assistant")' => From(0, user_item + 1)'
  <2>1. SUFFICES ASSUME units # <<>> \/ LastIs(history, "assistant") PROVE From(0, user_item + 1)'
    BY <1>1 DEF LastIs
  <2>2. PICK n \in Nat : n = user_item + 1
    BY <1>1
  <2>3. From(0, n)'
    BY <1>0, <2>1, <2>2, EngineFrom DEF WireTurns
  <2>. QED BY <1>1, <2>2, <2>3
<1>. QED BY <1>2, <1>3, <1>4, <1>5, <1>6 DEF WireTurns, Transcript

\* Turns that ascend with one more that is no earlier ascend.
LEMMA AppendTurns ==
  ASSUME NEW s \in Seq(Turns), NEW c \in Turns, Ascend(s), \A i \in DOMAIN s : s[i].turn <= c.turn
  PROVE  Ascend(Append(s, c))
<1>. DEFINE n == Len(s)
            q == Append(s, c)
<1>1. /\ DOMAIN s = 1 .. n /\ DOMAIN q = 1 .. n + 1 /\ q[n + 1] = c /\ n \in Nat
      /\ \A i \in 1 .. n : q[i] = s[i]
  OBVIOUS
<1>. HIDE DEF n, q
<1>2. \A i, j \in 1 .. n + 1 : i < j => i \in 1 .. n /\ (j \in 1 .. n \/ j = n + 1)
  BY <1>1
<1>3. Ascend(q)
  BY <1>1, <1>2 DEF Ascend
<1>. QED BY <1>3 DEF q

\* Turns that ascend do so without the first, which is the earliest.
LEMMA TailTurns ==
  ASSUME NEW s \in Seq(Turns), s # <<>>, Ascend(s)
  PROVE  /\ Ascend(Tail(s)) /\ \A i \in DOMAIN Tail(s) : i + 1 \in DOMAIN s /\ Tail(s)[i] = s[i + 1]
         /\ \A i \in DOMAIN s : s[1].turn <= s[i].turn
         /\ 1 \in DOMAIN s /\ Head(s) = s[1] /\ s[1] \in Turns
<1>. DEFINE n == Len(s)
            q == Tail(s)
<1>1. /\ DOMAIN s = 1 .. n /\ DOMAIN q = 1 .. n - 1 /\ n \in Nat /\ n >= 1
      /\ \A i \in 1 .. n - 1 : q[i] = s[i + 1]
      /\ Head(s) = s[1] /\ s[1] \in Turns
  OBVIOUS
<1>. HIDE DEF n, q
<1>2. \A i \in 1 .. n - 1 : i + 1 \in 1 .. n /\ i \in Nat
  BY <1>1
<1>3. \A i, j \in Nat : i < j => i + 1 < j + 1
  OBVIOUS
<1>4. Ascend(q)
  BY <1>1, <1>2, <1>3 DEF Ascend
<1>5. 1 \in DOMAIN s
  BY <1>1
<1>6. ASSUME NEW i \in DOMAIN s PROVE s[1].turn <= s[i].turn
  <2>1. CASE i = 1
    BY <1>1, <2>1 DEF Turns, Positive
  <2>2. CASE i # 1
    <3>1. 1 < i
      BY <1>1, <2>2
    <3>. QED BY <1>5, <3>1 DEF Ascend
  <2>. QED BY <2>1, <2>2
<1>. QED BY <1>1, <1>2, <1>4, <1>5, <1>6 DEF q

\* A turn that is as late as one to come follows the turns before it.
LEMMA EngineTurnsCome ==
  ASSUME Typed, TurnsInOrder, Engine, TurnsCome PROVE TurnsCome'
<1>0. /\ commits \in Seq(Turns) /\ jobs \in Seq(Turns) /\ turn \in Nat
      /\ \A i \in DOMAIN jobs : jobs[i] \in Turns
      /\ \A i \in DOMAIN commits : commits[i] \in Turns
      /\ job \in Turns \cup {Nobody} /\ rev \in Nat /\ user \in {"open", "committed", "final"}
  <2>1. /\ commits \in Seq(Turns) /\ jobs \in Seq(Turns) /\ turn \in Nat
        /\ job \in Turns \cup {Nobody} /\ rev \in Nat /\ user \in {"open", "committed", "final"}
    BY DEF Typed, EngineTyped
  <2>. QED BY <2>1
<1>. DEFINE Later(n) == /\ \A i \in DOMAIN commits' : commits'[i].turn >= n
                        /\ turn' >= n \/ (user' = "final" /\ turn' + 1 = n)
<1>1. \A c \in Turns : c.turn \in Nat /\ (Coming(c.turn) => Later(c.turn))
  <2>1. ASSUME NEW c \in Turns, Coming(c.turn) PROVE Later(c.turn)
    <3>1. PICK n \in Nat : n = c.turn
      BY DEF Turns, Positive
    <3>2. Coming(n)'
      BY <2>1, <3>1, EngineComing
    <3>. QED BY <3>1, <3>2 DEF Coming
  <2>. QED BY <2>1 DEF Turns, Positive
<1>l. ASSUME Ascend(commits'), Ascend(jobs'), \A i \in DOMAIN jobs' : Later(jobs'[i].turn),
             job' # Nobody => Later(job'.turn)
      PROVE  TurnsCome'
  BY <1>l DEF TurnsCome, Ascend, Coming
<1>. HIDE DEF Later
<1>2. (\A i \in DOMAIN jobs : Later(jobs[i].turn)) /\ (job # Nobody => Later(job.turn))
  BY <1>0, <1>1 DEF TurnsCome
<1>3a. Ascend(commits) /\ Ascend(jobs)
  BY DEF TurnsCome
<1>3. CASE SpeechStarts \/ TurnFinal \/ AnswerWrites \/ AnswerSpeaks \/ AnswerSounds
  <2>1. UNCHANGED <<commits, jobs, job>>
    BY <1>3 DEF SpeechStarts, TurnFinal, AnswerWrites, AnswerSpeaks, AnswerSounds
  <2>. QED BY <1>2, <1>3a, <1>l, <2>1
<1>4. CASE SpeechCommits
  <2>1. UNCHANGED <<jobs, job>> /\ commits' = Append(commits, Latest) /\ user = "open"
    BY <1>4 DEF SpeechCommits
  <2>2. Latest \in Turns
    <3>1. turn # 0
      BY <2>1 DEF Typed, EngineTyped
    <3>. QED BY <1>0, <3>1 DEF Latest, Turns, Positive
  <2>3. \A i \in DOMAIN commits : commits[i].turn <= Latest.turn
    <3>1. \A i \in DOMAIN commits : UpTo(commits[i], Latest)
      BY DEF TurnsInOrder
    <3>2. \A x \in Turns : UpTo(x, Latest) => x.turn <= Latest.turn
      BY <2>2 DEF UpTo, Turns, Positive
    <3>. QED BY <1>0, <3>1, <3>2
  <2>. DEFINE c == Latest
  <2>. HIDE DEF c
  <2>4. Ascend(Append(commits, c))
    BY <1>0, <2>2, <2>3, AppendTurns DEF TurnsCome, c
  <2>. QED BY <1>2, <1>3a, <1>l, <2>1, <2>4 DEF c
<1>5. CASE Recognize
  <2>. DEFINE c == Head(commits)
  <2>1. job' = job /\ commits # <<>> /\ commits' = Tail(commits)
        /\ (jobs' = jobs \/ jobs' = Append(jobs, c))
    BY <1>5 DEF Recognize
  <2>2. /\ Ascend(Tail(commits)) /\ c = commits[1] /\ c \in Turns /\ 1 \in DOMAIN commits
        /\ \A i \in DOMAIN Tail(commits) :
             i + 1 \in DOMAIN commits /\ Tail(commits)[i] = commits[i + 1]
        /\ \A i \in DOMAIN commits : c.turn <= commits[i].turn
    BY <1>0, <2>1, TailTurns DEF TurnsCome
  <2>. HIDE DEF c
  <2>3. \A i \in DOMAIN jobs : jobs[i].turn <= c.turn
    <3>1. \A i \in DOMAIN jobs : c.turn >= jobs[i].turn
      BY <2>2 DEF TurnsCome, Coming
    <3>2. \A i \in DOMAIN jobs : jobs[i].turn \in Nat
      BY <1>0, <1>1
    <3>3. c.turn \in Nat
      BY <1>1, <2>2
    <3>4. \A x, y \in Nat : x >= y => y <= x
      OBVIOUS
    <3>. QED BY <3>1, <3>2, <3>3, <3>4
  <2>4. Ascend(Append(jobs, c))
    BY <1>0, <2>2, <2>3, AppendTurns DEF TurnsCome
  <2>5. Later(c.turn)
    <3>1. c.turn <= turn /\ c.turn \in Nat
      <4>1. UpTo(c, Latest)
        BY <2>2 DEF TurnsInOrder
      <4>. QED BY <1>0, <2>2, <4>1 DEF UpTo, Latest, Turns, Positive
    <3>2. turn' = turn
      BY <1>5 DEF Recognize
    <3>3. \A i \in DOMAIN commits' : commits'[i].turn >= c.turn
      <4>1. \A i \in DOMAIN commits : c.turn <= commits[i].turn /\ commits[i].turn \in Nat
        BY <1>0, <1>1, <2>2
      <4>2. \A i \in DOMAIN Tail(commits) :
              i + 1 \in DOMAIN commits /\ Tail(commits)[i] = commits[i + 1]
        BY <2>2
      <4>3. \A y \in Nat : c.turn <= y => y >= c.turn
        BY <3>1
      <4>. QED BY <2>1, <4>1, <4>2, <4>3
    <3>. QED BY <1>0, <3>1, <3>2, <3>3 DEF Later
  <2>6. \A i \in DOMAIN jobs' : Later(jobs'[i].turn)
    <3>1. CASE jobs' = jobs
      BY <1>2, <3>1
    <3>2. CASE jobs' = Append(jobs, c)
      <4>1. \A i \in DOMAIN Append(jobs, c) :
              Append(jobs, c)[i] = c \/ (i \in DOMAIN jobs /\ Append(jobs, c)[i] = jobs[i])
        BY <1>0, <2>2
      <4>. QED BY <1>2, <2>5, <3>2, <4>1
    <3>. QED BY <2>1, <3>1, <3>2
  <2>. QED BY <1>2, <1>3a, <1>l, <2>1, <2>2, <2>4, <2>6
<1>6. CASE AnswerOpens
  <2>1. jobs # <<>> /\ jobs' = Tail(jobs) /\ job' = Head(jobs) /\ commits' = commits
    BY <1>6 DEF AnswerOpens
  <2>2. /\ Ascend(Tail(jobs)) /\ Head(jobs) = jobs[1] /\ 1 \in DOMAIN jobs
        /\ \A i \in DOMAIN Tail(jobs) : i + 1 \in DOMAIN jobs /\ Tail(jobs)[i] = jobs[i + 1]
    BY <1>0, <2>1, TailTurns DEF TurnsCome
  <2>3. Later(job'.turn)
    BY <1>2, <2>1, <2>2
  <2>4. \A i \in DOMAIN jobs' : Later(jobs'[i].turn)
    BY <1>2, <2>1, <2>2
  <2>. QED BY <1>3a, <1>l, <2>1, <2>2, <2>3, <2>4
<1>7. CASE AnswerEnds
  <2>1. UNCHANGED <<commits, jobs>> /\ job' = Nobody
    BY <1>7 DEF AnswerEnds
  <2>. QED BY <1>2, <1>3a, <1>l, <2>1
<1>. QED BY <1>3, <1>4, <1>5, <1>6, <1>7 DEF Engine

\* The request that stands is that of the answer in flight.
LEMMA EngineRequestOf ==
  ASSUME Typed, Engine, RequestOf PROVE RequestOf'
<1>1. CASE AnswerOpens
  <2>1. /\ jobs # <<>> /\ job' = Head(jobs) /\ request'.turn = Head(jobs).turn
        /\ request'.rev = Head(jobs).rev
    BY <1>1 DEF AnswerOpens
  <2>2. Head(jobs) \in Turns
    BY <2>1 DEF Typed, EngineTyped
  <2>3. Head(jobs) # Nobody /\ Head(jobs) = [turn |-> Head(jobs).turn, rev |-> Head(jobs).rev]
    BY <2>2 DEF Turns, Positive, Nobody
  <2>. QED BY <2>1, <2>3 DEF RequestOf
<1>2. CASE AnswerEnds
  BY <1>2 DEF AnswerEnds, RequestOf
<1>3. CASE ~AnswerOpens /\ ~AnswerEnds
  BY <1>3 DEF Engine, SpeechStarts, SpeechCommits, TurnFinal, Recognize, AnswerWrites,
              AnswerSpeaks, AnswerSounds, RequestOf
<1>. QED BY <1>1, <1>2, <1>3

\* The answers counted along a longer wire.
LEMMA EngineNumbered ==
  ASSUME Typed, TalkTyped, Engine, Adds, Numbered PROVE Numbered'
<1>1. PICK num : CountsAlong(num)
  BY DEF Numbered
<1>. DEFINE n == Len(wire)
            m == Len(wire')
            new == [k \in 0 .. m |-> IF k <= n THEN num[k] ELSE opened']
<1>0. /\ n \in Nat /\ m \in Nat /\ n <= m /\ DOMAIN wire' = 1 .. m /\ DOMAIN wire = 1 .. n
      /\ \A k \in 1 .. n : wire'[k] = wire[k]
      /\ answer' = answer /\ opened \in Nat /\ opened' \in Nat /\ opened <= opened'
      /\ opened' = opened \/ opened' = opened + 1
  BY DEF Adds, Prefix, TalkTyped
<1>2. /\ num \in [0 .. n -> Nat] /\ num[0] = answer /\ num[n] = opened
      /\ \A i, j \in 0 .. n : i <= j => num[i] <= num[j]
      /\ \A k \in 1 .. n : num[k] = num[k - 1] + (IF wire[k].kind = "created" THEN 1 ELSE 0)
  BY <1>0, <1>1 DEF CountsAlong
<1>. HIDE DEF n, m
<1>3. /\ \A k \in 0 .. n : new[k] = num[k] /\ k \in 0 .. m
      /\ \A k \in 0 .. m : k \in 0 .. n \/ (k > n /\ new[k] = opened')
  BY <1>0
<1>4. new \in [0 .. m -> Nat]
  BY <1>0, <1>2
<1>5. new[0] = answer' /\ 0 \in 0 .. n
  BY <1>0, <1>2
<1>6. new[m] = opened'
  <2>1. CASE m <= n
    <3>1. m = n
      BY <1>0, <2>1
    <3>2. News("created") = {}
      BY <1>0, <3>1 DEF News, m, n
    <3>3. opened' = opened
      BY <3>2 DEF Adds
    <3>. QED BY <1>0, <1>2, <3>1, <3>3
  <2>2. CASE ~(m <= n)
    BY <1>0, <2>2
  <2>. QED BY <2>1, <2>2
<1>. HIDE DEF new
<1>7. ASSUME NEW i \in 0 .. m, NEW j \in 0 .. m, i <= j PROVE new[i] <= new[j]
  <2>1. CASE j \in 0 .. n
    <3>1. i \in 0 .. n
      BY <1>0, <1>7, <2>1
    <3>. QED BY <1>2, <1>3, <1>7, <2>1, <3>1
  <2>2. CASE j > n /\ new[j] = opened'
    <3>1. CASE i \in 0 .. n
      <4>1. num[i] <= num[n] /\ num[i] \in Nat
        BY <1>0, <1>2, <3>1
      <4>. QED BY <1>0, <1>2, <1>3, <2>2, <3>1, <4>1
    <3>2. CASE new[i] = opened'
      BY <1>0, <2>2, <3>2
    <3>. QED BY <1>3, <3>1, <3>2
  <2>. QED BY <1>3, <2>1, <2>2
<1>8. ASSUME NEW k \in 1 .. m
      PROVE  new[k] = new[k - 1] + (IF wire'[k].kind = "created" THEN 1 ELSE 0)
  <2>1. CASE k <= n
    <3>1. k \in 1 .. n /\ k \in 0 .. n /\ k - 1 \in 0 .. n
      BY <1>0, <2>1
    <3>. QED BY <1>0, <1>2, <1>3, <3>1
  <2>2. CASE k > n
    <3>1. k \in 0 .. m /\ k - 1 \in 0 .. m /\ k \notin 0 .. n /\ (k - 1 = n \/ k - 1 \notin 0 .. n)
      BY <1>0, <2>2
    <3>2. new[k] = opened' /\ n \in 0 .. n
      BY <1>0, <1>3, <3>1
    <3>3. new[n] = opened
      BY <1>2, <1>3, <3>2
    <3>4. CASE News("created") = {} /\ opened' = opened
      <4>1. wire'[k].kind # "created"
        BY <1>0, <2>2, <3>4 DEF News, n, m
      <4>2. new[k - 1] = opened
        BY <1>3, <3>1, <3>3, <3>4
      <4>. QED BY <1>0, <3>2, <3>4, <4>1, <4>2
    <3>5. CASE News("created") = {m} /\ opened' = opened + 1 /\ m = n + 1
      <4>1. m \in News("created")
        BY <3>5
      <4>2. wire'[m].kind = "created"
        BY <4>1 DEF News
      <4>3. k = m /\ k - 1 = n
        BY <1>0, <2>2, <3>5
      <4>. QED BY <3>2, <3>3, <3>5, <4>2, <4>3
    <3>. QED BY <3>4, <3>5 DEF Adds, n, m
  <2>. QED BY <1>0, <2>1, <2>2
<1>9. PICK h : h = new
  OBVIOUS
<1>10. CountsAlong(h)'
  <2>1. /\ h \in [0 .. m -> Nat] /\ h[0] = answer' /\ h[m] = opened'
        /\ \A i, j \in 0 .. m : i <= j => h[i] <= h[j]
        /\ \A k \in 1 .. m : h[k] = h[k - 1] + (IF wire'[k].kind = "created" THEN 1 ELSE 0)
    BY <1>4, <1>5, <1>6, <1>7, <1>8, <1>9
  <2>. QED BY <1>0, <2>1 DEF CountsAlong, m
<1>. QED BY <1>10 DEF Numbered

\* The elements of a sequence with one more.
LEMMA RangeAppend ==
  ASSUME NEW T, NEW s \in Seq(T), NEW c \in T
  PROVE  Range(Append(s, c)) = Range(s) \cup {c}
<1>. DEFINE n == Len(s)
            q == Append(s, c)
<1>1. /\ DOMAIN s = 1 .. n /\ DOMAIN q = 1 .. n + 1 /\ q[n + 1] = c /\ n \in Nat
      /\ \A i \in 1 .. n : q[i] = s[i]
  OBVIOUS
<1>2. n + 1 \in 1 .. n + 1 /\ \A i \in 1 .. n : i \in 1 .. n + 1
  BY <1>1
<1>3. \A i \in 1 .. n + 1 : i = n + 1 \/ i \in 1 .. n
  BY <1>1
<1>. HIDE DEF n, q
<1>. QED BY <1>1, <1>2, <1>3 DEF Range, q

\* The elements of a sequence without its first.
LEMMA RangeTail ==
  ASSUME NEW T, NEW s \in Seq(T), s # <<>>
  PROVE  Range(Tail(s)) \subseteq Range(s) /\ Range(s) = Range(Tail(s)) \cup {Head(s)}
<1>. DEFINE n == Len(s)
            q == Tail(s)
<1>1. /\ DOMAIN s = 1 .. n /\ DOMAIN q = 1 .. n - 1 /\ n \in Nat /\ n >= 1
      /\ \A i \in 1 .. n - 1 : q[i] = s[i + 1]
      /\ Head(s) = s[1]
  OBVIOUS
<1>2. /\ \A i \in 1 .. n - 1 : i + 1 \in 1 .. n
      /\ \A i \in 1 .. n : i = 1 \/ (i - 1 \in 1 .. n - 1 /\ (i - 1) + 1 = i)
      /\ 1 \in 1 .. n
  BY <1>1
<1>. HIDE DEF n, q
<1>3. \A i \in 1 .. n : s[i] = s[1] \/ \E k \in 1 .. n - 1 : q[k] = s[i]
  BY <1>1, <1>2
<1>4. \A k \in 1 .. n - 1 : \E i \in 1 .. n : q[k] = s[i]
  BY <1>1, <1>2
<1>5. \A x : x \in Range(q) <=> \E k \in 1 .. n - 1 : q[k] = x
  BY <1>1, Zenon DEF Range
<1>6. \A x : x \in Range(s) <=> \E i \in 1 .. n : s[i] = x
  BY <1>1, Zenon DEF Range
<1>. QED BY <1>1, <1>2, <1>3, <1>4, <1>5, <1>6 DEF q

\* The engine keeps the types of the lists and of the words.
LEMMA EngineTalkTyped ==
  ASSUME Typed, Engine, Adds, TalkTyped PROVE TalkTyped'
<1>1. UNCHANGED <<history, user_item, known, outbox, sending>>
  BY DEF Adds
<1>2. heard_words' \subseteq Turns
  <2>1. CASE heard_words' = heard_words
    BY <2>1 DEF TalkTyped
  <2>2. CASE Hears
    <3>1. Head(commits) \in Turns
      BY <2>2 DEF Hears, Typed, EngineTyped
    <3>. QED BY <2>2, <3>1 DEF Hears, TalkTyped
  <2>. QED BY <2>1, <2>2 DEF Adds
<1>3. opened' \in Nat
  BY DEF Adds, TalkTyped
<1>. QED BY <1>1, <1>2, <1>3 DEF TalkTyped

\* A job is not lost before an answer to it opens.
LEMMA EngineJobs ==
  ASSUME Typed, Adds
  PROVE  \/ News("created") = {} /\ opened' = opened /\ Range(jobs) \subseteq Range(jobs')
         \/ /\ News("created") = {Len(wire')} /\ opened' = opened + 1 /\ heard_words' = heard_words
            /\ Len(wire') = Len(wire) + 1
<1>0. jobs \in Seq(Turns)
  BY DEF Typed, EngineTyped
<1>1. CASE Hears
  <2>1. Head(commits) \in Turns /\ jobs' = Append(jobs, Head(commits))
    BY <1>1 DEF Hears, Typed, EngineTyped
  <2>. DEFINE c == Head(commits)
  <2>. HIDE DEF c
  <2>2. Range(Append(jobs, c)) = Range(jobs) \cup {c}
    BY <1>0, <2>1, RangeAppend DEF c
  <2>3. News("created") = {}
    <3>1. wire'[Len(wire')].kind = "transcript"
      BY <1>1 DEF Hears
    <3>2. Len(wire') \notin News("created")
      BY <3>1 DEF News
    <3>. QED BY <3>2 DEF Adds
  <2>4. opened' = opened
    BY <2>3 DEF Adds
  <2>. QED BY <2>1, <2>2, <2>3, <2>4 DEF c
<1>2. CASE ~Hears
  BY <1>2 DEF Adds
<1>. QED BY <1>1, <1>2

\* What was heard waits on the wire or stands in the history, whatever the engine adds.
LEMMA EngineWords ==
  ASSUME Typed, Engine, Adds, TalkTyped, WordsInv PROVE WordsInv'
<1>0. /\ Prefix /\ DOMAIN wire' = 1 .. Len(wire') /\ DOMAIN wire = 1 .. Len(wire)
      /\ Len(wire) \in Nat /\ Len(wire') \in Nat /\ Len(wire) <= Len(wire')
      /\ history' = history
  BY DEF Adds, Prefix
<1>p. \A k \in DOMAIN wire : k \in DOMAIN wire' /\ wire'[k] = wire[k] /\ k <= Len(wire)
  BY <1>0 DEF Prefix
<1>1. CASE heard_words' = heard_words /\ News("transcript") = {}
  <2>1. \A k \in DOMAIN wire' : wire'[k].kind = "transcript" => k \in DOMAIN wire
    BY <1>0, <1>1 DEF News
  <2>2. \A t : Waits(t)' <=> Waits(t)
    BY <1>p, <2>1 DEF Waits, Transcript
  <2>3. \A q, t, r : LastOf(q, t, r) => LastOf(q, t, r)'
    BY <1>p, <2>1 DEF LastOf, Transcript
  <2>4. ASSUME NEW w \in heard_words', Waits(w.turn)'
        PROVE  \E q \in DOMAIN wire' : LastOf(q, w.turn, w.rev)'
    <3>1. w \in heard_words /\ Waits(w.turn)
      BY <1>1, <2>2, <2>4
    <3>2. PICK q \in DOMAIN wire : LastOf(q, w.turn, w.rev)
      BY <3>1 DEF WordsInv
    <3>. QED BY <1>p, <2>3, <3>2
  <2>5. ASSUME NEW w \in heard_words', ~Waits(w.turn)' PROVE In(w, history')
    BY <1>0, <1>1, <2>2, <2>5 DEF WordsInv
  <2>6. ASSUME NEW w \in heard_words', w \notin Range(jobs'),
               NEW q \in DOMAIN wire', wire'[q].kind = "transcript", wire'[q].turn = w.turn
        PROVE  \E c \in q + 1 .. Len(wire') : wire'[c].kind = "created"
    <3>1. q \in DOMAIN wire /\ wire'[q] = wire[q] /\ q \in Nat /\ q <= Len(wire)
      BY <1>0, <1>p, <2>1, <2>6
    <3>2. CASE Range(jobs) \subseteq Range(jobs')
      <4>1. w \notin Range(jobs) /\ w \in heard_words
        BY <1>1, <2>6, <3>2
      <4>2. PICK c \in q + 1 .. Len(wire) : wire[c].kind = "created"
        BY <2>6, <3>1, <4>1 DEF WordsInv, Transcript
      <4>3. c \in DOMAIN wire /\ c \in q + 1 .. Len(wire')
        BY <1>0, <3>1
      <4>. QED BY <1>p, <4>2, <4>3
    <3>3. CASE News("created") = {Len(wire')} /\ Len(wire') = Len(wire) + 1
      <4>1. Len(wire') \in News("created")
        BY <3>3
      <4>2. wire'[Len(wire')].kind = "created"
        BY <4>1 DEF News
      <4>3. Len(wire') \in q + 1 .. Len(wire')
        BY <1>0, <3>1, <3>3
      <4>. QED BY <4>2, <4>3
    <3>. QED BY <3>2, <3>3, EngineJobs
  <2>. QED BY <2>4, <2>5, <2>6 DEF WordsInv, Transcript, In
<1>2. CASE News("transcript") = {Len(wire')} /\ Hears
  <2>0. PICK c, e : c = Head(commits) /\ e = Len(wire')
    OBVIOUS
  <2>1. /\ e = Len(wire) + 1 /\ e \in DOMAIN wire' /\ e \notin DOMAIN wire
        /\ wire'[e].turn = c.turn /\ wire'[e].rev = c.rev /\ wire'[e].kind = "transcript"
        /\ jobs' = Append(jobs, c) /\ jobs \in Seq(Turns) /\ c \in Turns
        /\ heard_words' = {w \in heard_words : w.turn # c.turn} \cup {c}
    BY <1>0, <1>2, <2>0 DEF Hears, Typed, EngineTyped
  <2>2. \A k \in DOMAIN wire' : k = e \/ k \in DOMAIN wire
    BY <1>0, <2>0, <2>1
  <2>3. \A t : t # c.turn => (Waits(t)' <=> Waits(t))
    BY <1>p, <2>1, <2>2 DEF Waits, Transcript
  <2>4. \A q, t, r : t # c.turn /\ LastOf(q, t, r) => LastOf(q, t, r)'
    BY <1>p, <2>1, <2>2 DEF LastOf, Transcript
  <2>5. LastOf(e, c.turn, c.rev)' /\ Waits(c.turn)'
    <3>1. \A k \in DOMAIN wire' : ~(k > e)
      BY <1>0, <2>0
    <3>. QED BY <2>1, <3>1 DEF LastOf, Transcript, Waits
  <2>6. Range(jobs') = Range(jobs) \cup {c}
    BY <2>1, RangeAppend
  <2>7. ASSUME NEW w \in heard_words' PROVE w = c \/ (w.turn # c.turn /\ w \in heard_words)
    BY <2>1
  <2>8. ASSUME NEW w \in heard_words', Waits(w.turn)'
        PROVE  \E q \in DOMAIN wire' : LastOf(q, w.turn, w.rev)'
    <3>1. CASE w = c
      BY <2>1, <2>5, <3>1
    <3>2. CASE w.turn # c.turn /\ w \in heard_words
      <4>1. PICK q \in DOMAIN wire : LastOf(q, w.turn, w.rev)
        BY <2>3, <2>8, <3>2 DEF WordsInv
      <4>. QED BY <1>p, <2>4, <3>2, <4>1
    <3>. QED BY <2>7, <3>1, <3>2
  <2>9. ASSUME NEW w \in heard_words', ~Waits(w.turn)' PROVE In(w, history')
    <3>1. w.turn # c.turn /\ w \in heard_words
      BY <2>5, <2>7, <2>9
    <3>. QED BY <1>0, <2>3, <2>9, <3>1 DEF WordsInv
  <2>10. ASSUME NEW w \in heard_words', w \notin Range(jobs'),
                NEW q \in DOMAIN wire', wire'[q].kind = "transcript", wire'[q].turn = w.turn
         PROVE  \E d \in q + 1 .. Len(wire') : wire'[d].kind = "created"
    <3>1. w # c /\ w \notin Range(jobs)
      BY <2>6, <2>10
    <3>2. w.turn # c.turn /\ w \in heard_words
      BY <2>7, <3>1
    <3>3. q \in DOMAIN wire /\ wire'[q] = wire[q] /\ q \in Nat
      BY <1>0, <1>p, <2>1, <2>2, <2>10, <3>2
    <3>4. PICK d \in q + 1 .. Len(wire) : wire[d].kind = "created"
      BY <2>10, <3>1, <3>2, <3>3 DEF WordsInv, Transcript
    <3>5. d \in DOMAIN wire /\ d \in q + 1 .. Len(wire')
      BY <1>0, <3>3
    <3>. QED BY <1>p, <3>4, <3>5
  <2>. QED BY <2>8, <2>9, <2>10 DEF WordsInv, Transcript, In
<1>. QED BY <1>1, <1>2 DEF Adds

\* What counted answers tell of frames that open one.
LEMMA CountedFrames ==
  ASSUME Typed, Numbered
  PROVE  /\ answer \in Nat /\ opened \in Nat /\ answer <= opened
         /\ \A k \in DOMAIN wire : wire[k].kind = "created" => answer < opened
<1>1. PICK num : CountsAlong(num)
  BY DEF Numbered
<1>2. /\ Len(wire) \in Nat /\ DOMAIN wire = 1 .. Len(wire)
      /\ num \in [0 .. Len(wire) -> Nat] /\ num[0] = answer /\ num[Len(wire)] = opened
      /\ \A i, j \in 0 .. Len(wire) : i <= j => num[i] <= num[j]
  BY <1>1 DEF CountsAlong, Typed, EngineTyped
<1>3. 0 \in 0 .. Len(wire) /\ Len(wire) \in 0 .. Len(wire) /\ 0 <= Len(wire)
  BY <1>2
<1>4. answer \in Nat /\ opened \in Nat /\ answer <= opened
  BY <1>2, <1>3
<1>5. ASSUME NEW k \in DOMAIN wire, wire[k].kind = "created" PROVE answer < opened
  <2>1. k \in 0 .. Len(wire) /\ k - 1 \in 0 .. Len(wire) /\ 0 <= k - 1 /\ k <= Len(wire)
    BY <1>2
  <2>2. num[k] = num[k - 1] + 1
    BY <1>1, <1>5 DEF CountsAlong
  <2>3. num[0] <= num[k - 1] /\ num[k] <= num[Len(wire)]
    BY <1>2, <1>3, <2>1
  <2>4. num[k - 1] \in Nat /\ num[k] \in Nat
    BY <1>2, <2>1
  <2>. QED BY <1>2, <1>4, <2>2, <2>3, <2>4
<1>. QED BY <1>4, <1>5

\* A list keeps its promise when the engine goes on: a word that is new waits to be answered,
\* and when an answer opens no list tells of it yet.
LEMMA EngineLists ==
  ASSUME Typed, Engine, Adds, TalkTyped, Numbered, ListsInv PROVE ListsInv'
<1>1. UNCHANGED <<known, outbox, sending, answer>>
  BY DEF Adds
<1>2. turn \in Nat /\ turn' \in Nat /\ turn <= turn'
  BY EngineTurnGrows DEF Typed, EngineTyped
<1>3. Lists' = Lists
  BY <1>1 DEF Lists
<1>4. ASSUME NEW l \in Lists PROVE ListInv(l)'
  <2>1. ListInv(l) /\ l \in Listed
    <3>1. l \in Listed
      BY DEF Lists, Range, TalkTyped
    <3>. QED BY <3>1 DEF ListsInv
  <2>2. UpToItem(l.list, turn')
    <3>1. \A i \in Users(l.list) : l.list[i].item \in Nat
      <4>1. l.list \in Seq(Message)
        BY <2>1 DEF Listed
      <4>2. \A i \in DOMAIN l.list : l.list[i] \in Message
        BY <4>1
      <4>3. \A i \in DOMAIN l.list : l.list[i] \in Asked
        BY <4>2, MessageIsAsked
      <4>. QED BY <4>3 DEF Users, Asked
    <3>. QED BY <1>2, <2>1, <3>1 DEF ListInv, UpToItem
  <2>3. l.after = opened' => \A w \in heard_words' : w \in Range(jobs') \/ In(w, l.list)
    <3>1. CASE opened' = opened /\ Range(jobs) \subseteq Range(jobs')
      <4>1. ASSUME NEW w \in heard_words', w \notin heard_words PROVE w \in Range(jobs')
        <5>1. Hears
          BY <4>1 DEF Adds
        <5>2. w = Head(commits) /\ jobs' = Append(jobs, w) /\ w \in Turns /\ jobs \in Seq(Turns)
          BY <4>1, <5>1 DEF Hears, Typed, EngineTyped
        <5>. QED BY <5>2, RangeAppend
      <4>. QED BY <2>1, <3>1, <4>1 DEF ListInv
    <3>2. CASE opened' = opened + 1
      <4>1. answer <= opened /\ answer \in Nat /\ opened \in Nat
        BY CountedFrames
      <4>2. l.after <= answer /\ l.after \in Nat
        BY <2>1 DEF ListInv, Listed
      <4>. QED BY <3>2, <4>1, <4>2
    <3>. QED BY <3>1, <3>2, EngineJobs
  <2>4. l.after <= answer'
    BY <1>1, <2>1 DEF ListInv
  <2>. QED BY <2>1, <2>2, <2>3, <2>4 DEF ListInv, UpToItem, In, Rising
<1>. QED BY <1>3, <1>4 DEF ListsInv

\* The engine keeps TalkInv.
LEMMA EngineTalk ==
  ASSUME Typed, TurnsInOrder, Engine, TalkInv PROVE TalkInv'
<1>1. Adds
  BY EngineAdds
<1>2. TalkTyped' /\ WireTurns' /\ TurnsCome'
  BY <1>1, EngineTalkTyped, EngineWireTurns, EngineTurnsCome DEF TalkInv
<1>3. HistoryInv'
  BY <1>1 DEF Adds, TalkInv, HistoryInv, LastIs, Rising, UpToItem
<1>4. WordsInv' /\ ListsInv'
  BY <1>1, EngineWords, EngineLists DEF TalkInv
<1>5. Numbered' /\ RequestOf'
  BY <1>1, EngineNumbered, EngineRequestOf DEF TalkInv
<1>. QED BY <1>2, <1>3, <1>4, <1>5 DEF TalkInv

(* ------------------------- what a request says ------------------------- *)

Informs(r, words) ==
  r.informed => \A w \in words : w.turn < r.turn =>
                  \E i \in Users(r.messages) : w \in Range(r.messages[i].words)
Says(r, rise, words) ==
  r # NoRequest => Orderly(r.messages, rise, r.turn, r.rev) /\ Informs(r, words)

\* RequestSaysTurns as a predicate of the request, of whether it rises and of the words heard.
LEMMA SaysIs ==
  /\ RequestSaysTurns <=> Says(request, ~void, heard_words)
  /\ RequestSaysTurns' <=> Says(request', ~void', heard_words')
<1>1. RequestSaysTurns <=> Says(request, ~void, heard_words)
  BY Zenon DEF RequestSaysTurns, Says, Orderly, Informs, Apart
<1>2. RequestSaysTurns' <=> Says(request', ~void', heard_words')
  BY Zenon DEF RequestSaysTurns, Says, Orderly, Informs, Apart, Users
<1>. QED BY <1>1, <1>2

\* A request made of a list that keeps its promise says the turns, and one that stands goes on
\* saying them.
LEMMA EngineSays ==
  ASSUME Typed, TurnsInOrder, Engine, TalkInv, RequestSaysTurns PROVE RequestSaysTurns'
<1>0. Says(request, ~void, heard_words)
  BY SaysIs
<1>1. CASE AnswerOpens
  <2>. DEFINE j == Head(jobs)
              ms == Messages(known.list, j.turn, j.rev)
              informed == known.after = opened
  <2>1. /\ jobs # <<>> /\ void' = (j # Latest) /\ heard_words' = heard_words
        /\ request' = [turn |-> j.turn, rev |-> j.rev, messages |-> ms, informed |-> informed]
    BY <1>1, Zenon DEF AnswerOpens
  <2>2. jobs \in Seq(Turns) /\ turn \in Nat
    BY DEF Typed, EngineTyped
  <2>3. /\ j = jobs[1] /\ j \in Turns /\ j.turn \in Positive /\ j.rev \in Nat
        /\ \A i \in DOMAIN jobs : j.turn <= jobs[i].turn
    <3>1. j = jobs[1] /\ j \in Turns /\ \A i \in DOMAIN jobs : j.turn <= jobs[i].turn
      BY <2>1, <2>2, TailTurns DEF TalkInv, TurnsCome
    <3>. HIDE DEF j
    <3>. QED BY <3>1 DEF Turns
  <2>4. known \in Listed /\ ListInv(known)
    BY DEF TalkInv, TalkTyped, ListsInv, Lists
  <2>5. known.list \in Seq(Message) /\ Rising(known.list) /\ UpToItem(known.list, turn)
    BY <2>4 DEF Listed, ListInv
  <2>6. ~void' => \A i \in Users(known.list) : known.list[i].item <= j.turn
    <3>1. j = Latest => j.turn = turn
      BY DEF Latest
    <3>. QED BY <2>1, <2>5, <3>1 DEF UpToItem
  <2>. DEFINE l == known.list
              t == j.turn
              r == j.rev
              rise == ~void'
  <2>7. Orderly(ms, rise, t, r) /\ Covers(ms, l, t)
    <3>1. l \in Seq(Message) /\ Rising(l) /\ t \in Positive /\ r \in Nat
      BY <2>3, <2>5
    <3>2. rise => \A i \in Users(l) : l[i].item <= t
      BY <2>6
    <3>3. ms = Messages(l, t, r)
      OBVIOUS
    <3>. HIDE DEF l, t, r, rise, ms
    <3>. QED BY <3>1, <3>2, <3>3, RequestIsOrderly
  <2>8. ASSUME informed, NEW w \in heard_words, w.turn < t
        PROVE  \E i \in Users(ms) : w \in Range(ms[i].words)
    <3>1. w \in Turns
      BY DEF TalkInv, TalkTyped
    <3>2. w \in WordSet /\ w.turn \in Nat /\ t \in Nat
      <4>1. w \in WordSet /\ w.turn \in Nat
        BY <3>1 DEF WordSet, Turns, Positive
      <4>2. \A x \in Positive : x \in Nat
        BY DEF Positive
      <4>. QED BY <2>3, <4>1, <4>2
    <3>. HIDE DEF ms
    <3>3. w \notin Range(jobs)
      <4>1. ASSUME w \in Range(jobs) PROVE FALSE
        <5>1. PICK i \in DOMAIN jobs : jobs[i] = w
          BY <4>1 DEF Range
        <5>2. t <= w.turn
          BY <2>3, <5>1
        <5>. HIDE DEF t
        <5>. QED BY <2>8, <3>2, <5>2
      <4>. QED BY <4>1
    <3>4. In(w, l) /\ w.turn # t
      <4>1. In(w, l)
        BY <2>4, <2>8, <3>3 DEF ListInv
      <4>. HIDE DEF t
      <4>. QED BY <2>8, <3>2, <4>1
    <3>. QED BY <2>7, <3>2, <3>4 DEF Covers
  <2>. HIDE DEF ms, l, t, r, rise, informed
  <2>9. /\ request'.messages = ms /\ request'.turn = t /\ request'.rev = r
        /\ request'.informed = informed
    BY <2>1 DEF t, r
  <2>10. Informs(request', heard_words')
    BY <2>1, <2>8, <2>9, Zenon DEF Informs
  <2>11. Says(request', rise, heard_words')
    BY <2>7, <2>9, <2>10, Zenon DEF Says
  <2>. QED BY <2>11, SaysIs DEF rise
<1>2. CASE AnswerEnds
  <2>1. request' = NoRequest
    BY <1>2 DEF AnswerEnds
  <2>2. Says(request', ~void', heard_words')
    BY <2>1 DEF Says
  <2>. QED BY <2>2, SaysIs
<1>3. CASE SpeechStarts
  <2>1. UNCHANGED <<request, heard_words>> /\ void' = (job # Nobody)
    BY <1>3 DEF SpeechStarts
  <2>2. request # NoRequest => void'
    BY <2>1 DEF TalkInv, RequestOf
  <2>3. \A m, t, r, x, y : ~y /\ Orderly(m, x, t, r) => Orderly(m, y, t, r)
    BY DEF Orderly
  <2>4. Says(request', ~void', heard_words')
    <3>1. request # NoRequest => Orderly(request.messages, ~void, request.turn, request.rev)
      BY <1>0 DEF Says
    <3>. DEFINE y == ~void'
    <3>2. request # NoRequest => ~y
      BY <2>2
    <3>. HIDE DEF y
    <3>3. request # NoRequest => Orderly(request.messages, y, request.turn, request.rev)
      BY <2>3, <3>1, <3>2, Zenon
    <3>4. Says(request', y, heard_words')
      BY <1>0, <2>1, <3>3 DEF Says
    <3>. QED BY <3>4 DEF y
  <2>. QED BY <2>4, SaysIs
<1>4. CASE Recognize
  <2>1. UNCHANGED <<request, void>>
    BY <1>4 DEF Recognize
  <2>2. ASSUME request # NoRequest, NEW w \in heard_words', w \notin heard_words
        PROVE  ~(w.turn < request.turn)
    <3>1. commits # <<>> /\ w = Head(commits)
      BY <1>4, <2>2 DEF Recognize
    <3>2. job # Nobody /\ job.turn = request.turn
      BY <2>2 DEF TalkInv, RequestOf
    <3>3. Coming(job.turn) /\ job \in Turns
      BY <3>2 DEF TalkInv, TurnsCome, Typed, EngineTyped
    <3>4. w \in Turns /\ w.turn >= request.turn
      BY <3>1, <3>2, <3>3, HeadComes
    <3>5. w.turn \in Nat /\ job.turn \in Nat
      BY <3>3, <3>4 DEF Turns, Positive
    <3>. QED BY <3>2, <3>4, <3>5
  <2>3. Says(request', ~void', heard_words')
    <3>1. request # NoRequest => Informs(request, heard_words')
      BY <1>0, <2>2 DEF Says, Informs
    <3>. QED BY <1>0, <2>1, <3>1 DEF Says
  <2>. QED BY <2>3, SaysIs
<1>5. CASE SpeechCommits \/ TurnFinal \/ AnswerWrites \/ AnswerSpeaks \/ AnswerSounds
  <2>1. UNCHANGED <<request, void, heard_words>>
    BY <1>5 DEF SpeechCommits, TurnFinal, AnswerWrites, AnswerSpeaks, AnswerSounds
  <2>2. Says(request', ~void', heard_words')
    BY <1>0, <2>1
  <2>. QED BY <2>2, SaysIs
<1>. QED BY <1>1, <1>2, <1>3, <1>4, <1>5 DEF Engine

(* ---------------------- the writer takes a frame ----------------------- *)

\* What a close makes of the history.
Files ==
  \/ history' = history
  \/ units # <<>> /\ history' = Append(history, Answered(answer)) /\ units' = <<>>

\* No units, none that started.
LEMMA NothingStarted ==
  ASSUME units = <<>> PROVE Started = {}
BY DEF Started, Range

\* A frame of a turn is taken.
Transcribes ==
  LET f == wire[1] IN
    /\ f.kind = "transcript" /\ UNCHANGED <<units, answer, outbox>>
    /\ user_item' = f.turn
    /\ history' = Append(IF Revises(f.turn) THEN Front(history) ELSE history, Said(f.turn, f.rev))
\* Another frame is taken.
Goes ==
  /\ wire[1].kind # "transcript" /\ user_item' = user_item /\ Files
  /\ outbox' = outbox \/ outbox' = Append(outbox, [list |-> history', after |-> answer])
  /\ answer' = IF wire[1].kind = "created" THEN answer + 1 ELSE answer
  /\ units' = <<>> \/ units' = units \/ wire[1].kind = "unit"
  /\ wire[1].kind = "started" => units' = <<>>

\* A close files the answer or nothing, and hands over the history it leaves.
LEMMA CloseFiles ==
  ASSUME FileAnswer PROVE Files /\ Handed = [list |-> history', after |-> answer] /\ units' = <<>>
<1>1. history' = Filed /\ units' = <<>>
  BY DEF FileAnswer
<1>2. CASE Started = {}
  BY <1>1, <1>2 DEF Filed, Handed, Files
<1>3. CASE Started # {}
  <2>1. units # <<>>
    BY <1>3, NothingStarted
  <2>. QED BY <1>1, <1>3, <2>1 DEF Filed, Handed, Files
<1>. QED BY <1>2, <1>3

\* A step of the writer takes no frame, a transcript, or a frame of another kind.
LEMMA WriterTalks ==
  ASSUME Typed, WriterInv, CardInv, Writer
  PROVE  /\ UNCHANGED <<engine, known, sending, heard_words, request>>
         /\ \/ UNCHANGED <<wire, history, user_item, units, answer, outbox>>
            \/ wire # <<>> /\ wire' = Tail(wire) /\ (Transcribes \/ Goes)
<1>1. UNCHANGED <<engine, known, sending, heard_words, request>>
  BY DEF Writer, Deliver, OnStarted, OnTranscript, OnCreated, OnText, OnUnit, OnAudio, OnCancelled,
         OnDone, Flushed, WriterRest
<1>u. ~answering => units = <<>>
  BY DEF CardInv
<1>h. wire # <<>> => Head(wire) = wire[1]
  BY DEF Typed, EngineTyped
<1>2. CASE OnStarted \/ OnCancelled
  <2>1. /\ UNCHANGED <<history, user_item, units, answer, outbox>>
        /\ wire # <<>> /\ Head(wire).kind # "transcript" /\ Head(wire).kind # "created"
    BY <1>2 DEF OnStarted, OnCancelled, NoClose, FilesNothing, SameAnswer, Delivers
  <2>2. wire' = wire \/ (wire' = Tail(wire) /\ ~answering)
    BY <1>2 DEF OnStarted, OnCancelled, Handled
  <2>3. ~answering => Goes
    BY <1>h, <1>u, <2>1 DEF Goes, Files
  <2>. QED BY <1>1, <2>1, <2>2, <2>3
<1>3. CASE OnTranscript
  <2>1. /\ wire # <<>> /\ Head(wire).kind = "transcript" /\ wire' = Tail(wire)
        /\ UNCHANGED <<units, answer, outbox>> /\ user_item' = Head(wire).turn
        /\ history' = Append(IF Revises(Head(wire).turn) THEN Front(history) ELSE history,
                             Said(Head(wire).turn, Head(wire).rev))
    BY <1>3, Zenon DEF OnTranscript, Delivers, Handled, SameAnswer
  <2>2. Transcribes
    BY <1>h, <2>1, Zenon DEF Transcribes
  <2>. QED BY <1>1, <2>1, <2>2
<1>4. CASE OnCreated
  <2>1. /\ wire # <<>> /\ Head(wire).kind = "created" /\ wire' = Tail(wire)
        /\ user_item' = user_item /\ answer' = answer + 1
    BY <1>4 DEF OnCreated, Delivers, Handled
  <2>2. CASE answering
    <3>1. FileAnswer /\ outbox' = Append(outbox, Handed)
      BY <1>4, <2>2 DEF OnCreated
    <3>2. Goes
      BY <1>h, <2>1, <3>1, CloseFiles DEF Goes
    <3>. QED BY <1>1, <2>1, <3>2
  <2>3. CASE ~answering
    <3>1. UNCHANGED <<history, units, outbox>>
      BY <1>4, <2>3 DEF OnCreated, FilesNothing
    <3>2. Goes
      BY <1>h, <2>1, <3>1 DEF Goes, Files
    <3>. QED BY <1>1, <2>1, <3>2
  <2>. QED BY <2>2, <2>3
<1>5. CASE OnText \/ OnUnit \/ OnAudio \/ OnDone
  <2>1. /\ wire # <<>> /\ Head(wire).kind \in {"text", "tool", "unit", "audio", "done"}
        /\ wire' = Tail(wire) /\ UNCHANGED <<user_item, answer, history, outbox>>
    BY <1>5 DEF OnText, OnUnit, OnAudio, OnDone, Delivers, Handled, SameAnswer, NoClose,
                FilesNothing
  <2>2. units' = units \/ Head(wire).kind = "unit"
    BY <1>5 DEF OnText, OnUnit, OnAudio, OnDone, Delivers, NoClose, FilesNothing
  <2>3. Goes
    BY <1>h, <2>1, <2>2 DEF Goes, Files
  <2>. QED BY <1>1, <2>1, <2>3
<1>6. CASE Flushed
  <2>1. /\ writer = "flushing" /\ wire' = Tail(wire) /\ UNCHANGED <<user_item, answer>>
    BY <1>6 DEF Flushed, Handled, SameAnswer
  <2>2. wire # <<>> /\ wire[1].kind \in {"started", "cancelled"}
    BY <2>1 DEF Typed, WriterInv, Ends
  <2>3. CASE answering
    <3>1. FileAnswer /\ outbox' = Append(outbox, Handed)
      BY <1>6, <2>3 DEF Flushed, Closes
    <3>2. Goes
      BY <2>1, <2>2, <3>1, CloseFiles DEF Goes
    <3>. QED BY <1>1, <2>1, <2>2, <3>2
  <2>4. CASE ~answering
    <3>1. UNCHANGED <<history, units, outbox>>
      BY <1>6, <2>4 DEF Flushed, NoClose, FilesNothing
    <3>2. Goes
      BY <1>u, <2>1, <2>2, <2>4, <3>1 DEF Goes, Files
    <3>. QED BY <1>1, <2>1, <2>2, <3>2
  <2>. QED BY <2>3, <2>4
<1>. QED BY <1>2, <1>3, <1>4, <1>5, <1>6 DEF Writer, Deliver

Shifted ==
  /\ wire # <<>> /\ wire' = Tail(wire) /\ UNCHANGED engine

\* The wire without its first frame.
LEMMA Shift ==
  ASSUME Typed, Shifted
  PROVE  /\ DOMAIN wire = 1 .. Len(wire) /\ Len(wire) \in Nat /\ Len(wire) >= 1
         /\ DOMAIN wire' = 1 .. Len(wire') /\ Len(wire') = Len(wire) - 1
         /\ \A k \in DOMAIN wire' : k + 1 \in DOMAIN wire /\ wire'[k] = wire[k + 1]
         /\ \A k \in DOMAIN wire : k = 1 \/ (k - 1 \in DOMAIN wire' /\ wire'[k - 1] = wire[k])
BY DEF Typed, EngineTyped, Shifted

\* The turns that follow a place, when the first frame was taken.
LEMMA FromShift ==
  ASSUME Typed, Shifted, NEW n
  PROVE  /\ From(0, n) => From(0, n)'
         /\ \A j \in Nat : From(j + 1, n) => From(j, n)'
<1>1. Coming(n)' <=> Coming(n)
  BY DEF Coming, Shifted, engine
<1>2. \A k \in DOMAIN wire' :
        k \in Nat /\ k + 1 \in DOMAIN wire /\ wire'[k] = wire[k + 1] /\ k + 1 > 0
  BY Shift
<1>3. From(0, n) => From(0, n)'
  BY <1>1, <1>2 DEF From, Transcript
<1>4. ASSUME NEW j \in Nat, From(j + 1, n) PROVE From(j, n)'
  <2>1. \A k \in Nat : k > j => k + 1 > j + 1
    OBVIOUS
  <2>. QED BY <1>1, <1>2, <1>4, <2>1 DEF From, Transcript
<1>. QED BY <1>3, <1>4

\* A fenced place, when the first frame was taken.
LEMMA FencedShift ==
  ASSUME Typed, Shifted
  PROVE  /\ Fenced(0) /\ wire[1].kind # "started" => Fenced(0)'
         /\ \A j \in Nat : Fenced(j + 1) => Fenced(j)'
<1>0. user' = user /\ commits' = commits
  BY DEF Shifted, engine
<1>2. ASSUME NEW j \in Nat, NEW i \in Nat,
             i = j + 1 \/ (j = 0 /\ i = 0 /\ wire[1].kind # "started"),
             Fenced(i)
      PROVE  Fenced(j)'
  <2>1. ASSUME NEW k \in DOMAIN wire', k > j, wire'[k].kind = "transcript"
        PROVE  \E s \in j + 1 .. k - 1 : wire'[s].kind = "started"
    <3>1. k + 1 \in DOMAIN wire /\ wire[k + 1].kind = "transcript" /\ k + 1 > i /\ k \in Nat
      BY <1>2, <2>1, Shift
    <3>2. PICK s \in i + 1 .. (k + 1) - 1 : wire[s].kind = "started"
      BY <1>2, <3>1 DEF Fenced, Transcript
    <3>3. s \in DOMAIN wire /\ s # 1 /\ s - 1 \in j + 1 .. k - 1
      <4>1. s # 1
        BY <1>2, <3>1, <3>2
      <4>2. s \in 1 .. k /\ k \in 1 .. Len(wire)
        BY <1>2, <3>1, Shift
      <4>3. s - 1 \in j + 1 .. k - 1
        BY <1>2, <3>1, <4>1, <4>2
      <4>. QED BY <4>1, <4>2, <4>3, Shift
    <3>4. wire'[s - 1] = wire[s]
      BY <3>3, Shift
    <3>. QED BY <3>2, <3>3, <3>4
  <2>2. CASE user = "final" /\ commits = <<>>
    BY <1>0, <2>1, <2>2 DEF Fenced, Transcript
  <2>3. CASE \E s \in i + 1 .. Len(wire) : wire[s].kind = "started"
    <3>1. PICK s \in i + 1 .. Len(wire) : wire[s].kind = "started"
      BY <2>3
    <3>2. s \in DOMAIN wire /\ s # 1 /\ s - 1 \in j + 1 .. Len(wire')
      <4>1. s # 1
        BY <1>2, <3>1
      <4>2. s \in 1 .. Len(wire) /\ Len(wire) \in Nat /\ Len(wire') = Len(wire) - 1
        <5>1. Len(wire) \in Nat /\ Len(wire') = Len(wire) - 1
          BY Shift
        <5>2. i \in Nat /\ s \in i + 1 .. Len(wire)
          OBVIOUS
        <5>. QED BY <5>1, <5>2
      <4>3. s \in DOMAIN wire
        BY <4>2, Shift
      <4>4. s - 1 \in j + 1 .. Len(wire')
        BY <1>2, <4>1, <4>2
      <4>. QED BY <4>1, <4>3, <4>4
    <3>3. wire'[s - 1] = wire[s]
      BY <3>2, Shift
    <3>. QED BY <2>1, <3>1, <3>2, <3>3 DEF Fenced, Transcript
  <2>. QED BY <1>2, <2>2, <2>3 DEF Fenced
<1>. QED BY <1>2

\* A list with one message more.
LEMMA ListGrows ==
  ASSUME NEW s \in Seq(Message), NEW e \in Message
  PROVE  LET q == Append(s, e) IN
         /\ q \in Seq(Message) /\ q # <<>> /\ q[Len(q)] = e
         /\ \A i \in Users(s) : i \in Users(q) /\ q[i] = s[i] /\ i \in 1 .. Len(s) /\ i < Len(q)
         /\ \A i \in Users(q) : i = Len(q) \/ i \in Users(s)
         /\ \A w : In(w, s) => In(w, q)
<1>. DEFINE n == Len(s)
            p == n + 1
            q == Append(s, e)
<1>1. /\ n \in Nat /\ DOMAIN q = 1 .. p /\ q[p] = e /\ DOMAIN s = 1 .. n /\ Len(q) = p
      /\ \A i \in 1 .. n : q[i] = s[i]
      /\ q \in Seq(Message) /\ q # <<>>
  OBVIOUS
<1>2. \A i \in 1 .. p : i = p \/ i \in 1 .. n
  BY <1>1
<1>3. \A i \in 1 .. n : i \in 1 .. p /\ i < p
  BY <1>1
<1>. HIDE DEF n, p, q
<1>4. \A i \in Users(s) : i \in Users(q) /\ q[i] = s[i] /\ i \in 1 .. n /\ i < p
  BY <1>1, <1>3 DEF Users
<1>5. \A i \in Users(q) : i = p \/ i \in Users(s)
  BY <1>1, <1>2 DEF Users
<1>6. \A w : In(w, s) => In(w, q)
  BY <1>1, <1>3 DEF In
<1>. QED BY <1>1, <1>4, <1>5, <1>6 DEF n, p, q

\* A list of messages has numbers for its items.
LEMMA ListItems ==
  ASSUME NEW s \in Seq(Message)
  PROVE  \A i \in Users(s) :
           s[i] \in Message /\ s[i].item \in Positive /\ s[i].item \in Nat /\ i \in 1 .. Len(s)
<1>1. \A i \in Users(s) : i \in DOMAIN s /\ s[i].role = "user"
  BY DEF Users
<1>2. \A i \in DOMAIN s : s[i] \in Message /\ i \in 1 .. Len(s)
  OBVIOUS
<1>3. \A i \in Users(s) : s[i] \in Message /\ s[i].item \in Positive /\ i \in 1 .. Len(s)
  BY <1>1, <1>2, MessageIsAsked
<1>. QED BY <1>3 DEF Positive

\* What is filed: the history with an answer more, or as it was.
LEMMA FiledHistory ==
  ASSUME TalkTyped, HistoryInv, Files, answer \in Nat
  PROVE  /\ history' \in Seq(Message) /\ Rising(history') /\ UpToItem(history', user_item)
         /\ LastIs(history', "user") => history'[Len(history')].item = user_item
         /\ history' = <<>> => user_item = 0
         /\ \A w : In(w, history) => In(w, history')
         /\ LastIs(history', "assistant") => LastIs(history, "assistant") \/ units # <<>>
<1>1. CASE history' = history
  BY <1>1 DEF TalkTyped, HistoryInv
<1>2. CASE units # <<>> /\ history' = Append(history, Answered(answer))
  <2>. DEFINE e == Answered(answer)
  <2>1. e \in Message /\ e.role # "user"
    BY DEF Message, Answered
  <2>2. history \in Seq(Message) /\ Rising(history) /\ UpToItem(history, user_item)
    BY DEF TalkTyped, HistoryInv
  <2>. HIDE DEF e
  <2>3. /\ history' \in Seq(Message) /\ history' # <<>> /\ history'[Len(history')] = e
        /\ \A i \in Users(history) : history'[i] = history[i]
        /\ \A i \in Users(history') : i = Len(history') \/ i \in Users(history)
        /\ \A w : In(w, history) => In(w, history')
    BY <1>2, <2>1, <2>2, ListGrows DEF e
  <2>4. \A i \in Users(history') : i \in Users(history)
    BY <2>1, <2>3 DEF Users
  <2>5. Rising(history') /\ UpToItem(history', user_item)
    BY <2>2, <2>3, <2>4 DEF Rising, UpToItem
  <2>6. ~LastIs(history', "user")
    BY <2>1, <2>3 DEF LastIs
  <2>. QED BY <1>2, <2>3, <2>5, <2>6
<1>. QED BY <1>1, <1>2 DEF Files

\* What a transcript makes of the history.
LEMMA SaidHistory ==
  ASSUME Typed, TalkTyped, HistoryInv, WireTurns, wire # <<>>, wire[1].kind = "transcript",
         NEW h, h = Append(IF Revises(wire[1].turn) THEN Front(history) ELSE history,
                           Said(wire[1].turn, wire[1].rev))
  PROVE  /\ h \in Seq(Message) /\ Rising(h) /\ UpToItem(h, wire[1].turn)
         /\ h # <<>> /\ h[Len(h)] = Said(wire[1].turn, wire[1].rev)
         /\ \A w : In(w, history) /\ w.turn # wire[1].turn => In(w, h)
<1>. DEFINE f == wire[1]
            t == f.turn
            e == Said(t, f.rev)
            base == IF Revises(t) THEN Front(history) ELSE history
            n == Len(history)
<1>0. /\ history \in Seq(Message) /\ n \in Nat /\ DOMAIN history = 1 .. n
      /\ Rising(history) /\ UpToItem(history, user_item) /\ user_item \in Nat
      /\ history # <<>> <=> n >= 1
  BY DEF TalkTyped, HistoryInv
<1>1. 1 \in DOMAIN wire /\ f \in Frames /\ 1 > 0
  BY DEF Typed, EngineTyped
<1>2. /\ t \in Positive /\ t >= user_item
      /\ LastIs(history, "assistant") => t >= user_item + 1
  BY <1>1 DEF WireTurns, From, Transcript
<1>3. e \in Message /\ e.role = "user" /\ e.item = t
  <2>1. f.rev \in Nat
    BY <1>1 DEF Frames
  <2>. HIDE DEF f
  <2>. QED BY <1>2, <2>1 DEF Message, Said
<1>h. h = Append(base, e)
  OBVIOUS
<1>l. history # <<>> => Last(history) = history[n]
  BY DEF Last
<1>. HIDE DEF e, t
<1>i. \A i \in Users(history) : history[i].item \in Nat /\ i \in 1 .. n
  BY <1>0, ListItems
<1>4. /\ base \in Seq(Message) /\ Rising(base)
      /\ \A i \in Users(base) : base[i].item < t
      /\ \A w : In(w, history) /\ w.turn # t => In(w, base)
  <2>1. CASE Revises(t)
    <3>0. t = user_item /\ history # <<>> /\ history[n].role = "user"
      BY <1>l, <2>1 DEF Revises
    <3>1. n \in Users(history) /\ history[n].item = t /\ n \in DOMAIN history
      BY <1>0, <3>0 DEF HistoryInv, LastIs, Users
    <3>2. base = Front(history)
      BY <2>1
    <3>. HIDE DEF base
    <3>3. /\ base \in Seq(Message) /\ DOMAIN base = 1 .. n - 1
          /\ \A i \in 1 .. n - 1 : base[i] = history[i]
      BY <1>0, <3>0, <3>2 DEF Front
    <3>4. \A i \in 1 .. n - 1 : i \in 1 .. n /\ i < n
      BY <1>0
    <3>. HIDE DEF n
    <3>5. \A i \in Users(base) : i \in Users(history) /\ base[i] = history[i] /\ i < n
      BY <1>0, <3>3, <3>4 DEF Users
    <3>6. Rising(base)
      BY <1>0, <3>5 DEF Rising
    <3>7. \A i \in Users(base) : base[i].item < t
      BY <1>0, <3>1, <3>5 DEF Rising
    <3>8. ASSUME NEW w, In(w, history), w.turn # t PROVE In(w, base)
      <4>1. PICK i \in DOMAIN history : history[i] = Said(w.turn, w.rev)
        BY <3>8 DEF In
      <4>2. i # n
        BY <3>1, <3>8, <4>1 DEF Said
      <4>3. i \in 1 .. n - 1
        BY <1>0, <4>2
      <4>. QED BY <3>3, <4>1, <4>3 DEF In
    <3>. QED BY <3>3, <3>6, <3>7, <3>8
  <2>2. CASE ~Revises(t)
    <3>1. base = history
      BY <2>2
    <3>2. ASSUME NEW i \in Users(history) PROVE history[i].item < t
      <4>0. history # <<>> /\ history[i].item <= user_item /\ history[i].item \in Nat
            /\ t \in Nat
        BY <1>0, <1>2, <1>i DEF UpToItem, Users, Positive
      <4>1. CASE history[n].role = "user"
        <5>1. t # user_item
          BY <1>l, <2>2, <4>0, <4>1 DEF Revises
        <5>. QED BY <1>0, <1>2, <4>0, <5>1
      <4>2. CASE history[n].role # "user"
        <5>1. history[n] \in Message
          BY <1>0, <4>0
        <5>2. history[n].role \in {"user", "assistant"}
          BY <5>1, MessageIsAsked DEF Asked
        <5>3. t >= user_item + 1
          BY <1>2, <4>0, <4>2, <5>2 DEF LastIs
        <5>. QED BY <1>0, <4>0, <5>3
      <4>. QED BY <4>1, <4>2
    <3>. QED BY <1>0, <3>1, <3>2
  <2>. QED BY <2>1, <2>2
<1>. HIDE DEF base
<1>5. /\ h \in Seq(Message) /\ h # <<>> /\ h[Len(h)] = e
      /\ \A i \in Users(base) : h[i] = base[i] /\ i < Len(h)
      /\ \A i \in Users(h) : i = Len(h) \/ i \in Users(base)
      /\ \A w : In(w, base) => In(w, h)
  <2>1. LET q == Append(base, e) IN
         /\ q \in Seq(Message) /\ q # <<>> /\ q[Len(q)] = e
         /\ \A i \in Users(base) : q[i] = base[i] /\ i < Len(q)
         /\ \A i \in Users(q) : i = Len(q) \/ i \in Users(base)
         /\ \A w : In(w, base) => In(w, q)
    BY <1>3, <1>4, ListGrows
  <2>. QED BY <1>h, <2>1, Zenon
<1>b. \A i \in Users(base) : base[i].item \in Nat /\ i \in Nat
  BY <1>4, ListItems
<1>u. \A i \in Users(h) : i \in 1 .. Len(h) /\ Len(h) \in Nat
  <2>1. Len(h) \in Nat /\ h \in Seq(Message)
    BY <1>5
  <2>. QED BY <2>1, ListItems
<1>6. Rising(h)
  <2>1. ASSUME NEW i \in Users(h), NEW j \in Users(h), i < j PROVE h[i].item < h[j].item
    <3>1. i # Len(h)
      BY <1>u, <2>1
    <3>2. i \in Users(base) /\ h[i] = base[i]
      BY <1>5, <3>1
    <3>3. CASE j = Len(h)
      BY <1>3, <1>4, <1>5, <3>2, <3>3
    <3>4. CASE j \in Users(base)
      BY <1>4, <1>5, <2>1, <3>2, <3>4 DEF Rising
    <3>. QED BY <1>5, <3>3, <3>4
  <2>. QED BY <2>1 DEF Rising
<1>7. UpToItem(h, t)
  <2>1. ASSUME NEW i \in Users(h) PROVE h[i].item <= t
    <3>1. t \in Nat
      BY <1>2 DEF Positive
    <3>2. CASE i = Len(h)
      BY <1>3, <1>5, <3>1, <3>2
    <3>3. CASE i \in Users(base)
      <4>1. base[i].item < t /\ base[i].item \in Nat /\ h[i] = base[i]
        BY <1>4, <1>5, <1>b, <3>3
      <4>2. \A x \in Nat : x < t => x <= t
        BY <3>1
      <4>3. base[i].item <= t
        BY <4>1, <4>2
      <4>. QED BY <4>1, <4>3, Zenon
    <3>. QED BY <1>5, <3>2, <3>3
  <2>. QED BY <2>1 DEF UpToItem
<1>8. \A w : In(w, history) /\ w.turn # t => In(w, h)
  BY <1>4, <1>5
<1>. QED BY <1>5, <1>6, <1>7, <1>8 DEF e, t

\* The answers that opened are counted along the wire when its first frame is taken.
LEMMA WriterNumbered ==
  ASSUME Typed, Shifted, Numbered, TalkTyped,
         answer' = IF wire[1].kind = "created" THEN answer + 1 ELSE answer
  PROVE  Numbered'
<1>1. PICK num : CountsAlong(num)
  BY DEF Numbered
<1>. DEFINE n == Len(wire)
            m == Len(wire')
<1>0. /\ n \in Nat /\ n >= 1 /\ m = n - 1 /\ DOMAIN wire = 1 .. n /\ DOMAIN wire' = 1 .. m
      /\ \A k \in 1 .. m : k + 1 \in 1 .. n /\ wire'[k] = wire[k + 1]
      /\ opened' = opened
  BY Shift DEF Shifted, engine
<1>2. /\ num \in [0 .. n -> Nat] /\ num[0] = answer /\ num[n] = opened
      /\ \A i, j \in 0 .. n : i <= j => num[i] <= num[j]
      /\ \A k \in 1 .. n : num[k] = num[k - 1] + (IF wire[k].kind = "created" THEN 1 ELSE 0)
  BY <1>0, <1>1 DEF CountsAlong
<1>. HIDE DEF n, m
<1>3. PICK h : h = [k \in 0 .. m |-> num[k + 1]]
  OBVIOUS
<1>4. \A k \in 0 .. m : h[k] = num[k + 1] /\ k + 1 \in 0 .. n /\ k + 1 \in 1 .. n
  BY <1>0, <1>3
<1>5. h \in [0 .. m -> Nat]
  BY <1>2, <1>3, <1>4
<1>6. h[0] = answer'
  <2>1. 0 \in 0 .. m /\ 1 \in 1 .. n /\ 0 + 1 = 1 /\ 1 - 1 = 0
    BY <1>0
  <2>2. h[0] = num[1] /\ num[1] = num[0] + (IF wire[1].kind = "created" THEN 1 ELSE 0)
    BY <1>2, <1>4, <2>1
  <2>3. num[0] \in Nat
    BY <1>0, <1>2
  <2>. QED BY <1>2, <2>2, <2>3
<1>7. h[m] = opened'
  <2>1. m \in 0 .. m /\ m + 1 = n
    BY <1>0
  <2>. QED BY <1>0, <1>2, <1>4, <2>1
<1>8. \A i, j \in 0 .. m : i <= j => h[i] <= h[j]
  <2>1. \A i, j \in 0 .. m : i <= j => i + 1 <= j + 1
    BY <1>0
  <2>. QED BY <1>2, <1>4, <2>1
<1>9. ASSUME NEW k \in 1 .. m
      PROVE  h[k] = h[k - 1] + (IF wire'[k].kind = "created" THEN 1 ELSE 0)
  <2>1. k \in 0 .. m /\ k - 1 \in 0 .. m /\ (k - 1) + 1 = k /\ (k + 1) - 1 = k /\ k + 1 \in 1 .. n
    BY <1>0
  <2>2. h[k] = num[k + 1] /\ h[k - 1] = num[k] /\ wire'[k] = wire[k + 1]
    BY <1>0, <1>4, <2>1
  <2>3. num[k + 1] = num[k] + (IF wire[k + 1].kind = "created" THEN 1 ELSE 0)
    BY <1>2, <2>1
  <2>. QED BY <2>2, <2>3
<1>10. CountsAlong(h)'
  BY <1>0, <1>5, <1>6, <1>7, <1>8, <1>9 DEF CountsAlong, m
<1>. QED BY <1>10 DEF Numbered

\* The heard words when the frame of another kind, or of a turn, is taken.
LEMMA WriterWords ==
  ASSUME Typed, Shifted, WordsInv, heard_words' = heard_words,
         NEW h, h = history',
         IF wire[1].kind = "transcript"
         THEN /\ \A w : In(w, history) /\ w.turn # wire[1].turn => In(w, h)
              /\ \A w : w.turn = wire[1].turn /\ w.rev = wire[1].rev => In(w, h)
         ELSE \A w : In(w, history) => In(w, h)
  PROVE  WordsInv'
<1>0. jobs' = jobs
  BY DEF Shifted, engine
<1>s. /\ DOMAIN wire = 1 .. Len(wire) /\ Len(wire) \in Nat /\ Len(wire') = Len(wire) - 1
      /\ DOMAIN wire' = 1 .. Len(wire')
      /\ \A k \in DOMAIN wire' : k + 1 \in DOMAIN wire /\ wire'[k] = wire[k + 1] /\ k \in Nat
      /\ \A k \in DOMAIN wire :
           k \in Nat /\ (k = 1 \/ (k - 1 \in DOMAIN wire' /\ wire'[k - 1] = wire[k]))
  <2>1. /\ DOMAIN wire = 1 .. Len(wire) /\ Len(wire) \in Nat /\ Len(wire) >= 1
        /\ DOMAIN wire' = 1 .. Len(wire') /\ Len(wire') = Len(wire) - 1
        /\ \A k \in DOMAIN wire' : k + 1 \in DOMAIN wire /\ wire'[k] = wire[k + 1]
        /\ \A k \in DOMAIN wire : k = 1 \/ (k - 1 \in DOMAIN wire' /\ wire'[k - 1] = wire[k])
    BY Shift, Zenon
  <2>2. /\ \A k \in DOMAIN wire' : k \in Nat
        /\ \A k \in DOMAIN wire : k \in Nat
    BY <2>1
  <2>. QED BY <2>1, <2>2, Zenon
<1>1. ASSUME NEW t, Waits(t)' PROVE Waits(t)
  BY <1>1, <1>s DEF Waits, Transcript
<1>2. ASSUME NEW t, Waits(t), ~Waits(t)' PROVE wire[1].kind = "transcript" /\ wire[1].turn = t
  BY <1>2, <1>s DEF Waits, Transcript
<1>3. ASSUME NEW w \in heard_words, Waits(w.turn)'
      PROVE  \E q \in DOMAIN wire' : LastOf(q, w.turn, w.rev)'
  <2>1. PICK q \in DOMAIN wire : LastOf(q, w.turn, w.rev)
    BY <1>1, <1>3 DEF WordsInv
  <2>2. PICK k \in DOMAIN wire' : wire'[k].kind = "transcript" /\ wire'[k].turn = w.turn
    BY <1>3 DEF Waits, Transcript
  <2>3. q # 1
    <3>1. k + 1 \in DOMAIN wire /\ wire[k + 1].kind = "transcript" /\ wire[k + 1].turn = w.turn
          /\ k + 1 > 1
      BY <1>s, <2>2
    <3>. QED BY <2>1, <3>1 DEF LastOf, Transcript
  <2>4. q - 1 \in DOMAIN wire' /\ wire'[q - 1] = wire[q]
    BY <1>s, <2>3
  <2>5. PICK p : p = q - 1
    OBVIOUS
  <2>6. \A i \in DOMAIN wire' : i > p => i + 1 > q
    BY <1>s, <2>5
  <2>7. LastOf(p, w.turn, w.rev)'
    BY <1>s, <2>1, <2>4, <2>5, <2>6 DEF LastOf, Transcript
  <2>. QED BY <2>4, <2>5, <2>7
<1>4. ASSUME NEW w \in heard_words, ~Waits(w.turn)' PROVE In(w, h)
  <2>1. CASE Waits(w.turn)
    <3>1. wire[1].kind = "transcript" /\ wire[1].turn = w.turn
      BY <1>2, <1>4, <2>1
    <3>2. PICK q \in DOMAIN wire : LastOf(q, w.turn, w.rev)
      BY <2>1 DEF WordsInv
    <3>3. q = 1
      <4>1. ASSUME q # 1 PROVE FALSE
        <5>1. q - 1 \in DOMAIN wire' /\ wire'[q - 1] = wire[q]
          BY <1>s, <4>1
        <5>. QED BY <1>4, <3>2, <5>1 DEF LastOf, Transcript, Waits
      <4>. QED BY <4>1
    <3>4. w.rev = wire[1].rev
      BY <3>2, <3>3 DEF LastOf
    <3>. QED BY <3>1, <3>4
  <2>2. CASE ~Waits(w.turn)
    <3>1. In(w, history)
      BY <2>2 DEF WordsInv
    <3>2. CASE wire[1].kind = "transcript"
      <4>1. 1 \in DOMAIN wire
        BY <1>s DEF Shifted, Typed, EngineTyped
      <4>2. w.turn # wire[1].turn
        BY <2>2, <3>2, <4>1 DEF Waits, Transcript
      <4>. QED BY <3>1, <3>2, <4>2
    <3>. QED BY <3>1, <3>2
  <2>. QED BY <2>1, <2>2
<1>5. ASSUME NEW w \in heard_words, w \notin Range(jobs),
             NEW q \in DOMAIN wire', wire'[q].kind = "transcript", wire'[q].turn = w.turn
      PROVE  \E c \in q + 1 .. Len(wire') : wire'[c].kind = "created"
  <2>1. q + 1 \in DOMAIN wire /\ wire[q + 1] = wire'[q] /\ q \in Nat
    BY <1>s
  <2>2. PICK c \in (q + 1) + 1 .. Len(wire) : wire[c].kind = "created"
    BY <1>5, <2>1 DEF WordsInv, Transcript
  <2>3. c \in DOMAIN wire /\ c # 1 /\ c - 1 \in q + 1 .. Len(wire')
    <3>1. c \in Nat /\ (q + 1) + 1 <= c /\ c <= Len(wire)
      BY <1>s, <2>1, <2>2
    <3>. QED BY <1>s, <2>1, <3>1
  <2>4. wire'[c - 1] = wire[c]
    BY <1>s, <2>3
  <2>. QED BY <2>2, <2>3, <2>4
<1>. QED BY <1>0, <1>3, <1>4, <1>5 DEF WordsInv, Transcript, In

\* Transcripts and units of the wire when a frame is taken; those before j were before j + 1.
LEMMA WireTurnsTaken ==
  ASSUME Typed, Shifted, WireTurns, TalkTyped, user_item' \in Nat,
         IF wire[1].kind = "transcript" THEN user_item' = wire[1].turn ELSE user_item' = user_item
  PROVE  /\ From(0, user_item)' /\ user_item' <= turn'
         /\ \A j \in DOMAIN wire' : wire'[j].kind = "transcript" =>
              From(j, wire[j].turn)' /\ wire'[j].turn <= turn' /\ wire'[j].turn \in Positive
         /\ \A j \in DOMAIN wire' : wire'[j].kind = "unit" =>
              (\E n \in Nat : SpeaksFor(j, n)') /\ Fenced(j)'
<1>0. turn' = turn /\ turn \in Nat /\ user_item \in Nat
  BY DEF Shifted, engine, Typed, EngineTyped, TalkTyped
<1>s. /\ DOMAIN wire = 1 .. Len(wire) /\ Len(wire) \in Nat /\ Len(wire') = Len(wire) - 1
      /\ DOMAIN wire' = 1 .. Len(wire') /\ 1 \in DOMAIN wire
      /\ \A k \in DOMAIN wire' : k + 1 \in DOMAIN wire /\ wire'[k] = wire[k + 1] /\ k \in Nat
  <2>1. /\ DOMAIN wire = 1 .. Len(wire) /\ Len(wire) \in Nat /\ Len(wire) >= 1
        /\ DOMAIN wire' = 1 .. Len(wire') /\ Len(wire') = Len(wire) - 1
        /\ \A k \in DOMAIN wire' : k + 1 \in DOMAIN wire /\ wire'[k] = wire[k + 1]
        /\ \A k \in DOMAIN wire : k = 1 \/ (k - 1 \in DOMAIN wire' /\ wire'[k - 1] = wire[k])
    BY Shift, Zenon
  <2>2. /\ \A k \in DOMAIN wire' : k \in Nat
        /\ 1 \in DOMAIN wire
    BY <2>1
  <2>. QED BY <2>1, <2>2, Zenon
<1>1. PICK n \in Nat : n = user_item'
  OBVIOUS
<1>2. From(0, user_item)' /\ user_item' <= turn'
  <2>1. CASE wire[1].kind = "transcript"
    <3>1. From(1, n) /\ n <= turn
      BY <1>1, <1>s, <2>1 DEF WireTurns, Transcript
    <3>2. 0 + 1 = 1
      OBVIOUS
    <3>3. From(0, n)'
      BY <3>1, <3>2, FromShift
    <3>4. From(0, user_item)'
      BY <1>1, <3>3
    <3>. QED BY <1>0, <1>1, <3>1, <3>4
  <2>2. CASE wire[1].kind # "transcript"
    <3>1. From(0, n) /\ n <= turn
      BY <1>1, <2>2 DEF WireTurns
    <3>3. From(0, n)'
      BY <3>1, FromShift
    <3>4. From(0, user_item)'
      BY <1>1, <3>3
    <3>. QED BY <1>0, <1>1, <3>1, <3>4
  <2>. QED BY <2>1, <2>2
<1>3. ASSUME NEW j \in DOMAIN wire', wire'[j].kind = "transcript"
      PROVE  From(j, wire[j].turn)' /\ wire'[j].turn <= turn' /\ wire'[j].turn \in Positive
  <2>1. j + 1 \in DOMAIN wire /\ wire'[j] = wire[j + 1] /\ j \in Nat
    BY <1>s
  <2>2. From(j + 1, wire[j + 1].turn) /\ wire[j + 1].turn <= turn /\ wire[j + 1].turn \in Positive
    BY <1>3, <2>1 DEF WireTurns, Transcript
  <2>3. PICK t : t = wire[j + 1].turn
    OBVIOUS
  <2>4. From(j, t)'
    BY <2>1, <2>2, <2>3, FromShift
  <2>5. From(j, wire[j].turn)'
    BY <2>1, <2>3, <2>4
  <2>. QED BY <1>0, <2>1, <2>2, <2>5
<1>4. ASSUME NEW j \in DOMAIN wire', wire'[j].kind = "unit"
      PROVE  (\E x \in Nat : SpeaksFor(j, x)') /\ Fenced(j)'
  <2>1. j + 1 \in DOMAIN wire /\ wire'[j] = wire[j + 1] /\ j \in Nat /\ j >= 1
    BY <1>s
  <2>2. Fenced(j + 1)
    BY <1>4, <2>1 DEF WireTurns
  <2>3. PICK x \in Nat : SpeaksFor(j + 1, x)
    BY <1>4, <2>1 DEF WireTurns
  <2>4. From(j, x + 1)'
    BY <2>1, <2>3, FromShift DEF SpeaksFor
  <2>5. user_item' <= x
    <3>1. 1 \in 1 .. (j + 1) - 1
      BY <2>1
    <3>. QED BY <1>s, <2>3, <3>1 DEF SpeaksFor, Transcript
  <2>6. \A i \in 1 .. j - 1 : wire'[i].kind = "transcript" => wire'[i].turn <= x
    <3>1. \A i \in 1 .. j - 1 : i \in DOMAIN wire' /\ i + 1 \in 1 .. (j + 1) - 1
      BY <1>s, <2>1
    <3>. QED BY <1>s, <2>3, <3>1 DEF SpeaksFor, Transcript
  <2>7. SpeaksFor(j, x)'
    BY <2>4, <2>5, <2>6 DEF SpeaksFor, Transcript
  <2>8. Fenced(j)'
    BY <2>1, <2>2, FencedShift
  <2>. QED BY <2>7, <2>8
<1>. QED BY <1>2, <1>3, <1>4

\* The history when a frame is taken.
LEMMA WriterHistory ==
  ASSUME Typed, TalkTyped, HistoryInv, WireTurns, wire # <<>>, Transcribes \/ Goes
  PROVE  /\ history' \in Seq(Message) /\ user_item' \in Nat /\ HistoryInv'
         /\ IF wire[1].kind = "transcript"
            THEN /\ user_item' = wire[1].turn
                 /\ \A w : In(w, history) /\ w.turn # wire[1].turn => In(w, history')
                 /\ \A w : w.turn = wire[1].turn /\ w.rev = wire[1].rev => In(w, history')
                 /\ LastIs(history', "user")
            ELSE /\ user_item' = user_item
                 /\ \A w : In(w, history) => In(w, history')
                 /\ LastIs(history', "assistant") => LastIs(history, "assistant") \/ units # <<>>
<1>1. CASE Transcribes
  <2>1. wire[1].kind = "transcript" /\ user_item' = wire[1].turn
    BY <1>1 DEF Transcribes
  <2>2. PICK h : h = history'
    OBVIOUS
  <2>3. h = Append(IF Revises(wire[1].turn) THEN Front(history) ELSE history,
                   Said(wire[1].turn, wire[1].rev))
    BY <1>1, <2>2, Zenon DEF Transcribes
  <2>4. PICK e : e = Said(wire[1].turn, wire[1].rev)
    OBVIOUS
  <2>5. /\ h \in Seq(Message) /\ Rising(h) /\ UpToItem(h, wire[1].turn)
        /\ h # <<>> /\ h[Len(h)] = e
        /\ \A w : In(w, history) /\ w.turn # wire[1].turn => In(w, h)
    BY <2>1, <2>3, <2>4, SaidHistory
  <2>6. e.role = "user" /\ e.item = wire[1].turn
    BY <2>4 DEF Said
  <2>7. wire[1].turn \in Nat
    <3>1. wire[1] \in Frames
      BY DEF Typed, EngineTyped
    <3>. QED BY <3>1 DEF Frames
  <2>8. LastIs(h, "user")
    BY <2>5, <2>6 DEF LastIs
  <2>9. ASSUME NEW w, w.turn = wire[1].turn, w.rev = wire[1].rev PROVE In(w, h)
    <3>1. Len(h) \in DOMAIN h
      BY <2>5
    <3>2. h[Len(h)] = Said(w.turn, w.rev)
      BY <2>4, <2>5, <2>9
    <3>. QED BY <3>1, <3>2 DEF In
  <2>10. HistoryInv'
    BY <2>1, <2>2, <2>5, <2>6 DEF HistoryInv, Rising, UpToItem, LastIs, Users
  <2>. QED BY <2>1, <2>2, <2>5, <2>7, <2>8, <2>9, <2>10
<1>2. CASE Goes
  <2>1. wire[1].kind # "transcript" /\ user_item' = user_item /\ Files
    BY <1>2 DEF Goes
  <2>2. answer \in Nat
    BY DEF Typed, ClientTyped
  <2>3. /\ history' \in Seq(Message) /\ Rising(history') /\ UpToItem(history', user_item)
        /\ LastIs(history', "user") => history'[Len(history')].item = user_item
        /\ history' = <<>> => user_item = 0
        /\ \A w : In(w, history) => In(w, history')
        /\ LastIs(history', "assistant") => LastIs(history, "assistant") \/ units # <<>>
    BY <2>1, <2>2, FiledHistory
  <2>4. HistoryInv'
    BY <2>1, <2>3 DEF HistoryInv, Rising, UpToItem, LastIs, Users
  <2>. QED BY <2>1, <2>3, <2>4 DEF TalkTyped
<1>. QED BY <1>1, <1>2

\* Units that wait are followed by what closes the answer, and what they or a
\* filed answer follow is of a turn before those to come.
LEMMA WriterUnits ==
  ASSUME Typed, TalkTyped, HistoryInv, WireTurns, Shifted, Transcribes \/ Goes
  PROVE  /\ units' # <<>> => Fenced(0)'
         /\ units' # <<>> \/ LastIs(history', "assistant") => From(0, user_item + 1)'
<1>0. 1 \in DOMAIN wire /\ user_item \in Nat /\ user_item' \in Nat /\ wire # <<>>
  <2>1. user_item' \in Nat
    BY WriterHistory DEF Shifted
  <2>. QED BY <2>1 DEF Shifted, Typed, EngineTyped, TalkTyped
<1>n. PICK n \in Nat : n = user_item' + 1
  <2>1. \A i \in Nat : i + 1 \in Nat
    OBVIOUS
  <2>2. PICK i \in Nat : i = user_item'
    BY <1>0
  <2>. QED BY <2>1, <2>2
<1>1. CASE Transcribes
  <2>1. units' = units /\ wire[1].kind = "transcript"
    BY <1>1 DEF Transcribes
  <2>2. ASSUME units # <<>> PROVE FALSE
    <3>1. Fenced(0)
      BY <2>2 DEF WireTurns
    <3>2. \E s \in 0 + 1 .. 1 - 1 : wire[s].kind = "started"
      BY <1>0, <2>1, <3>1 DEF Fenced, Transcript
    <3>. QED BY <3>2
  <2>3. ~LastIs(history', "assistant")
    <3>1. LastIs(history', "user")
      BY <1>0, <2>1, WriterHistory, <1>1
    <3>. QED BY <3>1 DEF LastIs
  <2>. QED BY <2>1, <2>2, <2>3
<1>2. CASE Goes /\ wire[1].kind = "unit"
  <2>1. PICK x \in Nat : SpeaksFor(1, x)
    BY <1>0, <1>2 DEF WireTurns
  <2>2. Fenced(1)
    BY <1>0, <1>2 DEF WireTurns
  <2>3. user_item <= x /\ From(1, x + 1) /\ user_item' = user_item
    BY <1>2, <2>1 DEF SpeaksFor, Goes
  <2>4. From(1, n)
    <3>1. n <= x + 1 /\ n >= 0
      BY <1>0, <1>n, <2>3
    <3>2. \A k \in DOMAIN wire : wire[k].turn \in Nat
      <4>1. \A k \in DOMAIN wire : wire[k] \in Frames
        BY DEF Typed, EngineTyped
      <4>. QED BY <4>1 DEF Frames
    <3>3. Coming(n)
      <4>1. Coming(user_item)
        BY DEF WireTurns, From
      <4>2. turn \in Nat /\ \A i \in DOMAIN commits : commits[i].turn \in Nat
        <5>1. turn \in Nat /\ \A i \in DOMAIN commits : commits[i] \in Turns
          BY DEF Typed, EngineTyped
        <5>. QED BY <5>1 DEF Turns, Positive
      <4>3. Coming(x + 1)
        BY <2>3 DEF From
      <4>4. \A i \in DOMAIN commits : commits[i].turn >= n
        BY <1>n, <2>1, <3>1, <4>2, <4>3 DEF Coming
      <4>5. turn >= n \/ (user = "final" /\ turn + 1 = n)
        BY <1>n, <2>1, <3>1, <4>2, <4>3 DEF Coming
      <4>. QED BY <4>4, <4>5 DEF Coming
    <3>. QED BY <1>n, <2>1, <2>3, <3>1, <3>2, <3>3 DEF From, Transcript
  <2>5. 0 + 1 = 1
    OBVIOUS
  <2>6. Fenced(0)' /\ From(0, n)'
    BY <2>2, <2>4, <2>5, FencedShift, FromShift
  <2>. QED BY <1>n, <2>6
<1>3. CASE Goes /\ wire[1].kind # "unit"
  <2>1. user_item' = user_item /\ (units' = <<>> \/ units' = units)
        /\ (wire[1].kind = "started" => units' = <<>>)
    BY <1>3 DEF Goes
  <2>2. units' # <<>> => Fenced(0)'
    <3>1. units' # <<>> => Fenced(0) /\ wire[1].kind # "started"
      BY <2>1 DEF WireTurns
    <3>. QED BY <3>1, FencedShift
  <2>3. units' # <<>> \/ LastIs(history', "assistant") => From(0, user_item + 1)
    <3>1. LastIs(history', "assistant") => LastIs(history, "assistant") \/ units # <<>>
      BY <1>0, <1>3, WriterHistory DEF Goes
    <3>. QED BY <2>1, <3>1 DEF WireTurns
  <2>4. From(0, n) => From(0, n)'
    BY FromShift
  <2>. QED BY <1>n, <2>1, <2>2, <2>3, <2>4
<1>. QED BY <1>1, <1>2, <1>3

\* The list of a close, handed over with the frame that closes the answer.
LEMMA ClosedList ==
  ASSUME Typed, TalkTyped, WireTurns, HistoryInv, WordsInv, Numbered, NEW h \in Seq(Message),
         Rising(h), UpToItem(h, user_item), \A w : In(w, history) => In(w, h)
  PROVE  LET l == [list |-> h, after |-> answer] IN l \in Listed /\ ListInv(l)
<1>. DEFINE l == [list |-> h, after |-> answer]
<1>1. /\ answer \in Nat /\ opened \in Nat
      /\ \A k \in DOMAIN wire : wire[k].kind = "created" => answer < opened
  BY CountedFrames
<1>2. l \in Listed /\ l.list = h /\ l.after = answer
  BY <1>1 DEF Listed
<1>. HIDE DEF l
<1>3. UpToItem(h, turn)
  <2>1. user_item <= turn /\ user_item \in Nat /\ turn \in Nat
    BY DEF WireTurns, TalkTyped, Typed, EngineTyped
  <2>2. \A i \in Users(h) : h[i].item \in Nat
    BY ListItems
  <2>. QED BY <2>1, <2>2 DEF UpToItem
<1>4. ASSUME answer = opened, NEW w \in heard_words, w \notin Range(jobs) PROVE In(w, h)
  <2>1. ASSUME Waits(w.turn) PROVE FALSE
    <3>1. PICK q \in DOMAIN wire : Transcript(q) /\ wire[q].turn = w.turn
      BY <2>1 DEF Waits
    <3>2. PICK c \in q + 1 .. Len(wire) : wire[c].kind = "created"
      BY <1>4, <3>1 DEF WordsInv
    <3>3. c \in DOMAIN wire
      BY <3>1 DEF Typed, EngineTyped
    <3>. QED BY <1>1, <1>4, <3>2, <3>3
  <2>. QED BY <2>1 DEF WordsInv
<1>5. answer <= answer
  BY <1>1
<1>6. ListInv(l)
  BY <1>2, <1>3, <1>4, <1>5 DEF ListInv
<1>. QED BY <1>2, <1>6 DEF l

\* Lists that were handed over stay true when answers open or the outbox moves.
LEMMA ListStays ==
  ASSUME NEW l, ListInv(l), l \in Listed, answer \in Nat, answer' \in Nat, answer <= answer',
         UNCHANGED <<engine, heard_words>>
  PROVE  ListInv(l)'
<1>1. l.after \in Nat
  BY DEF Listed
<1>2. l.after <= answer'
  BY <1>1 DEF ListInv
<1>3. turn' = turn /\ opened' = opened /\ jobs' = jobs /\ heard_words' = heard_words
  BY DEF engine
<1>. QED BY <1>2, <1>3 DEF ListInv, UpToItem, Rising, In, Users

\* The writer keeps TalkInv.
LEMMA WriterTalk ==
  ASSUME Typed, WriterInv, CardInv, Writer, TalkInv PROVE TalkInv'
<1>0. UNCHANGED <<engine, known, sending, heard_words, request>>
  BY WriterTalks
<1>t. /\ Typed /\ TalkTyped /\ WireTurns /\ TurnsCome /\ HistoryInv /\ WordsInv /\ ListsInv
      /\ Numbered /\ RequestOf /\ answer \in Nat
  BY DEF TalkInv, Typed, ClientTyped
<1>1. TurnsCome' /\ RequestOf'
  BY <1>0, <1>t DEF TurnsCome, RequestOf, Coming, Ascend, engine
<1>2. CASE UNCHANGED <<wire, history, user_item, units, answer, outbox>>
  <2>1. TalkTyped' /\ HistoryInv' /\ Numbered'
    BY <1>0, <1>2, <1>t DEF TalkTyped, HistoryInv, Rising, UpToItem, LastIs, Users, Numbered,
       CountsAlong, engine
  <2>2. WireTurns'
    BY <1>0, <1>2, <1>t DEF WireTurns, From, Fenced, SpeaksFor, Coming, Transcript, LastIs, engine
  <2>3. WordsInv'
    BY <1>0, <1>2, <1>t DEF WordsInv, Waits, LastOf, Transcript, In, engine
  <2>4. ListsInv'
    BY <1>0, <1>2, <1>t DEF ListsInv, Lists, ListInv, UpToItem, Rising, In, Users, engine
  <2>. QED BY <1>1, <2>1, <2>2, <2>3, <2>4 DEF TalkInv
<1>3. CASE wire # <<>> /\ wire' = Tail(wire) /\ (Transcribes \/ Goes)
  <2>0. Shifted /\ wire # <<>> /\ (Transcribes \/ Goes)
    BY <1>0, <1>3 DEF Shifted
  <2>h. /\ history' \in Seq(Message) /\ user_item' \in Nat /\ HistoryInv'
        /\ IF wire[1].kind = "transcript"
           THEN /\ user_item' = wire[1].turn
                /\ \A w : In(w, history) /\ w.turn # wire[1].turn => In(w, history')
                /\ \A w : w.turn = wire[1].turn /\ w.rev = wire[1].rev => In(w, history')
                /\ LastIs(history', "user")
           ELSE /\ user_item' = user_item
                /\ \A w : In(w, history) => In(w, history')
                /\ LastIs(history', "assistant") => LastIs(history, "assistant") \/ units # <<>>
    BY <1>t, <2>0, WriterHistory
  <2>a. /\ answer' = IF wire[1].kind = "created" THEN answer + 1 ELSE answer
        /\ answer' \in Nat /\ answer <= answer'
    <3>1. answer' = IF wire[1].kind = "created" THEN answer + 1 ELSE answer
      BY <2>0 DEF Transcribes, Goes
    <3>. QED BY <1>t, <3>1
  <2>n. Numbered'
    BY <1>t, <2>0, <2>a, WriterNumbered
  <2>w. WordsInv'
    <3>1. PICK h : h = history'
      OBVIOUS
    <3>2. IF wire[1].kind = "transcript"
          THEN /\ \A w : In(w, history) /\ w.turn # wire[1].turn => In(w, h)
               /\ \A w : w.turn = wire[1].turn /\ w.rev = wire[1].rev => In(w, h)
          ELSE \A w : In(w, history) => In(w, h)
      BY <2>h, <3>1
    <3>. QED BY <1>0, <1>t, <2>0, <3>1, <3>2, WriterWords
  <2>i. IF wire[1].kind = "transcript" THEN user_item' = wire[1].turn ELSE user_item' = user_item
    BY <2>h
  <2>f. WireTurns'
    <3>1. /\ From(0, user_item)' /\ user_item' <= turn'
          /\ \A j \in DOMAIN wire' : wire'[j].kind = "transcript" =>
               From(j, wire[j].turn)' /\ wire'[j].turn <= turn' /\ wire'[j].turn \in Positive
          /\ \A j \in DOMAIN wire' : wire'[j].kind = "unit" =>
               (\E n \in Nat : SpeaksFor(j, n)') /\ Fenced(j)'
      BY <1>t, <2>0, <2>h, <2>i, WireTurnsTaken
    <3>2. /\ units' # <<>> => Fenced(0)'
          /\ units' # <<>> \/ LastIs(history', "assistant") => From(0, user_item + 1)'
      BY <1>t, <2>0, WriterUnits
    <3>. QED BY <3>1, <3>2 DEF WireTurns, Transcript, LastIs
  <2>l. /\ outbox' \in Seq(Listed) /\ ListsInv'
    <3>1. CASE outbox' = outbox
      <4>1. Lists' = Lists
        BY <1>0, <3>1 DEF Lists
      <4>2. ASSUME NEW l \in Lists PROVE ListInv(l)'
        <5>1. l \in Listed
          BY <1>t DEF Lists, Range, TalkTyped
        <5>. QED BY <1>0, <1>t, <2>a, <5>1, ListStays DEF ListsInv
      <4>. QED BY <1>t, <3>1, <4>1, <4>2 DEF ListsInv, TalkTyped
    <3>2. CASE outbox' # outbox
      <4>1. Goes
        BY <2>0, <3>2 DEF Transcribes
      <4>2. PICK h : h = history'
        OBVIOUS
      <4>. DEFINE e == [list |-> h, after |-> answer]
      <4>3. outbox' = Append(outbox, e) /\ Files
        BY <3>2, <4>1, <4>2 DEF Goes
      <4>4. e \in Listed /\ ListInv(e)
        <5>1. /\ h \in Seq(Message) /\ Rising(h) /\ UpToItem(h, user_item)
              /\ \A w : In(w, history) => In(w, h)
          BY <1>t, <4>2, <4>3, FiledHistory
        <5>. QED BY <1>t, <5>1, ClosedList
      <4>. HIDE DEF e
      <4>5. outbox \in Seq(Listed)
        BY <1>t DEF TalkTyped
      <4>6. outbox' \in Seq(Listed) /\ Range(outbox') = Range(outbox) \cup {e}
        BY <4>3, <4>4, <4>5, RangeAppend
      <4>7. Lists' = Lists \cup {e}
        BY <1>0, <4>6 DEF Lists
      <4>8. ASSUME NEW l \in Lists' PROVE ListInv(l)'
        <5>1. ASSUME NEW k \in Lists PROVE k \in Listed /\ ListInv(k)
          BY <1>t DEF Lists, Range, TalkTyped, ListsInv
        <5>2. PICK k : k = l
          OBVIOUS
        <5>3. k \in Listed /\ ListInv(k)
          BY <4>4, <4>7, <5>1, <5>2
        <5>4. ListInv(k)'
          BY <1>0, <1>t, <2>a, <5>3, ListStays
        <5>. QED BY <5>2, <5>4
      <4>. QED BY <4>6, <4>8 DEF ListsInv
    <3>. QED BY <3>1, <3>2
  <2>t. TalkTyped'
    BY <1>0, <1>t, <2>h, <2>l DEF TalkTyped, engine
  <2>. QED BY <1>1, <2>h, <2>n, <2>w, <2>f, <2>l, <2>t DEF TalkInv
<1>. QED BY <1>2, <1>3, WriterTalks

(* --------------------------- the main thread --------------------------- *)

\* Nothing the conversation is about is touched.
Same ==
  /\ UNCHANGED <<engine, wire, user_item, answer, request, heard_words>>

\* The lists go on: each was there, or is what a close hands over.
Handing ==
  /\ known' \in Listed /\ outbox' \in Seq(Listed) /\ sending' \in Seq(Listed)
  /\ Lists' \subseteq Lists \cup (IF units' = <<>> /\ Files
                                  THEN {[list |-> history', after |-> answer]} ELSE {})
  /\ \/ units' = units /\ history' = history
     \/ units' = <<>> /\ Files

\* The main thread hands lists on, and files at most an answer.
LEMMA MainHands ==
  ASSUME Typed, TalkTyped, Read \/ Send \/ Stop \/ Leave PROVE Same /\ Handing
<1>0. known \in Listed /\ outbox \in Seq(Listed) /\ sending \in Seq(Listed)
  BY DEF TalkTyped
<1>1. Same
  BY DEF Read, Send, Stop, Leave, MainRest, Same
<1>2. CASE Read
  <2>1. known' = known /\ outbox' = <<>> /\ outbox' \in Seq(Listed) /\ Range(outbox') = {}
    BY <1>2 DEF Read, Range
  <2>2. CASE ClosesNow
    <3>1. FileAnswer /\ sending' = Append(outbox, Handed)
      BY <1>2, <2>2 DEF Read, Closes
    <3>2. PICK h : h = history'
      OBVIOUS
    <3>. DEFINE e == [list |-> h, after |-> answer]
    <3>3. Files /\ units' = <<>> /\ sending' = Append(outbox, e)
      BY <3>1, <3>2, CloseFiles
    <3>4. e \in Listed
      <4>1. answer \in Nat
        BY DEF Typed, ClientTyped
      <4>2. h \in Seq(Message)
        <5>1. Answered(answer) \in Message
          BY <4>1 DEF Message
        <5>2. history \in Seq(Message)
          BY DEF TalkTyped
        <5>3. h = history \/ h = Append(history, Answered(answer))
          BY <3>2, <3>3 DEF Files
        <5>. QED BY <5>1, <5>2, <5>3
      <4>. QED BY <4>1, <4>2 DEF Listed
    <3>. HIDE DEF e
    <3>5. sending' \in Seq(Listed) /\ Range(sending') = Range(outbox) \cup {e}
      BY <1>0, <3>3, <3>4, RangeAppend
    <3>6. Lists' \subseteq Lists \cup {e}
      BY <2>1, <3>5 DEF Lists
    <3>7. e = [list |-> history', after |-> answer]
      BY <3>2 DEF e
    <3>. QED BY <1>0, <1>1, <2>1, <3>3, <3>5, <3>6, <3>7 DEF Handing
  <2>3. CASE ~ClosesNow
    <3>1. sending' = outbox /\ UNCHANGED <<units, history>>
      BY <1>2, <2>3 DEF Read, FilesNothing
    <3>2. Lists' \subseteq Lists
      BY <2>1, <3>1 DEF Lists
    <3>. QED BY <1>0, <1>1, <2>1, <3>1, <3>2 DEF Handing
  <2>. QED BY <2>2, <2>3
<1>3. CASE Send
  <2>1. /\ sending # <<>> /\ known' = Head(sending) /\ sending' = Tail(sending)
        /\ UNCHANGED <<units, history, outbox>>
    BY <1>3 DEF Send, NoClose, FilesNothing
  <2>2. /\ known' \in Listed /\ sending' \in Seq(Listed)
        /\ Range(sending) = Range(sending') \cup {known'}
    <3>1. Range(sending) = Range(Tail(sending)) \cup {Head(sending)}
      BY <1>0, <2>1, RangeTail
    <3>. QED BY <1>0, <2>1, <3>1
  <2>3. Lists' \subseteq Lists
    BY <2>1, <2>2 DEF Lists
  <2>. QED BY <1>0, <1>1, <2>1, <2>2, <2>3 DEF Handing
<1>4. CASE Stop \/ Leave
  <2>1. UNCHANGED <<units, history, outbox, known, sending>>
    BY <1>4 DEF Stop, Leave, NoClose, FilesNothing
  <2>2. Lists' \subseteq Lists
    BY <2>1 DEF Lists
  <2>. QED BY <1>0, <1>1, <2>1, <2>2 DEF Handing
<1>. QED BY <1>2, <1>3, <1>4

\* Lists handed on keep TalkInv.
LEMMA SameTalk ==
  ASSUME Typed, TalkInv, Same, Handing PROVE TalkInv'
<1>t. /\ Typed /\ TalkTyped /\ WireTurns /\ TurnsCome /\ HistoryInv /\ WordsInv /\ ListsInv
      /\ Numbered /\ RequestOf /\ answer \in Nat
  BY DEF TalkInv, Typed, ClientTyped
<1>0. UNCHANGED <<engine, wire, user_item, answer, request, heard_words>>
  BY DEF Same
<1>e. UNCHANGED <<turn, rev, user, commits, jobs, job, void, opened>>
  BY <1>0 DEF engine
<1>1. TurnsCome' /\ RequestOf' /\ Numbered'
  BY <1>0, <1>e, <1>t DEF TurnsCome, RequestOf, Coming, Ascend, Numbered, CountsAlong
<1>2. /\ history' \in Seq(Message) /\ HistoryInv' /\ \A w : In(w, history) => In(w, history')
      /\ units' # <<>> => units # <<>>
      /\ LastIs(history', "assistant") => LastIs(history, "assistant") \/ units # <<>>
  <2>1. CASE units' = units /\ history' = history
    BY <1>0, <1>t, <2>1 DEF TalkTyped, HistoryInv, Rising, UpToItem, LastIs, Users
  <2>2. CASE units' = <<>> /\ Files
    <3>1. /\ history' \in Seq(Message) /\ Rising(history') /\ UpToItem(history', user_item)
          /\ LastIs(history', "user") => history'[Len(history')].item = user_item
          /\ history' = <<>> => user_item = 0
          /\ \A w : In(w, history) => In(w, history')
          /\ LastIs(history', "assistant") => LastIs(history, "assistant") \/ units # <<>>
      BY <1>t, <2>2, FiledHistory
    <3>2. HistoryInv'
      BY <1>0, <3>1 DEF HistoryInv, Rising, UpToItem, LastIs, Users
    <3>. QED BY <2>2, <3>1, <3>2
  <2>. QED BY <2>1, <2>2 DEF Handing
<1>3. TalkTyped'
  BY <1>0, <1>e, <1>2, <1>t DEF TalkTyped, Handing
<1>4. WordsInv'
  <2>1. \A t : Waits(t)' <=> Waits(t)
    BY <1>0 DEF Waits, Transcript
  <2>2. \A q, t, r : LastOf(q, t, r)' <=> LastOf(q, t, r)
    BY <1>0 DEF LastOf, Transcript
  <2>3. ASSUME NEW w \in heard_words, ~Waits(w.turn) PROVE In(w, history')
    BY <1>2, <1>t, <2>3 DEF WordsInv
  <2>. QED BY <1>0, <1>e, <1>t, <2>1, <2>2, <2>3 DEF WordsInv, Transcript, In
<1>5. WireTurns'
  <2>1. (units' # <<>> => Fenced(0)')
        /\ (units' # <<>> \/ LastIs(history', "assistant") => From(0, user_item + 1)')
    BY <1>0, <1>e, <1>2, <1>t DEF WireTurns, From, Fenced, Coming, Transcript
  <2>. QED BY <1>0, <1>e, <1>t, <2>1 DEF WireTurns, From, Fenced, SpeaksFor, Coming, Transcript,
                                          LastIs
<1>6. ListsInv'
  <2>1. ASSUME NEW k \in Listed, ListInv(k) PROVE ListInv(k)'
    BY <1>0, <1>t, <2>1, ListStays
  <2>2. ASSUME NEW k \in Lists PROVE k \in Listed /\ ListInv(k)
    BY <1>t DEF Lists, Range, TalkTyped, ListsInv
  <2>3. ASSUME NEW l \in Lists' PROVE ListInv(l)'
    <3>1. PICK k : k = l
      OBVIOUS
    <3>2. k \in Listed /\ ListInv(k)
      <4>1. CASE l \in Lists
        BY <2>2, <3>1, <4>1
      <4>2. CASE l \notin Lists
        <5>1. Files /\ l = [list |-> history', after |-> answer]
          BY <4>2 DEF Handing
        <5>2. PICK h : h = history'
          OBVIOUS
        <5>3. /\ h \in Seq(Message) /\ Rising(h) /\ UpToItem(h, user_item)
              /\ \A w : In(w, history) => In(w, h)
          BY <1>t, <5>1, <5>2, FiledHistory
        <5>4. LET e == [list |-> h, after |-> answer] IN e \in Listed /\ ListInv(e)
          BY <1>t, <5>3, ClosedList
        <5>. QED BY <3>1, <5>1, <5>2, <5>4
      <4>. QED BY <4>1, <4>2
    <3>3. ListInv(k)'
      BY <2>1, <3>2
    <3>. QED BY <3>1, <3>3
  <2>. QED BY <2>3 DEF ListsInv
<1>. QED BY <1>1, <1>2, <1>3, <1>4, <1>5, <1>6 DEF TalkInv

\* The sound card has no part in it.
LEMMA AsideTalk ==
  ASSUME Typed, TalkInv, Callback \/ UNCHANGED vars PROVE TalkInv'
<1>1. UNCHANGED <<known, outbox, sending, history, units>> /\ Same
  BY DEF Callback, CallbackPlays, CallbackHeard, CallbackConsumed, Elsewhere, vars, context,
         threads, ghosts, Same
<1>2. Lists' \subseteq Lists
  BY <1>1 DEF Lists
<1>3. Handing
  BY <1>1, <1>2 DEF Handing, TalkInv, TalkTyped
<1>. QED BY <1>1, <1>3, SameTalk

\* No turns, no request: TalkInv holds at the start.
LEMMA InitTalk == Init => TalkInv /\ RequestSaysTurns
<1>. SUFFICES ASSUME Init PROVE TalkInv /\ RequestSaysTurns
  OBVIOUS
<1>1. TalkTyped
  <2>1. <<>> \in Seq(Message) /\ [list |-> <<>>, after |-> 0] \in Listed
    BY DEF Listed
  <2>. QED BY <2>1 DEF Init, TalkTyped
<1>2. WireTurns
  BY DEF Init, WireTurns, From, Coming, Transcript, LastIs
<1>3. TurnsCome /\ HistoryInv
  BY DEF Init, TurnsCome, Ascend, Coming, Nobody, HistoryInv, Rising, UpToItem, LastIs, Users
<1>4. WordsInv /\ ListsInv
  <2>1. Lists = {[list |-> <<>>, after |-> 0]}
    BY DEF Init, Lists, Range
  <2>2. ListInv([list |-> <<>>, after |-> 0])
    BY DEF Init, ListInv, Rising, UpToItem, Users
  <2>. QED BY <2>1, <2>2 DEF Init, WordsInv, ListsInv
<1>5. Numbered
  <2>1. CountsAlong([i \in 0 .. 0 |-> 0])
    BY DEF Init, CountsAlong
  <2>. QED BY <2>1 DEF Numbered
<1>6. RequestOf /\ RequestSaysTurns
  BY DEF Init, RequestOf, RequestSaysTurns
<1>. QED BY <1>1, <1>2, <1>3, <1>4, <1>5, <1>6 DEF TalkInv

RequestInv == RequestSaysTurns /\ (~g_stop => TalkInv)

\* Nothing but the engine asks anything.
LEMMA RequestKept ==
  ASSUME RequestSaysTurns, UNCHANGED <<request, void, heard_words>> PROVE RequestSaysTurns'
<1>1. Says(request, ~void, heard_words)
  BY SaysIs
<1>2. Says(request', ~void', heard_words')
  BY <1>1
<1>. QED BY <1>2, SaysIs

\* RequestInv is inductive.  Nothing is claimed of the lists once the user quits: the engine asks
\* nothing more.
LEMMA StepRequest ==
  ASSUME Typed, ClientInv, RequestInv, [Next]_vars PROVE RequestInv'
<1>1. CASE Engine
  <2>1. ~g_stop /\ g_stop' = g_stop
    BY <1>1 DEF Engine, SpeechStarts, SpeechCommits, TurnFinal, Recognize, AnswerOpens,
       AnswerWrites, AnswerSpeaks, AnswerSounds, AnswerEnds, Outside, threads
  <2>2. TalkInv /\ TurnsInOrder /\ RequestSaysTurns
    BY <2>1 DEF RequestInv, ClientInv
  <2>3. TalkInv' /\ RequestSaysTurns'
    BY <1>1, <2>2, EngineTalk, EngineSays
  <2>. QED BY <2>3 DEF RequestInv
<1>2. CASE Writer
  <2>1. UNCHANGED <<engine, g_stop, request, heard_words>>
    BY <1>2, WriterReads DEF Writer, Deliver, OnStarted, OnTranscript, OnCreated, OnText, OnUnit,
       OnAudio, OnCancelled, OnDone, Flushed, WriterRest
  <2>2. RequestSaysTurns'
    BY <2>1, RequestKept DEF RequestInv, engine
  <2>3. ~g_stop => TalkInv'
    BY <1>2, WriterTalk DEF RequestInv, ClientInv
  <2>. QED BY <2>1, <2>2, <2>3 DEF RequestInv
<1>3. CASE Read \/ Send \/ Stop \/ Leave
  <2>1. UNCHANGED <<engine, request, heard_words>> /\ (g_stop => g_stop')
    BY <1>3 DEF Read, Send, Stop, Leave, MainRest
  <2>2. RequestSaysTurns'
    BY <2>1, RequestKept DEF RequestInv, engine
  <2>3. TalkInv => TalkInv'
    BY <1>3, MainHands, SameTalk DEF TalkInv
  <2>. QED BY <2>1, <2>2, <2>3 DEF RequestInv
<1>4. CASE Callback \/ UNCHANGED vars
  <2>1. UNCHANGED <<engine, g_stop, request, heard_words>>
    BY <1>4 DEF Callback, CallbackPlays, CallbackHeard, CallbackConsumed, Elsewhere, vars, threads,
       ghosts
  <2>2. RequestSaysTurns'
    BY <2>1, RequestKept DEF RequestInv, engine
  <2>3. TalkInv => TalkInv'
    BY <1>4, AsideTalk
  <2>. QED BY <2>1, <2>2, <2>3 DEF RequestInv
<1>. QED BY <1>1, <1>2, <1>3, <1>4 DEF Next

\* A request says every turn at most once and in order, ends with the words it answers, and holds
\* the last words of every turn transcribed before when it was made of the list of the last close
\* (conn_answer of the conversation, context_user and context_close of s2s-cli.cpp).
THEOREM RequestsSayTurns == Spec => []RequestSaysTurns
<1>1. Init => Typed /\ ClientInv /\ RequestInv
  BY InitTyped, InitInv, InitTalk DEF RequestInv
<1>2. Typed /\ ClientInv /\ RequestInv /\ [Next]_vars => Typed' /\ ClientInv' /\ RequestInv'
  BY ClientAssumption, StepTyped, StepInv, StepRequest
<1>3. RequestInv => RequestSaysTurns
  BY DEF RequestInv
<1>. QED BY <1>1, <1>2, <1>3, PTL DEF Spec
=============================================================================
