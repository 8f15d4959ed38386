-------------------------- MODULE VoicePathProofs ---------------------------
(***************************************************************************)
(* The parts along the voice of one connection, proved for every value of  *)
(* their bounds.                                                           *)
(***************************************************************************)
EXTENDS MCVoicePath, FiniteSetTheorems, SequenceTheorems, TLAPS

(* ------------------------------ the greedy loop ------------------------ *)

Behind == IF frame < Frames THEN frame ELSE Frames

\* The steps of a loop that runs, frame by frame.
Counted ==
  /\ steps <= Behind * Most + here
  /\ frame >= Frames => here = 0

IInv ==
  /\ frame \in Nat /\ symbols \in Nat /\ here \in Nat /\ steps \in Nat
  /\ here <= symbols
  /\ here < Most
  /\ status = "run" => Counted
  /\ steps <= Frames * Most

LEMMA MostIsPositive == Most \in Nat \ {0} /\ MaxSymbols <= Most
BY RecognizerAssumption DEF Most

\* A frame more leaves room for its cap of steps.
LEMMA FrameGivesRoom ==
  ASSUME NEW a \in Nat, NEW b \in Nat, NEW m \in Nat, a < b
  PROVE  a * m \in Nat /\ b * m \in Nat /\ a * m + m <= b * m
<1>1. PICK k \in Nat : b = a + 1 + k
  <2>1. b - a - 1 \in Nat /\ b = a + 1 + (b - a - 1)
    OBVIOUS
  <2>2. QED BY <2>1
<1>2. (a + 1 + k) * m = a * m + m + k * m
  OBVIOUS
<1>3. a * m \in Nat /\ k * m \in Nat /\ b * m \in Nat
  OBVIOUS
<1>4. QED BY <1>1, <1>2, <1>3

LEMMA InitCounts == ASSUME Init PROVE IInv
<1>1. Most \in Nat \ {0}
  BY MostIsPositive
<1>2. 0 * Most = 0 /\ Frames * Most \in Nat
  BY <1>1, RecognizerAssumption
<1>3. QED BY <1>1, <1>2, RecognizerAssumption DEF Init, IInv, Counted, Behind

\* A step that leaves its frame, or stays below the cap of pieces.
LEMMA MoveCounts ==
  ASSUME IInv, Step, status = "run",
         NEW n \in Nat, Moves(n), symbols' \in Nat, status' = "run",
         n = 0 => symbols' = symbols + 1 /\ symbols' < Most
  PROVE  IInv'
<1>1. Most \in Nat \ {0} /\ Frames \in Nat /\ Most' = Most
  BY MostIsPositive, RecognizerAssumption DEF Most
<1>2. /\ frame \in Nat /\ frame < Frames /\ steps \in Nat /\ here \in Nat /\ symbols \in Nat
      /\ steps' = steps + 1 /\ here <= symbols /\ here < Most
      /\ steps <= frame * Most + here
  BY DEF IInv, Counted, Behind, Step
<1>3. frame * Most \in Nat /\ Frames * Most \in Nat /\ frame * Most + Most <= Frames * Most
  BY <1>1, <1>2, FrameGivesRoom
<1>4. steps' <= Frames * Most
  BY <1>1, <1>2, <1>3
<1>5. CASE n = 0
  <2>1. frame' = frame /\ here' = here + 1 /\ symbols' = symbols + 1 /\ symbols' < Most
    BY <1>5, <1>2 DEF Moves
  <2>2. steps' <= frame' * Most' + here' /\ here' < Most' /\ here' <= symbols'
    BY <2>1, <1>1, <1>2, <1>3
  <2>3. Counted'
    BY <2>1, <2>2, <1>1, <1>2 DEF Counted, Behind
  <2>4. QED BY <2>1, <2>2, <2>3, <1>1, <1>2, <1>4 DEF IInv
<1>6. CASE n # 0
  <2>1. frame' = frame + n /\ here' = 0 /\ frame' \in Nat /\ frame < frame'
    BY <1>6, <1>2 DEF Moves
  <2>2. Behind' \in Nat /\ frame < Behind'
    BY <2>1, <1>1, <1>2 DEF Behind
  <2>3. Behind' * Most \in Nat /\ frame * Most + Most <= Behind' * Most
    BY <2>2, <1>1, <1>2, FrameGivesRoom
  <2>4. steps' <= Behind' * Most' + here'
    BY <2>1, <2>3, <1>1, <1>2, <1>3
  <2>5. Counted'
    BY <2>1, <2>4 DEF Counted
  <2>6. QED BY <2>1, <2>5, <1>1, <1>2, <1>4 DEF IInv
<1>7. QED BY <1>5, <1>6

LEMMA BlankCounts == ASSUME IInv, Blank PROVE IInv'
<1>1. PICK duration \in Durations : Moves(Forward(duration))
  BY DEF Blank
<1>2. Forward(duration) \in Nat /\ Forward(duration) # 0
  BY <1>1, RecognizerAssumption DEF Forward
<1>3. Step /\ status = "run" /\ status' = "run" /\ symbols' \in Nat
  BY DEF Blank, Step
<1>4. QED BY <1>1, <1>2, <1>3, MoveCounts

LEMMA EmitCounts == ASSUME IInv, Emit PROVE IInv'
<1>1. Step /\ status = "run" /\ symbols \in Nat
  BY DEF Emit, Step, IInv
<1>2. PICK duration \in Durations : Advances(duration) \/ Cancelled
  BY DEF Emit
<1>3. CASE Advances(duration)
  <2> DEFINE n == IF Full(duration) THEN 1 ELSE duration
  <2>1. n \in Nat /\ Moves(n) /\ status' = "run"
    BY <1>1, <1>2, <1>3, RecognizerAssumption DEF Advances
  <2>2. symbols' \in Nat
    BY <1>1, <1>3 DEF Advances
  <2>3. n = 0 => symbols' = symbols + 1 /\ symbols' < Most
    BY <1>1, <1>2, <1>3, MostIsPositive, RecognizerAssumption DEF Advances, Full
  <2>4. QED BY <2>1, <2>2, <2>3, <1>1, MoveCounts
<1>4. CASE Cancelled
  <2>1. /\ status' = "cancelled" /\ frame' = frame /\ symbols' = symbols /\ here' = here
        /\ steps' = steps + 1 /\ frame < Frames
    BY <1>1, <1>4 DEF Cancelled, Step
  <2>2. Most \in Nat \ {0} /\ Frames \in Nat /\ Most' = Most
    BY MostIsPositive, RecognizerAssumption DEF Most
  <2>3. /\ frame \in Nat /\ steps \in Nat /\ here \in Nat /\ here <= symbols /\ here < Most
        /\ steps <= frame * Most + here
    BY <1>1, <2>1 DEF IInv, Counted, Behind
  <2>4. frame * Most \in Nat /\ Frames * Most \in Nat /\ frame * Most + Most <= Frames * Most
    BY <2>1, <2>2, <2>3, FrameGivesRoom
  <2>5. steps' <= Frames * Most
    BY <2>1, <2>2, <2>3, <2>4
  <2>6. QED BY <2>1, <2>2, <2>3, <2>5, <1>1 DEF IInv
<1>5. QED BY <1>2, <1>3, <1>4

LEMMA StepCounts ==
  ASSUME IInv, [Next]_recognizer PROVE IInv'
<1>1. CASE Blank
  BY <1>1, BlankCounts
<1>2. CASE Emit
  BY <1>2, EmitCounts
<1>3. CASE Throw \/ Finish
  <2>1. status' # "run" /\ UNCHANGED decoder
    BY <1>3 DEF Throw, Finish
  <2>2. QED BY <2>1 DEF IInv, decoder, Most
<1>4. CASE UNCHANGED recognizer
  BY <1>4 DEF IInv, recognizer, decoder, Counted, Behind, Most
<1>5. QED BY <1>1, <1>2, <1>3, <1>4 DEF Next

\* The greedy loop takes no more steps than its cap for each frame, whatever
\* the networks answer.
THEOREM LoopIsBounded == Spec => []DecodeIsBounded
<1>1. Init => IInv
  BY InitCounts
<1>2. IInv /\ [Next]_recognizer => IInv'
  BY StepCounts
<1>3. IInv => DecodeIsBounded
  BY DEF IInv, DecodeIsBounded
<1>4. QED BY <1>1, <1>2, <1>3, PTL DEF Spec

(* --------------------------- the composition --------------------------- *)

LEMMA ModelsRun == MCSpec => Mod!Spec
<1>1. MCInit => Mod!Init
  BY DEF MCInit
<1>2. [MCNext]_MCVars => [Mod!Next]_Mod!loading
  BY DEF MCNext, MCVars, models, Mod!loading
<1>3. QED BY <1>1, <1>2, PTL DEF MCSpec, Mod!Spec

(* ------------------------------- the models ---------------------------- *)

Elements(sequence) == {sequence[i] : i \in DOMAIN sequence}

\* A list releases all of these but the spared ones, each before what it
\* stands on.
Orderly(things, list, spared) ==
  /\ things \subseteq spared \cup Elements(list)
  /\ \A i \in DOMAIN list : \A thing \in things :
       list[i] \in things /\ list[i] \in Mod!StandsOn(thing) =>
         \E k \in 1 .. i - 1 : list[k] = thing

\* What a plan may hold before a step.
Reached(m, s) ==
  CASE m = "tts" -> CASE s = 1 -> {}
                      [] s \in 2 .. 3 -> {"talker"}
                      [] OTHER -> Elements(Mod!Free[m])
    [] m = "call" -> CASE s <= 2 -> {}
                       [] s = 3 -> {"inputs"}
                       [] s \in 4 .. 7 -> Elements(Mod!Free[m])
                       [] OTHER -> {}
    [] OTHER -> CASE s = 1 -> {}
                  [] s = 2 -> {"context"}
                  [] s = 3 -> {"context", "file"}
                  [] s \in 4 .. 6 -> Elements(Mod!Free[m]) \cup {"file"}
                  [] OTHER -> Elements(Mod!Free[m])

FiveModels == {"vad", "turn", "asr", "tts", "aec"}
Kinds == FiveModels \cup {"call"}
Things == {"context", "file", "backend", "weights", "buffer", "arena", "allocator", "worker",
           "constants", "constants_buffer", "mel_arena", "mel_allocator", "predict_allocator",
           "joint_allocator", "run_allocator", "talker", "states", "states_buffer", "nodes",
           "inputs", "inputs_buffer"}
Whole(m) == Elements(Mod!Free[m])

LEMMA FreeIsList == ASSUME NEW m \in Kinds PROVE Mod!Free[m] \in Seq(Things)
<1>1. CASE m = "vad"
  BY <1>1 DEF Things, Mod!Free
<1>2. CASE m = "turn"
  BY <1>2 DEF Things, Mod!Free
<1>3. CASE m = "asr"
  BY <1>3 DEF Things, Mod!Free
<1>4. CASE m = "tts"
  BY <1>4 DEF Things, Mod!Free
<1>5. CASE m = "aec"
  BY <1>5 DEF Things, Mod!Free
<1>6. CASE m = "call"
  BY <1>6 DEF Things, Mod!Free
<1>7. QED BY <1>1, <1>2, <1>3, <1>4, <1>5, <1>6 DEF Kinds, FiveModels

\* What stands on what is the order the lists are in.
LEMMA FreeInOrder == ASSUME NEW m \in Kinds PROVE Orderly(Whole(m), Mod!Free[m], {})
<1>1. CASE m = "vad"
  BY <1>1 DEF Orderly, Whole, Elements, Mod!Free, Mod!StandsOn
<1>2. CASE m = "turn"
  BY <1>2 DEF Orderly, Whole, Elements, Mod!Free, Mod!StandsOn
<1>3. CASE m = "asr"
  BY <1>3 DEF Orderly, Whole, Elements, Mod!Free, Mod!StandsOn
<1>4. CASE m = "tts"
  BY <1>4 DEF Orderly, Whole, Elements, Mod!Free, Mod!StandsOn
<1>5. CASE m = "aec"
  BY <1>5 DEF Orderly, Whole, Elements, Mod!Free, Mod!StandsOn
<1>6. CASE m = "call"
  BY <1>6 DEF Orderly, Whole, Elements, Mod!Free, Mod!StandsOn
<1>7. QED BY <1>1, <1>2, <1>3, <1>4, <1>5, <1>6 DEF Kinds, FiveModels

\* A list that releases the more releases the fewer, spares the more.
LEMMA FewerInOrder ==
  ASSUME NEW A, NEW B, NEW list, NEW S, NEW T, A \subseteq B, S \subseteq T, Orderly(B, list, S)
  PROVE  Orderly(A, list, T)
BY DEF Orderly

\* What is released first leaves the rest in order, and nothing stands on it.
LEMMA RestInOrder ==
  ASSUME NEW things, NEW list \in Seq(Things), NEW S, Orderly(things, list, S), list # <<>>
  PROVE  /\ Orderly(things \ {Head(list)}, Tail(list), S)
         /\ Head(list) \in things => \A thing \in things : Head(list) \notin Mod!StandsOn(thing)
<1>. DEFINE h == Head(list)
            rest == Tail(list)
<1>1. /\ rest \in Seq(Things) /\ Len(list) \in Nat \ {0} /\ Len(rest) = Len(list) - 1
      /\ DOMAIN list = 1 .. Len(list) /\ DOMAIN rest = 1 .. Len(list) - 1
      /\ h = list[1] /\ 1 \in DOMAIN list
      /\ \A i \in DOMAIN rest : rest[i] = list[i + 1] /\ i + 1 \in DOMAIN list
  OBVIOUS
<1>. HIDE DEF h, rest
<1>2. ASSUME NEW thing \in things, thing # h, thing \notin S PROVE thing \in Elements(rest)
  <2>1. PICK i \in DOMAIN list : list[i] = thing
    BY <1>2 DEF Orderly, Elements
  <2>2. i - 1 \in DOMAIN rest /\ rest[i - 1] = thing
    BY <1>1, <1>2, <2>1
  <2>. QED BY <2>2 DEF Elements
<1>3. ASSUME NEW i \in DOMAIN rest, NEW thing \in things, thing # h, rest[i] \in things,
             rest[i] \in Mod!StandsOn(thing)
      PROVE  \E k \in 1 .. i - 1 : rest[k] = thing
  <2>1. i + 1 \in DOMAIN list /\ list[i + 1] = rest[i]
    BY <1>1
  <2>2. PICK k \in 1 .. (i + 1) - 1 : list[k] = thing
    BY <1>3, <2>1 DEF Orderly
  <2>3. k # 1 /\ k - 1 \in 1 .. i - 1 /\ k - 1 \in DOMAIN rest /\ rest[k - 1] = thing
    BY <1>1, <1>3, <2>2, SMTT(30)
  <2>. QED BY <2>3
<1>4. h \in things => \A thing \in things : h \notin Mod!StandsOn(thing)
  BY <1>1 DEF Orderly
<1>5. Orderly(things \ {h}, rest, S)
  <2>1. things \ {h} \subseteq S \cup Elements(rest)
    BY <1>2
  <2>. QED BY <1>3, <2>1 DEF Orderly
<1>. QED BY <1>4, <1>5 DEF h, rest

\* A step keeps within what the plan may hold, and what it leaves when it
\* fails, or throws, is released but for what is spared.
Fits(m, p, before, after) ==
  /\ p.fails \in Seq(Things)
  /\ p.gets \subseteq Things
  /\ (before \cup p.gets) \ p.closes \subseteq after
  /\ p.mayFail => Orderly(before \ p.closes, p.fails, IF m = "call" THEN {"inputs"} ELSE {})
  /\ p.throws => Orderly(before \ p.closes, IF m = "call" THEN <<>> ELSE Mod!Free[m],
                         IF m = "call" THEN Whole(m) ELSE {"file"})

\* The steps of a plan, when what is held before and after is of its whole.
LEMMA StepsFit ==
  ASSUME NEW m \in Kinds, NEW before, NEW after, NEW thing \in Things,
         before \subseteq Whole(m), before \subseteq after
  PROVE  /\ thing \in after => Fits(m, Mod!Get(thing, Mod!Free[m]), before, after)
         /\ thing \in after => Fits(m, Mod!Has(thing), before, after)
         /\ Fits(m, Mod!Check(Mod!Free[m]), before, after)
<1>1. Orderly(before, Mod!Free[m], IF m = "call" THEN {"inputs"} ELSE {})
  BY FreeInOrder, FewerInOrder
<1>2. Mod!Free[m] \in Seq(Things) /\ <<>> \in Seq(Things)
  BY FreeIsList
<1>3. before \ {} = before
  OBVIOUS
<1>. QED BY <1>1, <1>2, <1>3 DEF Fits, Mod!Get, Mod!Has, Mod!Check, Mod!Making

PlanFits(m) ==
  \A s \in 1 .. Len(Mod!Plan[m]) : Fits(m, Mod!Plan[m][s], Reached(m, s), Reached(m, s + 1))

\* A failure before the weights drops the context alone, or all there is.
Early(m) == {<<"context">>, Mod!Free[m]}
EarlyWithFile(m) == {<<"file", "context">>, <<"file">> \o Mod!Free[m]}

\* The four contexts open a file, and a backend for its weights.
Opens(m, plan) ==
  /\ plan[1] = Mod!Has("context")
  /\ \E fails \in Early(m) : plan[2] = Mod!Get("file", fails)
  /\ \E fails \in EarlyWithFile(m) : plan[3] = Mod!Get("backend", fails)
  /\ plan[4] = Mod!Has("weights")
  /\ plan[5] = Mod!Read
  /\ plan[6] = Mod!Upload(Mod!Free[m])
\* ... and what follows is released by the list of the context.
Builds(m, p) ==
  \/ \E thing \in Whole(m) : p = Mod!Get(thing, Mod!Free[m]) \/ p = Mod!Has(thing)
  \/ p = Mod!Check(Mod!Free[m])

LEMMA WholeIsThings == ASSUME NEW m \in Kinds PROVE Whole(m) \subseteq Things
BY FreeIsList DEF Whole, Elements

\* The file stands on nothing, and nothing on it.
LEMMA FileInOrder ==
  ASSUME NEW m \in Kinds, m # "call", "context" \in Whole(m)
  PROVE  /\ Orderly(Whole(m) \cup {"file"}, Mod!Free[m], {"file"})
         /\ Orderly({"context", "file"}, <<"file", "context">>, {})
         /\ Orderly({"context", "file"}, <<"file">> \o Mod!Free[m], {})
         /\ Orderly({"context"}, <<"context">>, {})
         /\ Orderly({"context"}, Mod!Free[m], {})
         /\ <<"file">> \o Mod!Free[m] \in Seq(Things)
<1>1. \A thing \in Things : "file" \notin Mod!StandsOn(thing)
  BY DEF Things, Mod!StandsOn
<1>2. \A thing : thing \notin Mod!StandsOn("file") /\ thing \notin Mod!StandsOn("context")
  BY DEF Mod!StandsOn
<1>3. Orderly(Whole(m), Mod!Free[m], {}) /\ Mod!Free[m] \in Seq(Things) /\ Whole(m) \subseteq Things
  BY FreeInOrder, FreeIsList, WholeIsThings
<1>4. Orderly(Whole(m) \cup {"file"}, Mod!Free[m], {"file"})
  <2>1. Whole(m) \cup {"file"} \subseteq {"file"} \cup Elements(Mod!Free[m])
    BY DEF Whole
  <2>2. ASSUME NEW i \in DOMAIN Mod!Free[m], NEW thing \in Whole(m) \cup {"file"},
               Mod!Free[m][i] \in Mod!StandsOn(thing)
        PROVE  \E k \in 1 .. i - 1 : Mod!Free[m][k] = thing
    <3>1. thing \in Whole(m) /\ Mod!Free[m][i] \in Whole(m)
      BY <1>2, <2>2 DEF Whole, Elements
    <3>. QED BY <1>3, <2>2, <3>1 DEF Orderly
  <2>. QED BY <2>1, <2>2 DEF Orderly
<1>5. /\ Orderly({"context", "file"}, <<"file", "context">>, {})
      /\ Orderly({"context"}, <<"context">>, {})
  BY <1>2 DEF Orderly, Elements
<1>6. Orderly({"context"}, Mod!Free[m], {})
  BY <1>3, FewerInOrder
<1>. DEFINE list == <<"file">> \o Mod!Free[m]
<1>7. list \in Seq(Things) /\ Elements(list) = {"file"} \cup Whole(m)
  <2>1. "file" \in Things /\ <<"file">> \in Seq(Things)
    BY DEF Things
  <2>2. /\ list \in Seq(Things) /\ DOMAIN list = 1 .. Len(Mod!Free[m]) + 1
        /\ DOMAIN Mod!Free[m] = 1 .. Len(Mod!Free[m]) /\ Len(Mod!Free[m]) \in Nat
        /\ list[1] = "file" /\ \A i \in DOMAIN Mod!Free[m] : list[i + 1] = Mod!Free[m][i]
    BY <1>3, <2>1
  <2>. HIDE DEF list
  <2>3. ASSUME NEW i \in DOMAIN list PROVE list[i] \in {"file"} \cup Whole(m)
    <3>1. i = 1 \/ (i - 1 \in DOMAIN Mod!Free[m] /\ list[i] = Mod!Free[m][i - 1])
      BY <2>2
    <3>. QED BY <2>2, <3>1 DEF Whole, Elements
  <2>4. "file" \in Elements(list)
    BY <2>2 DEF Elements
  <2>5. ASSUME NEW i \in DOMAIN Mod!Free[m] PROVE Mod!Free[m][i] \in Elements(list)
    <3>1. i + 1 \in DOMAIN list /\ list[i + 1] = Mod!Free[m][i]
      BY <2>2
    <3>. QED BY <3>1 DEF Elements
  <2>. QED BY <2>2, <2>3, <2>4, <2>5 DEF Whole, Elements
<1>8. Orderly({"context", "file"}, list, {})
  BY <1>2, <1>7 DEF Orderly
<1>. QED BY <1>4, <1>5, <1>6, <1>7, <1>8

LEMMA BuildFits ==
  ASSUME NEW m \in Kinds, NEW p, Builds(m, p) PROVE Fits(m, p, Whole(m), Whole(m))
BY StepsFit, WholeIsThings DEF Builds, Things

\* A step that acquires, and may fail, or not; and one that may throw.
LEMMA MayFailFits ==
  ASSUME NEW m, NEW before, NEW after, NEW gets \in SUBSET Things, NEW closes,
         NEW fails \in Seq(Things), (before \cup gets) \ closes \subseteq after,
         Orderly(before \ closes, fails, IF m = "call" THEN {"inputs"} ELSE {})
  PROVE  Fits(m, Mod!Making(gets, closes, TRUE, fails, FALSE), before, after)
BY DEF Fits, Mod!Making
LEMMA SureFits ==
  ASSUME NEW m, NEW before, NEW after, NEW gets \in SUBSET Things, before \cup gets \subseteq after
  PROVE  Fits(m, Mod!Making(gets, {}, FALSE, <<>>, FALSE), before, after)
BY DEF Fits, Mod!Making
LEMMA ThrowFits ==
  ASSUME NEW m, NEW before, NEW after, NEW closes, before \ closes \subseteq after,
         Orderly(before \ closes, IF m = "call" THEN <<>> ELSE Mod!Free[m],
                 IF m = "call" THEN Whole(m) ELSE {"file"})
  PROVE  Fits(m, Mod!Making({}, closes, FALSE, <<>>, TRUE), before, after)
BY DEF Fits, Mod!Making

\* A pass of a recognition fails, and lets everything go, or throws.
LEMMA RunFits ==
  ASSUME NEW W, W = Whole("call") PROVE Fits("call", Mod!Run(Mod!Free["call"]), W, W)
<1>1. Orderly(W, Mod!Free["call"], {"inputs"}) /\ Mod!Free["call"] \in Seq(Things)
  BY FreeInOrder, FewerInOrder, FreeIsList DEF Kinds
<1>2. Orderly(W, <<>>, W)
  BY DEF Orderly, Elements
<1>3. W \ {} = W /\ (W \cup {}) \ {} = W
  OBVIOUS
<1>. QED BY <1>1, <1>2, <1>3 DEF Fits, Mod!Run, Mod!Making

LEMMA WholeOfContexts ==
  ASSUME NEW m \in {"vad", "turn", "asr", "aec"}
  PROVE  {"context", "backend", "weights", "buffer"} \subseteq Whole(m)
<1>1. CASE m = "vad"
  BY <1>1 DEF Whole, Elements, Mod!Free
<1>2. CASE m = "turn"
  BY <1>2 DEF Whole, Elements, Mod!Free
<1>3. CASE m = "asr"
  BY <1>3 DEF Whole, Elements, Mod!Free
<1>4. CASE m = "aec"
  BY <1>4 DEF Whole, Elements, Mod!Free
<1>. QED BY <1>1, <1>2, <1>3, <1>4

\* Every step of a context that opens so, and builds on, fits.
LEMMA ContextFits ==
  ASSUME NEW m \in {"vad", "turn", "asr", "aec"}, Opens(m, Mod!Plan[m]), Len(Mod!Plan[m]) \in Nat,
         \A s \in 7 .. Len(Mod!Plan[m]) : Builds(m, Mod!Plan[m][s])
  PROVE  PlanFits(m)
<1>. DEFINE plan == Mod!Plan[m]
            W == Whole(m)
<1>. SUFFICES ASSUME NEW s \in 1 .. Len(plan)
     PROVE  Fits(m, plan[s], Reached(m, s), Reached(m, s + 1))
  BY DEF PlanFits
<1>1. m \in Kinds /\ m # "call" /\ m # "tts"
  BY DEF Kinds, FiveModels
<1>2. {"context", "backend", "weights", "buffer"} \subseteq W
  BY WholeOfContexts
<1>3. /\ Reached(m, 1) = {} /\ Reached(m, 2) = {"context"} /\ Reached(m, 3) = {"context", "file"}
      /\ Reached(m, 4) = W \cup {"file"} /\ Reached(m, 5) = W \cup {"file"}
      /\ Reached(m, 6) = W \cup {"file"} /\ Reached(m, 7) = W
      /\ s >= 7 => Reached(m, s) = W /\ Reached(m, s + 1) = W
  BY <1>1 DEF Reached, Whole
<1>4. /\ Orderly(W \cup {"file"}, Mod!Free[m], {"file"}) /\ Orderly(W, Mod!Free[m], {})
      /\ Mod!Free[m] \in Seq(Things)
      /\ \A fails \in Early(m) : fails \in Seq(Things) /\ Orderly({"context"}, fails, {})
      /\ \A fails \in EarlyWithFile(m) :
           fails \in Seq(Things) /\ Orderly({"context", "file"}, fails, {})
  <2>1. <<"context">> \in Seq(Things) /\ <<"file", "context">> \in Seq(Things)
    BY DEF Things
  <2>. QED BY <1>1, <1>2, <2>1, FileInOrder, FreeIsList, FreeInOrder DEF Early, EarlyWithFile
<1>5. {"context", "file", "backend", "weights", "buffer"} \subseteq Things
  BY DEF Things
<1>6. <<>> \in Seq(Things) /\ \A things : things \ {} = things
  OBVIOUS
<1>. HIDE DEF W
<1>7. CASE s = 1
  <2>1. plan[s] = Mod!Has("context")
    BY <1>7 DEF Opens
  <2>2. Fits(m, Mod!Has("context"), {}, {"context"})
    BY <1>5, SureFits DEF Mod!Has
  <2>3. Reached(m, s) = {} /\ Reached(m, s + 1) = {"context"}
    BY <1>3, <1>7
  <2>. QED BY <2>1, <2>2, <2>3, Zenon
<1>8. CASE s = 2
  <2>1. PICK fails \in Early(m) : plan[s] = Mod!Get("file", fails)
    BY <1>8 DEF Opens
  <2>2. Fits(m, Mod!Get("file", fails), {"context"}, {"context", "file"})
    BY <1>1, <1>4, <1>5, <1>6, MayFailFits DEF Mod!Get
  <2>3. Reached(m, s) = {"context"} /\ Reached(m, s + 1) = {"context", "file"}
    BY <1>3, <1>8
  <2>. QED BY <2>1, <2>2, <2>3, Zenon
<1>9. CASE s = 3
  <2>1. PICK fails \in EarlyWithFile(m) : plan[s] = Mod!Get("backend", fails)
    BY <1>9 DEF Opens
  <2>2. Fits(m, Mod!Get("backend", fails), {"context", "file"}, W \cup {"file"})
    BY <1>1, <1>2, <1>4, <1>5, <1>6, MayFailFits DEF Mod!Get
  <2>3. Reached(m, s) = {"context", "file"} /\ Reached(m, s + 1) = W \cup {"file"}
    BY <1>3, <1>9
  <2>. QED BY <2>1, <2>2, <2>3, Zenon
<1>10. CASE s = 4
  <2>1. plan[s] = Mod!Has("weights")
    BY <1>10 DEF Opens
  <2>2. Fits(m, Mod!Has("weights"), W \cup {"file"}, W \cup {"file"})
    BY <1>2, <1>5, SureFits DEF Mod!Has
  <2>3. Reached(m, s) = W \cup {"file"} /\ Reached(m, s + 1) = W \cup {"file"}
    BY <1>3, <1>10
  <2>. QED BY <2>1, <2>2, <2>3, Zenon
<1>11. CASE s = 5
  <2>1. plan[s] = Mod!Read
    BY <1>11 DEF Opens
  <2>2. Fits(m, Mod!Read, W \cup {"file"}, W \cup {"file"})
    BY <1>1, <1>4, <1>6, ThrowFits DEF Mod!Read
  <2>3. Reached(m, s) = W \cup {"file"} /\ Reached(m, s + 1) = W \cup {"file"}
    BY <1>3, <1>11
  <2>. QED BY <2>1, <2>2, <2>3, Zenon
<1>12. CASE s = 6
  <2>1. plan[s] = Mod!Upload(Mod!Free[m])
    BY <1>12 DEF Opens
  <2>2. Fits(m, Mod!Upload(Mod!Free[m]), W \cup {"file"}, W)
    <3>1. Orderly((W \cup {"file"}) \ {"file"}, Mod!Free[m], {})
      BY <1>4, FewerInOrder
    <3>. QED BY <1>1, <1>2, <1>4, <1>5, <3>1, MayFailFits DEF Mod!Upload
  <2>3. Reached(m, s) = W \cup {"file"} /\ Reached(m, s + 1) = W
    BY <1>3, <1>12
  <2>. QED BY <2>1, <2>2, <2>3, Zenon
<1>13. CASE s >= 7
  BY <1>1, <1>3, <1>13, BuildFits DEF W
<1>. QED BY <1>7, <1>8, <1>9, <1>10, <1>11, <1>12, <1>13

LEMMA VadFits == PlanFits("vad")
<1>. DEFINE plan == Mod!Plan["vad"]
<1>1. plan = Mod!Vad /\ Len(plan) = 9
  BY DEF Mod!Plan, Mod!Vad
<1>2. Opens("vad", plan)
  BY DEF Opens, Early, EarlyWithFile, Mod!Plan, Mod!Vad
<1>3. \A s \in 7 .. 9 : Builds("vad", plan[s])
  BY DEF Builds, Whole, Elements, Mod!Plan, Mod!Vad, Mod!Free
<1>4. Len(plan) \in Nat /\ \A s \in 7 .. Len(plan) : Builds("vad", plan[s])
  BY <1>1, <1>3
<1>. QED BY <1>2, <1>4, ContextFits

LEMMA TurnFits == PlanFits("turn")
<1>. DEFINE plan == Mod!Plan["turn"]
<1>1. plan = Mod!Turn /\ Len(plan) = 14
  BY DEF Mod!Plan, Mod!Turn
<1>2. Opens("turn", plan)
  BY DEF Opens, Early, EarlyWithFile, Mod!Plan, Mod!Turn
<1>3. \A s \in 7 .. 14 : Builds("turn", plan[s])
  BY DEF Builds, Whole, Elements, Mod!Plan, Mod!Turn, Mod!Free
<1>4. Len(plan) \in Nat /\ \A s \in 7 .. Len(plan) : Builds("turn", plan[s])
  BY <1>1, <1>3
<1>. QED BY <1>2, <1>4, ContextFits

LEMMA AsrFits == PlanFits("asr")
<1>. DEFINE plan == Mod!Plan["asr"]
<1>1. plan = Mod!Asr /\ Len(plan) = 13
  BY DEF Mod!Plan, Mod!Asr
<1>2. Opens("asr", plan)
  BY DEF Opens, Early, EarlyWithFile, Mod!Plan, Mod!Asr
<1>3. \A s \in 7 .. 13 : Builds("asr", plan[s])
  BY DEF Builds, Whole, Elements, Mod!Plan, Mod!Asr, Mod!Free
<1>4. Len(plan) \in Nat /\ \A s \in 7 .. Len(plan) : Builds("asr", plan[s])
  BY <1>1, <1>3
<1>. QED BY <1>2, <1>4, ContextFits

LEMMA AecFits == PlanFits("aec")
<1>. DEFINE plan == Mod!Plan["aec"]
<1>1. plan = Mod!Aec /\ Len(plan) = 12
  BY DEF Mod!Plan, Mod!Aec
<1>2. Opens("aec", plan)
  BY DEF Opens, Early, EarlyWithFile, Mod!Plan, Mod!Aec
<1>3. \A s \in 7 .. 12 : Builds("aec", plan[s])
  BY DEF Builds, Whole, Elements, Mod!Plan, Mod!Aec, Mod!Free
<1>4. Len(plan) \in Nat /\ \A s \in 7 .. Len(plan) : Builds("aec", plan[s])
  BY <1>1, <1>3
<1>. QED BY <1>2, <1>4, ContextFits

\* The talker is external, and what it makes stands alone.
LEMMA TtsFits == PlanFits("tts")
<1>. DEFINE plan == Mod!Plan["tts"]
<1>1. /\ plan[1] = Mod!Get("talker", <<>>) /\ plan[2] = Mod!Check(<<"talker">>)
      /\ plan[3] = Mod!Has("context") /\ plan[4] = Mod!Check(Mod!Free["tts"]) /\ Len(plan) = 4
  BY DEF Mod!Plan, Mod!Tts
<1>2. Whole("tts") = {"talker", "context"} /\ {"talker", "context"} \subseteq Things
  BY DEF Whole, Elements, Mod!Free, Things
<1>3. /\ Reached("tts", 1) = {} /\ Reached("tts", 2) = {"talker"}
      /\ Reached("tts", 3) = {"talker"} /\ Reached("tts", 4) = Whole("tts")
      /\ Reached("tts", 5) = Whole("tts")
  BY DEF Reached, Whole
<1>4. "tts" \in Kinds /\ <<>> \in Seq(Things) /\ <<"talker">> \in Seq(Things)
  BY DEF Kinds, FiveModels, Things
<1>5. Fits("tts", plan[1], {}, {"talker"})
  <2>1. Orderly({} \ {}, <<>>, IF "tts" = "call" THEN {"inputs"} ELSE {})
    BY DEF Orderly, Elements
  <2>2. ({} \cup {"talker"}) \ {} \subseteq {"talker"} /\ {"talker"} \in SUBSET Things
    BY <1>2
  <2>3. Fits("tts", Mod!Making({"talker"}, {}, TRUE, <<>>, FALSE), {}, {"talker"})
    BY <1>4, <2>1, <2>2, MayFailFits
  <2>. QED BY <1>1, <2>3 DEF Mod!Get
<1>6. Fits("tts", plan[2], {"talker"}, {"talker"})
  <2>1. Orderly({"talker"} \ {}, <<"talker">>, IF "tts" = "call" THEN {"inputs"} ELSE {})
    BY DEF Orderly, Elements, Mod!StandsOn
  <2>2. ({"talker"} \cup {}) \ {} \subseteq {"talker"} /\ {} \in SUBSET Things
    OBVIOUS
  <2>3. Fits("tts", Mod!Making({}, {}, TRUE, <<"talker">>, FALSE), {"talker"}, {"talker"})
    BY <1>4, <2>1, <2>2, MayFailFits
  <2>. QED BY <1>1, <2>3 DEF Mod!Check
<1>7. Fits("tts", plan[3], {"talker"}, Whole("tts"))
  <2>1. {"talker"} \cup {"context"} \subseteq Whole("tts") /\ {"context"} \in SUBSET Things
    BY <1>2
  <2>2. Fits("tts", Mod!Making({"context"}, {}, FALSE, <<>>, FALSE), {"talker"}, Whole("tts"))
    BY <2>1, SureFits
  <2>. QED BY <1>1, <2>2 DEF Mod!Has
<1>8. Fits("tts", plan[4], Whole("tts"), Whole("tts"))
  BY <1>1, <1>2, <1>4, StepsFit
<1>9. ASSUME NEW s \in 1 .. Len(plan)
      PROVE  Fits("tts", plan[s], Reached("tts", s), Reached("tts", s + 1))
  <2>1. s \in 1 .. 4
    BY <1>1
  <2>2. CASE s = 1
    <3>1. s + 1 = 2
      BY <2>2
    <3>. QED BY <1>3, <1>5, <2>2, <3>1, Zenon
  <2>3. CASE s = 2
    <3>1. s + 1 = 3
      BY <2>3
    <3>. QED BY <1>3, <1>6, <2>3, <3>1, Zenon
  <2>4. CASE s = 3
    <3>1. s + 1 = 4
      BY <2>4
    <3>. QED BY <1>3, <1>7, <2>4, <3>1, Zenon
  <2>5. CASE s = 4
    <3>1. s + 1 = 5
      BY <2>5
    <3>. QED BY <1>3, <1>8, <2>5, <3>1, Zenon
  <2>. QED BY <2>1, <2>2, <2>3, <2>4, <2>5
<1>. QED BY <1>9 DEF PlanFits

\* A recognition lets its graph and its inputs go by itself, but for the
\* inputs it could not place and for what it held as it threw.
LEMMA CallFits == PlanFits("call")
<1>. DEFINE plan == Mod!Plan["call"]
            W == Whole("call")
<1>1. /\ plan[1] = Mod!Check(<<>>) /\ plan[2] = Mod!Has("inputs")
      /\ plan[3] = Mod!Get("inputs_buffer", <<>>) /\ plan[4] = Mod!Has("nodes")
      /\ plan[5] = Mod!Run(Mod!Free["call"]) /\ plan[6] = Mod!Run(Mod!Free["call"])
      /\ plan[7] = Mod!Making({}, {"nodes", "inputs_buffer", "inputs"}, FALSE, <<>>, TRUE)
      /\ Len(plan) = 7
  BY DEF Mod!Plan, Mod!Call, Mod!Free
<1>2. W = {"nodes", "inputs_buffer", "inputs"} /\ W \subseteq Things
  BY DEF Whole, Elements, Mod!Free, Things
<1>3. /\ Reached("call", 1) = {} /\ Reached("call", 2) = {} /\ Reached("call", 3) = {"inputs"}
      /\ Reached("call", 4) = W /\ Reached("call", 5) = W /\ Reached("call", 6) = W
      /\ Reached("call", 7) = W /\ Reached("call", 8) = {}
  BY DEF Reached, Whole
<1>4. "call" \in Kinds /\ <<>> \in Seq(Things)
  BY DEF Kinds
<1>5. Orderly({} \ {}, <<>>, {"inputs"}) /\ Orderly({"inputs"} \ {}, <<>>, {"inputs"})
  BY DEF Orderly, Elements
<1>6. Fits("call", plan[1], {}, {})
  BY <1>1, <1>4, <1>5, MayFailFits DEF Mod!Check
<1>7. Fits("call", plan[2], {}, {"inputs"})
  <2>1. {} \cup {"inputs"} \subseteq {"inputs"} /\ {"inputs"} \in SUBSET Things
    BY <1>2
  <2>2. Fits("call", Mod!Making({"inputs"}, {}, FALSE, <<>>, FALSE), {}, {"inputs"})
    BY <2>1, SureFits
  <2>. QED BY <1>1, <2>2 DEF Mod!Has
<1>8. Fits("call", plan[3], {"inputs"}, W)
  <2>1. ({"inputs"} \cup {"inputs_buffer"}) \ {} \subseteq W /\ {"inputs_buffer"} \in SUBSET Things
    BY <1>2
  <2>2. Orderly({"inputs"} \ {}, <<>>, IF "call" = "call" THEN {"inputs"} ELSE {})
    BY <1>5
  <2>. HIDE DEF W
  <2>3. Fits("call", Mod!Making({"inputs_buffer"}, {}, TRUE, <<>>, FALSE), {"inputs"}, W)
    BY <1>4, <2>1, <2>2, MayFailFits
  <2>. QED BY <1>1, <2>3 DEF Mod!Get
<1>9. Fits("call", plan[4], W, W) /\ Fits("call", plan[5], W, W) /\ Fits("call", plan[6], W, W)
  BY <1>1, <1>2, <1>4, StepsFit, RunFits
<1>10. Fits("call", plan[7], W, {})
  <2>1. Orderly(W \ {"nodes", "inputs_buffer", "inputs"}, <<>>, W)
    BY <1>2 DEF Orderly, Elements
  <2>. QED BY <1>1, <1>2, <2>1, ThrowFits
<1>11. ASSUME NEW s \in 1 .. Len(plan)
       PROVE  Fits("call", plan[s], Reached("call", s), Reached("call", s + 1))
  <2>. HIDE DEF W
  <2>1. s \in 1 .. 7
    BY <1>1
  <2>2. CASE s = 1
    <3>1. s + 1 = 2
      BY <2>2
    <3>. QED BY <1>3, <1>6, <2>2, <3>1, Zenon
  <2>3. CASE s = 2
    <3>1. s + 1 = 3
      BY <2>3
    <3>. QED BY <1>3, <1>7, <2>3, <3>1, Zenon
  <2>4. CASE s = 3
    <3>1. s + 1 = 4
      BY <2>4
    <3>. QED BY <1>3, <1>8, <2>4, <3>1, Zenon
  <2>5. CASE s = 4
    <3>1. s + 1 = 5
      BY <2>5
    <3>. QED BY <1>3, <1>9, <2>5, <3>1, Zenon
  <2>6. CASE s = 5
    <3>1. s + 1 = 6
      BY <2>6
    <3>. QED BY <1>3, <1>9, <2>6, <3>1, Zenon
  <2>7. CASE s = 6
    <3>1. s + 1 = 7
      BY <2>7
    <3>. QED BY <1>3, <1>9, <2>7, <3>1, Zenon
  <2>8. CASE s = 7
    <3>1. s + 1 = 8
      BY <2>8
    <3>. QED BY <1>3, <1>10, <2>8, <3>1, Zenon
  <2>. QED BY <2>1, <2>2, <2>3, <2>4, <2>5, <2>6, <2>7, <2>8
<1>. QED BY <1>11 DEF PlanFits

LEMMA PlansFit == ASSUME NEW m \in Kinds PROVE PlanFits(m)
BY VadFits, TurnFits, AsrFits, TtsFits, AecFits, CallFits DEF Kinds, FiveModels

(* ----------------------- the invariant of the loader ------------------- *)

\* What a plan holds, of all that is held.
Mine(pairs, m) == {x[2] : x \in {y \in pairs : y[1] = m}}

Spared == IF stage = "stopping" THEN {}
          ELSE IF doing = "call" THEN (IF thrown THEN Whole(doing) ELSE {"inputs"})
          ELSE IF thrown THEN {"file"} ELSE {}

\* The models that are loaded, but for the one a plan is about.
Standing ==
  CASE stage \in {"loading", "stopping"} ->
         {m \in FiveModels : Mod!Index(m) < Mod!Index(doing)}
    [] stage \in {"serving", "refused"} -> FiveModels
    [] OTHER -> {}

LoadTyped ==
  /\ stage \in {"loading", "serving", "stopping", "refused", "over"}
  /\ stage \in {"loading", "stopping"} => doing \in FiveModels
  /\ stage = "serving" => doing \in {"call", Mod!None}
  /\ stage \in {"refused", "over"} => doing = Mod!None
  /\ step \in Nat \ {0} /\ cleanup \in Seq(Things)
  /\ held \subseteq Kinds \X Things
  /\ doing = Mod!None => cleanup = <<>>
  /\ stage = "serving" /\ doing = Mod!None => ~failed
  /\ stage = "stopping" => ~failed

\* A plan that runs holds what its steps may; one that unwinds holds what its
\* list releases in order, but for what is spared; the other models stand whole.
Steady ==
  doing # Mod!None /\ ~failed /\ stage # "stopping" =>
    cleanup = <<>> /\ ~thrown /\ Mine(held, doing) \subseteq Reached(doing, step)
Unwinding ==
  doing # Mod!None /\ (failed \/ stage = "stopping") =>
    Orderly(Mine(held, doing), cleanup, Spared)
Others ==
  stage # "refused" => \A x \in held : x[1] # doing => x[1] \in Standing /\ x[2] \in Whole(x[1])

LeftBehind ==
  \A x \in left : \/ x[2] = "file" /\ x[3]
                  \/ x[1] = "call" /\ (x[2] = "inputs" \/ x[3])

LoadInv == LoadTyped /\ ~early /\ LeftBehind /\ Steady /\ Unwinding /\ Others

LEMMA IndexIs ==
  /\ Len(Mod!Models) = 5
  /\ \A i \in 1 .. 5 : Mod!Models[i] \in FiveModels /\ Mod!Index(Mod!Models[i]) = i
  /\ \A m \in FiveModels : Mod!Index(m) \in 1 .. 5 /\ Mod!Models[Mod!Index(m)] = m
<1>1. Len(Mod!Models) = 5 /\ DOMAIN Mod!Models = 1 .. 5
  BY DEF Mod!Models
<1>2. /\ Mod!Models[1] = "vad" /\ Mod!Models[2] = "turn" /\ Mod!Models[3] = "asr"
      /\ Mod!Models[4] = "tts" /\ Mod!Models[5] = "aec"
  BY DEF Mod!Models
<1>3. ASSUME NEW m \in FiveModels PROVE Mod!Index(m) \in 1 .. 5 /\ Mod!Models[Mod!Index(m)] = m
  <2>1. \E i \in DOMAIN Mod!Models : Mod!Models[i] = m
    BY <1>1, <1>2 DEF FiveModels
  <2>. QED BY <1>1, <2>1 DEF Mod!Index
<1>4. ASSUME NEW i \in 1 .. 5
      PROVE  Mod!Models[i] \in FiveModels /\ Mod!Index(Mod!Models[i]) = i
  <2>1. i \in {1, 2, 3, 4, 5}
    OBVIOUS
  <2>2. Mod!Models[i] \in FiveModels
    BY <1>2, <2>1 DEF FiveModels
  <2>3. \A j \in 1 .. 5 : Mod!Models[j] = Mod!Models[i] => j = i
    BY <1>2, <2>1
  <2>. QED BY <1>3, <2>2, <2>3
<1>. QED BY <1>1, <1>3, <1>4

LEMMA MineIs ==
  ASSUME NEW pairs, pairs \subseteq Kinds \X Things, NEW m, NEW thing
  PROVE  thing \in Mine(pairs, m) <=> <<m, thing>> \in pairs
<1>1. ASSUME thing \in Mine(pairs, m) PROVE <<m, thing>> \in pairs
  BY <1>1 DEF Mine
<1>2. ASSUME <<m, thing>> \in pairs PROVE thing \in Mine(pairs, m)
  <2>1. <<m, thing>> \in {y \in pairs : y[1] = m} /\ <<m, thing>>[2] = thing
    BY <1>2
  <2>. QED BY <2>1 DEF Mine
<1>. QED BY <1>1, <1>2

LEMMA NoneIs ==
  Mod!None \notin Kinds /\ Kinds = FiveModels \cup {"call"} /\ "call" \notin FiveModels
BY DEF Kinds, FiveModels, Mod!None

\* A step or a release touches what the plan at hand holds, and nothing else.
LEMMA OthersStay ==
  ASSUME Others, doing' = doing, stage' = stage, \A x \in held' : x[1] # doing => x \in held
  PROVE  Others'
BY DEF Others, Standing

LEMMA OwnOnly ==
  ASSUME held \subseteq Kinds \X Things, doing \in Kinds, NEW gets \in SUBSET Things, NEW closes,
         held' = (held \cup Mod!Own(gets)) \ Mod!Own(closes)
  PROVE  /\ held' \subseteq Kinds \X Things
         /\ Mine(held', doing) \subseteq (Mine(held, doing) \cup gets) \ closes
         /\ \A x \in held' : x[1] # doing => x \in held
<1>1. \A x \in Mod!Own(gets) : x \in Kinds \X Things /\ x[1] = doing /\ x[2] \in gets
  BY DEF Mod!Own
<1>2. \A thing \in closes : <<doing, thing>> \in Mod!Own(closes)
  BY DEF Mod!Own
<1>3. held' \subseteq Kinds \X Things
  BY <1>1
<1>4. ASSUME NEW thing \in Mine(held', doing) PROVE thing \in (Mine(held, doing) \cup gets) \ closes
  <2>1. <<doing, thing>> \in held'
    BY <1>3, MineIs
  <2>2. <<doing, thing>> \in held \/ thing \in gets
    BY <1>1, <2>1
  <2>3. thing \notin closes
    BY <1>2, <2>1
  <2>. QED BY <2>2, <2>3, MineIs
<1>. QED BY <1>1, <1>3, <1>4

\* The step at hand fits the plan.
LEMMA NowFits ==
  ASSUME LoadInv, Mod!Works
  PROVE  /\ doing \in Kinds /\ stage # "stopping" /\ ~failed /\ ~thrown
         /\ Mod!Now.gets \in SUBSET Things /\ Mod!Now.fails \in Seq(Things)
         /\ (Mine(held, doing) \cup Mod!Now.gets) \ Mod!Now.closes
              \subseteq Reached(doing, step + 1)
         /\ Mod!Now.mayFail => Orderly(Mine(held, doing) \ Mod!Now.closes, Mod!Now.fails,
                                       IF doing = "call" THEN {"inputs"} ELSE {})
         /\ Mod!Now.throws => Orderly(Mine(held, doing) \ Mod!Now.closes,
                                      IF doing = "call" THEN <<>> ELSE Mod!Free[doing],
                                      IF doing = "call" THEN Whole(doing) ELSE {"file"})
<1>1. /\ doing \in Kinds /\ stage # "stopping" /\ ~failed /\ ~thrown
      /\ Mine(held, doing) \subseteq Reached(doing, step)
  BY NoneIs DEF LoadInv, LoadTyped, Steady, Mod!Works
<1>2. step \in 1 .. Len(Mod!Plan[doing]) /\ step \in Nat
  <2>1. step \in Nat \ {0} /\ step <= Len(Mod!Plan[doing])
    BY DEF LoadInv, LoadTyped, Mod!Works
  <2>2. Len(Mod!Plan[doing]) \in Nat
    <3>1. \A m \in Kinds : Len(Mod!Plan[m]) \in Nat
      BY DEF Kinds, FiveModels, Mod!Plan, Mod!Vad, Mod!Turn, Mod!Asr, Mod!Tts, Mod!Aec, Mod!Call
    <3>. QED BY <1>1, <3>1
  <2>. QED BY <2>1, <2>2
<1>3. Fits(doing, Mod!Now, Reached(doing, step), Reached(doing, step + 1))
  BY <1>1, <1>2, PlansFit DEF PlanFits, Mod!Now
<1>4. Mine(held, doing) \ Mod!Now.closes \subseteq Reached(doing, step) \ Mod!Now.closes
  BY <1>1
<1>5. Mod!Now.mayFail => Orderly(Mine(held, doing) \ Mod!Now.closes, Mod!Now.fails,
                                 IF doing = "call" THEN {"inputs"} ELSE {})
  BY <1>3, <1>4, FewerInOrder DEF Fits
<1>6. Mod!Now.throws => Orderly(Mine(held, doing) \ Mod!Now.closes,
                                IF doing = "call" THEN <<>> ELSE Mod!Free[doing],
                                IF doing = "call" THEN Whole(doing) ELSE {"file"})
  BY <1>3, <1>4, FewerInOrder DEF Fits
<1>7. (Mine(held, doing) \cup Mod!Now.gets) \ Mod!Now.closes \subseteq Reached(doing, step + 1)
  BY <1>1, <1>3 DEF Fits
<1>. QED BY <1>1, <1>3, <1>5, <1>6, <1>7 DEF Fits

LEMMA AcquireKeeps == ASSUME LoadInv, Mod!Acquire PROVE LoadInv'
<1>1. /\ Mod!Works /\ step' = step + 1
      /\ held' = (held \cup Mod!Own(Mod!Now.gets)) \ Mod!Own(Mod!Now.closes)
      /\ UNCHANGED <<doing, cleanup, failed, thrown, stage, left, early>>
  BY DEF Mod!Acquire
<1>2. held \subseteq Kinds \X Things /\ step \in Nat \ {0} /\ cleanup = <<>>
  BY <1>1 DEF LoadInv, LoadTyped, Mod!Works
<1>3. /\ held' \subseteq Kinds \X Things
      /\ Mine(held', doing) \subseteq (Mine(held, doing) \cup Mod!Now.gets) \ Mod!Now.closes
      /\ \A x \in held' : x[1] # doing => x \in held
  BY <1>1, <1>2, NowFits, OwnOnly
<1>4. LoadTyped'
  BY <1>1, <1>2, <1>3 DEF LoadInv, LoadTyped
<1>5. Steady'
  BY <1>1, <1>2, <1>3, NowFits DEF Steady
<1>6. Unwinding'
  BY <1>1, NowFits DEF Unwinding
<1>7. Others'
  BY <1>1, <1>3, OthersStay DEF LoadInv
<1>. QED BY <1>1, <1>4, <1>5, <1>6, <1>7 DEF LoadInv, LeftBehind

LEMMA FailKeeps == ASSUME LoadInv, Mod!Fail \/ Mod!Throw PROVE LoadInv'
<1>1. /\ Mod!Works /\ failed' = TRUE /\ held' = (held \cup Mod!Own({})) \ Mod!Own(Mod!Now.closes)
      /\ UNCHANGED <<doing, step, stage, left, early>>
  BY DEF Mod!Fail, Mod!Throw, Mod!Own
<1>2. held \subseteq Kinds \X Things /\ step \in Nat \ {0} /\ doing \in Kinds
  BY <1>1, NowFits DEF LoadInv, LoadTyped
<1>3. /\ held' \subseteq Kinds \X Things
      /\ Mine(held', doing) \subseteq Mine(held, doing) \ Mod!Now.closes
      /\ \A x \in held' : x[1] # doing => x \in held
  <2>1. /\ held' \subseteq Kinds \X Things
        /\ Mine(held', doing) \subseteq (Mine(held, doing) \cup {}) \ Mod!Now.closes
        /\ \A x \in held' : x[1] # doing => x \in held
    BY <1>1, <1>2, OwnOnly
  <2>. QED BY <2>1
<1>4. doing # Mod!None /\ stage # "stopping" /\ ~thrown
  BY <1>1, <1>2, NowFits, NoneIs
<1>5. cleanup' \in Seq(Things) /\ Orderly(Mine(held', doing'), cleanup', Spared')
  <2>1. CASE Mod!Fail
    <3>1. cleanup' = Mod!Now.fails /\ thrown' = thrown /\ Mod!Now.mayFail
      BY <2>1 DEF Mod!Fail
    <3>2. Orderly(Mine(held, doing) \ Mod!Now.closes, Mod!Now.fails,
                  IF doing = "call" THEN {"inputs"} ELSE {})
      BY <1>1, <3>1, NowFits
    <3>3. Spared' = IF doing = "call" THEN {"inputs"} ELSE {}
      BY <1>1, <1>4, <3>1 DEF Spared
    <3>4. Orderly(Mine(held', doing), Mod!Now.fails, IF doing = "call" THEN {"inputs"} ELSE {})
      BY <1>3, <3>2, FewerInOrder
    <3>5. doing' = doing /\ Mod!Now.fails \in Seq(Things)
      BY <1>1, NowFits
    <3>. QED BY <3>1, <3>3, <3>4, <3>5, Zenon
  <2>2. CASE Mod!Throw
    <3>1. /\ cleanup' = (IF doing = "call" THEN <<>> ELSE Mod!Free[doing])
          /\ thrown' = TRUE /\ Mod!Now.throws
      BY <2>2 DEF Mod!Throw
    <3>2. Orderly(Mine(held, doing) \ Mod!Now.closes,
                  IF doing = "call" THEN <<>> ELSE Mod!Free[doing],
                  IF doing = "call" THEN Whole(doing) ELSE {"file"})
      BY <1>1, <3>1, NowFits
    <3>3. Spared' = IF doing = "call" THEN Whole(doing) ELSE {"file"}
      BY <1>1, <1>4, <3>1 DEF Spared
    <3>4. cleanup' \in Seq(Things)
      BY <1>2, <3>1, FreeIsList
    <3>5. Orderly(Mine(held', doing), IF doing = "call" THEN <<>> ELSE Mod!Free[doing],
                  IF doing = "call" THEN Whole(doing) ELSE {"file"})
      BY <1>3, <3>2, FewerInOrder
    <3>6. doing' = doing
      BY <1>1
    <3>. QED BY <3>1, <3>3, <3>4, <3>5, <3>6, Zenon
  <2>. QED BY <2>1, <2>2
<1>6. LoadTyped'
  BY <1>1, <1>2, <1>3, <1>4, <1>5 DEF LoadInv, LoadTyped
<1>7. Others'
  BY <1>1, <1>3, OthersStay DEF LoadInv
<1>. QED BY <1>1, <1>5, <1>6, <1>7 DEF LoadInv, LeftBehind, Steady, Unwinding

LEMMA ReleaseKeeps == ASSUME LoadInv, Mod!Release PROVE LoadInv'
<1>. DEFINE thing == Head(cleanup)
<1>1. /\ cleanup # <<>> /\ cleanup' = Tail(cleanup) /\ held' = held \ {<<doing, thing>>}
      /\ early' = (early \/ /\ <<doing, thing>> \in held
                            /\ \E x \in held : x[1] = doing /\ thing \in Mod!StandsOn(x[2]))
      /\ UNCHANGED <<doing, step, failed, thrown, stage, left>>
  BY DEF Mod!Release
<1>2. /\ held \subseteq Kinds \X Things /\ cleanup \in Seq(Things) /\ doing # Mod!None
      /\ failed \/ stage = "stopping"
  BY <1>1 DEF LoadInv, LoadTyped, Steady
<1>3. Orderly(Mine(held, doing), cleanup, Spared)
  BY <1>2 DEF LoadInv, Unwinding
<1>4. /\ Orderly(Mine(held, doing) \ {thing}, Tail(cleanup), Spared)
      /\ thing \in Mine(held, doing) => \A t \in Mine(held, doing) : thing \notin Mod!StandsOn(t)
  BY <1>1, <1>2, <1>3, RestInOrder
<1>. HIDE DEF thing
<1>5. held' \subseteq Kinds \X Things /\ \A x \in held' : x[1] # doing => x \in held
  BY <1>1, <1>2
<1>6. Mine(held', doing) \subseteq Mine(held, doing) \ {thing}
  <2>1. ASSUME NEW t \in Mine(held', doing) PROVE t \in Mine(held, doing) /\ t # thing
    <3>1. <<doing, t>> \in held'
      BY <1>5, MineIs
    <3>2. <<doing, t>> \in held /\ <<doing, t>> # <<doing, thing>>
      BY <1>1, <3>1
    <3>. QED BY <1>2, <3>2, MineIs
  <2>. QED BY <2>1
<1>7. ~early'
  <2>1. ASSUME <<doing, thing>> \in held, NEW x \in held, x[1] = doing, thing \in Mod!StandsOn(x[2])
        PROVE  FALSE
    <3>1. x = <<doing, x[2]>>
      BY <1>2, <2>1
    <3>2. x[2] \in Mine(held, doing) /\ thing \in Mine(held, doing)
      BY <1>2, <2>1, <3>1, MineIs
    <3>. QED BY <1>4, <2>1, <3>2
  <2>2. ~early
    BY DEF LoadInv
  <2>. QED BY <1>1, <2>1, <2>2
<1>8. Unwinding'
  <2>1. Spared' = Spared
    BY <1>1 DEF Spared
  <2>2. Orderly(Mine(held', doing), Tail(cleanup), Spared)
    BY <1>4, <1>6, FewerInOrder
  <2>. QED BY <1>1, <2>1, <2>2 DEF Unwinding
<1>9. LoadTyped'
  <2>1. Tail(cleanup) \in Seq(Things)
    BY <1>1, <1>2
  <2>. QED BY <1>1, <1>2, <1>5, <2>1 DEF LoadInv, LoadTyped
<1>10. Others'
  BY <1>1, <1>5, OthersStay DEF LoadInv
<1>11. Steady'
  BY <1>1, <1>2 DEF Steady
<1>. QED BY <1>1, <1>7, <1>8, <1>9, <1>10, <1>11 DEF LoadInv, LeftBehind

\* What a plan that ended leaves is what was spared.
LEMMA LeftIsSpared ==
  ASSUME LoadInv, doing # Mod!None, cleanup = <<>>, failed \/ stage = "stopping"
  PROVE  /\ Mine(held, doing) \subseteq Spared
         /\ \A x \in Mod!Left : \/ x[2] = "file" /\ x[3]
                                \/ x[1] = "call" /\ (x[2] = "inputs" \/ x[3])
<1>1. Mine(held, doing) \subseteq Spared
  BY DEF LoadInv, Unwinding, Orderly, Elements
<1>2. ASSUME NEW x \in Mod!Left
      PROVE  \/ x[2] = "file" /\ x[3]
             \/ x[1] = "call" /\ (x[2] = "inputs" \/ x[3])
  <2>1. PICK y \in held : y[1] = doing /\ x = <<y[1], y[2], thrown>>
    BY DEF Mod!Left
  <2>2. y[2] \in Mine(held, doing)
    BY <2>1 DEF Mine
  <2>3. x[1] = doing /\ x[2] \in Spared /\ x[3] = thrown
    BY <1>1, <2>1, <2>2
  <2>. QED BY <2>3 DEF Spared
<1>. QED BY <1>1, <1>2

\* What is held of a model other than the one at hand.
LEMMA OtherIs ==
  ASSUME LoadInv, stage # "refused", NEW x \in held, x[1] # doing
  PROVE  x[1] \in Standing /\ x[2] \in Whole(x[1])
BY DEF LoadInv, Others

LEMMA ReachedEnds ==
  ASSUME NEW m \in FiveModels, NEW s \in Nat, s > Len(Mod!Plan[m])
  PROVE  Reached(m, s) \subseteq Whole(m)
<1>. DEFINE n == Len(Mod!Plan[m])
<1>1. IF m = "tts" THEN n = 4 ELSE n = 9 \/ n = 12 \/ n = 13 \/ n = 14
  <2>1. /\ Len(Mod!Plan["vad"]) = 9 /\ Len(Mod!Plan["turn"]) = 14 /\ Len(Mod!Plan["asr"]) = 13
        /\ Len(Mod!Plan["tts"]) = 4 /\ Len(Mod!Plan["aec"]) = 12
    BY DEF Mod!Plan, Mod!Vad, Mod!Turn, Mod!Asr, Mod!Tts, Mod!Aec
  <2>. QED BY <2>1 DEF FiveModels
<1>. HIDE DEF n
<1>2. m # "call"
  BY DEF FiveModels
<1>3. CASE m = "tts"
  <2>1. s > 4
    BY <1>1, <1>3 DEF n
  <2>. QED BY <1>3, <2>1 DEF Reached, Whole
<1>4. CASE m # "tts"
  <2>1. PICK k \in {9, 12, 13, 14} : n = k
    BY <1>1, <1>4
  <2>2. s > k
    BY <2>1 DEF n
  <2>3. s > 9
    BY <2>2
  <2>. QED BY <1>2, <1>4, <2>3 DEF Reached, Whole
<1>. QED BY <1>3, <1>4

LEMMA LoadedKeeps == ASSUME LoadInv, Mod!Loaded PROVE LoadInv'
<1>. DEFINE i == Mod!Index(doing)
<1>1. /\ stage = "loading" /\ ~failed /\ step > Len(Mod!Plan[doing]) /\ step' = 1
      /\ UNCHANGED <<cleanup, failed, thrown, held, left, early>>
      /\ IF i = Len(Mod!Models) THEN doing' = Mod!None /\ stage' = "serving"
                                ELSE doing' = Mod!Models[i + 1] /\ stage' = stage
  BY DEF Mod!Loaded
<1>2. /\ held \subseteq Kinds \X Things /\ doing \in FiveModels /\ step \in Nat
      /\ doing # Mod!None /\ cleanup \in Seq(Things)
  BY <1>1, NoneIs DEF LoadInv, LoadTyped
<1>3. cleanup = <<>> /\ ~thrown /\ Mine(held, doing) \subseteq Whole(doing)
  <2>1. Reached(doing, step) \subseteq Whole(doing)
    BY <1>1, <1>2, ReachedEnds
  <2>. QED BY <1>1, <1>2, <2>1 DEF LoadInv, Steady
<1>4. i \in 1 .. 5 /\ Mod!Models[i] = doing /\ Len(Mod!Models) = 5
  BY <1>2, IndexIs
<1>5. ASSUME NEW x \in held
      PROVE  x[1] \in FiveModels /\ Mod!Index(x[1]) <= i /\ x[2] \in Whole(x[1])
  <2>1. CASE x[1] = doing
    <3>1. x = <<doing, x[2]>>
      BY <1>2, <2>1
    <3>2. x[2] \in Mine(held, doing)
      BY <1>2, <3>1, MineIs
    <3>. QED BY <1>2, <1>3, <1>4, <2>1, <3>2
  <2>2. CASE x[1] # doing
    <3>1. x[1] \in Standing /\ x[2] \in Whole(x[1])
      BY <1>1, <2>2, OtherIs
    <3>2. x[1] \in FiveModels /\ Mod!Index(x[1]) < i
      BY <1>1, <3>1 DEF Standing
    <3>. QED BY <1>4, <3>1, <3>2, IndexIs
  <2>. QED BY <2>1, <2>2
<1>. HIDE DEF i
<1>6. CASE i = 5
  <2>1. doing' = Mod!None /\ stage' = "serving"
    BY <1>1, <1>4, <1>6
  <2>2. LoadTyped'
    BY <1>1, <1>2, <1>3, <2>1 DEF LoadInv, LoadTyped
  <2>3. Others'
    BY <1>1, <1>5, <2>1 DEF Others, Standing
  <2>. QED BY <1>1, <2>1, <2>2, <2>3 DEF LoadInv, LeftBehind, Steady, Unwinding
<1>7. CASE i # 5
  <2>1. doing' = Mod!Models[i + 1] /\ stage' = "loading" /\ i + 1 \in 1 .. 5
    BY <1>1, <1>4, <1>7
  <2>2. doing' \in FiveModels /\ Mod!Index(doing') = i + 1
    BY <2>1, IndexIs
  <2>3. LoadTyped'
    BY <1>1, <1>2, <1>3, <2>1, <2>2, NoneIs DEF LoadInv, LoadTyped
  <2>4. \A x \in held : Mod!Index(x[1]) < Mod!Index(doing')
    <3>1. \A x \in held : Mod!Index(x[1]) \in 1 .. 5
      BY <1>5, IndexIs
    <3>. QED BY <1>4, <1>5, <2>2, <3>1
  <2>5. Others'
    BY <1>1, <1>5, <2>1, <2>4 DEF Others, Standing
  <2>6. Mine(held, doing') \subseteq {}
    BY <1>4, <2>2, <2>4 DEF Mine
  <2>7. Steady'
    BY <1>1, <1>3, <2>6 DEF Steady
  <2>. QED BY <1>1, <2>1, <2>3, <2>5, <2>7 DEF LoadInv, LeftBehind, Unwinding
<1>. QED BY <1>6, <1>7

LEMMA RefuseKeeps == ASSUME LoadInv, Mod!Refuse PROVE LoadInv'
<1>1. /\ stage = "loading" /\ failed /\ cleanup = <<>> /\ stage' = "refused"
      /\ left' = left \union Mod!Left /\ doing' = Mod!None
      /\ UNCHANGED <<step, cleanup, failed, thrown, held, early>>
  BY DEF Mod!Refuse
<1>2. doing # Mod!None
  BY <1>1, NoneIs DEF LoadInv, LoadTyped
<1>3. LeftBehind'
  BY <1>1, <1>2, LeftIsSpared DEF LoadInv, LeftBehind
<1>4. LoadTyped'
  BY <1>1 DEF LoadInv, LoadTyped
<1>. QED BY <1>1, <1>3, <1>4 DEF LoadInv, Steady, Unwinding, Others

\* A recognition starts with nothing held.
LEMMA RecognizeKeeps == ASSUME LoadInv, Mod!Recognize PROVE LoadInv'
<1>1. /\ stage = "serving" /\ doing = Mod!None /\ doing' = "call" /\ step' = 1
      /\ failed' = FALSE /\ thrown' = FALSE
      /\ UNCHANGED <<cleanup, held, stage, left, early>>
  BY DEF Mod!Recognize
<1>2. held \subseteq Kinds \X Things /\ cleanup = <<>> /\ cleanup \in Seq(Things)
  BY <1>1 DEF LoadInv, LoadTyped
<1>3. ASSUME NEW x \in held PROVE x[1] \in FiveModels /\ x[2] \in Whole(x[1])
  <2>1. x[1] # doing
    BY <1>1, <1>2, NoneIs
  <2>. QED BY <1>1, <2>1, OtherIs DEF Standing
<1>4. Others'
  BY <1>1, <1>3 DEF Others, Standing
<1>5. Mine(held, "call") \subseteq {}
  BY <1>3, NoneIs DEF Mine
<1>6. Steady'
  BY <1>1, <1>2, <1>5 DEF Steady
<1>7. LoadTyped'
  BY <1>1, <1>2, NoneIs DEF LoadInv, LoadTyped
<1>. QED BY <1>1, <1>4, <1>6, <1>7 DEF LoadInv, LeftBehind, Unwinding

LEMMA RecognizedKeeps == ASSUME LoadInv, Mod!Recognized PROVE LoadInv'
<1>1. /\ doing = "call" /\ cleanup = <<>> /\ (failed \/ step > Len(Mod!Call))
      /\ left' = left \union Mod!Left /\ held' = {x \in held : x[1] # "call"}
      /\ doing' = Mod!None /\ failed' = FALSE
      /\ UNCHANGED <<step, cleanup, thrown, stage, early>>
  BY DEF Mod!Recognized
<1>2. /\ stage = "serving" /\ doing # Mod!None /\ held \subseteq Kinds \X Things
      /\ step \in Nat \ {0} /\ cleanup \in Seq(Things)
  BY <1>1, NoneIs DEF LoadInv, LoadTyped, Kinds
<1>3. LeftBehind'
  <2>1. CASE failed
    BY <1>1, <1>2, <2>1, LeftIsSpared DEF LoadInv, LeftBehind
  <2>2. CASE ~failed
    <3>1. step > 7
      BY <1>1, <2>2 DEF Mod!Call
    <3>2. Mine(held, doing) \subseteq {}
      <4>1. Reached("call", step) = {}
        BY <1>2, <3>1 DEF Reached
      <4>. QED BY <1>1, <1>2, <2>2, <4>1 DEF LoadInv, Steady
    <3>3. Mod!Left = {}
      BY <3>2 DEF Mod!Left, Mine
    <3>. QED BY <1>1, <3>3 DEF LoadInv, LeftBehind
  <2>. QED BY <2>1, <2>2
<1>4. Others'
  <2>1. ASSUME NEW x \in held, x[1] # "call" PROVE x[1] \in FiveModels /\ x[2] \in Whole(x[1])
    BY <1>1, <1>2, <2>1, OtherIs DEF Standing
  <2>. QED BY <1>1, <1>2, <2>1 DEF Others, Standing
<1>5. LoadTyped'
  BY <1>1, <1>2 DEF LoadInv, LoadTyped
<1>. QED BY <1>1, <1>3, <1>4, <1>5 DEF LoadInv, Steady, Unwinding

\* The models are freed, the last loaded first.
LEMMA StopKeeps == ASSUME LoadInv, Mod!Stop PROVE LoadInv'
<1>1. /\ stage = "serving" /\ doing = Mod!None /\ stage' = "stopping"
      /\ doing' = Mod!Models[5] /\ cleanup' = Mod!Free[doing'] /\ thrown' = FALSE
      /\ UNCHANGED <<step, failed, held, left, early>>
  BY IndexIs DEF Mod!Stop
<1>2. held \subseteq Kinds \X Things /\ step \in Nat \ {0} /\ ~failed
  BY <1>1 DEF LoadInv, LoadTyped
<1>3. doing' \in FiveModels /\ Mod!Index(doing') = 5 /\ doing' \in Kinds
  BY <1>1, IndexIs, NoneIs
<1>4. ASSUME NEW x \in held PROVE x[1] \in FiveModels /\ x[2] \in Whole(x[1])
  <2>1. x[1] # doing
    BY <1>1, <1>2, NoneIs
  <2>. QED BY <1>1, <2>1, OtherIs DEF Standing
<1>5. Others'
  <2>1. ASSUME NEW x \in held, x[1] # doing' PROVE Mod!Index(x[1]) < Mod!Index(doing')
    <3>1. Mod!Index(x[1]) \in 1 .. 5 /\ Mod!Models[Mod!Index(x[1])] = x[1]
      BY <1>4, IndexIs
    <3>. QED BY <1>1, <1>3, <2>1, <3>1
  <2>. QED BY <1>1, <1>4, <2>1 DEF Others, Standing
<1>6. Unwinding'
  <2>1. Mine(held, doing') \subseteq Whole(doing')
    BY <1>2, <1>4 DEF Mine
  <2>2. Orderly(Mine(held, doing'), Mod!Free[doing'], {})
    BY <1>3, <2>1, FreeInOrder, FewerInOrder
  <2>3. Spared' = {}
    BY <1>1 DEF Spared
  <2>. QED BY <1>1, <2>2, <2>3 DEF Unwinding
<1>7. cleanup' \in Seq(Things)
  BY <1>1, <1>3, FreeIsList
<1>8. LoadTyped'
  BY <1>1, <1>2, <1>3, <1>7, NoneIs DEF LoadInv, LoadTyped
<1>. QED BY <1>1, <1>5, <1>6, <1>8 DEF LoadInv, LeftBehind, Steady

LEMMA FreedKeeps == ASSUME LoadInv, Mod!Freed PROVE LoadInv'
<1>. DEFINE i == Mod!Index(doing)
<1>1. /\ stage = "stopping" /\ cleanup = <<>> /\ left' = left \union Mod!Left
      /\ UNCHANGED <<step, failed, thrown, held, early>>
      /\ IF i = 1 THEN stage' = "over" /\ doing' = Mod!None /\ cleanup' = cleanup
         ELSE doing' = Mod!Models[i - 1] /\ cleanup' = Mod!Free[doing'] /\ stage' = stage
  BY DEF Mod!Freed
<1>2. /\ held \subseteq Kinds \X Things /\ doing \in FiveModels /\ step \in Nat \ {0}
      /\ doing # Mod!None /\ cleanup \in Seq(Things) /\ ~failed
  BY <1>1, NoneIs DEF LoadInv, LoadTyped
<1>3. LeftBehind'
  BY <1>1, <1>2, LeftIsSpared DEF LoadInv, LeftBehind
<1>4. Mine(held, doing) \subseteq {}
  BY <1>1, <1>2, LeftIsSpared DEF Spared
<1>5. i \in 1 .. 5 /\ Mod!Models[i] = doing
  BY <1>2, IndexIs
<1>6. ASSUME NEW x \in held
      PROVE  /\ x[1] \in FiveModels /\ Mod!Index(x[1]) < i /\ Mod!Index(x[1]) \in 1 .. 5
             /\ Mod!Models[Mod!Index(x[1])] = x[1] /\ x[2] \in Whole(x[1])
  <2>1. x[1] # doing
    BY <1>4 DEF Mine
  <2>2. x[1] \in Standing /\ x[2] \in Whole(x[1])
    BY <1>1, <2>1, OtherIs
  <2>3. x[1] \in FiveModels /\ Mod!Index(x[1]) < i
    BY <1>1, <2>2 DEF Standing
  <2>. QED BY <2>2, <2>3, IndexIs
<1>. HIDE DEF i
<1>7. CASE i = 1
  <2>1. stage' = "over" /\ doing' = Mod!None /\ cleanup' = <<>>
    BY <1>1, <1>7
  <2>2. held = {}
    BY <1>6, <1>7
  <2>3. LoadTyped'
    BY <1>1, <1>2, <2>1 DEF LoadInv, LoadTyped
  <2>. QED BY <1>1, <1>3, <2>1, <2>2, <2>3 DEF LoadInv, Steady, Unwinding, Others
<1>8. CASE i # 1
  <2>1. /\ doing' = Mod!Models[i - 1] /\ cleanup' = Mod!Free[doing']
        /\ stage' = "stopping" /\ i - 1 \in 1 .. 5
    BY <1>1, <1>5, <1>8
  <2>2. doing' \in FiveModels /\ Mod!Index(doing') = i - 1 /\ doing' \in Kinds
    BY <2>1, IndexIs, NoneIs
  <2>3. Others'
    <3>1. ASSUME NEW x \in held, x[1] # doing' PROVE Mod!Index(x[1]) < Mod!Index(doing')
      BY <1>5, <1>6, <2>1, <2>2, <3>1
    <3>. QED BY <1>1, <1>6, <2>1, <3>1 DEF Others, Standing
  <2>4. Unwinding'
    <3>1. Mine(held, doing') \subseteq Whole(doing')
      BY <1>2, <1>6 DEF Mine
    <3>2. Orderly(Mine(held, doing'), Mod!Free[doing'], {})
      BY <2>2, <3>1, FreeInOrder, FewerInOrder
    <3>3. Spared' = {}
      BY <2>1 DEF Spared
    <3>. QED BY <1>1, <2>1, <3>2, <3>3 DEF Unwinding
  <2>5. cleanup' \in Seq(Things)
    BY <2>1, <2>2, FreeIsList
  <2>6. LoadTyped'
    BY <1>1, <1>2, <2>1, <2>2, <2>5, NoneIs DEF LoadInv, LoadTyped
  <2>. QED BY <1>1, <1>3, <2>1, <2>3, <2>4, <2>6 DEF LoadInv, Steady
<1>. QED BY <1>7, <1>8

LEMMA LoadInit == ASSUME Mod!Init PROVE LoadInv
<1>1. /\ doing = "vad" /\ step = 1 /\ cleanup = <<>> /\ ~failed /\ ~thrown
      /\ held = {} /\ stage = "loading" /\ left = {} /\ ~early
  BY DEF Mod!Init, Mod!Models
<1>2. doing \in FiveModels
  BY <1>1 DEF FiveModels
<1>3. LoadTyped
  BY <1>1, <1>2, NoneIs DEF LoadTyped
<1>4. Mine(held, doing) = {}
  BY <1>1 DEF Mine
<1>. QED BY <1>1, <1>3, <1>4 DEF LoadInv, LeftBehind, Steady, Unwinding, Others

LEMMA LoadStep == ASSUME LoadInv, [Mod!Next]_Mod!loading PROVE LoadInv'
<1>1. CASE Mod!Next
  BY <1>1, AcquireKeeps, FailKeeps, ReleaseKeeps, LoadedKeeps, RefuseKeeps, RecognizeKeeps,
     RecognizedKeeps, StopKeeps, FreedKeeps DEF Mod!Next
<1>2. CASE UNCHANGED Mod!loading
  BY <1>2
  DEF Mod!loading, LoadInv, LoadTyped, LeftBehind, Steady, Unwinding, Others, Spared, Standing
<1>. QED BY <1>1, <1>2

LEMMA LoadInvGives == ASSUME LoadInv PROVE Mod!NothingLeft
<1>1. ASSUME stage = "over" PROVE held = {}
  <2>1. ASSUME NEW x \in held PROVE FALSE
    <3>1. doing = Mod!None /\ x[1] \in Kinds
      BY <1>1 DEF LoadInv, LoadTyped
    <3>2. x[1] \in Standing
      BY <1>1, <3>1, NoneIs, OtherIs
    <3>. QED BY <1>1, <3>2 DEF Standing
  <2>. QED BY <2>1
<1>. QED BY <1>1 DEF LoadInv, LeftBehind, Mod!NothingLeft

\* Whatever step of whatever plan fails or throws, and at the end of the
\* program, what was acquired is released, nothing under what stands on it,
\* but for what the catches do not know and the inputs that were not placed.
THEOREM NothingStays == MCSpec => []NothingLeft
<1>1. Mod!Init => LoadInv
  BY LoadInit
<1>2. LoadInv /\ [Mod!Next]_Mod!loading => LoadInv'
  BY LoadStep
<1>3. LoadInv => NothingLeft
  BY LoadInvGives DEF NothingLeft
<1>4. MCSpec => Mod!Spec
  BY ModelsRun
<1>. QED BY <1>1, <1>2, <1>3, <1>4, PTL DEF Mod!Spec

(* ------------------------------ recursion ------------------------------ *)

\* What climbs from 0 by one reaches every number: if it stopped at n, taking
\* one away would map the numbers below onto themselves, and not one to one.
LEMMA Climbs ==
  ASSUME NEW n \in Nat, NEW S, 0 \in S, \A i \in 0 .. n : i \in S /\ i < n => i + 1 \in S
  PROVE  n \in S
<1>. DEFINE D == {i \in 0 .. n : \A j \in 0 .. i : j \in S}
            down == [i \in D |-> IF i = 0 THEN 0 ELSE i - 1]
<1>1. SUFFICES ASSUME n \notin D PROVE FALSE
  OBVIOUS
<1>2. 0 \in D
  OBVIOUS
<1>3. ASSUME NEW i \in D PROVE i + 1 \in D
  <2>1. i \in 0 .. n /\ i # n /\ i \in S
    BY <1>1
  <2>2. i + 1 \in 0 .. n /\ i + 1 \in S
    BY <2>1
  <2>3. \A j \in 0 .. i + 1 : j \in 0 .. i \/ j = i + 1
    BY <2>1
  <2>. QED BY <2>2, <2>3
<1>4. ASSUME NEW i \in D, i # 0 PROVE i - 1 \in D
  <2>1. i - 1 \in 0 .. n /\ \A j \in 0 .. i - 1 : j \in 0 .. i
    BY <1>4
  <2>. QED BY <2>1
<1>5. IsFiniteSet(D)
  <2>1. IsFiniteSet(0 .. n)
    BY FS_Interval
  <2>2. D \in SUBSET (0 .. n)
    OBVIOUS
  <2>. QED BY <2>1, <2>2, FS_Subset
<1>6. down \in Surjection(D, D)
  <2>1. down \in [D -> D]
    BY <1>2, <1>4
  <2>2. ASSUME NEW i \in D PROVE \E j \in D : down[j] = i
    <3>1. i + 1 \in D /\ down[i + 1] = i
      BY <1>3
    <3>. QED BY <3>1
  <2>. QED BY <2>1, <2>2 DEF Surjection
<1>7. down \in Injection(D, D)
  BY <1>5, <1>6, FS_SurjSameCardinalityImpliesInj
<1>8. 1 \in D /\ down[0] = 0 /\ down[1] = 0
  BY <1>2, <1>3
<1>9. QED BY <1>2, <1>7, <1>8 DEF Injection, IsInjective

\* A recursive function that lays what it is given end to end is there.
LEMMA LaidIs ==
  ASSUME NEW n \in Nat, NEW s
  PROVE  \E f : f = [i \in 0 .. n |-> IF i = 0 THEN <<>> ELSE f[i - 1] \o s[i]]
<1>. DEFINE Laid(m) == \E f : f = [i \in 0 .. m |-> IF i = 0 THEN <<>> ELSE f[i - 1] \o s[i]]
            S == {m \in 0 .. n : Laid(m)}
<1>1. 0 \in S
  <2>. DEFINE f == [i \in 0 .. 0 |-> <<>>]
  <2>1. f = [i \in 0 .. 0 |-> IF i = 0 THEN <<>> ELSE f[i - 1] \o s[i]]
    OBVIOUS
  <2>. HIDE DEF f
  <2>2. Laid(0)
    BY <2>1
  <2>. QED BY <2>2
<1>2. ASSUME NEW m \in 0 .. n, m \in S, m < n PROVE m + 1 \in S
  <2>1. PICK f : f = [i \in 0 .. m |-> IF i = 0 THEN <<>> ELSE f[i - 1] \o s[i]]
    BY <1>2
  <2>. DEFINE g == [i \in 0 .. m + 1 |-> IF i <= m THEN f[i] ELSE f[m] \o s[m + 1]]
  <2>2. ASSUME NEW i \in 0 .. m + 1 PROVE g[i] = IF i = 0 THEN <<>> ELSE g[i - 1] \o s[i]
    <3>1. CASE i = 0
      BY <2>1, <3>1
    <3>2. CASE i \in 1 .. m
      <4>1. \A j \in 0 .. m : f[j] = IF j = 0 THEN <<>> ELSE f[j - 1] \o s[j]
        BY <2>1, Zenon
      <4>2. i \in 0 .. m /\ i # 0
        BY <3>2
      <4>3. g[i] = f[i] /\ g[i - 1] = f[i - 1]
        BY <3>2
      <4>4. f[i] = f[i - 1] \o s[i]
        BY <4>1, <4>2, Zenon
      <4>. QED BY <4>2, <4>3, <4>4
    <3>3. CASE i = m + 1
      <4>1. g[i] = f[m] \o s[i] /\ g[i - 1] = f[m] /\ i # 0
        BY <3>3
      <4>. QED BY <4>1
    <3>. QED BY <3>1, <3>2, <3>3
  <2>3. g = [i \in 0 .. m + 1 |-> g[i]]
    OBVIOUS
  <2>. HIDE DEF g
  <2>4. g = [i \in 0 .. m + 1 |-> IF i = 0 THEN <<>> ELSE g[i - 1] \o s[i]]
    BY <2>2, <2>3
  <2>5. Laid(m + 1)
    BY <2>4
  <2>6. m + 1 \in 0 .. n
    BY <1>2
  <2>. HIDE DEF Laid
  <2>. QED BY <2>5, <2>6
<1>3. Laid(n)
  BY <1>1, <1>2, Climbs
<1>. HIDE DEF S
<1>. QED BY <1>3

(* ------------------------------- the speech ---------------------------- *)

\* What a voice adds to the list of the bridge.
Adds(i) == IF i \in Spk!Voices THEN Spk!EntriesOf(i) ELSE <<>>

LEMMA FlattenIs ==
  ASSUME NEW n \in Nat
  PROVE  \E f : /\ f = [i \in 0 .. n |-> IF i = 0 THEN <<>> ELSE f[i - 1] \o Adds(i)]
                /\ Spk!Flatten(n) = f[n]
<1>. DEFINE s == [i \in 0 .. n |-> Adds(i)]
<1>1. PICK f : f = [i \in 0 .. n |-> IF i = 0 THEN <<>> ELSE f[i - 1] \o s[i]]
  BY LaidIs
<1>2. \A i \in 0 .. n : f[i] = IF i = 0 THEN <<>> ELSE f[i - 1] \o s[i]
  BY <1>1, Zenon
<1>3. \A i \in 0 .. n : s[i] = Adds(i)
  BY Zenon
<1>4. f = [i \in 0 .. n |-> f[i]]
  BY <1>1
<1>. HIDE DEF s
<1>5. f = [i \in 0 .. n |-> IF i = 0 THEN <<>> ELSE f[i - 1] \o Adds(i)]
  BY <1>2, <1>3, <1>4
<1>. QED BY <1>5, Zenon DEF Spk!Flatten, Adds

Entries == [voice : Nat, reference : BOOLEAN]
Referenced(i) == files[i].rvq # "absent"
Foremost(i) == IF Referenced(i) THEN Spk!Entry(i, TRUE) ELSE Spk!Entry(i, FALSE)
\* An entry of a voice there is, with a reference only if it has one.
Real(entry) ==
  /\ entry \in Entries /\ entry.voice \in Spk!Voices
  /\ entry.reference => Referenced(entry.voice)

LEMMA EntryIs ==
  ASSUME NEW i \in Nat
  PROVE  Spk!Entry(i, TRUE) \in Entries /\ Spk!Entry(i, FALSE) \in Entries
BY DEF Entries, Spk!Entry

LEMMA AddsIs ==
  ASSUME NEW i \in Nat
  PROVE  /\ Adds(i) \in Seq(Entries) /\ \A k \in DOMAIN Adds(i) : Real(Adds(i)[k])
         /\ i \notin Spk!Voices => Adds(i) = <<>>
         /\ i \in Spk!Voices => Adds(i) # <<>> /\ Adds(i)[1] = Foremost(i)
<1>1. CASE i \notin Spk!Voices
  <2>1. Adds(i) = <<>>
    BY <1>1 DEF Adds
  <2>. QED BY <1>1, <2>1
<1>2. CASE i \in Spk!Voices /\ Referenced(i)
  <2>. DEFINE a == Spk!Entry(i, TRUE)
              b == Spk!Entry(i, FALSE)
  <2>1. Adds(i) = <<a>> \o <<b>>
    BY <1>2 DEF Adds, Spk!EntriesOf, Referenced
  <2>2. a \in Entries /\ b \in Entries
    BY EntryIs
  <2>3. Real(a) /\ Real(b)
    BY <1>2, <2>2 DEF Real, Spk!Entry
  <2>4. Foremost(i) = a
    BY <1>2 DEF Foremost
  <2>. HIDE DEF a, b
  <2>5. <<a>> \o <<b>> \in Seq(Entries) /\ Len(<<a>> \o <<b>>) = 2
    BY <2>2
  <2>6. (<<a>> \o <<b>>)[1] = a /\ (<<a>> \o <<b>>)[2] = b
    BY <2>2
  <2>7. \A k \in DOMAIN (<<a>> \o <<b>>) : k = 1 \/ k = 2
    BY <2>5
  <2>8. <<a>> \o <<b>> # <<>>
    BY <2>5
  <2>9. \A k \in DOMAIN (<<a>> \o <<b>>) : Real((<<a>> \o <<b>>)[k])
    BY <2>3, <2>6, <2>7, Zenon
  <2>. QED BY <1>2, <2>1, <2>4, <2>5, <2>6, <2>8, <2>9, Zenon
<1>3. CASE i \in Spk!Voices /\ ~Referenced(i)
  <2>. DEFINE b == Spk!Entry(i, FALSE)
  <2>1. Adds(i) = <<>> \o <<b>>
    BY <1>3 DEF Adds, Spk!EntriesOf, Referenced
  <2>2. b \in Entries
    BY EntryIs
  <2>3. Real(b)
    BY <1>3, <2>2 DEF Real, Spk!Entry
  <2>4. Foremost(i) = b
    BY <1>3 DEF Foremost
  <2>. HIDE DEF b
  <2>5. <<>> \o <<b>> = <<b>>
    BY <2>2
  <2>6. <<b>> \in Seq(Entries) /\ <<b>> # <<>> /\ <<b>>[1] = b /\ DOMAIN <<b>> = {1}
    BY <2>2
  <2>7. \A k \in DOMAIN <<b>> : Real(<<b>>[k])
    BY <2>3, <2>6
  <2>8. Adds(i) = <<b>>
    BY <2>1, <2>5, Zenon
  <2>. QED BY <1>3, <2>4, <2>6, <2>7, <2>8, Zenon
<1>. QED BY <1>1, <1>2, <1>3

First(v) == v \in Spk!Voices /\ \A w \in Spk!Voices : v <= w

\* The list holds real entries, the first voice before all.
Lists(entries, n) ==
  /\ entries \in Seq(Entries)
  /\ \A k \in DOMAIN entries : Real(entries[k])
  /\ (\A v \in Spk!Voices : v > n) => entries = <<>>
  /\ \A v \in Spk!Voices : v <= n /\ First(v) =>
       entries # <<>> /\ entries[1] = Foremost(v)

LEMMA ListsOneMore ==
  ASSUME NEW n \in Nat, NEW entries, Lists(entries, n), Spk!Voices \subseteq Nat
  PROVE  Lists(entries \o Adds(n + 1), n + 1)
<1>. DEFINE more == Adds(n + 1)
            all == entries \o more
<1>1. /\ entries \in Seq(Entries) /\ more \in Seq(Entries) /\ all \in Seq(Entries)
      /\ Len(all) = Len(entries) + Len(more) /\ Len(entries) \in Nat /\ Len(more) \in Nat
      /\ \A k \in 1 .. Len(entries) : all[k] = entries[k]
      /\ \A k \in Len(entries) + 1 .. Len(all) : all[k] = more[k - Len(entries)]
  BY AddsIs, SMTT(30) DEF Lists
<1>2. /\ \A k \in DOMAIN more : Real(more[k])
      /\ n + 1 \notin Spk!Voices => more = <<>>
      /\ n + 1 \in Spk!Voices => more # <<>> /\ more[1] = Foremost(n + 1)
  BY AddsIs
<1>. HIDE DEF more, all
<1>3. ASSUME NEW k \in DOMAIN all PROVE Real(all[k])
  <2>1. \/ k \in 1 .. Len(entries)
        \/ k \in Len(entries) + 1 .. Len(all) /\ k - Len(entries) \in DOMAIN more
    BY <1>1
  <2>2. CASE k \in 1 .. Len(entries)
    BY <1>1, <2>2 DEF Lists
  <2>3. CASE k \in Len(entries) + 1 .. Len(all) /\ k - Len(entries) \in DOMAIN more
    BY <1>1, <1>2, <2>3
  <2>. QED BY <2>1, <2>2, <2>3
<1>4. ASSUME \A v \in Spk!Voices : v > n + 1 PROVE all = <<>>
  <2>1. (\A v \in Spk!Voices : v > n) /\ n + 1 \notin Spk!Voices
    BY <1>4
  <2>2. entries = <<>> /\ more = <<>>
    BY <1>2, <2>1 DEF Lists
  <2>. QED BY <1>1, <2>2 DEF all
<1>5. ASSUME NEW v \in Spk!Voices, v <= n + 1, First(v)
      PROVE  all # <<>> /\ all[1] = Foremost(v)
  <2>1. CASE v <= n
    <3>1. entries # <<>> /\ entries[1] = Foremost(v)
      BY <1>5, <2>1 DEF Lists
    <3>2. 1 \in 1 .. Len(entries) /\ Len(all) # 0
      BY <1>1, <3>1
    <3>. QED BY <1>1, <3>1, <3>2
  <2>2. CASE v = n + 1
    <3>1. \A w \in Spk!Voices : w > n
      BY <1>5, <2>2 DEF First
    <3>2. entries = <<>>
      BY <3>1 DEF Lists
    <3>3. more # <<>> /\ more[1] = Foremost(v)
      BY <1>2, <2>2
    <3>4. all = more
      BY <1>1, <3>2 DEF all
    <3>. QED BY <3>3, <3>4
  <2>. QED BY <1>5, <2>1, <2>2
<1>. QED BY <1>1, <1>3, <1>4, <1>5 DEF Lists, all, more

LEMMA FlattenLists ==
  ASSUME Names \in Nat PROVE Lists(Spk!Flatten(Names), Names)
<1>1. PICK f : /\ f = [i \in 0 .. Names |-> IF i = 0 THEN <<>> ELSE f[i - 1] \o Adds(i)]
               /\ Spk!Flatten(Names) = f[Names]
  BY FlattenIs
<1>2. \A i \in 0 .. Names : f[i] = IF i = 0 THEN <<>> ELSE f[i - 1] \o Adds(i)
  BY <1>1, Zenon
<1>. DEFINE S == {i \in 0 .. Names : Lists(f[i], i)}
<1>3. Spk!Voices \subseteq 1 .. Names
  BY DEF Spk!Voices
<1>4. 0 \in S
  <2>1. 0 \in 0 .. Names
    OBVIOUS
  <2>2. f[0] = <<>>
    BY <1>2, <2>1, Zenon
  <2>3. \A v \in Spk!Voices : ~(v <= 0)
    BY <1>3
  <2>4. Lists(<<>>, 0)
    BY <2>3 DEF Lists
  <2>. QED BY <2>1, <2>2, <2>4
<1>5. ASSUME NEW i \in 0 .. Names, i \in S, i < Names PROVE i + 1 \in S
  <2>1. i + 1 \in 0 .. Names /\ i + 1 # 0 /\ i \in Nat /\ (i + 1) - 1 = i
    BY <1>5
  <2>2. f[i + 1] = f[(i + 1) - 1] \o Adds(i + 1)
    BY <1>2, <2>1, Zenon
  <2>3. f[i + 1] = f[i] \o Adds(i + 1)
    BY <2>1, <2>2, Zenon
  <2>4. Lists(f[i], i) /\ Spk!Voices \subseteq Nat
    BY <1>3, <1>5
  <2>5. Lists(f[i] \o Adds(i + 1), i + 1)
    BY <2>1, <2>4, ListsOneMore, Zenon
  <2>. QED BY <2>1, <2>3, <2>5, Zenon
<1>6. Names \in S
  BY <1>4, <1>5, Climbs
<1>. QED BY <1>1, <1>6

\* Where there are voices there is a first one.
LEMMA FirstExists == ASSUME Names \in Nat, Spk!Voices # {} PROVE \E v : First(v)
<1>. DEFINE S == {i \in 0 .. Names : (\A v \in Spk!Voices : v > i) \/ \E v : First(v)}
<1>1. Spk!Voices \subseteq 1 .. Names
  BY DEF Spk!Voices
<1>2. 0 \in S
  BY <1>1
<1>3. ASSUME NEW i \in 0 .. Names, i \in S, i < Names PROVE i + 1 \in S
  <2>1. i + 1 \in 0 .. Names
    BY <1>3
  <2>2. CASE \E v : First(v)
    BY <2>1, <2>2
  <2>3. CASE \A v \in Spk!Voices : v > i
    <3>1. CASE i + 1 \in Spk!Voices
      <4>1. First(i + 1)
        BY <1>1, <2>1, <2>3, <3>1 DEF First
      <4>. QED BY <2>1, <4>1
    <3>2. CASE i + 1 \notin Spk!Voices
      <4>1. \A v \in Spk!Voices : v > i + 1
        BY <1>1, <2>1, <2>3, <3>2
      <4>. QED BY <2>1, <4>1
    <3>. QED BY <3>1, <3>2
  <2>. QED BY <1>3, <2>2, <2>3
<1>4. Names \in S
  BY <1>2, <1>3, Climbs
<1>5. PICK v \in Spk!Voices : TRUE
  OBVIOUS
<1>6. ~(v > Names)
  BY <1>1
<1>. QED BY <1>4, <1>6

(* The invariant of the speech: what a unit has been sent, how far it went  *)
(* past a cancel, what the bridge was loaded with and what is asked of it.  *)

SentEvents == {"text", "sound", "silence", "error"}
ChunkKinds == {"nothing", "silence", "sound"}
Stations == {"loading", "idle", "speaking", "done", "refused"}
SpeechTyped ==
  /\ events \in Seq(SentEvents) /\ samples \in Nat /\ raised \in Nat
  /\ cancel \in BOOLEAN /\ sending \in ChunkKinds
  /\ files \in [1 .. Names -> Spk!Set] /\ at \in Stations

\* One text, right before the first sound; nothing heard before, but chunks
\* without samples and an error.
SoundsFrom(t) ==
  /\ events[t] = "text" /\ events[t + 1] = "sound"
  /\ \A i \in DOMAIN events : (events[i] = "text" => i = t) /\ (events[i] = "sound" => i > t)
Shape ==
  /\ samples = 0 => \A i \in DOMAIN events : events[i] \in {"silence", "error"}
  /\ samples > 0 => \E t \in 1 .. Len(events) - 1 : SoundsFrom(t)

\* The callback that was sending when the cancel came has not sent yet.
Overrun ==
  /\ sending # "nothing" => at = "speaking"
  /\ cancel =>
       /\ sending # "nothing" => Len(events) = raised
       /\ Len(events) <= raised + (IF \E i \in Spk!Places("sound") : i <= raised THEN 1 ELSE 2)
       /\ \A i \in raised + 1 .. Len(events) : events[i] # "error"

Loaded ==
  at \in {"idle", "speaking", "done"} =>
    /\ bridge = Spk!Flatten(Names) /\ Spk!Voices # {}
    /\ \A i \in Spk!Voices : ~Spk!Refused(files[i])

FirstVoice == CHOOSE i \in Spk!Voices : \A j \in Spk!Voices : i <= j
IsWhole(v) == files[v].rvq = "good" /\ files[v].txt = "good"
RightFor(label, spk, reference) ==
  LET voice == IF label = Spk!None THEN FirstVoice ELSE label.voice
      with == IF label = Spk!None THEN IsWhole(voice) ELSE label.reference
  IN  /\ spk = voice /\ files[voice].spk = "good"
      /\ reference = IF with THEN voice ELSE 0
      /\ with => IsWhole(voice)

Right ==
  /\ at \notin {"speaking", "done"} => request = Spk!None
  /\ request # Spk!None => /\ RightFor(asked.label, request.spk, request.ref)
                           /\ Spk!Speaks(request.lang)

SpeechInv == SpeechTyped /\ Shape /\ Overrun /\ Loaded /\ Right

LEMMA SpeechRuns == MCSpec => Spk!Spec
<1>1. MCInit => Spk!Init
  BY DEF MCInit
<1>2. [MCNext]_MCVars => [Spk!Next]_Spk!speech
  BY DEF MCNext, MCVars, speech, Spk!speech
<1>3. QED BY <1>1, <1>2, PTL DEF MCSpec, Spk!Spec

LEMMA SpeechInit == ASSUME Spk!Init PROVE SpeechInv
<1>1. SpeechTyped
  <2>1. cancel \in BOOLEAN /\ sending \in ChunkKinds
    BY Zenon DEF Spk!Init, ChunkKinds
  <2>2. events = <<>> /\ samples = 0 /\ raised = 0 /\ at = "loading"
    BY DEF Spk!Init
  <2>3. files \in [1 .. Names -> Spk!Set]
    BY DEF Spk!Init
  <2>. QED BY <2>1, <2>2, <2>3 DEF SpeechTyped, Stations
<1>2. Shape /\ Overrun
  BY DEF Spk!Init, Shape, Overrun
<1>3. Loaded /\ Right
  BY DEF Spk!Init, Loaded, Right
<1>. QED BY <1>1, <1>2, <1>3 DEF SpeechInv

\* Only what the request is made of can make it wrong.
LEMMA RightStays ==
  ASSUME Right, UNCHANGED <<asked, request, files>>, at' \in {"speaking", "done"} \/ at' = at
  PROVE  Right'
BY DEF Right, RightFor, FirstVoice, IsWhole, Spk!Voices, Spk!None, Spk!Speaks

LEMMA LoadedStays ==
  ASSUME Loaded, UNCHANGED <<files, bridge>>,
         at' \in {"idle", "speaking", "done"} => at \in {"idle", "speaking", "done"}
  PROVE  Loaded'
<1>1. Spk!Voices' = Spk!Voices /\ \A i : Spk!Refused(files[i])' = Spk!Refused(files[i])
  BY DEF Spk!Voices, Spk!Refused
<1>2. Spk!Flatten(Names)' = Spk!Flatten(Names)
  BY DEF Spk!Flatten, Spk!EntriesOf, Spk!Voices
<1>. QED BY <1>1, <1>2 DEF Loaded

\* What was sent, and the cancel, as they were.
LEMMA SameEvents ==
  ASSUME Shape, Overrun, UNCHANGED <<events, samples, raised>>, cancel' => cancel,
         sending' # "nothing" => sending # "nothing" /\ at' = at
  PROVE  Shape' /\ Overrun'
<1>1. Shape'
  BY DEF Shape, SoundsFrom
<1>2. Overrun'
  BY DEF Overrun, Spk!Places
<1>. QED BY <1>1, <1>2

LEMMA LoadKeeps == ASSUME SpeechInv, Spk!Load PROVE SpeechInv'
<1>1. SpeechTyped /\ Shape /\ Overrun /\ Right
  BY DEF SpeechInv
<1>2. /\ at = "loading" /\ at' \in {"refused", "idle"} /\ request = Spk!None
      /\ UNCHANGED <<files, asked, request, cancel, sending, samples, events, raised>>
  BY <1>1 DEF Spk!Load, Right
<1>3. SpeechTyped'
  BY <1>1, <1>2 DEF SpeechTyped, Stations
<1>4. Shape' /\ Overrun'
  <2>1. sending' = "nothing" /\ cancel' = cancel
    BY <1>1, <1>2 DEF Overrun
  <2>. QED BY <1>1, <1>2, <2>1, SameEvents
<1>5. Right'
  BY <1>2 DEF Right
<1>6. Loaded'
  <2>1. Spk!Voices' = Spk!Voices /\ \A i : Spk!Refused(files[i])' = Spk!Refused(files[i])
    BY <1>2 DEF Spk!Voices, Spk!Refused
  <2>2. Spk!Flatten(Names)' = Spk!Flatten(Names)
    BY <1>2 DEF Spk!Flatten, Spk!EntriesOf, Spk!Voices
  <2>3. at' = "idle" => /\ bridge' = Spk!Flatten(Names) /\ Spk!Voices # {}
                        /\ \A i \in Spk!Voices : ~Spk!Refused(files[i])
    BY DEF Spk!Load
  <2>. QED BY <1>2, <2>1, <2>2, <2>3 DEF Loaded
<1>. QED BY <1>3, <1>4, <1>5, <1>6 DEF SpeechInv

LEMMA CancelKeeps == ASSUME SpeechInv, Spk!Cancel PROVE SpeechInv'
<1>1. SpeechTyped /\ Shape /\ Overrun /\ Loaded /\ Right
  BY DEF SpeechInv
<1>2. /\ cancel' /\ raised' = Len(events)
      /\ UNCHANGED <<files, bridge, asked, at, request, sending, samples, events>>
  BY DEF Spk!Cancel
<1>3. SpeechTyped'
  <2>1. cancel' \in BOOLEAN
    BY DEF Spk!Cancel
  <2>2. raised' \in Nat
    BY <1>1, <1>2 DEF SpeechTyped
  <2>. QED BY <1>1, <1>2, <2>1, <2>2 DEF SpeechTyped
<1>4. Shape'
  BY <1>1, <1>2 DEF Shape, SoundsFrom
<1>5. Overrun'
  <2>1. Len(events) \in Nat
    BY <1>1 DEF SpeechTyped
  <2>2. /\ (sending # "nothing" => at = "speaking")'
        /\ (sending # "nothing" => Len(events) = raised)'
    BY <1>1, <1>2 DEF Overrun
  <2>3. (Len(events) <= raised + (IF \E i \in Spk!Places("sound") : i <= raised THEN 1 ELSE 2))'
    BY <1>2, <2>1
  <2>4. raised' + 1 .. Len(events') = {}
    BY <1>2, <2>1
  <2>. QED BY <2>2, <2>3, <2>4 DEF Overrun
<1>6. Right' /\ Loaded'
  BY <1>1, <1>2, RightStays, LoadedStays
<1>. QED BY <1>3, <1>4, <1>5, <1>6 DEF SpeechInv

\* A talker that stops without another chunk.
LEMMA PollKeeps == ASSUME SpeechInv, Spk!Poll \/ Spk!End PROVE SpeechInv'
<1>1. SpeechTyped /\ Shape /\ Overrun /\ Loaded /\ Right
  BY DEF SpeechInv
<1>2. /\ at = "speaking" /\ sending = "nothing" /\ at' = "done"
      /\ UNCHANGED <<files, bridge, asked, request, cancel, sending, samples, events, raised>>
  BY DEF Spk!Poll, Spk!End, Spk!Stops
<1>3. SpeechTyped'
  BY <1>1, <1>2 DEF SpeechTyped, Stations
<1>4. Shape' /\ Overrun'
  BY <1>1, <1>2, SameEvents
<1>5. Right' /\ Loaded'
  BY <1>1, <1>2, RightStays, LoadedStays
<1>. QED BY <1>3, <1>4, <1>5 DEF SpeechInv

LEMMA ChunkKeeps == ASSUME SpeechInv, Spk!Chunk PROVE SpeechInv'
<1>1. SpeechTyped /\ Shape /\ Overrun /\ Loaded /\ Right
  BY DEF SpeechInv
<1>2. /\ at = "speaking" /\ ~cancel
      /\ UNCHANGED <<files, bridge, asked, at, request, cancel, samples, events, raised>>
  BY DEF Spk!Chunk
<1>3. SpeechTyped'
  <2>1. sending' \in ChunkKinds
    BY DEF Spk!Chunk, ChunkKinds
  <2>. QED BY <1>1, <1>2, <2>1 DEF SpeechTyped
<1>4. Shape' /\ Overrun'
  <2>1. Shape'
    BY <1>1, <1>2 DEF Shape, SoundsFrom
  <2>. QED BY <1>2, <2>1 DEF Overrun
<1>5. Right' /\ Loaded'
  BY <1>1, <1>2, RightStays, LoadedStays
<1>. QED BY <1>3, <1>4, <1>5 DEF SpeechInv

LEMMA AnswerKeeps == ASSUME SpeechInv, Spk!Answer PROVE SpeechInv'
<1>1. SpeechTyped /\ Shape /\ Overrun /\ Loaded /\ Right
  BY DEF SpeechInv
<1>2. /\ ~cancel'
      /\ UNCHANGED <<files, bridge, asked, at, request, sending, samples, events, raised>>
  BY DEF Spk!Answer
<1>3. SpeechTyped'
  <2>1. cancel' \in BOOLEAN
    BY DEF Spk!Answer
  <2>. QED BY <1>1, <1>2, <2>1 DEF SpeechTyped
<1>4. Shape' /\ Overrun'
  BY <1>1, <1>2, SameEvents
<1>5. Right' /\ Loaded'
  BY <1>1, <1>2, RightStays, LoadedStays
<1>. QED BY <1>3, <1>4, <1>5 DEF SpeechInv

LEMMA FinishKeeps == ASSUME SpeechInv, Spk!Finish PROVE SpeechInv'
<1>1. SpeechTyped /\ Shape /\ Overrun /\ Loaded /\ Right
  BY DEF SpeechInv
<1>2. /\ at = "done" /\ at' = "idle" /\ request' = Spk!None
      /\ UNCHANGED <<files, bridge, asked, cancel, sending, samples, raised>>
  BY DEF Spk!Finish
<1>3. events' = events \/ (~cancel /\ events' = Append(events, "error"))
  BY DEF Spk!Finish
<1>4. "error" \in SentEvents
  BY DEF SentEvents
<1>5. events \in Seq(SentEvents) /\ events' \in Seq(SentEvents)
  BY <1>1, <1>3, <1>4 DEF SpeechTyped
<1>6. SpeechTyped'
  BY <1>1, <1>2, <1>5 DEF SpeechTyped, Stations
<1>7. Shape'
  <2>1. CASE events' = events
    BY <1>1, <1>2, <2>1 DEF Shape, SoundsFrom
  <2>2. CASE events' = Append(events, "error")
    <3>1. /\ Len(events') = Len(events) + 1 /\ Len(events) \in Nat
          /\ events'[Len(events) + 1] = "error"
          /\ \A i \in 1 .. Len(events) : events'[i] = events[i]
      BY <1>4, <1>5, <2>2
    <3>2. \A i \in DOMAIN events' : i \in DOMAIN events \/ i = Len(events) + 1
      BY <1>5, <3>1
    <3>3. DOMAIN events = 1 .. Len(events)
      BY <1>5
    <3>4. samples' = 0 => \A i \in DOMAIN events' : events'[i] \in {"silence", "error"}
      BY <1>1, <1>2, <3>1, <3>2, <3>3 DEF Shape
    <3>5. ASSUME samples' > 0 PROVE \E t \in 1 .. Len(events') - 1 : SoundsFrom(t)'
      <4>1. PICK t \in 1 .. Len(events) - 1 : SoundsFrom(t)
        BY <1>1, <1>2, <3>5 DEF Shape
      <4>2. t \in 1 .. Len(events') - 1 /\ t \in 1 .. Len(events) /\ t + 1 \in 1 .. Len(events)
        BY <3>1
      <4>3. SoundsFrom(t)'
        BY <3>1, <3>2, <3>3, <4>1, <4>2 DEF SoundsFrom
      <4>. QED BY <4>2, <4>3
    <3>. QED BY <1>2, <3>4, <3>5 DEF Shape
  <2>. QED BY <1>3, <2>1, <2>2
<1>8. Overrun'
  <2>1. sending # "nothing" => at = "speaking"
    BY <1>1 DEF Overrun
  <2>. QED BY <1>1, <1>2, <1>3, <2>1 DEF Overrun, Spk!Places
<1>9. Right'
  BY <1>2 DEF Right
<1>10. Loaded'
  BY <1>1, <1>2, LoadedStays
<1>. QED BY <1>6, <1>7, <1>8, <1>9, <1>10 DEF SpeechInv

\* What a chunk adds: itself, and the text of the unit before the first sound.
LEMMA SentIs ==
  ASSUME SpeechTyped, Spk!Send
  PROVE  /\ events' \in Seq(SentEvents) /\ \A i \in 1 .. Len(events) : events'[i] = events[i]
         /\ IF samples = 0 /\ sending = "sound"
            THEN /\ Len(events') = Len(events) + 2
                 /\ events'[Len(events) + 1] = "text" /\ events'[Len(events) + 2] = sending
            ELSE /\ Len(events') = Len(events) + 1 /\ events'[Len(events) + 1] = sending
<1>1. "text" \in SentEvents /\ sending \in SentEvents
  BY DEF SpeechTyped, ChunkKinds, SentEvents, Spk!Send
<1>2. events \in Seq(SentEvents)
  BY DEF SpeechTyped
<1>3. CASE samples = 0 /\ sending = "sound"
  <2>. DEFINE a == "text"
  <2>1. a \in SentEvents /\ events' = (events \o <<a>>) \o <<sending>>
    BY <1>1, <1>3 DEF Spk!Send, Spk!Text
  <2>. HIDE DEF a
  <2>2. events \o <<a>> = Append(events, a) /\ events' = Append(Append(events, a), sending)
    BY <1>1, <1>2, <2>1
  <2>3. /\ events' \in Seq(SentEvents) /\ Len(events') = Len(events) + 2
        /\ events'[Len(events) + 1] = a /\ events'[Len(events) + 2] = sending
        /\ \A i \in 1 .. Len(events) : events'[i] = events[i]
    BY <1>1, <1>2, <2>1, <2>2
  <2>. QED BY <1>3, <2>3 DEF a
<1>4. CASE ~(samples = 0 /\ sending = "sound")
  <2>1. events' = (events \o <<>>) \o <<sending>>
    BY <1>4 DEF Spk!Send, Spk!Text
  <2>2. events' = Append(events, sending)
    BY <1>1, <1>2, <2>1
  <2>3. /\ events' \in Seq(SentEvents) /\ Len(events') = Len(events) + 1
        /\ events'[Len(events) + 1] = sending
        /\ \A i \in 1 .. Len(events) : events'[i] = events[i]
    BY <1>1, <1>2, <2>2
  <2>. QED BY <1>4, <2>3
<1>. QED BY <1>3, <1>4

LEMMA SendKeeps == ASSUME SpeechInv, Spk!Send PROVE SpeechInv'
<1>1. SpeechTyped /\ Shape /\ Overrun /\ Loaded /\ Right
  BY DEF SpeechInv
<1>2. /\ sending # "nothing" /\ sending' = "nothing" /\ at' \in {at, "done"}
      /\ samples' = samples + (IF sending = "sound" THEN 1 ELSE 0)
      /\ UNCHANGED <<files, bridge, asked, request, cancel, raised>>
  BY DEF Spk!Send, Spk!Stops
<1>3. /\ at = "speaking" /\ samples \in Nat /\ events \in Seq(SentEvents) /\ raised \in Nat
      /\ sending \in {"silence", "sound"} /\ Len(events) \in Nat
  BY <1>1, <1>2 DEF Overrun, SpeechTyped, ChunkKinds
<1>4. /\ events' \in Seq(SentEvents) /\ \A i \in 1 .. Len(events) : events'[i] = events[i]
      /\ IF samples = 0 /\ sending = "sound"
         THEN /\ Len(events') = Len(events) + 2
              /\ events'[Len(events) + 1] = "text" /\ events'[Len(events) + 2] = sending
         ELSE /\ Len(events') = Len(events) + 1 /\ events'[Len(events) + 1] = sending
  BY <1>1, SentIs
<1>5. SpeechTyped'
  <2>1. sending' \in ChunkKinds /\ samples' \in Nat /\ at' \in Stations
    BY <1>1, <1>2, <1>3 DEF SpeechTyped, Stations, ChunkKinds
  <2>. QED BY <1>1, <1>2, <1>4, <2>1 DEF SpeechTyped
<1>6. DOMAIN events' = 1 .. Len(events') /\ DOMAIN events = 1 .. Len(events)
  BY <1>3, <1>4
<1>7. Shape'
  <2>1. CASE samples = 0 /\ sending = "sound"
    <3>1. \A i \in DOMAIN events : events[i] \in {"silence", "error"}
      BY <1>1, <2>1 DEF Shape
    <3>2. \A i \in DOMAIN events' : \/ i \in DOMAIN events
                                   \/ i = Len(events) + 1 \/ i = Len(events) + 2
      BY <1>3, <1>4, <1>6, <2>1
    <3>3. /\ events'[Len(events) + 1] = "text" /\ events'[Len(events) + 2] = "sound"
          /\ (Len(events) + 1) + 1 = Len(events) + 2
          /\ Len(events) + 1 \in 1 .. Len(events') - 1
      BY <1>3, <1>4, <2>1
    <3>4. ASSUME NEW i \in DOMAIN events'
          PROVE  /\ events'[i] = "text" => i = Len(events) + 1
                 /\ events'[i] = "sound" => i > Len(events) + 1
      <4>1. CASE i \in DOMAIN events
        BY <1>4, <1>6, <3>1, <4>1
      <4>2. CASE i = Len(events) + 1
        BY <3>3, <4>2
      <4>3. CASE i = Len(events) + 2
        BY <1>3, <3>3, <4>3
      <4>. QED BY <3>2, <4>1, <4>2, <4>3
    <3>5. PICK t \in 1 .. Len(events') - 1 : t = Len(events) + 1
      BY <3>3
    <3>6. SoundsFrom(t)'
      BY <3>3, <3>4, <3>5 DEF SoundsFrom
    <3>. QED BY <1>2, <1>3, <2>1, <3>6 DEF Shape
  <2>2. CASE samples = 0 /\ sending = "silence"
    <3>1. samples' = 0 /\ \A i \in DOMAIN events : events[i] \in {"silence", "error"}
      BY <1>1, <1>2, <2>2 DEF Shape
    <3>2. \A i \in DOMAIN events' : i \in DOMAIN events \/ i = Len(events) + 1
      BY <1>3, <1>4, <1>6, <2>2
    <3>3. \A i \in DOMAIN events' : events'[i] \in {"silence", "error"}
      BY <1>4, <1>6, <2>2, <3>1, <3>2
    <3>. QED BY <3>1, <3>3 DEF Shape
  <2>3. CASE samples > 0
    <3>1. samples # 0 /\ samples' > 0
      BY <1>2, <1>3, <2>3
    <3>2. PICK t \in 1 .. Len(events) - 1 : SoundsFrom(t)
      BY <1>1, <2>3 DEF Shape
    <3>3. \A i \in DOMAIN events' : i \in DOMAIN events \/ i = Len(events) + 1
      BY <1>3, <1>4, <1>6, <3>1
    <3>4. /\ Len(events') = Len(events) + 1
          /\ events'[Len(events) + 1] = sending /\ sending # "text"
      BY <1>3, <1>4, <3>1
    <3>5. t \in DOMAIN events /\ t + 1 \in DOMAIN events /\ t \in 1 .. Len(events') - 1
          /\ Len(events) + 1 > t
      BY <1>3, <1>6, <3>4
    <3>6. SoundsFrom(t)'
      BY <1>4, <1>6, <3>2, <3>3, <3>4, <3>5 DEF SoundsFrom
    <3>. QED BY <3>1, <3>5, <3>6 DEF Shape
  <2>. QED BY <1>3, <2>1, <2>2, <2>3
<1>8. Overrun'
  <2>1. ASSUME cancel
        PROVE  /\ Len(events') <= raised + (IF \E i \in Spk!Places("sound")' : i <= raised
                                           THEN 1 ELSE 2)
               /\ \A i \in raised + 1 .. Len(events') : events'[i] # "error"
    <3>1. Len(events) = raised
      BY <1>1, <1>2, <2>1 DEF Overrun
    <3>2. CASE samples = 0 /\ sending = "sound"
      <4>1. \A i \in DOMAIN events : events[i] # "sound"
        BY <1>1, <3>2 DEF Shape
      <4>2. ASSUME NEW i \in Spk!Places("sound")' PROVE ~(i <= raised)
        <5>1. i \in 1 .. Len(events') /\ events'[i] = "sound"
          BY <1>6 DEF Spk!Places
        <5>2. ASSUME i <= raised PROVE FALSE
          <6>1. i \in 1 .. Len(events)
            BY <1>3, <1>4, <3>1, <3>2, <5>1, <5>2
          <6>. QED BY <1>4, <1>6, <4>1, <5>1, <6>1
        <5>. QED BY <5>2
      <4>3. \A i \in raised + 1 .. Len(events') : i = raised + 1 \/ i = raised + 2
        BY <1>3, <1>4, <3>1, <3>2
      <4>4. events'[raised + 1] # "error" /\ events'[raised + 2] # "error"
        BY <1>4, <3>1, <3>2
      <4>. QED BY <1>3, <1>4, <3>1, <3>2, <4>2, <4>3, <4>4
    <3>3. CASE ~(samples = 0 /\ sending = "sound")
      <4>1. Len(events') = raised + 1 /\ events'[raised + 1] # "error"
        BY <1>3, <1>4, <3>1, <3>3
      <4>2. \A i \in raised + 1 .. Len(events') : i = raised + 1
        BY <1>3, <4>1
      <4>. QED BY <1>3, <4>1, <4>2
    <3>. QED BY <3>2, <3>3
  <2>. QED BY <1>2, <2>1 DEF Overrun
<1>10. Right' /\ Loaded'
  BY <1>1, <1>2, <1>3, RightStays, LoadedStays
<1>. QED BY <1>5, <1>7, <1>8, <1>10 DEF SpeechInv

LEMMA NamesInNat == Names \in Nat
BY NamesAssumption

\* The bridge that is loaded: real entries, the one of the first voice first.
LEMMA BridgeIs ==
  ASSUME SpeechInv, at = "idle"
  PROVE  /\ DOMAIN bridge = 1 .. Len(bridge) /\ bridge # <<>> /\ bridge \in Seq(Entries)
         /\ \A k \in DOMAIN bridge : Real(bridge[k])
         /\ FirstVoice \in Spk!Voices /\ Spk!Default = Foremost(FirstVoice)
         /\ Real(Spk!Default)
<1>1. bridge = Spk!Flatten(Names) /\ Spk!Voices # {}
  BY DEF SpeechInv, Loaded
<1>2. Lists(bridge, Names)
  BY <1>1, NamesInNat, FlattenLists
<1>3. PICK v : First(v)
  BY <1>1, NamesInNat, FirstExists
<1>4. Spk!Voices \subseteq 1 .. Names
  BY DEF Spk!Voices
<1>5. FirstVoice = v
  <2>1. v \in Spk!Voices /\ \A w \in Spk!Voices : v <= w
    BY <1>3 DEF First
  <2>2. FirstVoice \in Spk!Voices /\ \A w \in Spk!Voices : FirstVoice <= w
    BY <2>1 DEF FirstVoice
  <2>3. v <= FirstVoice /\ FirstVoice <= v /\ v \in Nat /\ FirstVoice \in Nat
    BY <1>4, <2>1, <2>2, NamesInNat
  <2>. QED BY <2>3
<1>6. v \in Spk!Voices /\ v <= Names
  BY <1>3, <1>4, NamesInNat DEF First
<1>7. bridge # <<>> /\ bridge[1] = Foremost(v)
  BY <1>2, <1>3, <1>6 DEF Lists
<1>8. bridge \in Seq(Entries) /\ \A k \in DOMAIN bridge : Real(bridge[k])
  BY <1>2 DEF Lists
<1>9. DOMAIN bridge = 1 .. Len(bridge) /\ 1 \in DOMAIN bridge
  BY <1>7, <1>8
<1>. QED BY <1>5, <1>6, <1>7, <1>8, <1>9 DEF Spk!Default

\* A voice that was not refused can be read, whole if it has a reference.
LEMMA ReadableIs ==
  ASSUME NEW v \in Spk!Voices, files \in [1 .. Names -> Spk!Set], ~Spk!Refused(files[v])
  PROVE  files[v].spk = "good" /\ (Referenced(v) <=> IsWhole(v))
<1>1. files[v] \in Spk!Set /\ files[v].spk # "absent"
  BY DEF Spk!Voices
<1>2. /\ files[v].spk \in {"absent", "good", "bad"}
      /\ files[v].rvq \in {"absent", "good", "bad"} /\ files[v].txt \in {"absent", "good", "bad"}
  BY <1>1 DEF Spk!Set, Spk!States
<1>3. /\ files[v].spk # "bad" /\ ((files[v].rvq = "absent") <=> (files[v].txt = "absent"))
      /\ files[v].rvq # "absent" => files[v].rvq # "bad" /\ files[v].txt # "bad"
  BY DEF Spk!Refused
<1>. QED BY <1>1, <1>2, <1>3 DEF Referenced, IsWhole

LEMMA FoundIs ==
  ASSUME SpeechInv, at = "idle", NEW label, Spk!Find(label) # {},
         NEW entry, entry = CHOOSE e \in Spk!Find(label) : TRUE
  PROVE  /\ Real(entry)
         /\ IF label = Spk!None THEN entry = Foremost(FirstVoice) ELSE entry = label
<1>1. entry \in Spk!Find(label)
  OBVIOUS
<1>2. CASE label = Spk!None
  BY <1>1, <1>2, BridgeIs DEF Spk!Find
<1>3. CASE label # Spk!None
  <2>1. PICK i \in DOMAIN bridge : entry = bridge[i] /\ bridge[i] = label
    BY <1>1, <1>3 DEF Spk!Find
  <2>2. Real(bridge[i])
    BY BridgeIs
  <2>. QED BY <1>3, <2>1, <2>2
<1>. QED BY <1>2, <1>3

\* What is asked of the talker for an entry of the list.
LEMMA RightForEntry ==
  ASSUME SpeechInv, at = "idle", NEW label, NEW entry, Real(entry),
         IF label = Spk!None THEN entry = Foremost(FirstVoice) ELSE entry = label
  PROVE  RightFor(label, entry.voice, IF entry.reference THEN entry.voice ELSE 0)
<1>1. entry.voice \in Spk!Voices /\ entry.reference \in BOOLEAN
  BY DEF Real, Entries
<1>2. files[entry.voice].spk = "good" /\ (Referenced(entry.voice) <=> IsWhole(entry.voice))
  <2>1. ~Spk!Refused(files[entry.voice]) /\ files \in [1 .. Names -> Spk!Set]
    BY <1>1 DEF SpeechInv, Loaded, SpeechTyped
  <2>. QED BY <1>1, <2>1, ReadableIs
<1>3. entry.reference => IsWhole(entry.voice)
  BY <1>2 DEF Real
<1>4. CASE label = Spk!None
  <2>1. entry.voice = FirstVoice /\ (entry.reference <=> Referenced(FirstVoice))
    BY <1>4 DEF Foremost, Spk!Entry
  <2>. QED BY <1>2, <1>4, <2>1 DEF RightFor
<1>5. CASE label # Spk!None
  BY <1>2, <1>3, <1>5 DEF RightFor
<1>. QED BY <1>4, <1>5

LEMMA BrowserIs ==
  ASSUME NEW browser \in Spk!Browsers
  PROVE  DOMAIN browser = 1 .. Len(browser) /\ Len(browser) \in 0 .. 2
<1>1. CASE browser = <<>>
  BY <1>1
<1>2. CASE browser = <<"other">>
  BY <1>2
<1>3. ASSUME NEW l, browser = <<"other", l>> \/ browser = <<l, "other">>
      PROVE  DOMAIN browser = 1 .. Len(browser) /\ Len(browser) \in 0 .. 2
  <2>1. CASE browser = <<"other", l>>
    BY <2>1
  <2>2. CASE browser = <<l, "other">>
    BY <2>2
  <2>. QED BY <1>3, <2>1, <2>2
<1>4. \/ browser = <<>> \/ browser = <<"other">>
      \/ \E l \in Languages : browser = <<"other", l>> \/ browser = <<l, "other">>
  BY Zenon DEF Spk!Browsers
<1>. QED BY <1>1, <1>2, <1>3, <1>4

\* The language the bridge settles on.
LEMMA LanguageIs ==
  ASSUME NEW label, NEW language, NEW browser \in Spk!Browsers,
         asked' = [label |-> label, language |-> language, browser |-> browser],
         request'.lang = {Spk!Language(language, browser)} \ {"auto"}
  PROVE  Spk!Speaks(request.lang)'
<1>. DEFINE spoken == {i \in DOMAIN browser : browser[i] \in Languages}
            lang == Spk!Language(language, browser)
<1>1. asked'.language = language /\ asked'.browser = browser
  OBVIOUS
<1>2. CASE language # "auto"
  BY <1>1, <1>2 DEF Spk!Speaks, Spk!Language
<1>3. CASE language = "auto" /\ spoken = {}
  BY <1>1, <1>3 DEF Spk!Speaks, Spk!Language
<1>4. CASE language = "auto" /\ spoken # {}
  <2>1. DOMAIN browser = 1 .. Len(browser) /\ Len(browser) \in 0 .. 2
    BY BrowserIs
  <2>2. PICK i \in spoken : \A j \in spoken : i <= j
    <3>1. spoken \subseteq 1 .. 2
      BY <2>1
    <3>2. CASE 1 \in spoken
      BY <3>1, <3>2
    <3>3. CASE 1 \notin spoken
      BY <1>4, <3>1, <3>3
    <3>. QED BY <3>2, <3>3
  <2>3. (CHOOSE k \in spoken : \A j \in spoken : k <= j) = i
    <3>1. PICK k \in spoken : /\ \A j \in spoken : k <= j
                              /\ k = CHOOSE l \in spoken : \A j \in spoken : l <= j
      BY <2>2
    <3>2. k = i
      <4>1. i \in Int /\ k \in Int /\ i <= k /\ k <= i
        BY <2>1, <2>2, <3>1
      <4>. QED BY <4>1
    <3>. QED BY <3>1, <3>2
  <2>4. lang = browser[i]
    BY <1>4, <2>3 DEF Spk!Language
  <2>5. browser[i] # "auto"
    BY NamesAssumption
  <2>6. \A j \in 1 .. i - 1 : browser[j] \notin Languages
    <3>1. \A j \in 1 .. i - 1 : j \in DOMAIN browser
      BY <2>1
    <3>. QED BY <2>1, <2>2, <3>1
  <2>. HIDE DEF lang
  <2>7. request'.lang = {browser[i]}
    BY <2>4, <2>5 DEF lang
  <2>. QED BY <1>1, <1>4, <2>6, <2>7 DEF Spk!Speaks
<1>. QED BY <1>2, <1>3, <1>4

LEMMA SpeakKeeps == ASSUME SpeechInv, Spk!Speak PROVE SpeechInv'
<1>1. SpeechTyped /\ Shape /\ Overrun /\ Loaded /\ Right
  BY DEF SpeechInv
<1>2. PICK label, language, browser :
        /\ browser \in Spk!Browsers /\ Spk!Begin(label, language, browser)
        /\ IF cancel THEN at' = "done" /\ verdict' = "cancelled" /\ UNCHANGED request
           ELSE IF Spk!Find(label) = {}
           THEN at' = "done" /\ verdict' = "failed" /\ UNCHANGED request
           ELSE LET entry == CHOOSE e \in Spk!Find(label) : TRUE IN
                /\ at' = "speaking" /\ UNCHANGED verdict
                /\ request' = [spk |-> entry.voice,
                               lang |-> {Spk!Language(language, browser)} \ {"auto"},
                               ref |-> IF entry.reference THEN entry.voice ELSE 0]
  BY DEF Spk!Speak
<1>3. /\ at = "idle" /\ events' = <<>> /\ samples' = 0 /\ sending' = "nothing" /\ raised' = 0
      /\ asked' = [label |-> label, language |-> language, browser |-> browser]
  BY <1>2 DEF Spk!Begin
<1>4. at' \in {"speaking", "done"} /\ UNCHANGED <<files, bridge, cancel>>
  <2>1. at' \in {"speaking", "done"}
    BY <1>2
  <2>. QED BY <2>1 DEF Spk!Speak
<1>5. SpeechTyped'
  <2>1. sending' \in ChunkKinds
    BY <1>3 DEF ChunkKinds
  <2>2. at' \in Stations
    BY <1>4 DEF Stations
  <2>. QED BY <1>1, <1>3, <1>4, <2>1, <2>2 DEF SpeechTyped
<1>6. Shape' /\ Overrun'
  <2>1. Len(events') = 0 /\ DOMAIN events' = {}
    BY <1>3
  <2>. QED BY <1>3, <2>1 DEF Shape, Overrun
<1>7. Loaded'
  BY <1>1, <1>3, <1>4, LoadedStays
<1>8. Right'
  <2>1. CASE UNCHANGED request
    BY <1>1, <1>3, <1>4, <2>1 DEF Right
  <2>2. CASE ~cancel /\ Spk!Find(label) # {}
    <3>. DEFINE entry == CHOOSE e \in Spk!Find(label) : TRUE
    <3>1. /\ Real(entry)
          /\ IF label = Spk!None THEN entry = Foremost(FirstVoice) ELSE entry = label
      BY <1>3, <2>2, FoundIs
    <3>2. /\ request'.spk = entry.voice
          /\ request'.ref = IF entry.reference THEN entry.voice ELSE 0
      BY <1>2, <2>2
    <3>. HIDE DEF entry
    <3>3. RightFor(label, entry.voice, IF entry.reference THEN entry.voice ELSE 0)
      BY <1>3, <3>1, RightForEntry
    <3>4. RightFor(asked'.label, request'.spk, request'.ref)
      BY <1>3, <3>2, <3>3
    <3>5. RightFor(asked.label, request.spk, request.ref)'
      BY <1>4, <3>4 DEF RightFor, FirstVoice, IsWhole, Spk!Voices, Spk!None
    <3>6. Spk!Speaks(request.lang)'
      <4>1. request'.lang = {Spk!Language(language, browser)} \ {"auto"}
        BY <1>2, <2>2
      <4>. QED BY <1>2, <1>3, <4>1, LanguageIs
    <3>. QED BY <1>4, <3>5, <3>6 DEF Right
  <2>. QED BY <1>2, <2>1, <2>2
<1>. QED BY <1>5, <1>6, <1>7, <1>8 DEF SpeechInv

LEMMA SpeechStep == ASSUME SpeechInv, [Spk!Next]_Spk!speech PROVE SpeechInv'
<1>1. CASE Spk!Next
  BY <1>1, LoadKeeps, SpeakKeeps, CancelKeeps, PollKeeps, ChunkKeeps, SendKeeps, FinishKeeps,
     AnswerKeeps DEF Spk!Next
<1>2. CASE UNCHANGED Spk!speech
  <2>1. UNCHANGED <<files, bridge, asked, at, request, cancel, sending, samples, events, raised>>
    BY <1>2 DEF Spk!speech
  <2>2. SpeechTyped /\ Shape /\ Overrun /\ Loaded /\ Right
    BY DEF SpeechInv
  <2>3. SpeechTyped' /\ Shape' /\ Overrun'
    BY <2>1, <2>2, SameEvents DEF SpeechTyped
  <2>4. Right' /\ Loaded'
    BY <2>1, <2>2, RightStays, LoadedStays
  <2>. QED BY <2>3, <2>4 DEF SpeechInv
<1>. QED BY <1>1, <1>2

LEMMA SpeechInvGives == ASSUME SpeechInv PROVE Spk!UnitIsHeard
<1>1. SpeechTyped /\ Shape /\ Overrun /\ Loaded /\ Right
  BY DEF SpeechInv
<1>2. events \in Seq(SentEvents) /\ samples \in Nat /\ DOMAIN events = 1 .. Len(events)
  BY <1>1 DEF SpeechTyped
<1>. DEFINE firsts == {j \in Spk!Places("sound") : \A k \in Spk!Places("sound") : j <= k}
<1>3. Spk!Places("text") = {i - 1 : i \in firsts}
  <2>1. CASE samples = 0
    <3>1. \A i \in DOMAIN events : events[i] # "text" /\ events[i] # "sound"
      BY <1>1, <2>1 DEF Shape
    <3>2. Spk!Places("text") = {} /\ Spk!Places("sound") = {}
      BY <3>1 DEF Spk!Places
    <3>. QED BY <3>2
  <2>2. CASE samples > 0
    <3>1. PICK t \in 1 .. Len(events) - 1 : SoundsFrom(t)
      BY <1>1, <2>2 DEF Shape
    <3>2. t \in DOMAIN events /\ t + 1 \in DOMAIN events /\ t \in Nat
      BY <1>2
    <3>3. Spk!Places("text") = {t}
      <4>1. \A i : i \in Spk!Places("text") <=> i \in DOMAIN events /\ events[i] = "text"
        BY DEF Spk!Places
      <4>2. events[t] = "text" /\ \A i \in DOMAIN events : events[i] = "text" => i = t
        BY <3>1 DEF SoundsFrom
      <4>. QED BY <3>2, <4>1, <4>2
    <3>4. t + 1 \in Spk!Places("sound") /\ \A k \in Spk!Places("sound") : k \in Nat /\ k > t
      BY <1>2, <3>1, <3>2 DEF Spk!Places, SoundsFrom
    <3>5. firsts = {t + 1}
      BY <3>2, <3>4
    <3>. QED BY <3>2, <3>3, <3>5
  <2>. QED BY <1>2, <2>1, <2>2
<1>4. cancel =>
        /\ Len(events) <= raised + (IF \E i \in Spk!Places("sound") : i <= raised THEN 1 ELSE 2)
        /\ \A i \in raised + 1 .. Len(events) : events[i] # "error"
  BY <1>1 DEF Overrun
<1>5. request # Spk!None =>
        RightFor(asked.label, request.spk, request.ref) /\ Spk!Speaks(request.lang)
  BY <1>1 DEF Right
<1>. QED BY <1>3, <1>4, <1>5 DEF Spk!UnitIsHeard, RightFor, FirstVoice, IsWhole

\* A unit's text goes once, right before its first sound; a cancel lets
\* through the chunk that was on its way and no error; and the talker is given
\* the language it should speak and the files of the voice that was named, or
\* of the first one, whichever files the directory holds and however many.
THEOREM UnitsAreHeard == MCSpec => []UnitIsHeard
<1>1. Spk!Init => SpeechInv
  BY SpeechInit
<1>2. SpeechInv /\ [Spk!Next]_Spk!speech => SpeechInv'
  BY SpeechStep
<1>3. SpeechInv => UnitIsHeard
  BY SpeechInvGives DEF UnitIsHeard
<1>4. MCSpec => Spk!Spec
  BY SpeechRuns
<1>. QED BY <1>1, <1>2, <1>3, <1>4, PTL DEF Spk!Spec

(* ---------------------------- the transcript --------------------------- *)

\* The characters of the pieces, and what a marker is read as.
Characters == STRING \cup {Marker, " "}

\* Pieces laid end to end, the recursion unfolded.
Unfolds(f, n, s) ==
  /\ f = [i \in 0 .. n |-> IF i = 0 THEN <<>> ELSE f[i - 1] \o s[i]]
  /\ Flat(s) = f[n]

LEMMA FlatIs == ASSUME NEW n \in Nat, NEW s, Len(s) = n PROVE \E f : Unfolds(f, n, s)
BY LaidIs, Zenon DEF Flat, Unfolds

\* One piece more is laid behind the others.
LEMMA FlatAppends ==
  ASSUME NEW n \in Nat, NEW s, NEW t, Len(s) = n, Len(t) = n + 1,
         \A i \in 1 .. n : t[i] = s[i]
  PROVE  Flat(t) = Flat(s) \o t[n + 1]
<1>1. PICK f : Unfolds(f, n, s)
  BY FlatIs
<1>2. n + 1 \in Nat
  OBVIOUS
<1>3. PICK g : Unfolds(g, n + 1, t)
  BY <1>2, FlatIs
<1>4. \A i \in 0 .. n : f[i] = IF i = 0 THEN <<>> ELSE f[i - 1] \o s[i]
  BY <1>1, Zenon DEF Unfolds
<1>5. \A i \in 0 .. n + 1 : g[i] = IF i = 0 THEN <<>> ELSE g[i - 1] \o t[i]
  BY <1>3, Zenon DEF Unfolds
<1>. DEFINE S == {i \in 0 .. n : g[i] = f[i]}
<1>6. 0 \in S
  <2>1. 0 \in 0 .. n /\ 0 \in 0 .. n + 1
    OBVIOUS
  <2>2. f[0] = <<>> /\ g[0] = <<>>
    BY <1>4, <1>5, <2>1, Zenon
  <2>. QED BY <2>1, <2>2
<1>7. ASSUME NEW i \in 0 .. n, i \in S, i < n PROVE i + 1 \in S
  <2>1. /\ i + 1 \in 0 .. n /\ i + 1 \in 0 .. n + 1 /\ i + 1 # 0 /\ (i + 1) - 1 = i
        /\ i + 1 \in 1 .. n
    BY <1>7
  <2>2. f[i + 1] = f[(i + 1) - 1] \o s[i + 1]
    BY <1>4, <2>1, Zenon
  <2>3. g[i + 1] = g[(i + 1) - 1] \o t[i + 1]
    BY <1>5, <2>1, Zenon
  <2>4. t[i + 1] = s[i + 1]
    BY <2>1
  <2>5. g[i] = f[i]
    BY <1>7
  <2>6. g[i + 1] = f[i + 1]
    BY <2>1, <2>2, <2>3, <2>4, <2>5, Zenon
  <2>. QED BY <2>1, <2>6
<1>8. n \in S
  BY <1>6, <1>7, Climbs
<1>9. g[n + 1] = g[(n + 1) - 1] \o t[n + 1]
  <2>1. n + 1 \in 0 .. n + 1 /\ n + 1 # 0
    OBVIOUS
  <2>. QED BY <1>5, <2>1, Zenon
<1>10. (n + 1) - 1 = n /\ g[n] = f[n]
  BY <1>8
<1>11. Flat(s) = f[n] /\ Flat(t) = g[n + 1]
  BY <1>1, <1>3, Zenon DEF Unfolds
<1>. QED BY <1>9, <1>10, <1>11

LEMMA FlatEmpty == Flat(<<>>) = <<>>
<1>1. Len(<<>>) = 0 /\ 0 \in Nat
  OBVIOUS
<1>2. PICK f : Unfolds(f, 0, <<>>)
  BY <1>1, FlatIs
<1>3. 0 \in 0 .. 0
  OBVIOUS
<1>4. f[0] = <<>> /\ Flat(<<>>) = f[0]
  BY <1>2, <1>3, Zenon DEF Unfolds
<1>. QED BY <1>4

(* The markers at the start of a text, cut off.                            *)

Lead(s, n) ==
  /\ n \in 0 .. Len(s) /\ \A i \in 1 .. n : s[i] = Marker
  /\ n = Len(s) \/ s[n + 1] # Marker

LEMMA LeadExists ==
  ASSUME NEW s, Len(s) \in Nat
  PROVE  \E n : Lead(s, n)
<1>. DEFINE S == {i \in 0 .. Len(s) : (\A j \in 1 .. i : s[j] = Marker) \/ \E n : Lead(s, n)}
<1>1. 0 \in S
  OBVIOUS
<1>2. ASSUME NEW i \in 0 .. Len(s), i \in S, i < Len(s) PROVE i + 1 \in S
  <2>1. i + 1 \in 0 .. Len(s)
    BY <1>2
  <2>2. CASE \E n : Lead(s, n)
    BY <2>1, <2>2
  <2>3. CASE (\A j \in 1 .. i : s[j] = Marker) /\ s[i + 1] = Marker
    <3>1. \A j \in 1 .. i + 1 : j \in 1 .. i \/ j = i + 1
      BY <1>2
    <3>. QED BY <2>1, <2>3, <3>1
  <2>4. CASE (\A j \in 1 .. i : s[j] = Marker) /\ s[i + 1] # Marker
    <3>1. Lead(s, i)
      BY <1>2, <2>4 DEF Lead
    <3>. QED BY <2>1, <3>1
  <2>. QED BY <1>2, <2>2, <2>3, <2>4
<1>3. Len(s) \in S
  BY <1>1, <1>2, Climbs
<1>4. ASSUME \A j \in 1 .. Len(s) : s[j] = Marker PROVE Lead(s, Len(s))
  BY <1>4 DEF Lead
<1>. QED BY <1>3, <1>4

LEMMA LeadIsOne ==
  ASSUME NEW s, Len(s) \in Nat, NEW n, NEW m, Lead(s, n), Lead(s, m) PROVE n = m
<1>1. n \in 0 .. Len(s) /\ m \in 0 .. Len(s)
  BY DEF Lead
<1>2. ASSUME n < m PROVE FALSE
  <2>1. n + 1 \in 1 .. m
    BY <1>1, <1>2
  <2>. QED BY <1>1, <1>2, <2>1 DEF Lead
<1>3. ASSUME m < n PROVE FALSE
  <2>1. m + 1 \in 1 .. n
    BY <1>1, <1>3
  <2>. QED BY <1>1, <1>3, <2>1 DEF Lead
<1>. QED BY <1>1, <1>2, <1>3

LEMMA StrippedIs ==
  ASSUME NEW s, Len(s) \in Nat, NEW n, Lead(s, n)
  PROVE  Stripped(s) = SubSeq(s, n + 1, Len(s))
<1>. DEFINE Is(m) == /\ \A i \in 1 .. m : s[i] = Marker
                     /\ m = Len(s) \/ ~\A i \in 1 .. m + 1 : s[i] = Marker
            lead == CHOOSE m \in 0 .. Len(s) : Is(m)
<1>1. ASSUME NEW m \in 0 .. Len(s) PROVE Is(m) <=> Lead(s, m)
  <2>1. \A i \in 1 .. m + 1 : i \in 1 .. m \/ i = m + 1
    OBVIOUS
  <2>2. m + 1 \in 1 .. m + 1
    OBVIOUS
  <2>. QED BY <2>1, <2>2 DEF Lead
<1>2. Stripped(s) = SubSeq(s, lead + 1, Len(s))
  BY DEF Stripped
<1>3. n \in 0 .. Len(s) /\ Is(n)
  <2>1. n \in 0 .. Len(s)
    BY DEF Lead
  <2>. QED BY <1>1, <2>1
<1>. HIDE DEF Is
<1>4. lead \in 0 .. Len(s) /\ Is(lead)
  BY <1>3
<1>5. Lead(s, lead)
  BY <1>1, <1>4
<1>. HIDE DEF lead
<1>6. lead = n
  BY <1>5, LeadIsOne
<1>. QED BY <1>2, <1>6

AsRead(character) == IF character = Marker THEN " " ELSE character

LEMMA ReadIs == ASSUME NEW c \in Characters PROVE AsRead(c) \in Characters
BY Zenon DEF AsRead, Characters

LEMMA SpacedIs ==
  ASSUME NEW s \in Seq(Characters)
  PROVE  /\ Spaced(s) \in Seq(Characters) /\ Len(Spaced(s)) = Len(s)
         /\ \A i \in 1 .. Len(s) : Spaced(s)[i] = AsRead(s[i])
<1>1. DOMAIN s = 1 .. Len(s) /\ Len(s) \in Nat
  OBVIOUS
<1>2. Spaced(s) = [i \in 1 .. Len(s) |-> AsRead(s[i])]
  BY <1>1, Zenon DEF Spaced, AsRead
<1>3. \A i \in 1 .. Len(s) : s[i] \in Characters
  OBVIOUS
<1>4. \A i \in 1 .. Len(s) : AsRead(s[i]) \in Characters
  BY <1>3, ReadIs
<1>. QED BY <1>1, <1>2, <1>4

LEMMA SpacedConcat ==
  ASSUME NEW s \in Seq(Characters), NEW t \in Seq(Characters)
  PROVE  Spaced(s \o t) = Spaced(s) \o Spaced(t)
<1>. DEFINE u == s \o t
            a == Spaced(u)
            x == Spaced(s)
            y == Spaced(t)
            b == x \o y
<1>1. /\ u \in Seq(Characters) /\ Len(u) = Len(s) + Len(t)
      /\ \A i \in 1 .. Len(s) + Len(t) : u[i] = IF i <= Len(s) THEN s[i] ELSE t[i - Len(s)]
  BY ConcatProperties
<1>2. /\ a \in Seq(Characters) /\ Len(a) = Len(u)
      /\ \A i \in 1 .. Len(u) : a[i] = AsRead(u[i])
  <2>. HIDE DEF u
  <2>. QED BY <1>1, SpacedIs
<1>3. x \in Seq(Characters) /\ Len(x) = Len(s) /\ \A i \in 1 .. Len(s) : x[i] = AsRead(s[i])
  BY SpacedIs
<1>4. y \in Seq(Characters) /\ Len(y) = Len(t) /\ \A i \in 1 .. Len(t) : y[i] = AsRead(t[i])
  BY SpacedIs
<1>. HIDE DEF x, y
<1>5. /\ b \in Seq(Characters) /\ Len(b) = Len(x) + Len(y)
      /\ \A i \in 1 .. Len(x) + Len(y) : b[i] = IF i <= Len(x) THEN x[i] ELSE y[i - Len(x)]
  <2>1. x \in Seq(Characters) /\ y \in Seq(Characters)
    BY <1>3, <1>4
  <2>. QED BY <2>1, ConcatProperties, Zenon
<1>. HIDE DEF u, a, b
<1>6. Len(s) \in Nat /\ Len(t) \in Nat
  OBVIOUS
<1>7. ASSUME NEW i \in 1 .. Len(a) PROVE a[i] = b[i]
  <2>1. i \in 1 .. Len(s) + Len(t)
    BY <1>1, <1>2
  <2>2. CASE i <= Len(s)
    <3>1. i \in 1 .. Len(s)
      BY <1>6, <2>1, <2>2
    <3>2. u[i] = s[i] /\ b[i] = x[i]
      BY <1>1, <1>3, <1>4, <1>5, <2>1, <2>2
    <3>3. a[i] = AsRead(u[i]) /\ x[i] = AsRead(s[i])
      BY <1>1, <1>2, <1>3, <2>1, <3>1
    <3>. QED BY <3>2, <3>3
  <2>3. CASE ~(i <= Len(s))
    <3>1. i - Len(s) \in 1 .. Len(t)
      BY <1>6, <2>1, <2>3
    <3>2. u[i] = t[i - Len(s)] /\ b[i] = y[i - Len(s)]
      BY <1>1, <1>3, <1>4, <1>5, <2>1, <2>3
    <3>3. a[i] = AsRead(u[i]) /\ y[i - Len(s)] = AsRead(t[i - Len(s)])
      BY <1>1, <1>2, <1>4, <2>1, <3>1
    <3>. QED BY <3>2, <3>3
  <2>. QED BY <2>2, <2>3
<1>8. Len(a) = Len(b)
  BY <1>1, <1>2, <1>3, <1>4, <1>5
<1>9. a = b
  BY <1>2, <1>5, <1>7, <1>8, SeqEqual
<1>. QED BY <1>9 DEF a, b, u, x, y

LEMMA StrippedTypes ==
  ASSUME NEW s \in Seq(Characters)
  PROVE  Stripped(s) \in Seq(Characters)
<1>1. Len(s) \in Nat
  OBVIOUS
<1>2. PICK n : Lead(s, n)
  BY <1>1, LeadExists
<1>3. n \in 0 .. Len(s)
  BY <1>2 DEF Lead
<1>4. Stripped(s) = SubSeq(s, n + 1, Len(s))
  BY <1>1, <1>2, StrippedIs
<1>. QED BY <1>1, <1>3, <1>4

\* Behind nothing but markers a piece loses its own, behind anything else none.
LEMMA StrippedConcat ==
  ASSUME NEW s \in Seq(Characters), NEW t \in Seq(Characters)
  PROVE  Stripped(s \o t) = IF Stripped(s) = <<>> THEN Stripped(t) ELSE Stripped(s) \o t
<1>1. /\ Len(s) \in Nat /\ Len(t) \in Nat /\ s \o t \in Seq(Characters)
      /\ Len(s \o t) = Len(s) + Len(t)
      /\ \A i \in 1 .. Len(s) + Len(t) : (s \o t)[i] = IF i <= Len(s) THEN s[i] ELSE t[i - Len(s)]
  BY ConcatProperties
<1>2. PICK n : Lead(s, n)
  BY <1>1, LeadExists
<1>3. n \in 0 .. Len(s) /\ \A i \in 1 .. n : s[i] = Marker
  BY <1>2 DEF Lead
<1>4. Stripped(s) = SubSeq(s, n + 1, Len(s))
  BY <1>1, <1>2, StrippedIs
<1>5. CASE n = Len(s)
  <2>1. Stripped(s) = <<>>
    <3>1. Len(s) \in Int /\ n + 1 \in Int /\ Len(s) < n + 1
      BY <1>1, <1>5
    <3>. QED BY <1>4, <3>1, SubSeqEmpty
  <2>2. PICK m : Lead(t, m)
    BY <1>1, LeadExists
  <2>3. m \in 0 .. Len(t) /\ (\A i \in 1 .. m : t[i] = Marker) /\ (m = Len(t) \/ t[m + 1] # Marker)
    BY <2>2 DEF Lead
  <2>4. Stripped(t) = SubSeq(t, m + 1, Len(t))
    BY <1>1, <2>2, StrippedIs
  <2>5. Lead(s \o t, Len(s) + m)
    <3>1. Len(s) + m \in 0 .. Len(s \o t)
      BY <1>1, <2>3
    <3>2. ASSUME NEW i \in 1 .. Len(s) + m PROVE (s \o t)[i] = Marker
      <4>1. i \in 1 .. Len(s) + Len(t) /\ (~(i <= Len(s)) => i - Len(s) \in 1 .. m)
        BY <1>1, <2>3
      <4>2. CASE i <= Len(s)
        BY <1>1, <1>3, <1>5, <4>1, <4>2
      <4>3. CASE ~(i <= Len(s))
        BY <1>1, <2>3, <4>1, <4>3
      <4>. QED BY <4>2, <4>3
    <3>3. Len(s) + m = Len(s \o t) \/ (s \o t)[Len(s) + m + 1] # Marker
      <4>1. CASE m = Len(t)
        BY <1>1, <4>1
      <4>2. CASE m # Len(t)
        <5>1. /\ Len(s) + m + 1 \in 1 .. Len(s) + Len(t) /\ ~(Len(s) + m + 1 <= Len(s))
              /\ (Len(s) + m + 1) - Len(s) = m + 1
          BY <1>1, <2>3, <4>2
        <5>2. (s \o t)[Len(s) + m + 1] = t[m + 1]
          BY <1>1, <5>1
        <5>. QED BY <2>3, <4>2, <5>2
      <4>. QED BY <4>1, <4>2
    <3>. QED BY <3>1, <3>2, <3>3 DEF Lead
  <2>6. Stripped(s \o t) = SubSeq(s \o t, Len(s) + m + 1, Len(s) + Len(t))
    <3>1. Len(s \o t) \in Nat
      BY <1>1
    <3>2. Stripped(s \o t) = SubSeq(s \o t, Len(s) + m + 1, Len(s \o t))
      BY <2>5, <3>1, StrippedIs, Zenon
    <3>. QED BY <1>1, <3>2
  <2>. DEFINE a == SubSeq(s \o t, Len(s) + m + 1, Len(s) + Len(t))
              b == SubSeq(t, m + 1, Len(t))
  <2>7. a = b
    <3>1. CASE m = Len(t)
      <4>1. a = <<>>
        <5>1. /\ Len(s) + m + 1 \in Int /\ Len(s) + Len(t) \in Int
              /\ Len(s) + Len(t) < Len(s) + m + 1
          BY <1>1, <3>1
        <5>. QED BY <5>1, SubSeqEmpty
      <4>2. b = <<>>
        <5>1. m + 1 \in Int /\ Len(t) \in Int /\ Len(t) < m + 1
          BY <1>1, <3>1
        <5>. QED BY <5>1, SubSeqEmpty
      <4>. QED BY <4>1, <4>2
    <3>2. CASE m # Len(t)
      <4>1. /\ Len(s) + m + 1 \in Len(s) + 1 .. Len(s) + Len(t)
            /\ Len(s) + Len(t) \in Len(s) + 1 .. Len(s) + Len(t)
            /\ (Len(s) + m + 1) - Len(s) = m + 1 /\ (Len(s) + Len(t)) - Len(s) = Len(t)
        BY <1>1, <2>3, <3>2
      <4>2. a = SubSeq(t, (Len(s) + m + 1) - Len(s), (Len(s) + Len(t)) - Len(s))
        BY <4>1, SubSeqOfConcat2, ZenonT(40)
      <4>. QED BY <4>1, <4>2
    <3>. QED BY <3>1, <3>2
  <2>. QED BY <2>1, <2>4, <2>6, <2>7
<1>6. CASE n # Len(s)
  <2>1. s[n + 1] # Marker /\ n + 1 \in 1 .. Len(s)
    BY <1>1, <1>2, <1>3, <1>6 DEF Lead
  <2>2. Stripped(s) # <<>>
    BY <1>1, <1>4, <2>1
  <2>3. Lead(s \o t, n)
    <3>1. n \in 0 .. Len(s \o t) /\ n + 1 \in 1 .. Len(s) + Len(t) /\ n + 1 <= Len(s)
      BY <1>1, <1>3, <2>1
    <3>2. (s \o t)[n + 1] # Marker
      BY <1>1, <2>1, <3>1
    <3>3. ASSUME NEW i \in 1 .. n PROVE (s \o t)[i] = Marker
      <4>1. i \in 1 .. Len(s) + Len(t) /\ i <= Len(s)
        BY <1>1, <1>3
      <4>. QED BY <1>1, <1>3, <4>1
    <3>. QED BY <3>1, <3>2, <3>3 DEF Lead
  <2>4. Stripped(s \o t) = SubSeq(s \o t, n + 1, Len(s \o t))
    <3>1. Len(s \o t) \in Nat
      BY <1>1
    <3>. QED BY <2>3, <3>1, StrippedIs, Zenon
  <2>. DEFINE u == s \o t
  <2>5. SubSeq(u, n + 1, Len(s)) \o SubSeq(u, Len(s) + 1, Len(u)) = SubSeq(u, n + 1, Len(u))
    <3>1. /\ u \in Seq(Characters) /\ n + 1 \in 1 .. Len(u) + 1
          /\ Len(s) \in (n + 1) - 1 .. Len(u) /\ Len(u) \in Len(s) .. Len(u)
      BY <1>1, <1>3, <2>1
    <3>. HIDE DEF u
    <3>. QED BY <3>1, ConcatAdjacentSubSeq
  <2>6. SubSeq(u, n + 1, Len(s)) = SubSeq(s, n + 1, Len(s))
    <3>1. n + 1 \in 1 .. Len(s) /\ Len(s) \in 1 .. Len(s)
      BY <1>1, <2>1
    <3>. QED BY <3>1, SubSeqOfConcat1
  <2>7. SubSeq(u, Len(s) + 1, Len(u)) = t
    <3>1. CASE t = <<>>
      <4>1. Len(s) + 1 \in Int /\ Len(u) \in Int /\ Len(u) < Len(s) + 1
        BY <1>1, <3>1
      <4>2. SubSeq(u, Len(s) + 1, Len(u)) = <<>>
        BY <4>1, SubSeqEmpty
      <4>. QED BY <3>1, <4>2
    <3>2. CASE t # <<>>
      <4>1. /\ Len(s) + 1 \in Len(s) + 1 .. Len(s) + Len(t)
            /\ Len(s) + Len(t) \in Len(s) + 1 .. Len(s) + Len(t)
            /\ (Len(s) + 1) - Len(s) = 1 /\ (Len(s) + Len(t)) - Len(s) = Len(t)
        BY <1>1, <3>2
      <4>2. SubSeq(u, Len(s) + 1, Len(s) + Len(t))
              = SubSeq(t, (Len(s) + 1) - Len(s), (Len(s) + Len(t)) - Len(s))
        BY <4>1, SubSeqOfConcat2
      <4>3. SubSeq(t, 1, Len(t)) = t
        BY SubSeqFull
      <4>. QED BY <1>1, <4>1, <4>2, <4>3
    <3>. QED BY <3>1, <3>2
  <2>. QED BY <1>1, <1>4, <2>2, <2>4, <2>5, <2>6, <2>7
<1>. QED BY <1>5, <1>6

PieceIs(piece) == IF piece = Special THEN <<>> ELSE piece

(* What the caller was handed and what is returned are the pieces so far.   *)
TextInv ==
  /\ text \in Seq(Characters) /\ spelled \in Seq(Pieces) /\ handed \in Seq(Seq(Characters))
  /\ listening => Flat(handed) = text
  /\ Flat(Plain(spelled)) \in Seq(Characters)
  /\ text = Spaced(Stripped(Flat(Plain(spelled))))
  /\ result # "none" => status = "ok" /\ result = text

LEMMA PiecesAreTexts ==
  ASSUME NEW piece \in Pieces PROVE piece \in Seq(Characters) /\ PieceIs(piece) \in Seq(Characters)
<1>1. piece \in Seq(STRING)
  BY RecognizerAssumption
<1>2. STRING \subseteq Characters
  BY Zenon DEF Characters
<1>. HIDE DEF Characters
<1>3. piece \in Seq(Characters)
  BY <1>1, <1>2, SeqMonotonic
<1>. QED BY <1>3 DEF PieceIs

LEMMA PlainAppends ==
  ASSUME spelled \in Seq(Pieces), NEW piece \in Pieces
  PROVE  Flat(Plain(Append(spelled, piece))) = Flat(Plain(spelled)) \o PieceIs(piece)
<1>. DEFINE s == Plain(spelled)
            more == Append(spelled, piece)
            t == Plain(more)
            n == Len(spelled)
<1>1. /\ more \in Seq(Pieces) /\ Len(more) = n + 1 /\ more[n + 1] = piece /\ n \in Nat
      /\ \A i \in 1 .. n : more[i] = spelled[i]
  OBVIOUS
<1>2. DOMAIN more = 1 .. n + 1 /\ DOMAIN spelled = 1 .. n
  BY <1>1
<1>. HIDE DEF more, n
<1>3. s = [i \in 1 .. n |-> PieceIs(spelled[i])] /\ t = [i \in 1 .. n + 1 |-> PieceIs(more[i])]
  BY <1>2 DEF Plain, PieceIs
<1>. HIDE DEF s, t
<1>4. Len(s) = n /\ Len(t) = n + 1
  BY <1>1, <1>3
<1>5. \A i \in 1 .. n : t[i] = s[i]
  BY <1>1, <1>3
<1>6. t[n + 1] = PieceIs(piece)
  <2>1. n + 1 \in 1 .. n + 1
    BY <1>1
  <2>. QED BY <1>1, <1>3, <2>1
<1>7. Flat(t) = Flat(s) \o t[n + 1]
  BY <1>1, <1>4, <1>5, FlatAppends
<1>8. Flat(t) = Flat(s) \o PieceIs(piece)
  BY <1>6, <1>7
<1>. QED BY <1>8 DEF s, t, more

\* A marker is a space, but for those nothing was written before.
LEMMA WrittenIs ==
  ASSUME TextInv, NEW piece \in Pieces
  PROVE  /\ Written(piece) \in Seq(Characters)
         /\ text \o Written(piece) = Spaced(Stripped(Flat(Plain(spelled)) \o PieceIs(piece)))
<1>. DEFINE w == Flat(Plain(spelled))
            head == Stripped(w)
<1>1. /\ w \in Seq(Characters) /\ text = Spaced(head) /\ text \in Seq(Characters)
  BY DEF TextInv
<1>2. piece \in Seq(Characters)
  BY PiecesAreTexts
<1>. HIDE DEF w
<1>3. head \in Seq(Characters) /\ Len(text) = Len(head)
  BY <1>1, StrippedTypes, SpacedIs
<1>4. text = <<>> <=> head = <<>>
  <2>. HIDE DEF head
  <2>. QED BY <1>1, <1>3
<1>5. Stripped(w \o piece) = IF head = <<>> THEN Stripped(piece) ELSE head \o piece
  BY <1>1, <1>2, StrippedConcat
<1>6. CASE piece = Special
  <2>1. PieceIs(piece) = <<>> /\ Written(piece) = <<>>
    BY <1>6 DEF PieceIs, Written
  <2>2. w \o <<>> = w /\ text \o <<>> = text
    BY <1>1, ConcatEmptySeq
  <2>. QED BY <1>1, <2>1, <2>2 DEF w
<1>7. CASE piece # Special /\ text = <<>>
  <2>1. PieceIs(piece) = piece /\ Written(piece) = Spaced(Stripped(piece))
    BY <1>7 DEF PieceIs, Written
  <2>2. Written(piece) \in Seq(Characters)
    BY <1>2, <2>1, StrippedTypes, SpacedIs
  <2>3. <<>> \o Written(piece) = Written(piece)
    BY <2>2, ConcatEmptySeq
  <2>4. Stripped(w \o piece) = Stripped(piece)
    BY <1>4, <1>5, <1>7
  <2>5. text \o Written(piece) = Spaced(Stripped(w \o PieceIs(piece)))
    BY <1>7, <2>1, <2>3, <2>4
  <2>. QED BY <2>2, <2>5 DEF w
<1>8. CASE piece # Special /\ text # <<>>
  <2>1. PieceIs(piece) = piece /\ Written(piece) = Spaced(piece)
    BY <1>8 DEF PieceIs, Written
  <2>2. Written(piece) \in Seq(Characters)
    BY <1>2, <2>1, SpacedIs
  <2>3. Stripped(w \o piece) = head \o piece
    BY <1>4, <1>5, <1>8
  <2>4. Spaced(head \o piece) = Spaced(head) \o Spaced(piece)
    <3>. HIDE DEF head
    <3>. QED BY <1>2, <1>3, SpacedConcat
  <2>5. text \o Written(piece) = Spaced(Stripped(w \o PieceIs(piece)))
    BY <1>1, <2>1, <2>3, <2>4
  <2>. QED BY <2>2, <2>5 DEF w
<1>. QED BY <1>6, <1>7, <1>8

LEMMA TextInit == ASSUME Init PROVE TextInv
<1>1. text = <<>> /\ spelled = <<>> /\ handed = <<>> /\ result = "none"
  BY DEF Init
<1>2. Plain(<<>>) = <<>>
  BY DEF Plain
<1>3. Lead(<<>>, 0) /\ Len(<<>>) = 0
  BY DEF Lead
<1>4. Stripped(<<>>) = SubSeq(<<>>, 0 + 1, Len(<<>>))
  BY <1>3, StrippedIs
<1>5. SubSeq(<<>>, 0 + 1, Len(<<>>)) = <<>>
  <2>1. 0 + 1 \in Int /\ 0 \in Int /\ 0 < 0 + 1
    OBVIOUS
  <2>. QED BY <1>3, <2>1, SubSeqEmpty
<1>6. Spaced(<<>>) = <<>>
  <2>1. <<>> \in Seq(Characters)
    OBVIOUS
  <2>2. Spaced(<<>>) \in Seq(Characters) /\ Len(Spaced(<<>>)) = 0
    BY <1>3, <2>1, SpacedIs
  <2>. QED BY <2>2
<1>7. text = Spaced(Stripped(Flat(Plain(spelled)))) /\ Flat(Plain(spelled)) = <<>>
  BY <1>1, <1>2, <1>4, <1>5, <1>6, FlatEmpty
<1>8. Flat(handed) = text
  BY <1>1, FlatEmpty
<1>9. text \in Seq(Characters) /\ spelled \in Seq(Pieces) /\ handed \in Seq(Seq(Characters))
  BY <1>1
<1>10. Flat(Plain(spelled)) \in Seq(Characters)
  BY <1>7
<1>. QED BY <1>1, <1>7, <1>8, <1>9, <1>10, Zenon DEF TextInv

LEMMA EmitText == ASSUME TextInv, Emit PROVE TextInv'
<1>1. PICK piece \in Pieces :
        /\ text' = text \o Written(piece) /\ spelled' = Append(spelled, piece)
        /\ handed' = IF listening THEN Append(handed, Written(piece)) ELSE handed
  BY DEF Emit
<1>2. /\ text \in Seq(Characters) /\ spelled \in Seq(Pieces) /\ handed \in Seq(Seq(Characters))
      /\ Flat(Plain(spelled)) \in Seq(Characters)
      /\ listening => Flat(handed) = text
  BY DEF TextInv
<1>3. /\ Written(piece) \in Seq(Characters)
      /\ text \o Written(piece) = Spaced(Stripped(Flat(Plain(spelled)) \o PieceIs(piece)))
  BY WrittenIs
<1>4. status = "run" /\ UNCHANGED <<listening, result>>
  BY DEF Emit, Step
<1>5. result' = "none"
  BY <1>4 DEF TextInv
<1>6. text' \in Seq(Characters) /\ spelled' \in Seq(Pieces) /\ handed' \in Seq(Seq(Characters))
  <2>1. text' \in Seq(Characters)
    BY <1>1, <1>2, <1>3, ConcatProperties
  <2>2. handed' \in Seq(Seq(Characters))
    BY <1>1, <1>2, <1>3
  <2>. QED BY <1>1, <1>2, <2>1, <2>2
<1>7. /\ Flat(Plain(spelled')) = Flat(Plain(spelled)) \o PieceIs(piece)
      /\ Flat(Plain(spelled')) \in Seq(Characters)
  <2>1. Flat(Plain(Append(spelled, piece))) = Flat(Plain(spelled)) \o PieceIs(piece)
    BY <1>2, PlainAppends
  <2>2. Flat(Plain(spelled)) \o PieceIs(piece) \in Seq(Characters)
    <3>1. PieceIs(piece) \in Seq(Characters)
      BY PiecesAreTexts
    <3>. QED BY <1>2, <3>1, ConcatProperties
  <2>. QED BY <1>1, <2>1, <2>2
<1>8. text' = Spaced(Stripped(Flat(Plain(spelled'))))
  BY <1>1, <1>3, <1>7
<1>9. ASSUME listening PROVE Flat(handed') = text'
  <2>. DEFINE n == Len(handed)
              piecewise == Written(piece)
  <2>1. handed' = Append(handed, piecewise)
    BY <1>1, <1>9
  <2>. HIDE DEF piecewise
  <2>2. /\ n \in Nat /\ Len(handed') = n + 1 /\ handed'[n + 1] = piecewise
        /\ \A i \in 1 .. n : handed'[i] = handed[i]
    BY <1>2, <2>1
  <2>3. Flat(handed') = Flat(handed) \o handed'[n + 1]
    <3>. HIDE DEF n
    <3>. QED BY <2>2, FlatAppends DEF n
  <2>4. Flat(handed') = text \o piecewise
    BY <1>2, <1>9, <2>2, <2>3
  <2>. QED BY <1>1, <2>4 DEF piecewise
<1>10. TextInv'
  <2>1. Flat(Plain(spelled))' = Flat(Plain(spelled')) /\ Flat(handed)' = Flat(handed')
    OBVIOUS
  <2>2. (text = Spaced(Stripped(Flat(Plain(spelled)))))'
    BY <1>8
  <2>3. (listening => Flat(handed) = text)'
    BY <1>4, <1>9
  <2>. QED BY <1>5, <1>6, <1>7, <2>2, <2>3 DEF TextInv
<1>. QED BY <1>10

LEMMA TextStep == ASSUME TextInv, [Next]_recognizer PROVE TextInv'
<1>1. CASE Emit
  BY <1>1, EmitText
<1>2. CASE Blank
  <2>1. status = "run" /\ UNCHANGED <<listening, status, text, spelled, handed, result>>
    BY <1>2 DEF Blank, Step, words
  <2>. QED BY <2>1, Zenon DEF TextInv
<1>3. CASE Throw
  <2>1. status = "run" /\ UNCHANGED <<listening, text, spelled, handed, result>>
    BY <1>3 DEF Throw, words
  <2>2. result = "none"
    BY <2>1 DEF TextInv
  <2>. QED BY <2>1, <2>2, Zenon DEF TextInv
<1>4. CASE Finish
  <2>1. status' = "ok" /\ result' = text /\ UNCHANGED <<listening, text, spelled, handed>>
    BY <1>4 DEF Finish, words
  <2>. QED BY <2>1, Zenon DEF TextInv
<1>5. CASE UNCHANGED recognizer
  <2>1. UNCHANGED <<listening, status, text, spelled, handed, result>>
    BY <1>5 DEF recognizer, words
  <2>. QED BY <2>1, Zenon DEF TextInv
<1>. QED BY <1>1, <1>2, <1>3, <1>4, <1>5 DEF Next

\* What a caller that listens was handed is the transcript, and the transcript
\* is the pieces in their order with their markers read as spaces but for
\* those before the first word, for any pieces of the table in any order; only
\* a pass that ran to its end returns it.
THEOREM TranscriptWhole == Spec => []TranscriptIsWhole
<1>1. Init => TextInv
  BY TextInit
<1>2. TextInv /\ [Next]_recognizer => TextInv'
  BY TextStep
<1>3. TextInv => TranscriptIsWhole
  BY DEF TextInv, TranscriptIsWhole
<1>. QED BY <1>1, <1>2, <1>3, PTL DEF Spec

(* ------------------------- the path of the microphone ------------------ *)

(* The two streams as they would come in one piece.  A stream is a function *)
(* of the place of a sample; a sequence of the code is a part of it.        *)

Instant(b, j) == IF j <= Width THEN 0 ELSE b + j - Width
\* What is captured, or played, from the instant b on: l is when it was loud.
Stream(b, l) == [j \in Nat |-> [at |-> Instant(b, j), loud |-> Instant(b, j) \in l]]
Resampled(F) ==
  [s \in Nat |-> [window |-> [k \in 1 .. Mic!K |-> F[((s - 1) \div Newf) * Orig + k]],
                  phase |-> (s - 1) % Newf]]

IsSeq(x) == \E S : x \in Seq(S)
Part(x, F, from) == IsSeq(x) /\ \A j \in 1 .. Len(x) : x[j] = F[from + j]

Captured == Stream(begun, {})
PlayedThen == Stream(begun, loud)
Hops == Len(processed)
HopIs(hop, F, G, h) ==
  /\ Part(hop.mic, F, (h - 1) * Hop) /\ Len(hop.mic) = Hop
  /\ Part(hop.ref, G, (h - 1) * Hop) /\ Len(hop.ref) = Hop

\* After w windows of a running canceller, every sequence is a part.
HeardUpTo(w) ==
  /\ Part(mic, Captured, w * Orig) /\ Part(ref, PlayedThen, w * Orig)
  /\ w * Orig + Len(mic) = Width + now - begun /\ Len(ref) = Len(mic)
  /\ w > 0 => Len(mic) >= 2 * Width
  /\ Part(aec_mic, Resampled(Captured), Hops * Hop)
  /\ Part(aec_ref, Resampled(PlayedThen), Hops * Hop)
  /\ Hops * Hop + Len(aec_mic) = w * Newf /\ Len(aec_ref) = Len(aec_mic)
  /\ \A h \in 1 .. Hops : HopIs(processed[h], Resampled(Captured), Resampled(PlayedThen), h)
Heard == IF running THEN \E w \in Nat : HeardUpTo(w) ELSE processed = <<>>

MicTyped ==
  /\ now \in Nat /\ begun \in 0 .. now /\ loud \subseteq 1 .. now
  /\ IsSeq(processed)

\* The canceller holds the hop of its last call, and its energy if it played.
Held ==
  /\ last = IF processed = <<>> THEN Mic!NoHop ELSE processed[Hops]
  /\ weight = IF processed = <<>> THEN Mic!NoHop ELSE Mic!Kept(processed[Hops])
  /\ weighed[1].mic = weighed[2].mic

MicInv == MicTyped /\ Heard /\ Held

(* Sequences, whatever they hold, and the parts of a stream.                *)

LEMMA SeqIs ==
  ASSUME NEW x, IsSeq(x) PROVE Len(x) \in Nat /\ DOMAIN x = 1 .. Len(x)
BY LenProperties DEF IsSeq

LEMMA SeqJoins ==
  ASSUME NEW x, NEW y, IsSeq(x), IsSeq(y)
  PROVE  /\ IsSeq(x \o y) /\ Len(x \o y) = Len(x) + Len(y)
         /\ \A i \in 1 .. Len(x) + Len(y) :
              (x \o y)[i] = IF i <= Len(x) THEN x[i] ELSE y[i - Len(x)]
<1>1. PICK S, T : x \in Seq(S) /\ y \in Seq(T)
  BY DEF IsSeq
<1>. DEFINE U == S \cup T
<1>2. S \subseteq U /\ T \subseteq U
  OBVIOUS
<1>. HIDE DEF U
<1>3. x \in Seq(U) /\ y \in Seq(U)
  BY <1>1, <1>2, SeqMonotonic
<1>4. /\ x \o y \in Seq(U) /\ Len(x \o y) = Len(x) + Len(y)
      /\ \A i \in 1 .. Len(x) + Len(y) : (x \o y)[i] = IF i <= Len(x) THEN x[i] ELSE y[i - Len(x)]
  BY <1>3, ConcatProperties, Zenon
<1>. QED BY <1>4, Zenon DEF IsSeq

LEMMA SeqCut ==
  ASSUME NEW x, IsSeq(x), NEW m \in Nat, NEW n \in Nat, m <= n, n <= Len(x)
  PROVE  /\ IsSeq(SubSeq(x, m + 1, n)) /\ Len(SubSeq(x, m + 1, n)) = n - m
         /\ \A i \in 1 .. n - m : SubSeq(x, m + 1, n)[i] = x[m + i]
<1>1. PICK S : x \in Seq(S)
  BY DEF IsSeq
<1>2. m + 1 \in Int /\ n \in Int /\ Len(x) \in Nat
  BY <1>1
<1>3. \A i \in m + 1 .. n : x[i] \in S
  BY <1>1, <1>2
<1>. DEFINE y == SubSeq(x, m + 1, n)
<1>4. /\ y \in Seq(S) /\ Len(y) = IF m + 1 <= n THEN n - (m + 1) + 1 ELSE 0
      /\ \A i \in 1 .. n - (m + 1) + 1 : y[i] = x[m + 1 + i - 1]
  <2>. DEFINE k == m + 1
  <2>1. k \in Int /\ n \in Int /\ \A i \in k .. n : x[i] \in S
    BY <1>2, <1>3
  <2>. HIDE DEF k
  <2>2. /\ SubSeq(x, k, n) \in Seq(S) /\ Len(SubSeq(x, k, n)) = IF k <= n THEN n - k + 1 ELSE 0
        /\ \A i \in 1 .. n - k + 1 : SubSeq(x, k, n)[i] = x[k + i - 1]
    BY <2>1, SubSeqProperties
  <2>. QED BY <2>2 DEF k
<1>. HIDE DEF y
<1>5. Len(y) = n - m
  BY <1>4
<1>6. ASSUME NEW i \in 1 .. n - m PROVE y[i] = x[m + i]
  <2>1. i \in 1 .. n - (m + 1) + 1 /\ m + 1 + i - 1 = m + i
    OBVIOUS
  <2>. QED BY <1>4, <2>1
<1>. QED BY <1>4, <1>5, <1>6 DEF IsSeq, y

LEMMA FunctionIsSeq ==
  ASSUME NEW n \in Nat, NEW f, f = [i \in 1 .. n |-> f[i]] PROVE IsSeq(f) /\ Len(f) = n
<1>. DEFINE S == {f[i] : i \in 1 .. n}
<1>1. \A i \in 1 .. n : f[i] \in S
  OBVIOUS
<1>. HIDE DEF S
<1>2. f \in [1 .. n -> S]
  BY <1>1
<1>3. f \in Seq(S) /\ Len(f) = n
  BY <1>2
<1>. QED BY <1>3 DEF IsSeq

LEMMA PartJoins ==
  ASSUME NEW x, NEW y, NEW F, NEW a \in Nat, Part(x, F, a), Part(y, F, a + Len(x))
  PROVE  Part(x \o y, F, a) /\ Len(x \o y) = Len(x) + Len(y)
<1>1. IsSeq(x) /\ IsSeq(y) /\ Len(x) \in Nat /\ Len(y) \in Nat
  BY SeqIs DEF Part
<1>2. /\ IsSeq(x \o y) /\ Len(x \o y) = Len(x) + Len(y)
      /\ \A i \in 1 .. Len(x) + Len(y) : (x \o y)[i] = IF i <= Len(x) THEN x[i] ELSE y[i - Len(x)]
  BY <1>1, SeqJoins
<1>3. ASSUME NEW j \in 1 .. Len(x) + Len(y) PROVE (x \o y)[j] = F[a + j]
  <2>1. CASE j <= Len(x)
    <3>1. j \in 1 .. Len(x)
      BY <1>1, <2>1
    <3>. QED BY <1>2, <2>1, <3>1 DEF Part
  <2>2. CASE ~(j <= Len(x))
    <3>1. j - Len(x) \in 1 .. Len(y) /\ a + Len(x) + (j - Len(x)) = a + j
      BY <1>1, <2>2
    <3>2. y[j - Len(x)] = F[a + Len(x) + (j - Len(x))]
      BY <3>1 DEF Part
    <3>. QED BY <1>2, <2>2, <3>1, <3>2
  <2>. QED BY <2>1, <2>2
<1>. QED BY <1>2, <1>3 DEF Part

LEMMA PartCut ==
  ASSUME NEW x, NEW F, NEW a \in Nat, Part(x, F, a), NEW m \in Nat, NEW n \in Nat,
         m <= n, n <= Len(x)
  PROVE  Part(SubSeq(x, m + 1, n), F, a + m) /\ Len(SubSeq(x, m + 1, n)) = n - m
<1>1. /\ IsSeq(SubSeq(x, m + 1, n)) /\ Len(SubSeq(x, m + 1, n)) = n - m
      /\ \A i \in 1 .. n - m : SubSeq(x, m + 1, n)[i] = x[m + i]
  BY SeqCut, ZenonT(40) DEF Part
<1>2. ASSUME NEW i \in 1 .. n - m PROVE SubSeq(x, m + 1, n)[i] = F[a + m + i]
  <2>1. Len(x) \in Nat
    BY SeqIs DEF Part
  <2>2. m + i \in 1 .. Len(x) /\ a + (m + i) = a + m + i
    BY <2>1
  <2>3. x[m + i] = F[a + (m + i)]
    BY <2>2 DEF Part
  <2>. QED BY <1>1, <2>2, <2>3
<1>. QED BY <1>1, <1>2 DEF Part

LEMMA PartAgrees ==
  ASSUME NEW x, NEW F, NEW G, NEW a \in Nat, NEW n \in Nat, Part(x, F, a), a + Len(x) <= n,
         \A j \in 1 .. n : G[j] = F[j]
  PROVE  Part(x, G, a)
<1>1. Len(x) \in Nat
  BY SeqIs DEF Part
<1>2. ASSUME NEW j \in 1 .. Len(x) PROVE x[j] = G[a + j]
  <2>1. a + j \in 1 .. n
    BY <1>1
  <2>. QED BY <2>1 DEF Part
<1>. QED BY <1>2 DEF Part

LEMMA PartsEqual ==
  ASSUME NEW x, NEW y, NEW F, NEW a, Part(x, F, a), Part(y, F, a), Len(x) = Len(y)
  PROVE  \A j \in 1 .. Len(x) : x[j] = y[j]
BY DEF Part

(* Division.                                                                *)

LEMMA DivMod ==
  ASSUME NEW a \in Nat, NEW d \in Nat \ {0}
  PROVE  /\ a \div d \in Nat /\ a % d \in 0 .. d - 1
         /\ a = (a \div d) * d + (a % d)
OBVIOUS

LEMMA DivIs ==
  ASSUME NEW d \in Nat \ {0}, NEW q \in Nat, NEW r \in 0 .. d - 1, NEW a, a = q * d + r
  PROVE  a \in Nat /\ a \div d = q /\ a % d = r
<1>1. q * d \in Nat
  OBVIOUS
<1>2. a \in Nat
  BY <1>1
<1>. DEFINE p == a \div d
            s == a % d
<1>3. p \in Nat /\ s \in 0 .. d - 1 /\ a = p * d + s
  BY <1>2, DivMod
<1>. HIDE DEF p, s
<1>4. ASSUME p < q PROVE FALSE
  <2>1. p * d \in Nat /\ p * d + d <= q * d
    BY <1>3, <1>4, FrameGivesRoom
  <2>. QED BY <1>1, <1>3, <2>1
<1>5. ASSUME q < p PROVE FALSE
  <2>1. p * d \in Nat /\ q * d + d <= p * d
    BY <1>3, <1>5, FrameGivesRoom
  <2>. QED BY <1>1, <1>3, <2>1
<1>6. p = q
  BY <1>3, <1>4, <1>5
<1>. QED BY <1>1, <1>2, <1>3, <1>6 DEF p, s

(* Resampling: what comes out of a part is a part of what would come out.   *)

LEMMA KernelIs == Mic!K \in Nat \ {0} /\ Mic!K = 2 * Width + Orig
BY MicAssumption DEF Mic!K

LEMMA TimesIs ==
  ASSUME NEW a \in Nat, NEW b \in Nat, NEW c \in Nat
  PROVE  a * c \in Nat /\ (a + b) * c = a * c + b * c /\ (a <= b => a * c <= b * c)
<1>1. a * c \in Nat /\ b * c \in Nat /\ (a + b) * c = a * c + b * c
  OBVIOUS
<1>2. ASSUME a < b PROVE a * c <= b * c
  BY <1>1, <1>2, FrameGivesRoom
<1>. QED BY <1>1, <1>2

LEMMA WindowsIs ==
  ASSUME NEW m, IsSeq(m)
  PROVE  /\ Mic!Windows(m) \in Nat
         /\ Mic!Windows(m) > 0 => (Mic!Windows(m) - 1) * Orig + Mic!K <= Len(m)
         /\ Mic!Windows(m) * Orig <= Len(m)
         /\ Mic!Windows(m) > 0 => 2 * Width <= Len(m) - Mic!Windows(m) * Orig
<1>1. Len(m) \in Nat /\ Orig \in Nat \ {0} /\ Mic!K \in Nat /\ Width \in Nat
  BY SeqIs, KernelIs, MicAssumption
<1>2. CASE Len(m) < Mic!K
  <2>1. Mic!Windows(m) = 0
    BY <1>2 DEF Mic!Windows
  <2>2. 0 * Orig = 0
    BY <1>1
  <2>. QED BY <1>1, <2>1, <2>2
<1>3. CASE ~(Len(m) < Mic!K)
  <2>. DEFINE a == Len(m) - Mic!K
              q == a \div Orig
  <2>1. a \in Nat
    BY <1>1, <1>3
  <2>2. Mic!Windows(m) = q + 1
    BY <1>3 DEF Mic!Windows
  <2>. HIDE DEF a
  <2>3. q \in Nat /\ a % Orig \in 0 .. Orig - 1 /\ a = q * Orig + (a % Orig)
    BY <1>1, <2>1, DivMod
  <2>. HIDE DEF q
  <2>4. (q + 1) * Orig = q * Orig + Orig /\ q * Orig \in Nat /\ (q + 1) - 1 = q
    BY <1>1, <2>3
  <2>5. a = Len(m) - Mic!K /\ Mic!K = 2 * Width + Orig
    BY KernelIs DEF a
  <2>6. q * Orig + Mic!K <= Len(m)
    BY <1>1, <2>3, <2>4, <2>5
  <2>7. (q + 1) * Orig + 2 * Width <= Len(m)
    BY <1>1, <2>4, <2>5, <2>6
  <2>8. q + 1 \in Nat /\ (q + 1) * Orig \in Nat
    BY <1>1, <2>3, <2>4
  <2>. QED BY <1>1, <2>2, <2>4, <2>6, <2>7, <2>8, SMTT(30)
<1>. QED BY <1>2, <1>3

LEMMA OutIs ==
  ASSUME NEW m, NEW F, NEW w \in Nat, Part(m, F, w * Orig)
  PROVE  /\ Part(Mic!Out(m), Resampled(F), w * Newf)
         /\ Len(Mic!Out(m)) = Mic!Windows(m) * Newf
<1>. DEFINE W == Mic!Windows(m)
            out == Mic!Out(m)
            n == W * Newf
<1>1. /\ Orig \in Nat \ {0} /\ Newf \in Nat \ {0} /\ Mic!K \in Nat
      /\ IsSeq(m) /\ Len(m) \in Nat
  BY SeqIs, KernelIs, MicAssumption DEF Part
<1>2. W \in Nat /\ (W > 0 => (W - 1) * Orig + Mic!K <= Len(m))
  BY <1>1, WindowsIs
<1>3. n \in Nat
  BY <1>1, <1>2
<1>4. out = [i \in 1 .. n |-> [window |-> SubSeq(m, ((i - 1) \div Newf) * Orig + 1,
                                                 ((i - 1) \div Newf) * Orig + Mic!K),
                               phase |-> (i - 1) % Newf]]
  BY DEF Mic!Out
<1>. HIDE DEF out, W
<1>5. IsSeq(out) /\ Len(out) = n
  <2>1. out = [i \in 1 .. n |-> out[i]]
    BY <1>4
  <2>. HIDE DEF n
  <2>. QED BY <1>3, <2>1, FunctionIsSeq
<1>6. ASSUME NEW i \in 1 .. n PROVE out[i] = Resampled(F)[w * Newf + i]
  <2>. DEFINE q == (i - 1) \div Newf
              r == (i - 1) % Newf
              pos == q * Orig
  <2>1. i - 1 \in Nat /\ i - 1 < n
    BY <1>3
  <2>2. q \in Nat /\ r \in 0 .. Newf - 1 /\ i - 1 = q * Newf + r
    BY <1>1, <2>1, DivMod
  <2>3. out[i] = [window |-> SubSeq(m, pos + 1, pos + Mic!K), phase |-> r]
    BY <1>4
  <2>. HIDE DEF q, r
  <2>4. q < W
    <3>1. ASSUME W <= q PROVE FALSE
      <4>1. W * Newf <= q * Newf /\ q * Newf \in Nat
        BY <1>1, <1>2, <2>2, <3>1, TimesIs
      <4>. QED BY <1>3, <2>1, <2>2, <4>1
    <3>. QED BY <1>2, <2>2, <3>1
  <2>5. pos \in Nat /\ pos + Mic!K <= Len(m)
    <3>1. W - 1 \in Nat /\ q <= W - 1
      BY <1>2, <2>2, <2>4
    <3>2. q * Orig <= (W - 1) * Orig /\ q * Orig \in Nat /\ (W - 1) * Orig \in Nat
      BY <1>1, <2>2, <3>1, TimesIs
    <3>. QED BY <1>1, <1>2, <2>2, <2>4, <3>2
  <2>6. /\ IsSeq(SubSeq(m, pos + 1, pos + Mic!K)) /\ Len(SubSeq(m, pos + 1, pos + Mic!K)) = Mic!K
        /\ \A k \in 1 .. Mic!K : SubSeq(m, pos + 1, pos + Mic!K)[k] = m[pos + k]
    <3>. HIDE DEF pos
    <3>1. pos + Mic!K \in Nat /\ pos <= pos + Mic!K /\ (pos + Mic!K) - pos = Mic!K
      BY <1>1, <2>5
    <3>2. /\ IsSeq(SubSeq(m, pos + 1, pos + Mic!K))
          /\ Len(SubSeq(m, pos + 1, pos + Mic!K)) = (pos + Mic!K) - pos
          /\ \A k \in 1 .. (pos + Mic!K) - pos : SubSeq(m, pos + 1, pos + Mic!K)[k] = m[pos + k]
      BY <1>1, <2>5, <3>1, SeqCut
    <3>. QED BY <3>1, <3>2
  <2>. DEFINE s == w * Newf + i
              x == SubSeq(m, pos + 1, pos + Mic!K)
  <2>7. s \in Nat /\ (s - 1) \div Newf = w + q /\ (s - 1) % Newf = r
    <3>1. (w + q) * Newf = w * Newf + q * Newf /\ w * Newf \in Nat /\ q * Newf \in Nat
      BY <1>1, <2>2, TimesIs
    <3>2. s - 1 = (w + q) * Newf + r /\ w + q \in Nat /\ s \in Nat
      BY <2>2, <3>1
    <3>. DEFINE a == s - 1
                p == w + q
    <3>3. p \in Nat /\ r \in 0 .. Newf - 1 /\ a = p * Newf + r
      BY <2>2, <3>2
    <3>. HIDE DEF a, p
    <3>4. a \div Newf = p /\ a % Newf = r
      BY <1>1, <3>3, DivIs
    <3>. QED BY <3>2, <3>4 DEF a, p
  <2>8. (w + q) * Orig = w * Orig + pos
    BY <1>1, <2>2, TimesIs
  <2>9. ASSUME NEW k \in 1 .. Mic!K PROVE x[k] = F[(w + q) * Orig + k]
    <3>1. pos + k \in 1 .. Len(m) /\ w * Orig + (pos + k) = (w + q) * Orig + k
      <4>1. w * Orig \in Nat
        BY <1>1
      <4>. HIDE DEF pos
      <4>. QED BY <1>1, <2>5, <2>8, <4>1
    <3>2. m[pos + k] = F[w * Orig + (pos + k)]
      BY <3>1 DEF Part
    <3>. QED BY <2>6, <3>1, <3>2
  <2>10. x = [k \in 1 .. Mic!K |-> F[(w + q) * Orig + k]]
    <3>1. x = [k \in 1 .. Mic!K |-> x[k]]
      <4>1. PICK S : x \in Seq(S)
        BY <2>6 DEF IsSeq
      <4>2. x \in [1 .. Len(x) -> S] /\ Len(x) = Mic!K
        BY <2>6, <4>1, LenProperties
      <4>. HIDE DEF x
      <4>. QED BY <4>2
    <3>. HIDE DEF x
    <3>. QED BY <2>9, <3>1
  <2>11. Resampled(F)[s] = [window |-> [k \in 1 .. Mic!K |-> F[((s - 1) \div Newf) * Orig + k]],
                            phase |-> (s - 1) % Newf]
    <3>1. s \in Nat
      BY <2>7
    <3>. HIDE DEF s
    <3>. QED BY <3>1, Zenon DEF Resampled
  <2>12. Resampled(F)[s] = [window |-> x, phase |-> r]
    <3>. HIDE DEF s, x
    <3>. QED BY <2>7, <2>10, <2>11
  <2>. QED BY <2>3, <2>12
<1>. QED BY <1>5, <1>6 DEF Part, out, W

LEMMA RestIs ==
  ASSUME NEW m, NEW F, NEW w \in Nat, Part(m, F, w * Orig)
  PROVE  /\ Part(Mic!Rest(m), F, (w + Mic!Windows(m)) * Orig)
         /\ Len(Mic!Rest(m)) = Len(m) - Mic!Windows(m) * Orig
<1>. DEFINE W == Mic!Windows(m)
<1>1. IsSeq(m) /\ Len(m) \in Nat /\ Orig \in Nat
  BY SeqIs, MicAssumption DEF Part
<1>2. W \in Nat /\ W * Orig <= Len(m)
  BY <1>1, WindowsIs
<1>3. Mic!Rest(m) = SubSeq(m, W * Orig + 1, Len(m))
  BY DEF Mic!Rest
<1>. HIDE DEF W
<1>4. (w + W) * Orig = w * Orig + W * Orig /\ w * Orig \in Nat /\ W * Orig \in Nat
  BY <1>1, <1>2, TimesIs
<1>. DEFINE a == w * Orig
            b == W * Orig
<1>5. Part(SubSeq(m, b + 1, Len(m)), F, a + b) /\ Len(SubSeq(m, b + 1, Len(m))) = Len(m) - b
  <2>1. Part(m, F, a) /\ a \in Nat /\ b \in Nat /\ b <= Len(m)
    BY <1>2, <1>4
  <2>. HIDE DEF a, b
  <2>. QED BY <1>1, <2>1, PartCut
<1>. QED BY <1>3, <1>4, <1>5 DEF W

(* Hops: they are cut one behind the other, and each is weighed by itself.  *)

LEMMA MaxExists ==
  ASSUME NEW n \in Nat, NEW S, S \subseteq 1 .. n, S # {}
  PROVE  \E i \in S : \A j \in S : j <= i
<1>. DEFINE Below(i) == (\A j \in S : j > i) \/ \E k \in S : k <= i /\ \A j \in S : j <= i => j <= k
            T == {i \in 0 .. n : Below(i)}
<1>1. 0 \in T
  OBVIOUS
<1>2. ASSUME NEW i \in 0 .. n, i \in T, i < n PROVE i + 1 \in T
  <2>1. i + 1 \in 0 .. n /\ S \subseteq Int
    BY <1>2
  <2>2. CASE i + 1 \in S
    <3>1. \A j \in S : j <= i + 1 => j <= i + 1
      OBVIOUS
    <3>. QED BY <2>1, <2>2, <3>1
  <2>3. CASE i + 1 \notin S
    <3>1. \A j \in S : j <= i + 1 <=> j <= i
      BY <2>1, <2>3
    <3>2. CASE \A j \in S : j > i
      <4>1. \A j \in S : j > i + 1
        BY <2>1, <2>3, <3>2
      <4>. QED BY <2>1, <4>1
    <3>3. CASE \E k \in S : k <= i /\ \A j \in S : j <= i => j <= k
      <4>1. PICK k \in S : k <= i /\ \A j \in S : j <= i => j <= k
        BY <3>3
      <4>2. k <= i + 1 /\ \A j \in S : j <= i + 1 => j <= k
        BY <3>1, <4>1
      <4>. QED BY <2>1, <4>2
    <3>. QED BY <1>2, <3>2, <3>3
  <2>. QED BY <2>2, <2>3
<1>3. n \in T
  BY <1>1, <1>2, Climbs
<1>4. ~\A j \in S : j > n
  <2>1. PICK j \in S : TRUE
    OBVIOUS
  <2>. QED BY <2>1
<1>5. PICK k \in S : k <= n /\ \A j \in S : j <= n => j <= k
  BY <1>3, <1>4
<1>6. \A j \in S : j <= k
  BY <1>5
<1>. QED BY <1>6

LEMMA HopsAreCut ==
  ASSUME NEW m, NEW r, NEW F, NEW G, NEW h \in Nat, Part(m, F, h * Hop), Part(r, G, h * Hop),
         Len(r) = Len(m)
  PROVE  LET n == Len(m) \div Hop IN
         /\ n \in Nat /\ n * Hop \in Nat /\ n * Hop <= Len(m)
         /\ \A i \in 1 .. n : HopIs(Mic!HopOf(m, r, i), F, G, h + i)
         /\ Part(SubSeq(m, n * Hop + 1, Len(m)), F, (h + n) * Hop)
         /\ Part(SubSeq(r, n * Hop + 1, Len(r)), G, (h + n) * Hop)
         /\ Len(SubSeq(m, n * Hop + 1, Len(m))) = Len(m) - n * Hop
         /\ Len(SubSeq(r, n * Hop + 1, Len(r))) = Len(m) - n * Hop
<1>. DEFINE n == Len(m) \div Hop
<1>1. Hop \in Nat \ {0} /\ Len(m) \in Nat
  BY SeqIs, MicAssumption DEF Part
<1>2. n \in Nat /\ n * Hop <= Len(m)
  <2>1. n \in Nat /\ Len(m) % Hop \in 0 .. Hop - 1 /\ Len(m) = n * Hop + (Len(m) % Hop)
    BY <1>1, DivMod
  <2>. DEFINE q == Len(m) % Hop
  <2>. HIDE DEF n, q
  <2>2. n * Hop \in Nat
    BY <1>1, <2>1
  <2>3. q \in 0 .. Hop - 1 /\ Len(m) = n * Hop + q
    BY <2>1 DEF q
  <2>. QED BY <1>1, <2>1, <2>2, <2>3
<1>. HIDE DEF n
<1>3. ASSUME NEW i \in 1 .. n PROVE HopIs(Mic!HopOf(m, r, i), F, G, h + i)
  <2>. DEFINE a == h * Hop
              b == (i - 1) * Hop
              c == i * Hop
  <2>1. i - 1 \in Nat /\ i \in Nat /\ i <= n
    BY <1>2
  <2>2. /\ a \in Nat /\ b \in Nat /\ c \in Nat /\ c = b + Hop /\ c <= n * Hop /\ n * Hop \in Nat
        /\ ((h + i) - 1) * Hop = a + b
    <3>1. a \in Nat /\ b \in Nat /\ (h + (i - 1)) * Hop = a + b
      BY <1>1, <2>1, TimesIs
    <3>2. c \in Nat /\ c <= n * Hop /\ n * Hop \in Nat
      BY <1>1, <1>2, <2>1, TimesIs
    <3>3. ((i - 1) + 1) * Hop = (i - 1) * Hop + 1 * Hop /\ 1 * Hop = Hop /\ (i - 1) + 1 = i
      BY <1>1, <2>1, TimesIs
    <3>4. c = b + Hop
      BY <3>3
    <3>5. (h + i) - 1 = h + (i - 1)
      BY <2>1
    <3>. QED BY <3>1, <3>2, <3>4, <3>5
  <2>3. Mic!HopOf(m, r, i) = [mic |-> SubSeq(m, b + 1, c), ref |-> SubSeq(r, b + 1, c)]
    BY DEF Mic!HopOf
  <2>4. Part(m, F, a) /\ Part(r, G, a)
    OBVIOUS
  <2>5. c <= Len(m) /\ c <= Len(r) /\ b <= c /\ c - b = Hop
    BY <1>1, <1>2, <2>2
  <2>5a. /\ Part(m, F, a) /\ Part(r, G, a) /\ a \in Nat /\ b \in Nat /\ c \in Nat
         /\ c <= Len(m) /\ c <= Len(r) /\ b <= c
    BY <2>2, <2>4, <2>5, Zenon
  <2>. HIDE DEF a, b, c
  <2>6. Part(SubSeq(m, b + 1, c), F, a + b) /\ Len(SubSeq(m, b + 1, c)) = c - b
    BY <2>5a, PartCut
  <2>7. Part(SubSeq(r, b + 1, c), G, a + b) /\ Len(SubSeq(r, b + 1, c)) = c - b
    BY <2>5a, PartCut
  <2>8. /\ Part(SubSeq(m, b + 1, c), F, ((h + i) - 1) * Hop) /\ Len(SubSeq(m, b + 1, c)) = Hop
        /\ Part(SubSeq(r, b + 1, c), G, ((h + i) - 1) * Hop) /\ Len(SubSeq(r, b + 1, c)) = Hop
    BY <2>2, <2>5, <2>6, <2>7
  <2>. DEFINE x == SubSeq(m, b + 1, c)
              y == SubSeq(r, b + 1, c)
  <2>9. Mic!HopOf(m, r, i).mic = x /\ Mic!HopOf(m, r, i).ref = y
    <3>1. Mic!HopOf(m, r, i) = [mic |-> x, ref |-> y]
      BY <2>3
    <3>. HIDE DEF x, y
    <3>. QED BY <3>1
  <2>. QED BY <2>8, <2>9, Zenon DEF HopIs
<1>4. /\ Part(SubSeq(m, n * Hop + 1, Len(m)), F, (h + n) * Hop)
      /\ Part(SubSeq(r, n * Hop + 1, Len(r)), G, (h + n) * Hop)
      /\ Len(SubSeq(m, n * Hop + 1, Len(m))) = Len(m) - n * Hop
      /\ Len(SubSeq(r, n * Hop + 1, Len(r))) = Len(m) - n * Hop
  <2>. DEFINE a == h * Hop
              b == n * Hop
  <2>1. a \in Nat /\ b \in Nat /\ (h + n) * Hop = a + b
    BY <1>1, <1>2, TimesIs
  <2>2. Part(m, F, a) /\ Part(r, G, a) /\ b <= Len(m) /\ b <= Len(r) /\ Len(r) \in Nat
    BY <1>1, <1>2
  <2>. HIDE DEF a, b
  <2>3. Part(SubSeq(m, b + 1, Len(m)), F, a + b) /\ Len(SubSeq(m, b + 1, Len(m))) = Len(m) - b
    BY <1>1, <2>1, <2>2, PartCut
  <2>4. Part(SubSeq(r, b + 1, Len(r)), G, a + b) /\ Len(SubSeq(r, b + 1, Len(r))) = Len(r) - b
    BY <1>1, <2>1, <2>2, PartCut
  <2>. QED BY <2>1, <2>3, <2>4 DEF b
<1>5. n * Hop \in Nat
  BY <1>1, <1>2
<1>. QED BY <1>2, <1>3, <1>4, <1>5 DEF n

LEMMA KeptIs ==
  ASSUME NEW hop, Mic!Kept(hop) # Mic!NoHop PROVE Mic!Kept(hop) = hop
BY DEF Mic!Kept

LEMMA EchoKeeps ==
  ASSUME NEW m, NEW r, NEW F, NEW G, Mic!CancelEcho(m, r), IsSeq(processed), Held,
         Part(m, F, Hops * Hop), Part(r, G, Hops * Hop), Len(r) = Len(m),
         \A h \in 1 .. Hops : HopIs(processed[h], F, G, h)
  PROVE  /\ IsSeq(processed') /\ Held'
         /\ Part(aec_mic', F, Hops' * Hop) /\ Part(aec_ref', G, Hops' * Hop)
         /\ Hops' * Hop + Len(aec_mic') = Hops * Hop + Len(m) /\ Len(aec_ref') = Len(aec_mic')
         /\ \A h \in 1 .. Hops' : HopIs(processed'[h], F, G, h)
<1>. DEFINE n == Len(m) \div Hop
            hops == [i \in 1 .. n |-> Mic!HopOf(m, r, i)]
            h0 == Len(processed)
<1>1. h0 \in Nat /\ Hop \in Nat \ {0} /\ Len(m) \in Nat
  BY SeqIs, MicAssumption DEF Part
<1>2. /\ n \in Nat /\ n * Hop \in Nat /\ n * Hop <= Len(m)
      /\ \A i \in 1 .. n : HopIs(Mic!HopOf(m, r, i), F, G, h0 + i)
      /\ Part(SubSeq(m, n * Hop + 1, Len(m)), F, (h0 + n) * Hop)
      /\ Part(SubSeq(r, n * Hop + 1, Len(r)), G, (h0 + n) * Hop)
      /\ Len(SubSeq(m, n * Hop + 1, Len(m))) = Len(m) - n * Hop
      /\ Len(SubSeq(r, n * Hop + 1, Len(r))) = Len(m) - n * Hop
  BY <1>1, HopsAreCut DEF Hops
<1>. DEFINE before(i) == IF i = 1 THEN last ELSE hops[i - 1]
            kept(i) == IF i = 1 THEN weight ELSE Mic!Kept(hops[i - 1])
            heavy == {i \in 1 .. n : kept(i) # Mic!NoHop}
            i0 == CHOOSE i \in heavy : \A j \in heavy : j <= i
<1>3. /\ processed' = processed \o hops
      /\ last' = IF n = 0 THEN last ELSE hops[n]
      /\ weight' = IF n = 0 THEN weight ELSE Mic!Kept(hops[n])
      /\ weighed' = IF heavy = {} THEN weighed ELSE <<before(i0), kept(i0)>>
      /\ aec_mic' = SubSeq(m, n * Hop + 1, Len(m)) /\ aec_ref' = SubSeq(r, n * Hop + 1, Len(r))
  BY DEF Mic!CancelEcho
<1>4. \A i \in 1 .. n : hops[i] = Mic!HopOf(m, r, i)
  OBVIOUS
<1>5. IsSeq(hops) /\ Len(hops) = n
  <2>1. hops = [i \in 1 .. n |-> hops[i]]
    OBVIOUS
  <2>. HIDE DEF hops, n
  <2>. QED BY <1>2, <2>1, FunctionIsSeq
<1>. HIDE DEF hops, n
<1>6. /\ IsSeq(processed') /\ Len(processed') = h0 + n
      /\ \A i \in 1 .. h0 + n :
           processed'[i] = IF i <= h0 THEN processed[i] ELSE hops[i - h0]
  BY <1>3, <1>5, SeqJoins
<1>7. Hops = h0 /\ Hops' = h0 + n
  BY <1>6 DEF Hops
<1>. HIDE DEF h0
<1>8. ASSUME NEW h \in 1 .. h0 + n PROVE HopIs(processed'[h], F, G, h)
  <2>1. CASE h <= h0
    <3>1. h \in 1 .. h0 /\ processed'[h] = processed[h]
      BY <1>1, <1>2, <1>6, <2>1
    <3>. QED BY <1>7, <3>1
  <2>2. CASE ~(h <= h0)
    <3>1. h - h0 \in 1 .. n /\ h0 + (h - h0) = h /\ processed'[h] = hops[h - h0]
      BY <1>1, <1>2, <1>6, <2>2
    <3>2. HopIs(hops[h - h0], F, G, h0 + (h - h0))
      BY <1>2, <1>4, <3>1
    <3>. QED BY <3>1, <3>2
  <2>. QED BY <2>1, <2>2
<1>9. (h0 + n) * Hop = h0 * Hop + n * Hop /\ h0 * Hop \in Nat
  BY <1>1, <1>2, TimesIs
<1>10. last' = IF processed' = <<>> THEN Mic!NoHop ELSE processed'[Hops']
  <2>1. CASE n = 0
    <3>1. processed' = processed
      <4>1. PICK S : processed \in Seq(S)
        BY DEF IsSeq
      <4>2. hops = <<>>
        BY <1>5, <2>1, EmptySeq DEF IsSeq
      <4>. QED BY <1>3, <4>1, <4>2, ConcatEmptySeq
    <3>2. Hops' = Hops
      BY <3>1 DEF Hops
    <3>. QED BY <1>3, <2>1, <3>1, <3>2 DEF Held
  <2>2. CASE n # 0
    <3>1. h0 + n \in 1 .. h0 + n /\ ~(h0 + n <= h0) /\ (h0 + n) - h0 = n
      BY <1>1, <1>2, <2>2
    <3>2. processed'[h0 + n] = hops[n]
      BY <1>6, <3>1
    <3>3. processed' # <<>>
      <4>1. Len(processed') # 0
        BY <1>1, <1>2, <1>6, <2>2
      <4>. QED BY <4>1
    <3>. QED BY <1>3, <1>7, <2>2, <3>2, <3>3
  <2>. QED BY <2>1, <2>2
<1>11. weight' = IF processed' = <<>> THEN Mic!NoHop ELSE Mic!Kept(processed'[Hops'])
  <2>1. CASE n = 0
    <3>1. processed' = processed
      <4>1. PICK S : processed \in Seq(S)
        BY DEF IsSeq
      <4>2. hops = <<>>
        BY <1>5, <2>1, EmptySeq DEF IsSeq
      <4>. QED BY <1>3, <4>1, <4>2, ConcatEmptySeq
    <3>2. Hops' = Hops
      BY <3>1 DEF Hops
    <3>. QED BY <1>3, <2>1, <3>1, <3>2 DEF Held
  <2>2. CASE n # 0
    <3>1. h0 + n \in 1 .. h0 + n /\ ~(h0 + n <= h0) /\ (h0 + n) - h0 = n
      BY <1>1, <1>2, <2>2
    <3>2. processed'[h0 + n] = hops[n]
      BY <1>6, <3>1
    <3>3. processed' # <<>>
      <4>1. Len(processed') # 0
        BY <1>1, <1>2, <1>6, <2>2
      <4>. QED BY <4>1
    <3>. QED BY <1>3, <1>7, <2>2, <3>2, <3>3
  <2>. QED BY <2>1, <2>2
<1>12. weighed'[1].mic = weighed'[2].mic
  <2>1. CASE heavy = {}
    BY <1>3, <2>1 DEF Held
  <2>2. CASE heavy # {}
    <3>1. heavy \subseteq 1 .. n
      OBVIOUS
    <3>. DEFINE Top(i) == \A j \in heavy : j <= i
    <3>2. i0 \in heavy
      <4>. HIDE DEF heavy
      <4>1. \E i \in heavy : Top(i)
        BY <1>2, <2>2, <3>1, MaxExists
      <4>2. (CHOOSE i \in heavy : Top(i)) \in heavy
        <5>. HIDE DEF Top
        <5>. QED BY <4>1
      <4>. QED BY <4>2
    <3>3. kept(i0) # Mic!NoHop
      <4>. HIDE DEF i0
      <4>. QED BY <3>2
    <3>4. before(i0) = kept(i0)
      <4>. HIDE DEF i0
      <4>1. CASE i0 = 1
        <5>1. weight # Mic!NoHop
          BY <3>3, <4>1
        <5>2. processed # <<>> /\ weight = Mic!Kept(processed[Hops]) /\ last = processed[Hops]
          BY <5>1 DEF Held
        <5>3. weight = last
          BY <5>1, <5>2, KeptIs
        <5>. QED BY <4>1, <5>3
      <4>2. CASE i0 # 1
        BY <3>3, <4>2, KeptIs
      <4>. QED BY <4>1, <4>2
    <3>5. weighed' = <<before(i0), kept(i0)>>
      BY <1>3, <2>2
    <3>. HIDE DEF i0, before, kept
    <3>. QED BY <3>4, <3>5
  <2>. QED BY <2>1, <2>2
<1>13. Held'
  BY <1>10, <1>11, <1>12 DEF Held
<1>14. Hops' * Hop + Len(aec_mic') = Hops * Hop + Len(m) /\ Len(aec_ref') = Len(aec_mic')
  <2>. DEFINE b == n * Hop
              a == h0 * Hop
  <2>1. Len(aec_mic') = Len(m) - b /\ Len(aec_ref') = Len(m) - b
    <3>1. aec_mic' = SubSeq(m, n * Hop + 1, Len(m)) /\ aec_ref' = SubSeq(r, n * Hop + 1, Len(r))
      BY <1>3, Zenon
    <3>. QED BY <1>2, <3>1, Zenon
  <2>2. Hops' * Hop = a + b /\ Hops * Hop = a /\ a \in Nat /\ b \in Nat
    BY <1>2, <1>7, <1>9, Zenon
  <2>. HIDE DEF a, b
  <2>. QED BY <1>1, <2>1, <2>2
<1>15. Part(aec_mic', F, Hops' * Hop) /\ Part(aec_ref', G, Hops' * Hop)
  <2>1. aec_mic' = SubSeq(m, n * Hop + 1, Len(m)) /\ aec_ref' = SubSeq(r, n * Hop + 1, Len(r))
    BY <1>3, Zenon
  <2>. QED BY <1>2, <1>7, <2>1, Zenon
<1>. QED BY <1>6, <1>7, <1>8, <1>13, <1>14, <1>15

(* The two streams, sample for sample.                                      *)

\* The instants of the window a sample is made of.
WindowOf(b, s) ==
  LET first == b + ((s - 1) \div Newf) * Orig - Width IN
    [k \in 1 .. Mic!K |-> IF first + k <= b THEN 0 ELSE first + k]

LEMMA SampleIs ==
  ASSUME NEW b \in Nat, NEW l, NEW s \in Nat \ {0}
  PROVE  LET x == Resampled(Stream(b, l))[s] IN
         /\ x.phase = (s - 1) % Newf /\ Mic!At(x) = WindowOf(b, s)
         /\ \A k \in 1 .. Mic!K : x.window[k].loud = (x.window[k].at \in l)
<1>. DEFINE x == Resampled(Stream(b, l))[s]
            q == (s - 1) \div Newf
            pos == q * Orig
            first == b + pos - Width
<1>1. /\ Orig \in Nat /\ Newf \in Nat \ {0} /\ Mic!K \in Nat /\ Width \in Nat /\ s - 1 \in Nat
      /\ s \in Nat
  BY KernelIs, MicAssumption
<1>2. x = [window |-> [k \in 1 .. Mic!K |-> Stream(b, l)[pos + k]], phase |-> (s - 1) % Newf]
  BY <1>1 DEF Resampled
<1>3. q \in Nat
  BY <1>1, DivMod
<1>. HIDE DEF x, q
<1>4. pos \in Nat
  BY <1>1, <1>3
<1>. HIDE DEF pos
<1>5. /\ x.phase = (s - 1) % Newf /\ DOMAIN x.window = 1 .. Mic!K
      /\ \A k \in 1 .. Mic!K : x.window[k] = Stream(b, l)[pos + k]
  BY <1>2
<1>6. ASSUME NEW k \in 1 .. Mic!K
      PROVE  /\ x.window[k].at = IF first + k <= b THEN 0 ELSE first + k
             /\ x.window[k].loud = (x.window[k].at \in l)
  <2>1. pos + k \in Nat
    BY <1>1, <1>4
  <2>2. Stream(b, l)[pos + k] = [at |-> Instant(b, pos + k), loud |-> Instant(b, pos + k) \in l]
    BY <2>1 DEF Stream
  <2>3. Instant(b, pos + k) = IF first + k <= b THEN 0 ELSE first + k
    BY <1>1, <1>4 DEF Instant
  <2>4. /\ x.window[k].at = Instant(b, pos + k)
        /\ x.window[k].loud = (Instant(b, pos + k) \in l)
    BY <1>5, <2>2
  <2>. QED BY <2>3, <2>4, Zenon
<1>. HIDE DEF first
<1>7. Mic!At(x) = [k \in 1 .. Mic!K |-> IF first + k <= b THEN 0 ELSE first + k]
  BY <1>5, <1>6 DEF Mic!At
<1>8. WindowOf(b, s) = [k \in 1 .. Mic!K |-> IF first + k <= b THEN 0 ELSE first + k]
  BY DEF WindowOf, first, pos, q
<1>. QED BY <1>5, <1>6, <1>7, <1>8 DEF x

\* What plays later does not change what was heard.
LEMMA StreamStays ==
  ASSUME NEW b \in Nat, NEW t \in Nat, b <= t, NEW l, NEW k, l \cap (0 .. t) = k \cap (0 .. t)
  PROVE  \A j \in 1 .. Width + t - b : Stream(b, k)[j] = Stream(b, l)[j]
<1>1. Width \in Nat
  BY MicAssumption
<1>2. ASSUME NEW j \in 1 .. Width + t - b PROVE Stream(b, k)[j] = Stream(b, l)[j]
  <2>1. j \in Nat /\ Instant(b, j) \in 0 .. t
    BY <1>1 DEF Instant
  <2>2. Instant(b, j) \in l <=> Instant(b, j) \in k
    BY <2>1
  <2>. QED BY <2>1, <2>2 DEF Stream
<1>. QED BY <1>2

LEMMA ResampledStays ==
  ASSUME NEW F, NEW G, NEW n \in Nat, \A j \in 1 .. n : G[j] = F[j],
         NEW w \in Nat, w > 0 => (w - 1) * Orig + Mic!K <= n
  PROVE  \A s \in 1 .. w * Newf : Resampled(G)[s] = Resampled(F)[s]
<1>1. Orig \in Nat /\ Newf \in Nat \ {0} /\ Mic!K \in Nat
  BY KernelIs, MicAssumption
<1>2. ASSUME NEW s \in 1 .. w * Newf PROVE Resampled(G)[s] = Resampled(F)[s]
  <2>. DEFINE q == (s - 1) \div Newf
              pos == q * Orig
              r == (s - 1) % Newf
  <2>1. w * Newf \in Nat /\ s \in Nat /\ s - 1 \in Nat /\ s - 1 < w * Newf
    BY <1>1
  <2>2. q \in Nat /\ r \in 0 .. Newf - 1 /\ s - 1 = q * Newf + r
    BY <1>1, <2>1, DivMod
  <2>3. /\ Resampled(F)[s] = [window |-> [k \in 1 .. Mic!K |-> F[pos + k]], phase |-> r]
        /\ Resampled(G)[s] = [window |-> [k \in 1 .. Mic!K |-> G[pos + k]], phase |-> r]
    BY <2>1 DEF Resampled
  <2>. HIDE DEF q, r
  <2>4. q < w
    <3>1. ASSUME w <= q PROVE FALSE
      <4>1. w * Newf <= q * Newf /\ q * Newf \in Nat
        BY <1>1, <2>2, <3>1, TimesIs
      <4>. QED BY <2>1, <2>2, <4>1
    <3>. QED BY <2>2, <3>1
  <2>5. pos \in Nat /\ pos + Mic!K <= n
    <3>1. w - 1 \in Nat /\ q <= w - 1
      BY <2>2, <2>4
    <3>2. q * Orig <= (w - 1) * Orig /\ q * Orig \in Nat /\ (w - 1) * Orig \in Nat
      BY <1>1, <2>2, <3>1, TimesIs
    <3>. QED BY <1>1, <2>2, <2>4, <3>2
  <2>. HIDE DEF pos
  <2>6. \A k \in 1 .. Mic!K : pos + k \in 1 .. n
    BY <1>1, <2>5
  <2>7. \A k \in 1 .. Mic!K : G[pos + k] = F[pos + k]
    BY <2>6
  <2>. QED BY <2>3, <2>7
<1>. QED BY <1>2

(* The canceller runs on parts of the two streams.                          *)

LEMMA MicRuns == MCSpec => Mic!Spec
<1>1. MCInit => Mic!Init
  BY DEF MCInit
<1>2. [MCNext]_MCVars => [Mic!Next]_Mic!micpath
  BY DEF MCNext, MCVars, micpath, Mic!micpath
<1>3. QED BY <1>1, <1>2, PTL DEF MCSpec, Mic!Spec

LEMMA EmptyIsSeq == IsSeq(<<>>) /\ Len(<<>>) = 0
<1>1. <<>> \in Seq({})
  OBVIOUS
<1>. QED BY <1>1 DEF IsSeq

LEMMA EmptyIsPart == ASSUME NEW F, NEW a PROVE Part(<<>>, F, a)
BY EmptyIsSeq DEF Part

LEMMA PadIs ==
  ASSUME NEW b \in Nat, NEW l, 0 \notin l
  PROVE  Part(Mic!Pad, Stream(b, l), 0) /\ Len(Mic!Pad) = Width
<1>1. Width \in Nat
  BY MicAssumption
<1>2. Mic!Pad = [i \in 1 .. Width |-> Mic!Silent]
  BY DEF Mic!Pad
<1>. DEFINE p == Mic!Pad
<1>3. p = [i \in 1 .. Width |-> p[i]]
  BY <1>2
<1>. HIDE DEF p
<1>4. IsSeq(p) /\ Len(p) = Width
  BY <1>1, <1>3, FunctionIsSeq
<1>5. ASSUME NEW j \in 1 .. Width PROVE p[j] = Stream(b, l)[0 + j]
  <2>1. j \in Nat /\ 0 + j = j /\ Instant(b, j) = 0
    BY <1>1 DEF Instant
  <2>2. p[j] = [at |-> 0, loud |-> FALSE]
    BY <1>2 DEF p, Mic!Silent
  <2>3. Stream(b, l)[j] = [at |-> 0, loud |-> 0 \in l]
    BY <2>1 DEF Stream
  <2>4. (0 \in l) = FALSE
    OBVIOUS
  <2>5. 0 + j = j
    BY <1>1
  <2>. QED BY <2>2, <2>3, <2>4, <2>5
<1>. QED BY <1>4, <1>5 DEF Part, p

LEMMA MicInit == ASSUME Mic!Init PROVE MicInv
<1>1. MicTyped
  BY EmptyIsSeq DEF Mic!Init, MicTyped
<1>2. Heard
  BY DEF Mic!Init, Heard
<1>3. Held
  BY DEF Mic!Init, Held
<1>. QED BY <1>1, <1>2, <1>3 DEF MicInv

LEMMA RestartHears == ASSUME MicInv, Mic!Restart PROVE MicInv'
<1>1. /\ mic' = Mic!Pad /\ ref' = Mic!Pad /\ aec_mic' = <<>> /\ aec_ref' = <<>>
      /\ weight' = Mic!NoHop /\ last' = Mic!NoHop /\ begun' = now /\ processed' = <<>>
      /\ now' = now /\ loud' = loud /\ weighed' = weighed
  BY DEF Mic!Restart, Mic!RestartStreams
<1>2. now \in Nat /\ loud \subseteq 1 .. now
  BY DEF MicInv, MicTyped
<1>3. MicTyped'
  BY <1>1, <1>2, EmptyIsSeq DEF MicTyped
<1>4. Held'
  BY <1>1 DEF MicInv, Held
<1>5. HeardUpTo(0)'
  <2>1. 0 * Orig = 0 /\ 0 * Newf = 0 /\ 0 * Hop = 0 /\ Width \in Nat
    BY MicAssumption
  <2>2. Hops' = 0
    BY <1>1, EmptyIsSeq DEF Hops
  <2>3. Captured' = Stream(now, {}) /\ PlayedThen' = Stream(now, loud)
    BY <1>1 DEF Captured, PlayedThen
  <2>4. Part(mic', Captured', 0) /\ Len(mic') = Width
    BY <1>1, <1>2, <2>3, PadIs
  <2>5. Part(ref', PlayedThen', 0) /\ Len(ref') = Width
    <3>1. 0 \notin loud
      BY <1>2
    <3>. QED BY <1>1, <1>2, <2>3, <3>1, PadIs
  <2>6. /\ Part(aec_mic', Resampled(Captured'), 0) /\ Part(aec_ref', Resampled(PlayedThen'), 0)
        /\ Len(aec_mic') = 0 /\ Len(aec_ref') = 0
    BY <1>1, EmptyIsPart, EmptyIsSeq
  <2>7. 0 * Orig + Len(mic') = Width + now' - begun'
    BY <1>1, <1>2, <2>1, <2>4
  <2>. QED BY <2>1, <2>2, <2>4, <2>5, <2>6, <2>7 DEF HeardUpTo
<1>6. Heard'
  BY <1>1, <1>5 DEF Heard
<1>. QED BY <1>3, <1>4, <1>6 DEF MicInv

\* A frame goes on where both streams were, whatever its length.
LEMMA CaptureIs ==
  ASSUME NEW n \in Nat, NEW b \in Nat, NEW t \in Nat, b <= t, t = now, NEW l
  PROVE  LET c == [i \in 1 .. n |-> [at |-> now + i, loud |-> now + i \in l]] IN
         Part(c, Stream(b, l), Width + t - b) /\ Len(c) = n
<1>. DEFINE c == [i \in 1 .. n |-> [at |-> now + i, loud |-> now + i \in l]]
<1>1. Width \in Nat
  BY MicAssumption
<1>2. IsSeq(c) /\ Len(c) = n
  <2>1. c = [i \in 1 .. n |-> c[i]]
    OBVIOUS
  <2>. HIDE DEF c
  <2>. QED BY <2>1, FunctionIsSeq
<1>3. ASSUME NEW i \in 1 .. n PROVE c[i] = Stream(b, l)[Width + t - b + i]
  <2>1. c[i] = [at |-> now + i, loud |-> now + i \in l]
    OBVIOUS
  <2>2. Width + t - b + i \in Nat /\ Instant(b, Width + t - b + i) = now + i
    BY <1>1 DEF Instant
  <2>. DEFINE j == Width + t - b + i
  <2>3. Stream(b, l)[j] = [at |-> Instant(b, j), loud |-> Instant(b, j) \in l]
    BY <2>2 DEF Stream
  <2>. HIDE DEF c, j
  <2>4. Instant(b, j) = now + i
    BY <2>2 DEF j
  <2>. QED BY <2>1, <2>3, <2>4 DEF j
<1>. QED BY <1>2, <1>3 DEF Part

LEMMA FrameIs ==
  ASSUME MicTyped, NEW n \in 1 .. MaxFrame,
         NEW sounds \in {{}, {now + n}, Mic!Instants(n)}
  PROVE  /\ n \in Nat /\ n > 0 /\ sounds \subseteq now + 1 .. now + n
         /\ Part(Mic!Capture(n), Captured, Width + now - begun) /\ Len(Mic!Capture(n)) = n
         /\ Part(Mic!Reference(n, sounds), Stream(begun, loud \cup sounds), Width + now - begun)
         /\ Len(Mic!Reference(n, sounds)) = n
<1>1. n \in Nat /\ n > 0 /\ now \in Nat /\ begun \in Nat /\ begun <= now /\ loud \subseteq 1 .. now
  BY MicAssumption DEF MicTyped
<1>2. sounds \subseteq now + 1 .. now + n
  BY <1>1 DEF Mic!Instants
<1>3. Mic!Capture(n) = [i \in 1 .. n |-> [at |-> now + i, loud |-> now + i \in {}]]
  <2>1. \A i \in 1 .. n : (now + i \in {}) = FALSE
    OBVIOUS
  <2>. QED BY <2>1 DEF Mic!Capture
<1>4. Mic!Reference(n, sounds) =
        [i \in 1 .. n |-> [at |-> now + i, loud |-> now + i \in loud \cup sounds]]
  <2>1. \A i \in 1 .. n : (now + i \in sounds /\ sounds # {}) = (now + i \in loud \cup sounds)
    BY <1>1
  <2>. QED BY <2>1 DEF Mic!Reference, Mic!Played
<1>5. Part(Mic!Capture(n), Captured, Width + now - begun) /\ Len(Mic!Capture(n)) = n
  BY <1>1, <1>3, CaptureIs DEF Captured
<1>6. /\ Part(Mic!Reference(n, sounds), Stream(begun, loud \cup sounds), Width + now - begun)
      /\ Len(Mic!Reference(n, sounds)) = n
  BY <1>1, <1>4, CaptureIs, SMTT(30)
<1>. QED BY <1>1, <1>2, <1>5, <1>6

\* The streams were told apart by nothing that was heard before.
LEMMA HeardAgrees ==
  ASSUME MicTyped, NEW w \in Nat, HeardUpTo(w), NEW sounds, \A t \in sounds : t \in Nat /\ t > now
  PROVE  LET G == Stream(begun, loud \cup sounds) IN
         /\ Part(ref, G, w * Orig) /\ Part(aec_ref, Resampled(G), Hops * Hop)
         /\ \A h \in 1 .. Hops : HopIs(processed[h], Resampled(Captured), Resampled(G), h)
<1>. DEFINE G == Stream(begun, loud \cup sounds)
            n == Width + now - begun
<1>1. /\ now \in Nat /\ begun \in Nat /\ begun <= now /\ loud \subseteq 1 .. now
      /\ Width \in Nat /\ Orig \in Nat /\ Newf \in Nat \ {0} /\ Hop \in Nat \ {0}
      /\ Mic!K = 2 * Width + Orig
  BY MicAssumption, KernelIs DEF MicTyped
<1>2. n \in Nat /\ \A j \in 1 .. n : G[j] = PlayedThen[j]
  <2>1. loud \cap (0 .. now) = (loud \cup sounds) \cap (0 .. now)
    BY <1>1
  <2>. QED BY <1>1, <2>1, StreamStays DEF PlayedThen
<1>. HIDE DEF G
<1>3. /\ w * Orig + Len(mic) = n /\ Len(ref) = Len(mic) /\ (w > 0 => Len(mic) >= 2 * Width)
      /\ Part(ref, PlayedThen, w * Orig) /\ Part(aec_ref, Resampled(PlayedThen), Hops * Hop)
      /\ Hops * Hop + Len(aec_mic) = w * Newf /\ Len(aec_ref) = Len(aec_mic)
  BY DEF HeardUpTo
<1>4. w * Orig \in Nat /\ w * Newf \in Nat /\ Hops \in Nat /\ Hops * Hop \in Nat
      /\ Len(aec_ref) \in Nat
  <2>1. Hops \in Nat /\ Len(aec_ref) \in Nat
    BY <1>3, SeqIs DEF MicTyped, Hops, Part
  <2>. QED BY <1>1, <2>1
<1>5. Part(ref, G, w * Orig)
  BY <1>2, <1>3, <1>4, PartAgrees
<1>6. w > 0 => (w - 1) * Orig + Mic!K <= n
  <2>1. ASSUME w > 0 PROVE (w - 1) * Orig + Mic!K <= n
    <3>1. ((w - 1) + 1) * Orig = (w - 1) * Orig + 1 * Orig /\ (w - 1) * Orig \in Nat
          /\ (w - 1) + 1 = w /\ 1 * Orig = Orig
      BY <1>1, <2>1, TimesIs
    <3>. DEFINE p == (w - 1) * Orig
                o == w * Orig
    <3>2. o = p + Orig /\ p \in Nat
      BY <3>1
    <3>3. o + Len(mic) = n /\ Len(mic) >= 2 * Width /\ o \in Nat /\ n \in Nat
      BY <1>2, <1>3, <1>4, <2>1
    <3>4. Len(mic) \in Nat
      BY SeqIs DEF HeardUpTo, Part
    <3>. HIDE DEF p, o, n
    <3>5. p + Mic!K <= n
      BY <1>1, <3>2, <3>3, <3>4
    <3>. QED BY <3>5 DEF p
  <2>. QED BY <2>1
<1>. HIDE DEF n
<1>7. \A s \in 1 .. w * Newf : Resampled(G)[s] = Resampled(PlayedThen)[s]
  BY <1>2, <1>6, ResampledStays
<1>8. Part(aec_ref, Resampled(G), Hops * Hop)
  BY <1>3, <1>4, <1>7, PartAgrees
<1>9. ASSUME NEW h \in 1 .. Hops PROVE HopIs(processed[h], Resampled(Captured), Resampled(G), h)
  <2>1. HopIs(processed[h], Resampled(Captured), Resampled(PlayedThen), h)
    BY DEF HeardUpTo
  <2>. DEFINE a == (h - 1) * Hop
              x == processed[h].ref
  <2>2. a \in Nat /\ a + Hop <= w * Newf
    <3>1. h - 1 \in Nat /\ 1 \in Nat /\ h \in Nat /\ h <= Hops /\ (h - 1) + 1 = h /\ 1 * Hop = Hop
      BY <1>1, <1>4
    <3>2. ((h - 1) + 1) * Hop = (h - 1) * Hop + 1 * Hop /\ (h - 1) * Hop \in Nat
      BY <1>1, <3>1, TimesIs
    <3>3. h * Hop <= Hops * Hop /\ h * Hop \in Nat
      BY <1>1, <1>4, <3>1, TimesIs
    <3>4. h * Hop = a + Hop
      BY <3>1, <3>2
    <3>5. Hops * Hop <= w * Newf
      <4>. DEFINE p == Hops * Hop
                  o == w * Newf
      <4>1. p + Len(aec_mic) = o /\ Len(aec_mic) \in Nat /\ p \in Nat
        BY <1>3, <1>4
      <4>. HIDE DEF p, o
      <4>2. p <= o
        BY <4>1
      <4>. QED BY <4>2 DEF p, o
    <3>. DEFINE p == Hops * Hop
                o == w * Newf
                c == h * Hop
    <3>6. a \in Nat /\ c = a + Hop /\ c <= p /\ p <= o /\ p \in Nat /\ o \in Nat
      BY <1>4, <3>2, <3>3, <3>4, <3>5
    <3>. HIDE DEF a, p, o, c
    <3>7. a \in Nat /\ a + Hop <= o
      BY <1>1, <3>6
    <3>. QED BY <3>7 DEF o
  <2>3. Part(x, Resampled(PlayedThen), a) /\ Len(x) = Hop
    BY <2>1 DEF HopIs
  <2>. HIDE DEF a, x
  <2>4. Part(x, Resampled(G), a)
    <3>1. a + Len(x) <= w * Newf
      BY <2>2, <2>3
    <3>. QED BY <1>4, <1>7, <2>2, <2>3, <3>1, PartAgrees
  <2>. QED BY <2>1, <2>4 DEF HopIs, a, x
<1>. QED BY <1>5, <1>8, <1>9 DEF G

LEMMA FrameHears == ASSUME MicInv, Mic!Frame PROVE MicInv'
<1>1. PICK n \in 1 .. MaxFrame : \E sounds \in {{}, {now + n}, Mic!Instants(n)} :
        /\ now' = now + n /\ loud' = loud \cup sounds
        /\ LET m == mic \o Mic!Capture(n)
               r == ref \o Mic!Reference(n, sounds)
           IN  /\ mic' = Mic!Rest(m)
               /\ IF running
                  THEN /\ ref' = Mic!Rest(r)
                       /\ Mic!CancelEcho(aec_mic \o Mic!Out(m), aec_ref \o Mic!Out(r))
                  ELSE UNCHANGED <<ref, aec_mic, aec_ref, weight, last, processed, weighed>>
        /\ UNCHANGED <<running, restarts, begun>>
  BY DEF Mic!Frame
<1>2. PICK sounds \in {{}, {now + n}, Mic!Instants(n)} :
        /\ now' = now + n /\ loud' = loud \cup sounds
        /\ LET m == mic \o Mic!Capture(n)
               r == ref \o Mic!Reference(n, sounds)
           IN  /\ mic' = Mic!Rest(m)
               /\ IF running
                  THEN /\ ref' = Mic!Rest(r)
                       /\ Mic!CancelEcho(aec_mic \o Mic!Out(m), aec_ref \o Mic!Out(r))
                  ELSE UNCHANGED <<ref, aec_mic, aec_ref, weight, last, processed, weighed>>
        /\ UNCHANGED <<running, restarts, begun>>
  BY <1>1
<1>. DEFINE c == Mic!Capture(n)
            e == Mic!Reference(n, sounds)
            G == Stream(begun, loud \cup sounds)
<1>3. MicTyped /\ Held /\ Heard
  BY DEF MicInv
<1>4. /\ n \in Nat /\ n > 0 /\ sounds \subseteq now + 1 .. now + n
      /\ Part(c, Captured, Width + now - begun) /\ Len(c) = n
      /\ Part(e, G, Width + now - begun) /\ Len(e) = n
  BY <1>3, FrameIs
<1>5. now \in Nat /\ begun \in 0 .. now /\ loud \subseteq 1 .. now /\ IsSeq(processed)
  BY <1>3 DEF MicTyped
<1>6. now' \in Nat /\ begun' \in 0 .. now' /\ loud' \subseteq 1 .. now'
  BY <1>2, <1>4, <1>5
<1>7. begun' = begun /\ running' = running /\ now' = now + n
  BY <1>2
<1>8. Captured' = Captured /\ PlayedThen' = G
  BY <1>2 DEF Captured, PlayedThen
<1>9. CASE ~running
  <2>1. UNCHANGED <<ref, aec_mic, aec_ref, weight, last, processed, weighed>>
    BY <1>2, <1>9
  <2>2. MicTyped'
    BY <1>5, <1>6, <2>1 DEF MicTyped
  <2>3. Held'
    BY <1>3, <2>1 DEF Held, Hops
  <2>4. Heard'
    BY <1>3, <1>7, <1>9, <2>1 DEF Heard
  <2>. QED BY <2>2, <2>3, <2>4 DEF MicInv
<1>10. CASE running
  <2>1. PICK w \in Nat : HeardUpTo(w)
    BY <1>3, <1>10 DEF Heard
  <2>. DEFINE m == mic \o c
              r == ref \o e
  <2>2. mic' = Mic!Rest(m) /\ ref' = Mic!Rest(r)
        /\ Mic!CancelEcho(aec_mic \o Mic!Out(m), aec_ref \o Mic!Out(r))
    BY <1>2, <1>10
  <2>. HIDE DEF c, e, G
  <2>3. /\ Part(mic, Captured, w * Orig) /\ w * Orig + Len(mic) = Width + now - begun
        /\ Len(ref) = Len(mic) /\ (w > 0 => Len(mic) >= 2 * Width)
        /\ Part(aec_mic, Resampled(Captured), Hops * Hop)
        /\ Hops * Hop + Len(aec_mic) = w * Newf /\ Len(aec_ref) = Len(aec_mic)
    BY <2>1 DEF HeardUpTo
  <2>4. /\ Part(ref, G, w * Orig) /\ Part(aec_ref, Resampled(G), Hops * Hop)
        /\ \A h \in 1 .. Hops : HopIs(processed[h], Resampled(Captured), Resampled(G), h)
    <3>1. \A t \in sounds : t \in Nat /\ t > now
      BY <1>4, <1>5
    <3>. QED BY <1>3, <2>1, <3>1, HeardAgrees DEF G
  <2>5. /\ w * Orig \in Nat /\ w * Newf \in Nat /\ Hops \in Nat /\ Hops * Hop \in Nat
        /\ Orig \in Nat /\ Newf \in Nat /\ Hop \in Nat /\ Width \in Nat
        /\ Len(mic) \in Nat /\ Len(aec_mic) \in Nat
    <3>1. Len(mic) \in Nat /\ Len(aec_mic) \in Nat /\ Hops \in Nat
      BY <1>5, <2>3, SeqIs DEF Part, Hops
    <3>. QED BY <3>1, MicAssumption
  <2>6. /\ Part(m, Captured, w * Orig) /\ Len(m) = Len(mic) + n
        /\ Part(r, G, w * Orig) /\ Len(r) = Len(m)
    <3>1. Part(c, Captured, w * Orig + Len(mic)) /\ Part(e, G, w * Orig + Len(ref))
      BY <1>4, <2>3
    <3>2. Part(m, Captured, w * Orig) /\ Len(m) = Len(mic) + Len(c)
      BY <2>3, <2>5, <3>1, PartJoins
    <3>3. Part(r, G, w * Orig) /\ Len(r) = Len(ref) + Len(e)
      BY <2>4, <2>5, <3>1, PartJoins
    <3>. QED BY <1>4, <2>3, <3>2, <3>3
  <2>. HIDE DEF m, r
  <2>7. PICK v \in Nat : v = Mic!Windows(m)
    BY <2>6, WindowsIs DEF Part
  <2>8. Mic!Windows(r) = v
    BY <2>6, <2>7 DEF Mic!Windows
  <2>. DEFINE om == Mic!Out(m)
              or == Mic!Out(r)
  <2>9. /\ Part(om, Resampled(Captured), w * Newf) /\ Len(om) = v * Newf
        /\ Part(or, Resampled(G), w * Newf) /\ Len(or) = v * Newf
    BY <2>6, <2>7, <2>8, OutIs
  <2>10. /\ Part(mic', Captured, (w + v) * Orig) /\ Len(mic') = Len(m) - v * Orig
         /\ Part(ref', G, (w + v) * Orig) /\ Len(ref') = Len(m) - v * Orig
    BY <2>2, <2>6, <2>7, <2>8, RestIs
  <2>. DEFINE x == aec_mic \o om
              y == aec_ref \o or
  <2>11. Mic!CancelEcho(x, y)
    BY <2>2
  <2>. HIDE DEF om, or
  <2>12. /\ Part(x, Resampled(Captured), Hops * Hop) /\ Len(x) = Len(aec_mic) + v * Newf
         /\ Part(y, Resampled(G), Hops * Hop) /\ Len(y) = Len(x)
    <3>1. /\ Part(om, Resampled(Captured), Hops * Hop + Len(aec_mic))
          /\ Part(or, Resampled(G), Hops * Hop + Len(aec_ref))
      BY <2>3, <2>9
    <3>2. Part(x, Resampled(Captured), Hops * Hop) /\ Len(x) = Len(aec_mic) + Len(om)
      BY <2>3, <2>5, <3>1, PartJoins
    <3>3. Part(y, Resampled(G), Hops * Hop) /\ Len(y) = Len(aec_ref) + Len(or)
      BY <2>4, <2>5, <3>1, PartJoins
    <3>. QED BY <2>3, <2>9, <3>2, <3>3
  <2>. HIDE DEF x, y
  <2>13. /\ IsSeq(processed') /\ Held'
         /\ Part(aec_mic', Resampled(Captured), Hops' * Hop)
         /\ Part(aec_ref', Resampled(G), Hops' * Hop)
         /\ Hops' * Hop + Len(aec_mic') = Hops * Hop + Len(x) /\ Len(aec_ref') = Len(aec_mic')
         /\ \A h \in 1 .. Hops' : HopIs(processed'[h], Resampled(Captured), Resampled(G), h)
    BY <1>3, <1>5, <2>4, <2>11, <2>12, EchoKeeps
  <2>14. (w + v) * Orig = w * Orig + v * Orig /\ (w + v) * Newf = w * Newf + v * Newf
         /\ v * Orig \in Nat /\ v * Newf \in Nat /\ w + v \in Nat
    BY <2>5, <2>7, TimesIs, SMTT(30)
  <2>15. (w + v) * Orig + Len(mic') = Width + now' - begun' /\ Len(ref') = Len(mic')
    <3>. DEFINE a == w * Orig
                b == v * Orig
    <3>1. /\ (w + v) * Orig = a + b /\ Len(mic') = Len(m) - b /\ Len(m) = Len(mic) + n
          /\ a + Len(mic) = Width + now - begun /\ a \in Nat /\ b \in Nat /\ Len(ref') = Len(m) - b
      BY <2>3, <2>5, <2>6, <2>10, <2>14
    <3>. DEFINE d == (w + v) * Orig
    <3>. HIDE DEF a, b, d
    <3>2. /\ d = a + b /\ Len(mic') = Len(m) - b /\ Len(m) = Len(mic) + n
          /\ a + Len(mic) = Width + now - begun /\ a \in Nat /\ b \in Nat /\ Len(ref') = Len(m) - b
      BY <3>1 DEF d
    <3>3. d + Len(mic') = Width + now' - begun'
      <4>1. /\ n \in Nat /\ now \in Nat /\ begun \in Nat /\ Width \in Nat /\ Len(mic) \in Nat
            /\ now' = now + n /\ begun' = begun
        BY <1>4, <1>5, <1>7, <2>5
      <4>2. d + Len(mic') = (Width + now - begun) + n
        BY <3>2, <4>1
      <4>. QED BY <4>1, <4>2
    <3>. QED BY <3>2, <3>3 DEF d
  <2>16. w + v > 0 => Len(mic') >= 2 * Width
    <3>1. CASE v > 0
      <4>1. 2 * Width <= Len(m) - v * Orig
        BY <2>6, <2>7, <3>1, WindowsIs DEF Part
      <4>2. Len(m) \in Nat
        BY <1>4, <2>5, <2>6
      <4>. DEFINE b == v * Orig
      <4>3. 2 * Width <= Len(m) - b /\ Len(mic') = Len(m) - b /\ b \in Nat
        BY <2>10, <2>14, <4>1
      <4>. HIDE DEF b
      <4>4. Len(mic') >= 2 * Width
        BY <2>5, <4>2, <4>3
      <4>. QED BY <4>4
    <3>2. CASE v = 0
      <4>1. Len(mic') = Len(mic) + n
        <5>1. 0 * Orig = 0
          BY <2>5
        <5>. QED BY <1>4, <2>5, <2>6, <2>10, <3>2, <5>1
      <4>. QED BY <1>4, <2>3, <2>5, <3>2, <4>1
    <3>. QED BY <2>7, <3>1, <3>2
  <2>17. Hops' * Hop + Len(aec_mic') = (w + v) * Newf
    <3>. DEFINE a == Hops * Hop
                b == w * Newf
                d == v * Newf
                f == Hops' * Hop
    <3>1. /\ f + Len(aec_mic') = a + Len(x) /\ Len(x) = Len(aec_mic) + d
          /\ a + Len(aec_mic) = b /\ (w + v) * Newf = b + d /\ a \in Nat /\ b \in Nat /\ d \in Nat
      BY <2>3, <2>5, <2>12, <2>13, <2>14
    <3>. HIDE DEF a, b, d, f
    <3>2. f + Len(aec_mic') = b + d
      BY <2>5, <3>1
    <3>. QED BY <3>1, <3>2 DEF f
  <2>18. PICK u \in Nat : u = w + v
    BY <2>14
  <2>19. HeardUpTo(u)'
    BY <1>8, <2>10, <2>13, <2>15, <2>16, <2>17, <2>18 DEF HeardUpTo
  <2>20. Heard'
    BY <1>7, <1>10, <2>19 DEF Heard
  <2>21. MicTyped'
    BY <1>6, <2>13 DEF MicTyped
  <2>. QED BY <2>13, <2>20, <2>21 DEF MicInv
<1>. QED BY <1>9, <1>10

LEMMA MicStep == ASSUME MicInv, [Mic!Next]_Mic!micpath PROVE MicInv'
<1>1. CASE Mic!Frame
  BY <1>1, FrameHears
<1>2. CASE Mic!Restart
  BY <1>2, RestartHears
<1>3. CASE UNCHANGED Mic!micpath
  BY <1>3 DEF Mic!micpath, MicInv, MicTyped, Heard, HeardUpTo, Held, Hops, Captured, PlayedThen
<1>. QED BY <1>1, <1>2, <1>3 DEF Mic!Next

LEMMA MicInvGives == ASSUME MicInv PROVE Mic!HopsInStep
<1>1. weighed[1].mic = weighed[2].mic
  BY DEF MicInv, Held
<1>2. ASSUME NEW h \in DOMAIN processed, NEW i \in 1 .. Hop
      PROVE  LET hop == processed[h] IN
             /\ Mic!At(hop.mic[i]) = Mic!Whole((h - 1) * Hop + i)
             /\ Mic!At(hop.ref[i]) = Mic!At(hop.mic[i])
             /\ hop.ref[i].phase = hop.mic[i].phase
             /\ \A k \in 1 .. Mic!K : LET sample == hop.ref[i].window[k] IN
                  sample.loud = (sample.at \in loud)
  <2>1. IsSeq(processed) /\ begun \in Nat
    BY DEF MicInv, MicTyped
  <2>2. h \in 1 .. Hops /\ Hops \in Nat
    BY <2>1, SeqIs DEF Hops
  <2>3. processed # <<>>
    BY <2>2 DEF Hops
  <2>4. PICK w \in Nat : HeardUpTo(w)
    BY <2>3 DEF MicInv, Heard
  <2>5. HopIs(processed[h], Resampled(Captured), Resampled(PlayedThen), h)
    BY <2>2, <2>4 DEF HeardUpTo
  <2>. DEFINE hop == processed[h]
              s == (h - 1) * Hop + i
              a == (h - 1) * Hop
  <2>6. a \in Nat /\ s = a + i
    BY <2>2, MicAssumption
  <2>7. s \in Nat \ {0}
    <3>. HIDE DEF a, s
    <3>. QED BY <2>6, MicAssumption
  <2>. HIDE DEF s
  <2>8. hop.mic[i] = Resampled(Captured)[s] /\ hop.ref[i] = Resampled(PlayedThen)[s]
    <3>1. /\ Part(hop.mic, Resampled(Captured), a) /\ Len(hop.mic) = Hop
          /\ Part(hop.ref, Resampled(PlayedThen), a) /\ Len(hop.ref) = Hop
      BY <2>5 DEF HopIs
    <3>. HIDE DEF a, hop
    <3>. QED BY <2>6, <3>1 DEF Part
  <2>9. /\ Mic!At(Resampled(Captured)[s]) = Mic!Whole(s)
        /\ Mic!At(Resampled(PlayedThen)[s]) = Mic!Whole(s)
        /\ Resampled(PlayedThen)[s].phase = Resampled(Captured)[s].phase
        /\ \A k \in 1 .. Mic!K : Resampled(PlayedThen)[s].window[k].loud
                                 = (Resampled(PlayedThen)[s].window[k].at \in loud)
    <3>1. Mic!Whole(s) = WindowOf(begun, s)
      BY DEF Mic!Whole, WindowOf
    <3>2. /\ Resampled(Stream(begun, {}))[s].phase = (s - 1) % Newf
          /\ Mic!At(Resampled(Stream(begun, {}))[s]) = WindowOf(begun, s)
      BY <2>1, <2>7, SampleIs
    <3>3. /\ Resampled(Stream(begun, loud))[s].phase = (s - 1) % Newf
          /\ Mic!At(Resampled(Stream(begun, loud))[s]) = WindowOf(begun, s)
          /\ \A k \in 1 .. Mic!K : Resampled(Stream(begun, loud))[s].window[k].loud
                                   = (Resampled(Stream(begun, loud))[s].window[k].at \in loud)
      BY <2>1, <2>7, SampleIs
    <3>. QED BY <3>1, <3>2, <3>3, Zenon DEF Captured, PlayedThen
  <2>. HIDE DEF hop
  <2>10. Mic!At(hop.mic[i]) = Mic!Whole(s) /\ Mic!At(hop.ref[i]) = Mic!At(hop.mic[i])
         /\ hop.ref[i].phase = hop.mic[i].phase
         /\ \A k \in 1 .. Mic!K : hop.ref[i].window[k].loud = (hop.ref[i].window[k].at \in loud)
    BY <2>8, <2>9
  <2>. QED BY <2>10 DEF hop, s
<1>. QED BY <1>1, <1>2 DEF Mic!HopsInStep

\* Whatever the rates, the lookahead and the hop, whatever the lengths of the
\* frames, when something plays and when the canceller is made anew, every hop
\* conn_cancel_echo hands to the canceller is a hop of two streams resampled
\* in one piece: microphone and reference sample for sample of the same
\* instants, what played then, and each weighed by its own energy.
THEOREM HopsStayInStep == MCSpec => []HopsInStep
<1>1. Mic!Init => MicInv
  BY MicInit
<1>2. MicInv /\ [Mic!Next]_Mic!micpath => MicInv'
  BY MicStep
<1>3. MicInv => HopsInStep
  BY MicInvGives DEF HopsInStep
<1>4. MCSpec => Mic!Spec
  BY MicRuns
<1>. QED BY <1>1, <1>2, <1>3, <1>4, PTL DEF Mic!Spec

(* ------------------------- the folds of the library -------------------- *)

\* Induction on the numbers, with a set in the place of a predicate.
LEMMA SetInduction ==
  ASSUME NEW S, 0 \in S, \A n \in Nat : n \in S => n + 1 \in S
  PROVE  Nat \subseteq S
<1>1. ASSUME NEW n \in Nat PROVE n \in S
  <2>1. \A i \in 0 .. n : i \in S /\ i < n => i + 1 \in S
    OBVIOUS
  <2>. QED BY <2>1, Climbs
<1>. QED BY <1>1

\* A part of 1 .. m that is not empty has a largest element.
LEMMA HasLargest ==
  ASSUME NEW m \in Nat
  PROVE  \A U : U \subseteq 1 .. m /\ U # {} => \E x \in U : \A y \in U : y <= x
<1>. DEFINE P(n) == \A U : U \subseteq 1 .. n /\ U # {} => \E x \in U : \A y \in U : y <= x
            S == {n \in Nat : P(n)}
<1>1. P(0)
  <2>1. 1 .. 0 = {}
    OBVIOUS
  <2>. QED BY <2>1
<1>2. ASSUME NEW n \in Nat, P(n) PROVE P(n + 1)
  <2>1. ASSUME NEW U, U \subseteq 1 .. n + 1, U # {} PROVE \E x \in U : \A y \in U : y <= x
    <3>1. CASE n + 1 \in U
      <4>1. \A y \in U : y <= n + 1
        BY <2>1
      <4>. QED BY <3>1, <4>1
    <3>2. CASE n + 1 \notin U
      <4>1. U \subseteq 1 .. n
        BY <3>2, <2>1
      <4>. QED BY <4>1, <1>2, <2>1
    <3>. QED BY <3>1, <3>2
  <2>. QED BY <2>1
<1>. HIDE DEF P
<1>3. 0 \in S /\ \A n \in Nat : n \in S => n + 1 \in S
  BY <1>1, <1>2
<1>. HIDE DEF S
<1>4. Nat \subseteq S
  BY <1>3, SetInduction
<1>5. P(m)
  BY <1>4 DEF S
<1>. QED BY <1>5 DEF P

\* Max picks the largest element of a part of 1 .. m, which the folds of the library
\* need to take the places of a sequence in order.
LEMMA Largest ==
  ASSUME NEW m \in Nat, NEW T, T \subseteq 1 .. m, T # {}
  PROVE  Split!Max(T) \in T /\ \A y \in T : y <= Split!Max(T)
<1>1. \E x \in T : \A y \in T : y <= x
  BY HasLargest
<1>2. \E x \in T : \A y \in T : x >= y
  <2>1. \A x, y \in T : y <= x => x >= y
    OBVIOUS
  <2>. QED BY <1>1, <2>1
<1>3. Split!Max(T) \in T /\ \A y \in T : Split!Max(T) >= y
  BY <1>2, Zenon DEF Split!Max
<1>. QED BY <1>3

\* What the folded function has to be, on the parts of the places of s.
Folds(A, B, f, base, s, g) ==
  /\ g \in [SUBSET (DOMAIN s) -> A]
  /\ \A T \in SUBSET (DOMAIN s) :
       g[T] = IF T = {} THEN base ELSE f[<<g[T \ {Split!Max(T)}], s[Split!Max(T)]>>]

\* There is a function that satisfies the equation of the fold, by induction on the places.
LEMMA FoldFunctionExists ==
  ASSUME NEW A, NEW B, NEW f \in [A \X B -> A], NEW base \in A, NEW s \in Seq(B)
  PROVE  \E g : Folds(A, B, f, base, s, g)
<1>. DEFINE Next1(g, T) == IF T = {} THEN base ELSE f[<<g[T \ {Split!Max(T)}], s[Split!Max(T)]>>]
            Q(g, m) == /\ g \in [SUBSET (1 .. m) -> A]
                       /\ \A T \in SUBSET (1 .. m) : g[T] = Next1(g, T)
            P(m) == m <= Len(s) => \E g : Q(g, m)
            S == {m \in Nat : P(m)}
<1>1. P(0)
  <2>. DEFINE g == [T \in SUBSET (1 .. 0) |-> base]
  <2>1. \A T \in SUBSET (1 .. 0) : T = {}
    OBVIOUS
  <2>2. Q(g, 0)
    BY <2>1
  <2>. QED BY <2>2
<1>2. ASSUME NEW m \in Nat, P(m) PROVE P(m + 1)
  <2>. SUFFICES ASSUME m + 1 <= Len(s) PROVE \E g : Q(g, m + 1)
    OBVIOUS
  <2>0. m <= Len(s) /\ Len(s) \in Nat
    OBVIOUS
  <2>1. PICK h : Q(h, m)
    BY <1>2, <2>0
  <2>. DEFINE n == m + 1
              g == [T \in SUBSET (1 .. n) |-> IF n \in T THEN f[<<h[T \ {n}], s[n]>>] ELSE h[T]]
  <2>2. ASSUME NEW T \in SUBSET (1 .. n), n \in T
        PROVE  Split!Max(T) = n
    <3>1. n \in Nat /\ T \subseteq 1 .. n /\ T # {}
      BY <2>2
    <3>. HIDE DEF n
    <3>2. Split!Max(T) \in T /\ \A y \in T : y <= Split!Max(T)
      BY <3>1, Largest
    <3>3. Split!Max(T) \in 1 .. n /\ n <= Split!Max(T)
      BY <3>1, <3>2, <2>2
    <3>. QED BY <3>1, <3>3
  <2>3. \A T \in SUBSET (1 .. n) : T \ {n} \in SUBSET (1 .. m)
    OBVIOUS
  <2>4. s[n] \in B
    BY <2>0
  <2>4n. SUBSET (1 .. m) \subseteq SUBSET (1 .. n) /\ \A T \in SUBSET (1 .. m) : n \notin T
    OBVIOUS
  <2>. HIDE DEF n
  <2>5. g \in [SUBSET (1 .. n) -> A]
    <3>1. ASSUME NEW T \in SUBSET (1 .. n)
          PROVE  (IF n \in T THEN f[<<h[T \ {n}], s[n]>>] ELSE h[T]) \in A
      <4>1. CASE n \in T
        <5>1. h[T \ {n}] \in A
          BY <2>1, <2>3
        <5>. QED BY <4>1, <5>1, <2>4
      <4>2. CASE n \notin T
        <5>1. T = T \ {n}
          BY <4>2
        <5>2. h[T] \in A
          BY <5>1, <2>1, <2>3
        <5>. QED BY <4>2, <5>2
      <4>. QED BY <4>1, <4>2
    <3>. QED BY <3>1
  <2>6. \A T \in SUBSET (1 .. m) : T \in SUBSET (1 .. n) /\ g[T] = h[T]
    BY <2>4n
  <2>7. ASSUME NEW T \in SUBSET (1 .. n) PROVE g[T] = Next1(g, T)
    <3>1. CASE n \in T
      <4>1. g[T] = f[<<h[T \ {n}], s[n]>>]
        BY <3>1
      <4>2. g[T \ {n}] = h[T \ {n}]
        BY <2>3, <2>6
      <4>3. Split!Max(T) = n
        BY <3>1, <2>2
      <4>4. T # {}
        BY <3>1
      <4>. HIDE DEF g
      <4>. QED BY <4>1, <4>2, <4>3, <4>4
    <3>2. CASE n \notin T
      <4>0. T = T \ {n}
        BY <3>2
      <4>1. T \in SUBSET (1 .. m) /\ g[T] = h[T]
        BY <4>0, <2>3, <2>6
      <4>2. h[T] = Next1(h, T)
        BY <4>1, <2>1
      <4>3. CASE T = {}
        BY <4>1, <4>2, <4>3
      <4>4. CASE T # {}
        <5>1. T \ {Split!Max(T)} \in SUBSET (1 .. m)
          BY <4>1
        <5>2. g[T \ {Split!Max(T)}] = h[T \ {Split!Max(T)}]
          BY <5>1, <2>6
        <5>. HIDE DEF g
        <5>. QED BY <5>2, <4>1, <4>2, <4>4
      <4>. QED BY <4>3, <4>4
    <3>. QED BY <3>1, <3>2
  <2>. HIDE DEF g, Next1
  <2>8. Q(g, n)
    BY <2>5, <2>7
  <2>. QED BY <2>8 DEF n
<1>. HIDE DEF P
<1>3. 0 \in S /\ \A n \in Nat : n \in S => n + 1 \in S
  BY <1>1, <1>2
<1>. HIDE DEF S
<1>4. Nat \subseteq S
  BY <1>3, SetInduction
<1>5. Len(s) \in Nat /\ DOMAIN s = 1 .. Len(s)
  OBVIOUS
<1>6. P(Len(s))
  BY <1>4, <1>5 DEF S
<1>. HIDE DEF Next1
<1>7. \E g : Q(g, Len(s))
  <2>. DEFINE l == Len(s)
  <2>1. l \in Nat /\ l <= l
    BY <1>5
  <2>. QED BY <1>6, <2>1 DEF P
<1>. QED BY <1>5, <1>7, Zenon DEF Folds, Next1

\* The fold of a sequence with a function in the place of the operator.
FoldOf(f, base, s) ==
  (CHOOSE g : g = [T \in SUBSET (DOMAIN s) |->
                     IF T = {} THEN base ELSE f[<<g[T \ {Split!Max(T)}], s[Split!Max(T)]>>]])
    [DOMAIN s]

\* Its values on the first places of s, one after the other.
Steps(A, f, base, s, v) ==
  /\ v \in [0 .. Len(s) -> A] /\ v[0] = base
  /\ \A k \in 1 .. Len(s) : v[k] = f[<<v[k - 1], s[k]>>]

\* x is the last of these values.
Reaches(A, B, f, base, s, x) == \E v : Steps(A, f, base, s, v) /\ v[Len(s)] = x

\* Induction on 0 .. n.
LEMMA UpInduction ==
  ASSUME NEW n \in Nat, NEW S, 0 \in S, \A k \in 1 .. n : k - 1 \in S => k \in S
  PROVE  0 .. n \subseteq S
<1>. DEFINE T == {k \in Nat : k <= n => k \in S}
<1>1. 0 \in T /\ \A k \in Nat : k \in T => k + 1 \in T
  OBVIOUS
<1>. HIDE DEF T
<1>2. Nat \subseteq T
  BY <1>1, SetInduction
<1>. QED BY <1>2 DEF T

\* The values of a fold on the first places depend on these places alone.
LEMMA StepsUnique ==
  ASSUME NEW A, NEW f, NEW base, NEW s, NEW t, Len(s) \in Nat, Len(t) \in Nat, Len(s) <= Len(t),
         \A k \in 1 .. Len(s) : s[k] = t[k],
         NEW v, NEW w, Steps(A, f, base, s, v), Steps(A, f, base, t, w)
  PROVE  v[Len(s)] = w[Len(s)]
<1>. DEFINE S == {k \in 0 .. Len(s) : v[k] = w[k]}
<1>1. 0 \in S
  BY DEF Steps
<1>2. ASSUME NEW k \in 1 .. Len(s), k - 1 \in S PROVE k \in S
  <2>1. v[k - 1] = w[k - 1] /\ s[k] = t[k] /\ k \in 1 .. Len(t)
    BY <1>2
  <2>2. v[k] = f[<<v[k - 1], s[k]>>] /\ w[k] = f[<<w[k - 1], t[k]>>]
    BY <2>1 DEF Steps
  <2>. QED BY <2>1, <2>2
<1>. HIDE DEF S
<1>3. 0 .. Len(s) \subseteq S
  BY <1>1, <1>2, UpInduction
<1>. QED BY <1>3 DEF S

\* Whatever satisfies the equation of the fold has its values.
LEMMA StepsOf ==
  ASSUME NEW A, NEW B, NEW f \in [A \X B -> A], NEW base \in A, NEW s \in Seq(B), NEW h,
         h[{}] = base,
         \A T \in SUBSET (DOMAIN s) : T # {} /\ h[T \ {Split!Max(T)}] \in A =>
           h[T] = f[<<h[T \ {Split!Max(T)}], s[Split!Max(T)]>>]
  PROVE  Reaches(A, B, f, base, s, h[DOMAIN s])
<1>. DEFINE n == Len(s)
            v == [k \in 0 .. n |-> h[1 .. k]]
            S == {k \in 0 .. n : v[k] \in A /\ (k > 0 => v[k] = f[<<v[k - 1], s[k]>>])}
<1>0. n \in Nat /\ DOMAIN s = 1 .. n
  OBVIOUS
<1>1. v[0] = base /\ v[n] = h[DOMAIN s]
  <2>1. 1 .. 0 = {} /\ v[0] = h[1 .. 0]
    BY <1>0
  <2>. QED BY <1>0, <2>1
<1>2. 0 \in S
  BY <1>0, <1>1
<1>3. ASSUME NEW k \in 1 .. n, k - 1 \in S PROVE k \in S
  <2>. DEFINE K == 1 .. k
  <2>1. K \subseteq 1 .. k /\ K # {} /\ k \in Nat /\ K \in SUBSET (DOMAIN s) /\ k \in K
    <3>1. k \in K /\ k \in Nat /\ K \subseteq 1 .. n
      BY <1>0
    <3>. QED BY <1>0, <3>1
  <2>2. Split!Max(K) = k
    <3>1. Split!Max(K) \in K /\ \A y \in K : y <= Split!Max(K)
      BY <2>1, Largest
    <3>. QED BY <2>1, <3>1
  <2>3. K \ {k} = 1 .. k - 1
    OBVIOUS
  <2>4. v[k - 1] = h[1 .. k - 1] /\ v[k - 1] \in A /\ v[k] = h[K]
    BY <1>3
  <2>5. h[K] = f[<<h[K \ {k}], s[k]>>]
    <3>1. h[K \ {Split!Max(K)}] \in A
      BY <2>2, <2>3, <2>4
    <3>. HIDE DEF K
    <3>. QED BY <2>1, <2>2, <3>1
  <2>6. s[k] \in B
    BY <1>0
  <2>. HIDE DEF K, v
  <2>7. v[k] = f[<<v[k - 1], s[k]>>]
    BY <2>3, <2>4, <2>5
  <2>8. v[k] \in A
    BY <2>4, <2>6, <2>7
  <2>. QED BY <2>7, <2>8
<1>. HIDE DEF S
<1>4. 0 .. n \subseteq S
  <2>. HIDE DEF n
  <2>. QED BY <1>0, <1>2, <1>3, UpInduction
<1>5. \A k \in 0 .. n : v[k] \in A /\ (k > 0 => v[k] = f[<<v[k - 1], s[k]>>])
  BY <1>4 DEF S
<1>6. Steps(A, f, base, s, v)
  <2>1. v \in [0 .. n -> A]
    BY <1>5
  <2>2. \A k \in 1 .. n : v[k] = f[<<v[k - 1], s[k]>>]
    <3>1. \A k \in 1 .. n : k \in 0 .. n /\ k > 0
      BY <1>0
    <3>. HIDE DEF v, n
    <3>. QED BY <1>5, <3>1
  <2>. HIDE DEF v
  <2>. QED BY <1>1, <2>1, <2>2 DEF Steps
<1>. HIDE DEF v
<1>. QED BY <1>1, <1>6 DEF Reaches

\* The fold with a function has the last of its values.
LEMMA FoldOfSteps ==
  ASSUME NEW A, NEW B, NEW f \in [A \X B -> A], NEW base \in A, NEW s \in Seq(B)
  PROVE  Reaches(A, B, f, base, s, FoldOf(f, base, s))
<1>. DEFINE Eq(g) == g = [T \in SUBSET (DOMAIN s) |->
                     IF T = {} THEN base ELSE f[<<g[T \ {Split!Max(T)}], s[Split!Max(T)]>>]]
            h == CHOOSE g : Eq(g)
<1>1. PICK g : Folds(A, B, f, base, s, g)
  BY FoldFunctionExists
<1>2. Eq(g)
  BY <1>1 DEF Folds
<1>3. Eq(h)
  <2>. HIDE DEF Eq
  <2>. QED BY <1>2
<1>4. h[{}] = base /\ \A T \in SUBSET (DOMAIN s) : T # {} =>
           h[T] = f[<<h[T \ {Split!Max(T)}], s[Split!Max(T)]>>]
  <2>. HIDE DEF h
  <2>1. \A T \in SUBSET (DOMAIN s) :
           h[T] = IF T = {} THEN base ELSE f[<<h[T \ {Split!Max(T)}], s[Split!Max(T)]>>]
    BY <1>3, Zenon
  <2>. QED BY <2>1
<1>5. FoldOf(f, base, s) = h[DOMAIN s]
  BY Zenon DEF FoldOf
<1>. HIDE DEF h
<1>6. Reaches(A, B, f, base, s, h[DOMAIN s])
  BY <1>4, StepsOf
<1>. QED BY <1>5, <1>6

\* The fold of the empty sequence, its type, and what one element more does.
FoldsOn(A, B, f, base) ==
  /\ FoldOf(f, base, <<>>) = base
  /\ \A s \in Seq(B) : FoldOf(f, base, s) \in A
  /\ \A s \in Seq(B), e \in B : FoldOf(f, base, Append(s, e)) = f[<<FoldOf(f, base, s), e>>]

\* A fold takes its base on the empty sequence, stays in its type, and takes one step
\* more for one element more.
LEMMA FoldOfAppend ==
  ASSUME NEW A, NEW B, NEW f \in [A \X B -> A], NEW base \in A PROVE FoldsOn(A, B, f, base)
<1>1. FoldOf(f, base, <<>>) = base
  <2>1. <<>> \in Seq(B) /\ Len(<<>>) = 0
    OBVIOUS
  <2>2. Reaches(A, B, f, base, <<>>, FoldOf(f, base, <<>>))
    BY <2>1, FoldOfSteps
  <2>. QED BY <2>1, <2>2 DEF Reaches, Steps
<1>2. ASSUME NEW s \in Seq(B) PROVE FoldOf(f, base, s) \in A
  <2>0. Reaches(A, B, f, base, s, FoldOf(f, base, s))
    BY FoldOfSteps
  <2>1. PICK v : Steps(A, f, base, s, v) /\ v[Len(s)] = FoldOf(f, base, s)
    BY <2>0 DEF Reaches
  <2>2. Len(s) \in 0 .. Len(s)
    OBVIOUS
  <2>. QED BY <2>1, <2>2 DEF Steps
<1>3. ASSUME NEW s \in Seq(B), NEW e \in B
      PROVE  FoldOf(f, base, Append(s, e)) = f[<<FoldOf(f, base, s), e>>]
  <2>. DEFINE t == Append(s, e)
  <2>1. /\ t \in Seq(B) /\ Len(t) = Len(s) + 1 /\ Len(s) \in Nat /\ t[Len(t)] = e
        /\ \A k \in 1 .. Len(s) : s[k] = t[k]
    OBVIOUS
  <2>. HIDE DEF t
  <2>0. /\ Reaches(A, B, f, base, s, FoldOf(f, base, s))
        /\ Reaches(A, B, f, base, t, FoldOf(f, base, t))
    BY <2>1, FoldOfSteps
  <2>2. PICK v : Steps(A, f, base, s, v) /\ v[Len(s)] = FoldOf(f, base, s)
    BY <2>0 DEF Reaches
  <2>3. PICK w : Steps(A, f, base, t, w) /\ w[Len(t)] = FoldOf(f, base, t)
    BY <2>0 DEF Reaches
  <2>4. Len(t) \in Nat /\ Len(s) <= Len(t) /\ Len(t) \in 1 .. Len(t) /\ Len(t) - 1 = Len(s)
    BY <2>1
  <2>5. v[Len(s)] = w[Len(s)]
    BY <2>1, <2>2, <2>3, <2>4, StepsUnique
  <2>6. w[Len(t)] = f[<<w[Len(t) - 1], t[Len(t)]>>]
    BY <2>3, <2>4 DEF Steps
  <2>. QED BY <2>1, <2>2, <2>3, <2>4, <2>5, <2>6 DEF t
<1>. QED BY <1>1, <1>2, <1>3 DEF FoldsOn

\* A fold has one last value.
LEMMA ReachesOne ==
  ASSUME NEW A, NEW B, NEW f, NEW base, NEW s \in Seq(B), NEW x, NEW y,
         Reaches(A, B, f, base, s, x), Reaches(A, B, f, base, s, y)
  PROVE  x = y
<1>1. PICK v : Steps(A, f, base, s, v) /\ v[Len(s)] = x
  BY DEF Reaches
<1>2. PICK w : Steps(A, f, base, s, w) /\ w[Len(s)] = y
  BY DEF Reaches
<1>3. Len(s) \in Nat /\ Len(s) <= Len(s) /\ \A k \in 1 .. Len(s) : s[k] = s[k]
  OBVIOUS
<1>4. v[Len(s)] = w[Len(s)]
  BY <1>1, <1>2, <1>3, StepsUnique
<1>. QED BY <1>1, <1>2, <1>4

\* The largest place of a part of a sequence, and what is left of the part.
LEMMA LargestPlace ==
  ASSUME NEW B, NEW s \in Seq(B), NEW T \in SUBSET (DOMAIN s), T # {}
  PROVE  /\ Split!Max(T) \in DOMAIN s /\ s[Split!Max(T)] \in B
         /\ T \ {Split!Max(T)} \in SUBSET (DOMAIN s)
<1>1. Len(s) \in Nat /\ T \subseteq 1 .. Len(s) /\ DOMAIN s = 1 .. Len(s)
  OBVIOUS
<1>2. Split!Max(T) \in T
  BY <1>1, Largest
<1>. QED BY <1>1, <1>2

(* ------------------- the points of a text of the splitter -------------- *)

\* The code points.
Dots == Split!Bytes \cup {"accent"}

\* One byte more.
Join(points, byte) ==
  IF byte = "trail" /\ points # <<>> /\ Split!Last(points) = "lead"
  THEN Append(Split!Front(points), "accent")
  ELSE Append(points, byte)

\* A byte more leaves code points.
LEMMA JoinType ==
  ASSUME NEW p \in Seq(Dots), NEW b \in Split!Bytes PROVE Join(p, b) \in Seq(Dots)
<1>1. b \in Dots /\ "accent" \in Dots
  BY DEF Dots
<1>2. p # <<>> => Split!Front(p) \in Seq(Dots)
  BY DEF Split!Front
<1>. QED BY <1>1, <1>2 DEF Join

Joining == [x \in Seq(Dots) \X Split!Bytes |-> Join(x[1], x[2])]

\* The code points of a text are a fold with a function.
LEMMA PointsFold ==
  ASSUME NEW s \in Seq(Split!Bytes) PROVE Split!Points(s) = FoldOf(Joining, <<>>, s)
<1>. DEFINE A == Seq(Dots)
            B == Split!Bytes
            Eq(g) == g = [T \in SUBSET (DOMAIN s) |->
                            IF T = {} THEN <<>>
                            ELSE Join(g[T \ {Split!Max(T)}], s[Split!Max(T)])]
            h == CHOOSE g : Eq(g)
<1>1. Joining \in [A \X B -> A] /\ <<>> \in A
  BY JoinType DEF Joining
<1>2. \A a \in A, b \in B : Joining[<<a, b>>] = Join(a, b)
  BY DEF Joining
<1>. HIDE DEF A, B
<1>s. s \in Seq(B)
  BY DEF B
<1>3. PICK g : Folds(A, B, Joining, <<>>, s, g)
  BY <1>1, <1>s, FoldFunctionExists
<1>4. ASSUME NEW T \in SUBSET (DOMAIN s), T # {}, NEW k, k[T \ {Split!Max(T)}] \in A
      PROVE  Joining[<<k[T \ {Split!Max(T)}], s[Split!Max(T)]>>]
               = Join(k[T \ {Split!Max(T)}], s[Split!Max(T)])
  BY <1>2, <1>4, <1>s, LargestPlace
<1>5. Eq(g)
  <2>1. \A T \in SUBSET (DOMAIN s) : T # {} => g[T \ {Split!Max(T)}] \in A
    BY <1>3, <1>s, LargestPlace DEF Folds
  <2>. QED BY <1>3, <1>4, <2>1 DEF Folds
<1>6. Eq(h)
  <2>. HIDE DEF Eq
  <2>. QED BY <1>5
<1>7. /\ h[{}] = <<>>
      /\ \A T \in SUBSET (DOMAIN s) : T # {} /\ h[T \ {Split!Max(T)}] \in A =>
           h[T] = Joining[<<h[T \ {Split!Max(T)}], s[Split!Max(T)]>>]
  <2>. HIDE DEF h
  <2>1. \A T \in SUBSET (DOMAIN s) :
           h[T] = IF T = {} THEN <<>> ELSE Join(h[T \ {Split!Max(T)}], s[Split!Max(T)])
    BY <1>6, Zenon
  <2>. QED BY <1>4, <2>1
<1>8. Split!Points(s) = h[DOMAIN s]
  BY Zenon DEF Split!Points, Split!FoldLeft, Split!MapThenFoldSet, Join
<1>. HIDE DEF h
<1>9. Reaches(A, B, Joining, <<>>, s, h[DOMAIN s])
  BY <1>1, <1>7, <1>s, StepsOf
<1>10. Reaches(A, B, Joining, <<>>, s, FoldOf(Joining, <<>>, s))
  BY <1>1, <1>s, FoldOfSteps
<1>. QED BY <1>8, <1>9, <1>10, <1>s, ReachesOne

\* The code points of a text, byte by byte.
LEMMA PointsGrow ==
  /\ Split!Points(<<>>) = <<>>
  /\ \A s \in Seq(Split!Bytes) : Split!Points(s) \in Seq(Dots)
  /\ \A s \in Seq(Split!Bytes), b \in Split!Bytes :
       Split!Points(Append(s, b)) = Join(Split!Points(s), b)
<1>1. Joining \in [Seq(Dots) \X Split!Bytes -> Seq(Dots)] /\ <<>> \in Seq(Dots)
  BY JoinType DEF Joining
<1>2. \A a \in Seq(Dots), b \in Split!Bytes : Joining[<<a, b>>] = Join(a, b)
  BY DEF Joining
<1>3. \A s \in Seq(Split!Bytes), b \in Split!Bytes : Append(s, b) \in Seq(Split!Bytes)
  OBVIOUS
<1>. DEFINE A == Seq(Dots)
            B == Split!Bytes
<1>. HIDE DEF A, B
<1>4. FoldsOn(A, B, Joining, <<>>)
  <2>1. Joining \in [A \X B -> A] /\ <<>> \in A
    BY <1>1 DEF A, B
  <2>. QED BY <2>1, FoldOfAppend
<1>5. \A s \in Seq(Split!Bytes) : Split!Points(s) = FoldOf(Joining, <<>>, s)
  BY PointsFold
<1>6. Split!Points(<<>>) = <<>>
  <2>1. <<>> \in Seq(Split!Bytes)
    OBVIOUS
  <2>. QED BY <1>4, <1>5, <2>1 DEF FoldsOn
<1>7. ASSUME NEW s \in Seq(Split!Bytes), NEW b \in Split!Bytes
      PROVE  Split!Points(s) \in Seq(Dots) /\ Split!Points(Append(s, b)) = Join(Split!Points(s), b)
  <2>1. Split!Points(s) \in Seq(Dots)
    BY <1>4, <1>5 DEF FoldsOn, A, B
  <2>2. Split!Points(Append(s, b)) = FoldOf(Joining, <<>>, Append(s, b))
    BY <1>3, <1>5
  <2>3. FoldOf(Joining, <<>>, Append(s, b)) = Joining[<<FoldOf(Joining, <<>>, s), b>>]
    BY <1>4 DEF FoldsOn, A, B
  <2>4. FoldOf(Joining, <<>>, s) = Split!Points(s)
    BY <1>5
  <2>. QED BY <1>2, <2>1, <2>2, <2>3, <2>4
<1>8. \A s \in Seq(Split!Bytes) : Split!Points(s) \in Seq(Dots)
  BY <1>4, <1>5 DEF FoldsOn, A, B
<1>. QED BY <1>6, <1>7, <1>8

\* What a code point takes in UTF-16.
Wide(point) == IF point = "emoji" THEN 2 ELSE 1
Count(n, point) == n + Wide(point)
Counting == [x \in Nat \X Dots |-> Count(x[1], x[2])]
\* The length of a sequence of code points.
Length(points) == FoldOf(Counting, 0, points)

\* The length of a text is that of its code points.
LEMMA LengthFold ==
  ASSUME NEW s \in Seq(Split!Bytes) PROVE Split!Utf16(s) = Length(Split!Points(s))
<1>. DEFINE p == Split!Points(s)
            A == Nat
            B == Dots
            Eq(g) == g = [T \in SUBSET (DOMAIN p) |->
                            IF T = {} THEN 0
                            ELSE Count(g[T \ {Split!Max(T)}], p[Split!Max(T)])]
            h == CHOOSE g : Eq(g)
<1>1. Counting \in [A \X B -> A] /\ 0 \in A
  BY DEF Counting, Count, Wide
<1>2. \A a \in A, b \in B : Counting[<<a, b>>] = Count(a, b)
  BY DEF Counting
<1>s. p \in Seq(B)
  BY PointsGrow
<1>8. Split!Utf16(s) = h[DOMAIN p]
  BY Zenon DEF Split!Utf16, Split!FoldLeft, Split!MapThenFoldSet, Count, Wide
<1>. HIDE DEF A, B, p
<1>3. PICK g : Folds(A, B, Counting, 0, p, g)
  BY <1>1, <1>s, FoldFunctionExists
<1>4. ASSUME NEW T \in SUBSET (DOMAIN p), T # {}, NEW k, k[T \ {Split!Max(T)}] \in A
      PROVE  Counting[<<k[T \ {Split!Max(T)}], p[Split!Max(T)]>>]
               = Count(k[T \ {Split!Max(T)}], p[Split!Max(T)])
  BY <1>2, <1>4, <1>s, LargestPlace
<1>5. Eq(g)
  <2>1. \A T \in SUBSET (DOMAIN p) : T # {} => g[T \ {Split!Max(T)}] \in A
    BY <1>3, <1>s, LargestPlace DEF Folds
  <2>. QED BY <1>3, <1>4, <2>1 DEF Folds
<1>6. Eq(h)
  <2>. HIDE DEF Eq
  <2>. QED BY <1>5
<1>7. /\ h[{}] = 0
      /\ \A T \in SUBSET (DOMAIN p) : T # {} /\ h[T \ {Split!Max(T)}] \in A =>
           h[T] = Counting[<<h[T \ {Split!Max(T)}], p[Split!Max(T)]>>]
  <2>. HIDE DEF h
  <2>1. \A T \in SUBSET (DOMAIN p) :
           h[T] = IF T = {} THEN 0 ELSE Count(h[T \ {Split!Max(T)}], p[Split!Max(T)])
    BY <1>6, Zenon
  <2>. QED BY <1>4, <2>1
<1>. HIDE DEF h
<1>9. Reaches(A, B, Counting, 0, p, h[DOMAIN p])
  BY <1>1, <1>7, <1>s, StepsOf
<1>10. Reaches(A, B, Counting, 0, p, FoldOf(Counting, 0, p))
  BY <1>1, <1>s, FoldOfSteps
<1>. QED BY <1>8, <1>9, <1>10, <1>s, ReachesOne DEF p, Length

\* The length of code points, one by one.
LEMMA LengthGrows ==
  /\ Length(<<>>) = 0
  /\ \A p \in Seq(Dots) : Length(p) \in Nat
  /\ \A p \in Seq(Dots), d \in Dots : Length(Append(p, d)) = Length(p) + Wide(d)
<1>1. Counting \in [Nat \X Dots -> Nat] /\ 0 \in Nat
  BY DEF Counting, Count, Wide
<1>2. \A a \in Nat, b \in Dots : Counting[<<a, b>>] = a + Wide(b)
  BY DEF Counting, Count
<1>. DEFINE B == Dots
<1>. HIDE DEF B
<1>4. FoldsOn(Nat, B, Counting, 0)
  <2>1. Counting \in [Nat \X B -> Nat] /\ 0 \in Nat
    BY <1>1 DEF B
  <2>. QED BY <2>1, FoldOfAppend
<1>. QED BY <1>2, <1>4 DEF B, Length, FoldsOn

\* What is kept of the code points, one more read.
Keep(out, point) ==
  CASE point = "mark" -> out
    [] point \in {"break", "tab", "emoji"} ->
         IF out # <<>> /\ Split!Last(out) # "space" THEN Append(out, "space") ELSE out
    [] point = "space" /\ out # <<>> /\ Split!Last(out) = "space" -> out
    [] OTHER -> Append(out, point)
Keeping == [x \in Seq(Dots) \X Dots |-> Keep(x[1], x[2])]
Kept(points) == FoldOf(Keeping, <<>>, points)

\* What is kept of a code point more.
LEMMA KeepType ==
  ASSUME NEW p \in Seq(Dots), NEW b \in Dots PROVE Keep(p, b) \in Seq(Dots)
<1>1. "space" \in Dots
  BY DEF Dots, Split!Bytes
<1>2. Append(p, b) \in Seq(Dots) /\ Append(p, "space") \in Seq(Dots)
  BY <1>1
<1>3. Keep(p, b) \in {p, Append(p, b), Append(p, "space")}
  BY Zenon DEF Keep
<1>. QED BY <1>2, <1>3

\* The text for the ear is what is kept of the code points, trimmed.
LEMMA KeptFold ==
  ASSUME NEW s \in Seq(Split!Bytes)
  PROVE  Split!Clean(s) =
           LET out == Kept(Split!Points(s))
               said == {i \in DOMAIN out : out[i] # "space"}
           IN  IF {out[i] : i \in DOMAIN out} \cap Split!Spoken = {}
               THEN <<>>
               ELSE SubSeq(out, Split!Min(said), Split!Max(said))
<1>. DEFINE p == Split!Points(s)
            A == Seq(Dots)
            B == Dots
            Eq(g) == g = [T \in SUBSET (DOMAIN p) |->
                            IF T = {} THEN <<>>
                            ELSE Keep(g[T \ {Split!Max(T)}], p[Split!Max(T)])]
            h == CHOOSE g : Eq(g)
            Trim(out) == LET said == {i \in DOMAIN out : out[i] # "space"}
                         IN  IF {out[i] : i \in DOMAIN out} \cap Split!Spoken = {}
                             THEN <<>>
                             ELSE SubSeq(out, Split!Min(said), Split!Max(said))
<1>1. Keeping \in [A \X B -> A] /\ <<>> \in A
  BY KeepType DEF Keeping
<1>2. \A a \in A, b \in B : Keeping[<<a, b>>] = Keep(a, b)
  BY DEF Keeping
<1>s. p \in Seq(B)
  BY PointsGrow
<1>8. Split!Clean(s) = Trim(h[DOMAIN p])
  BY Zenon DEF Split!Clean, Split!FoldLeft, Split!MapThenFoldSet, Keep
<1>. HIDE DEF A, B, p, Trim
<1>3. PICK g : Folds(A, B, Keeping, <<>>, p, g)
  BY <1>1, <1>s, FoldFunctionExists
<1>4. ASSUME NEW T \in SUBSET (DOMAIN p), T # {}, NEW k, k[T \ {Split!Max(T)}] \in A
      PROVE  Keeping[<<k[T \ {Split!Max(T)}], p[Split!Max(T)]>>]
               = Keep(k[T \ {Split!Max(T)}], p[Split!Max(T)])
  BY <1>2, <1>4, <1>s, LargestPlace
<1>5. Eq(g)
  <2>1. \A T \in SUBSET (DOMAIN p) : T # {} => g[T \ {Split!Max(T)}] \in A
    BY <1>3, <1>s, LargestPlace DEF Folds
  <2>. QED BY <1>3, <1>4, <2>1 DEF Folds
<1>6. Eq(h)
  <2>. HIDE DEF Eq
  <2>. QED BY <1>5
<1>7. /\ h[{}] = <<>>
      /\ \A T \in SUBSET (DOMAIN p) : T # {} /\ h[T \ {Split!Max(T)}] \in A =>
           h[T] = Keeping[<<h[T \ {Split!Max(T)}], p[Split!Max(T)]>>]
  <2>. HIDE DEF h
  <2>1. \A T \in SUBSET (DOMAIN p) :
           h[T] = IF T = {} THEN <<>> ELSE Keep(h[T \ {Split!Max(T)}], p[Split!Max(T)])
    BY <1>6, Zenon
  <2>. QED BY <1>4, <2>1
<1>. HIDE DEF h
<1>9. Reaches(A, B, Keeping, <<>>, p, h[DOMAIN p])
  BY <1>1, <1>7, <1>s, StepsOf
<1>10. Reaches(A, B, Keeping, <<>>, p, FoldOf(Keeping, <<>>, p))
  BY <1>1, <1>s, FoldOfSteps
<1>11. h[DOMAIN p] = Kept(p)
  BY <1>9, <1>10, <1>s, ReachesOne DEF Kept
<1>. QED BY <1>8, <1>11, Zenon DEF Trim, p

\* What is kept of code points, one by one.
LEMMA KeptGrows ==
  /\ Kept(<<>>) = <<>>
  /\ \A p \in Seq(Dots) : Kept(p) \in Seq(Dots)
  /\ \A p \in Seq(Dots), d \in Dots : Kept(Append(p, d)) = Keep(Kept(p), d)
<1>1. Keeping \in [Seq(Dots) \X Dots -> Seq(Dots)] /\ <<>> \in Seq(Dots)
  BY KeepType DEF Keeping
<1>2. \A a \in Seq(Dots), b \in Dots : Keeping[<<a, b>>] = Keep(a, b)
  BY DEF Keeping
<1>. DEFINE A == Seq(Dots)
            B == Dots
<1>. HIDE DEF A, B
<1>4. FoldsOn(A, B, Keeping, <<>>)
  <2>1. Keeping \in [A \X B -> A] /\ <<>> \in A
    BY <1>1 DEF A, B
  <2>. QED BY <2>1, FoldOfAppend
<1>. QED BY <1>2, <1>4 DEF A, B, Kept, FoldsOn

\* Induction on the sequences by their last element, with a set in the place of a predicate.
LEMMA SeqInduction ==
  ASSUME NEW B, NEW S, <<>> \in S,
         \A s \in Seq(B), e \in B : s \in S => Append(s, e) \in S
  PROVE  Seq(B) \subseteq S
<1>. DEFINE T == {n \in Nat : \A s \in Seq(B) : Len(s) = n => s \in S}
<1>1. 0 \in T
  <2>1. \A s \in Seq(B) : Len(s) = 0 => s = <<>>
    OBVIOUS
  <2>. QED BY <2>1
<1>2. ASSUME NEW n \in Nat, n \in T PROVE n + 1 \in T
  <2>1. ASSUME NEW s \in Seq(B), Len(s) = n + 1 PROVE s \in S
    <3>. DEFINE r == SubSeq(s, 1, n)
    <3>1. r \in Seq(B) /\ Len(r) = n /\ s[n + 1] \in B
      BY <2>1
    <3>2. s = Append(r, s[n + 1])
      BY <2>1
    <3>3. r \in S
      BY <1>2, <3>1
    <3>. HIDE DEF r
    <3>. QED BY <3>1, <3>2, <3>3
  <2>. QED BY <2>1
<1>. HIDE DEF T
<1>3. Nat \subseteq T
  BY <1>1, <1>2, SetInduction
<1>4. \A s \in Seq(B) : Len(s) \in Nat
  OBVIOUS
<1>. QED BY <1>3, <1>4 DEF T

\* A text ends in half a letter, and so do its code points.
EndsHalf(s) == s # <<>> /\ s[Len(s)] = "lead"

\* Code points end with half a letter when the byte that came is one.
LEMMA JoinEnds ==
  ASSUME NEW p \in Seq(Dots), NEW b \in Split!Bytes
  PROVE  Join(p, b) # <<>> /\ (EndsHalf(Join(p, b)) <=> b = "lead")
<1>1. CASE b = "trail" /\ p # <<>> /\ Split!Last(p) = "lead"
  <2>. DEFINE q == Split!Front(p)
  <2>1. q \in Seq(Dots)
    BY <1>1 DEF Split!Front
  <2>2. Join(p, b) = Append(q, "accent")
    BY <1>1 DEF Join
  <2>. HIDE DEF q
  <2>3. Append(q, "accent") # <<>> /\ Append(q, "accent")[Len(Append(q, "accent"))] = "accent"
    BY <2>1
  <2>. QED BY <1>1, <2>2, <2>3 DEF EndsHalf
<1>2. CASE ~ (b = "trail" /\ p # <<>> /\ Split!Last(p) = "lead")
  <2>1. Join(p, b) = Append(p, b)
    BY <1>2 DEF Join
  <2>2. Append(p, b) # <<>> /\ Append(p, b)[Len(Append(p, b))] = b
    OBVIOUS
  <2>. QED BY <2>1, <2>2 DEF EndsHalf
<1>. QED BY <1>1, <1>2

\* A text and its code points are empty together, and end with half a letter together.
LEMMA PointsEnd ==
  \A s \in Seq(Split!Bytes) :
    /\ s = <<>> <=> Split!Points(s) = <<>>
    /\ EndsHalf(Split!Points(s)) <=> EndsHalf(s)
<1>. DEFINE P(s) == /\ s = <<>> <=> Split!Points(s) = <<>>
                    /\ EndsHalf(Split!Points(s)) <=> EndsHalf(s)
            S == {s \in Seq(Split!Bytes) : P(s)}
<1>1. P(<<>>)
  BY PointsGrow DEF EndsHalf
<1>2. ASSUME NEW s \in Seq(Split!Bytes), NEW b \in Split!Bytes PROVE P(Append(s, b))
  <2>1. Split!Points(Append(s, b)) = Join(Split!Points(s), b) /\ Split!Points(s) \in Seq(Dots)
    BY PointsGrow
  <2>2. Append(s, b) # <<>> /\ Append(s, b)[Len(Append(s, b))] = b
    OBVIOUS
  <2>3. Join(Split!Points(s), b) # <<>> /\ (EndsHalf(Join(Split!Points(s), b)) <=> b = "lead")
    BY <2>1, JoinEnds
  <2>4. EndsHalf(Append(s, b)) <=> b = "lead"
    BY <2>2 DEF EndsHalf
  <2>. QED BY <2>1, <2>2, <2>3, <2>4
<1>. HIDE DEF P
<1>3. /\ <<>> \in S
      /\ \A s \in Seq(Split!Bytes), b \in Split!Bytes : s \in S => Append(s, b) \in S
  BY <1>1, <1>2
<1>. HIDE DEF S
<1>4. Seq(Split!Bytes) \subseteq S
  BY <1>3, SeqInduction
<1>. QED BY <1>4 DEF S, P

AppendLast(p, q, e) == Append(p \o q, e) = p \o Append(q, e)
\* An element after two sequences is one after the second.
LEMMA AppendOfCat ==
  ASSUME NEW D, NEW p \in Seq(D), NEW q \in Seq(D), NEW e \in D
  PROVE  AppendLast(p, q, e)
BY DEF AppendLast

\* All but the last element.
LEMMA FrontType ==
  ASSUME NEW D, NEW q \in Seq(D), q # <<>>
  PROVE  /\ Split!Front(q) \in Seq(D) /\ Len(Split!Front(q)) = Len(q) - 1
         /\ \A i \in 1 .. Len(q) - 1 : Split!Front(q)[i] = q[i]
BY DEF Split!Front

\* Front and Last undo Append.
LEMMA FrontOfAppend ==
  ASSUME NEW D, NEW q \in Seq(D), NEW e \in D
  PROVE  Split!Front(Append(q, e)) = q /\ Split!Last(Append(q, e)) = e
BY DEF Split!Front, Split!Last

\* A sequence is its front and its last element.
LEMMA FrontAndLast ==
  ASSUME NEW D, NEW q \in Seq(D), q # <<>>
  PROVE  /\ Split!Front(q) \in Seq(D) /\ Split!Last(q) \in D
         /\ q = Append(Split!Front(q), Split!Last(q))
BY DEF Split!Front, Split!Last

\* The front and the last element of two sequences are those of the second.
LEMMA FrontOfCat ==
  ASSUME NEW D, NEW p \in Seq(D), NEW q \in Seq(D), q # <<>>
  PROVE  /\ Split!Front(p \o q) = p \o Split!Front(q)
         /\ Split!Last(p \o q) = Split!Last(q) /\ p \o q # <<>>
<1>. DEFINE r == Split!Front(q)
            e == Split!Last(q)
<1>1. r \in Seq(D) /\ e \in D /\ q = Append(r, e)
  BY FrontAndLast
<1>. HIDE DEF r, e
<1>2. p \o q = Append(p \o r, e) /\ p \o r \in Seq(D)
  <2>1. AppendLast(p, r, e)
    BY <1>1, AppendOfCat
  <2>2. p \o r \in Seq(D)
    BY <1>1, ConcatProperties
  <2>. QED BY <1>1, <2>1, <2>2, Zenon DEF AppendLast
<1>3. Split!Front(p \o q) = p \o r /\ Split!Last(p \o q) = e
  <2>1. Split!Front(Append(p \o r, e)) = p \o r /\ Split!Last(Append(p \o r, e)) = e
    BY <1>1, <1>2, FrontOfAppend
  <2>. QED BY <1>2, <2>1, Zenon
<1>. QED BY <1>2, <1>3, <1>1 DEF r, e

\* A byte joins what is near it only.
LEMMA JoinCat ==
  ASSUME NEW p \in Seq(Dots), NEW q \in Seq(Dots), NEW b \in Split!Bytes, ~ EndsHalf(p)
  PROVE  Join(p \o q, b) = p \o Join(q, b)
<1>0. b \in Dots /\ "accent" \in Dots
  BY DEF Dots
<1>1. CASE q = <<>>
  <2>1. p \o q = p /\ p \o <<b>> = Append(p, b)
    BY <1>1
  <2>2. Join(p, b) = Append(p, b)
    BY DEF Join, EndsHalf, Split!Last
  <2>3. Join(q, b) = <<b>>
    BY <1>1 DEF Join
  <2>. QED BY <2>1, <2>2, <2>3
<1>2. CASE q # <<>>
  <2>1. /\ p \o q # <<>> /\ Split!Last(p \o q) = Split!Last(q)
        /\ Split!Front(p \o q) = p \o Split!Front(q) /\ Split!Front(q) \in Seq(Dots)
    BY <1>2, FrontOfCat, FrontAndLast
  <2>2. CASE b = "trail" /\ Split!Last(q) = "lead"
    <3>1. Join(p \o q, b) = Append(p \o Split!Front(q), "accent")
      BY <2>1, <2>2 DEF Join
    <3>2. Join(q, b) = Append(Split!Front(q), "accent")
      BY <1>2, <2>2 DEF Join
    <3>. DEFINE u == Split!Front(q)
    <3>3. u \in Seq(Dots)
      BY <2>1
    <3>. HIDE DEF u
    <3>4. Append(p \o u, "accent") = p \o Append(u, "accent")
      <4>1. AppendLast(p, u, "accent")
        BY <1>0, <3>3, AppendOfCat
      <4>. QED BY <4>1, Zenon DEF AppendLast
    <3>. QED BY <3>1, <3>2, <3>4 DEF u
  <2>3. CASE ~ (b = "trail" /\ Split!Last(q) = "lead")
    <3>1. Join(p \o q, b) = Append(p \o q, b) /\ Join(q, b) = Append(q, b)
      BY <2>1, <2>3 DEF Join
    <3>2. Append(p \o q, b) = p \o Append(q, b)
      <4>1. AppendLast(p, q, b)
        BY <1>0, AppendOfCat
      <4>. QED BY <4>1, Zenon DEF AppendLast
    <3>. QED BY <3>1, <3>2
  <2>. QED BY <2>2, <2>3
<1>. QED BY <1>1, <1>2

\* Two texts that do not part a letter are read one after the other.
LEMMA PointsCat ==
  ASSUME NEW a \in Seq(Split!Bytes), ~ EndsHalf(a)
  PROVE  \A b \in Seq(Split!Bytes) : Split!Points(a \o b) = Split!Points(a) \o Split!Points(b)
<1>. DEFINE B == Split!Bytes
            p == Split!Points(a)
            P(b) == Split!Points(a \o b) = p \o Split!Points(b)
            S == {b \in Seq(B) : P(b)}
<1>p. p \in Seq(Dots) /\ ~ EndsHalf(p)
  BY PointsGrow, PointsEnd
<1>1. P(<<>>)
  <2>1. a \o <<>> = a /\ p \o <<>> = p
    BY <1>p
  <2>. QED BY <2>1, PointsGrow
<1>2. ASSUME NEW b \in Seq(B), NEW e \in B, P(b) PROVE P(Append(b, e))
  <2>. DEFINE q == Split!Points(b)
  <2>1. a \o Append(b, e) = Append(a \o b, e) /\ a \o b \in Seq(B)
    OBVIOUS
  <2>2. q \in Seq(Dots)
    BY PointsGrow
  <2>3. Split!Points(Append(b, e)) = Join(q, e)
    BY PointsGrow
  <2>4. Split!Points(Append(a \o b, e)) = Join(p \o q, e)
    BY <2>1, <1>2, PointsGrow
  <2>. HIDE DEF p, q
  <2>5. Join(p \o q, e) = p \o Join(q, e)
    BY <1>p, <2>2, JoinCat
  <2>. QED BY <2>1, <2>3, <2>4, <2>5
<1>. HIDE DEF P
<1>3. /\ <<>> \in S
      /\ \A b \in Seq(B), e \in B : b \in S => Append(b, e) \in S
  BY <1>1, <1>2
<1>. HIDE DEF S, B
<1>4. Seq(B) \subseteq S
  BY <1>3, SeqInduction
<1>. QED BY <1>4 DEF S, P, B

\* The length of code points is the sum of those of their parts.
LEMMA LengthCat ==
  ASSUME NEW p \in Seq(Dots)
  PROVE  \A q \in Seq(Dots) : Length(p \o q) = Length(p) + Length(q) /\ Length(q) >= Len(q)
<1>. DEFINE P(q) == Length(p \o q) = Length(p) + Length(q) /\ Length(q) >= Len(q)
            S == {q \in Seq(Dots) : P(q)}
<1>1. P(<<>>)
  <2>1. p \o <<>> = p /\ Len(<<>>) = 0
    OBVIOUS
  <2>2. Length(p) \in Nat /\ Length(<<>>) = 0
    BY LengthGrows
  <2>. QED BY <2>1, <2>2
<1>2. ASSUME NEW q \in Seq(Dots), NEW d \in Dots, P(q) PROVE P(Append(q, d))
  <2>1. AppendLast(p, q, d)
    BY AppendOfCat
  <2>2. p \o q \in Seq(Dots)
    BY ConcatProperties
  <2>3. Length(Append(p \o q, d)) = Length(p \o q) + Wide(d)
    BY <2>2, LengthGrows
  <2>4. Length(Append(q, d)) = Length(q) + Wide(d)
    BY LengthGrows
  <2>5. Length(p) \in Nat /\ Length(q) \in Nat /\ Wide(d) \in {1, 2}
    BY LengthGrows DEF Wide
  <2>6. Len(Append(q, d)) = Len(q) + 1 /\ Len(q) \in Nat
    OBVIOUS
  <2>7. Length(p \o Append(q, d)) = Length(Append(p \o q, d))
    BY <2>1, Zenon DEF AppendLast
  <2>. QED BY <1>2, <2>3, <2>4, <2>5, <2>6, <2>7
<1>. HIDE DEF P
<1>3. /\ <<>> \in S
      /\ \A q \in Seq(Dots), d \in Dots : q \in S => Append(q, d) \in S
  BY <1>1, <1>2
<1>. HIDE DEF S
<1>4. Seq(Dots) \subseteq S
  BY <1>3, SeqInduction
<1>. QED BY <1>4 DEF S, P

\* The length of a text is the sum of what it is cut into.
LEMMA Utf16Cat ==
  ASSUME NEW a \in Seq(Split!Bytes), NEW b \in Seq(Split!Bytes)
  PROVE  /\ Split!Utf16(a) \in Nat /\ Split!Utf16(b) \in Nat
         /\ ~ EndsHalf(a) => Split!Utf16(a \o b) = Split!Utf16(a) + Split!Utf16(b)
         /\ b = <<>> => Split!Utf16(b) = 0
         /\ b # <<>> => Split!Utf16(b) > 0
<1>. DEFINE p == Split!Points(a)
            q == Split!Points(b)
<1>1. a \o b \in Seq(Split!Bytes)
  BY ConcatProperties
<1>2. /\ Split!Utf16(a) = Length(p) /\ Split!Utf16(b) = Length(q)
      /\ Split!Utf16(a \o b) = Length(Split!Points(a \o b))
  BY <1>1, LengthFold
<1>3. p \in Seq(Dots) /\ q \in Seq(Dots)
  BY PointsGrow
<1>4. ~ EndsHalf(a) => Split!Points(a \o b) = p \o q
  BY PointsCat
<1>5. b = <<>> <=> q = <<>>
  BY PointsEnd
<1>. HIDE DEF p, q
<1>6. Length(p) \in Nat /\ Length(q) \in Nat /\ Length(<<>>) = 0
  BY <1>3, LengthGrows
<1>7. Length(p \o q) = Length(p) + Length(q) /\ Length(q) >= Len(q)
  BY <1>3, LengthCat
<1>8. q # <<>> => Len(q) \in Nat \ {0}
  BY <1>3
<1>9. b = <<>> => Split!Utf16(b) = 0
  BY <1>2, <1>5, <1>6
<1>10. b # <<>> => Split!Utf16(b) > 0
  BY <1>2, <1>5, <1>6, <1>7, <1>8
<1>11. ~ EndsHalf(a) => Split!Utf16(a \o b) = Split!Utf16(a) + Split!Utf16(b)
  BY <1>2, <1>4, <1>7, Zenon
<1>. QED BY <1>2, <1>6, <1>9, <1>10, <1>11

\* What is kept of code points, read left to right, has no mark and no two
\* spaces in a row, and its words come from them.
Tidy(out, p) ==
  /\ \A i \in DOMAIN out : /\ out[i] \notin {"mark", "break", "tab", "emoji"}
                           /\ out[i] # "space" => \E j \in DOMAIN p : p[j] = out[i]
  /\ \A i \in 1 .. Len(out) - 1 : out[i] # "space" \/ out[i + 1] # "space"

\* What is kept stays tidy with a code point more.
LEMMA TidyAppend ==
  ASSUME NEW out \in Seq(Dots), NEW p \in Seq(Dots), NEW d \in Dots, Tidy(out, p),
         NEW e \in Dots, e \notin {"mark", "break", "tab", "emoji"}, e = "space" \/ e = d,
         e = "space" => out = <<>> \/ out[Len(out)] # "space"
  PROVE  Tidy(Append(out, e), Append(p, d))
<1>. DEFINE o == Append(out, e)
            r == Append(p, d)
<1>1. /\ Len(o) = Len(out) + 1 /\ DOMAIN o = 1 .. Len(out) + 1 /\ o[Len(out) + 1] = e
      /\ \A i \in 1 .. Len(out) : o[i] = out[i]
      /\ DOMAIN out = 1 .. Len(out) /\ Len(out) \in Nat
  OBVIOUS
<1>2. /\ DOMAIN r = 1 .. Len(p) + 1 /\ r[Len(p) + 1] = d
      /\ \A i \in 1 .. Len(p) : r[i] = p[i]
      /\ DOMAIN p = 1 .. Len(p) /\ Len(p) \in Nat
  OBVIOUS
<1>. HIDE DEF o, r
<1>3. ASSUME NEW i \in DOMAIN o
      PROVE  /\ o[i] \notin {"mark", "break", "tab", "emoji"}
             /\ o[i] # "space" => \E j \in DOMAIN r : r[j] = o[i]
  <2>1. CASE i = Len(out) + 1
    BY <1>1, <1>2, <2>1
  <2>2. CASE i \in 1 .. Len(out)
    <3>1. /\ out[i] \notin {"mark", "break", "tab", "emoji"}
          /\ out[i] # "space" => \E j \in DOMAIN p : p[j] = out[i]
      BY <1>1, <2>2 DEF Tidy
    <3>. QED BY <1>1, <1>2, <2>2, <3>1
  <2>. QED BY <1>1, <2>1, <2>2
<1>4. ASSUME NEW i \in 1 .. Len(o) - 1 PROVE o[i] # "space" \/ o[i + 1] # "space"
  <2>1. CASE i = Len(out)
    <3>1. o[i] = out[i] /\ o[i + 1] = e /\ out # <<>>
      BY <1>1, <2>1
    <3>. QED BY <2>1, <3>1
  <2>2. CASE i \in 1 .. Len(out) - 1
    <3>1. o[i] = out[i] /\ o[i + 1] = out[i + 1]
      BY <1>1, <2>2
    <3>. QED BY <2>2, <3>1 DEF Tidy
  <2>3. i = Len(out) \/ i \in 1 .. Len(out) - 1
    <3>1. Len(o) - 1 = Len(out) /\ Len(out) \in Nat
      BY <1>1
    <3>2. i \in 1 .. Len(out)
      BY <3>1
    <3>. QED BY <3>1, <3>2
  <2>. QED BY <2>1, <2>2, <2>3, Zenon
<1>. QED BY <1>3, <1>4 DEF Tidy, o, r

\* What is kept is tidy.
LEMMA KeptTidy == \A p \in Seq(Dots) : Tidy(Kept(p), p)
<1>. DEFINE S == {p \in Seq(Dots) : Tidy(Kept(p), p)}
<1>1. Tidy(<<>>, <<>>)
  BY DEF Tidy
<1>2. ASSUME NEW p \in Seq(Dots), NEW d \in Dots, Tidy(Kept(p), p)
      PROVE  Tidy(Kept(Append(p, d)), Append(p, d))
  <2>. DEFINE out == Kept(p)
  <2>1. out \in Seq(Dots) /\ Kept(Append(p, d)) = Keep(out, d)
    BY KeptGrows
  <2>. HIDE DEF out
  <2>s. "space" \in Dots
    BY DEF Dots, Split!Bytes
  <2>2. Tidy(out, Append(p, d))
    <3>1. \A j \in DOMAIN p : j \in DOMAIN Append(p, d) /\ Append(p, d)[j] = p[j]
      OBVIOUS
    <3>. QED BY <1>2, <3>1, Zenon DEF Tidy, out
  <2>3. Split!Last(out) = out[Len(out)]
    BY DEF Split!Last
  <2>t. Tidy(out, p)
    BY <1>2 DEF out
  <2>4. Keep(out, d) = out \/ Tidy(Keep(out, d), Append(p, d))
    <3>1. CASE d = "mark"
      BY <3>1, Zenon DEF Keep
    <3>2. CASE d \in {"break", "tab", "emoji"}
      <4>1. CASE out # <<>> /\ Split!Last(out) # "space"
        <5>1. Keep(out, d) = Append(out, "space")
          <6>1. d # "mark" /\ d # "space"
            BY <3>2
          <6>. QED BY <3>2, <4>1, <6>1, Zenon DEF Keep
        <5>2. Tidy(Append(out, "space"), Append(p, d))
          BY <2>1, <2>s, <2>t, <2>3, <4>1, TidyAppend
        <5>. QED BY <5>1, <5>2
      <4>2. CASE ~ (out # <<>> /\ Split!Last(out) # "space")
        <5>1. d # "mark" /\ d # "space"
          BY <3>2
        <5>. QED BY <3>2, <4>2, <5>1, Zenon DEF Keep
      <4>. QED BY <4>1, <4>2
    <3>3. CASE d = "space" /\ out # <<>> /\ Split!Last(out) = "space"
      <4>1. d # "mark" /\ d \notin {"break", "tab", "emoji"}
        BY <3>3
      <4>. QED BY <3>3, <4>1, Zenon DEF Keep
    <3>4. CASE /\ d # "mark" /\ d \notin {"break", "tab", "emoji"}
               /\ ~ (d = "space" /\ out # <<>> /\ Split!Last(out) = "space")
      <4>1. Keep(out, d) = Append(out, d)
        BY <3>4, Zenon DEF Keep
      <4>2. d \notin {"mark", "break", "tab", "emoji"}
        BY <3>4
      <4>3. Tidy(Append(out, d), Append(p, d))
        BY <2>1, <2>t, <2>3, <3>4, <4>2, TidyAppend
      <4>. QED BY <4>1, <4>3
    <3>. QED BY <3>1, <3>2, <3>3, <3>4
  <2>. QED BY <2>1, <2>2, <2>4
<1>3. /\ <<>> \in S
      /\ \A p \in Seq(Dots), d \in Dots : p \in S => Append(p, d) \in S
  BY <1>1, <1>2, KeptGrows
<1>. HIDE DEF S
<1>4. Seq(Dots) \subseteq S
  BY <1>3, SeqInduction
<1>. QED BY <1>4 DEF S

\* A text whose letters are whole, but for half of one at its end.
Parted(s) == \A i \in DOMAIN s : (s[i] = "trail") = (i > 1 /\ s[i - 1] = "lead")
\* Half a letter stands at the end of the code points at most.
Halves(p) == /\ \A j \in DOMAIN p : p[j] # "trail" /\ (p[j] = "lead" => j = Len(p))

\* A text of whole letters less its last byte, which ends a letter when half of one waits.
LEMMA PartedAppend ==
  ASSUME NEW s \in Seq(Split!Bytes), NEW b \in Split!Bytes, Parted(Append(s, b))
  PROVE  Parted(s) /\ (b = "trail" <=> EndsHalf(s))
<1>. DEFINE t == Append(s, b)
<1>1. /\ DOMAIN t = 1 .. Len(s) + 1 /\ t[Len(s) + 1] = b
      /\ \A i \in 1 .. Len(s) : t[i] = s[i]
      /\ DOMAIN s = 1 .. Len(s) /\ Len(s) \in Nat /\ (s = <<>> <=> Len(s) = 0)
  OBVIOUS
<1>0. Parted(t)
  OBVIOUS
<1>. HIDE DEF t
<1>2. Parted(s)
  <2>1. ASSUME NEW i \in DOMAIN s PROVE (s[i] = "trail") = (i > 1 /\ s[i - 1] = "lead")
    <3>1. i \in DOMAIN t /\ t[i] = s[i] /\ (i > 1 => i - 1 \in 1 .. Len(s))
      BY <1>1
    <3>2. (t[i] = "trail") = (i > 1 /\ t[i - 1] = "lead")
      BY <1>0, <3>1 DEF Parted
    <3>3. i > 1 => t[i - 1] = s[i - 1]
      BY <1>1, <3>1
    <3>. QED BY <3>1, <3>2, <3>3
  <2>. QED BY <2>1 DEF Parted
<1>3. b = "trail" <=> EndsHalf(s)
  <2>. DEFINE k == Len(s) + 1
  <2>1. k \in DOMAIN t /\ t[k] = b /\ (k > 1 <=> s # <<>>) /\ (k > 1 => t[k - 1] = s[Len(s)])
    BY <1>1
  <2>. HIDE DEF k
  <2>2. (t[k] = "trail") = (k > 1 /\ t[k - 1] = "lead")
    BY <1>0, <2>1 DEF Parted
  <2>. QED BY <2>1, <2>2 DEF EndsHalf
<1>. QED BY <1>2, <1>3

\* A byte that comes in its place leaves no half but at the end.
LEMMA JoinHalves ==
  ASSUME NEW p \in Seq(Dots), NEW b \in Split!Bytes, Halves(p), b = "trail" <=> EndsHalf(p)
  PROVE  Halves(Join(p, b))
<1>0. DOMAIN p = 1 .. Len(p) /\ Len(p) \in Nat /\ (p = <<>> <=> Len(p) = 0)
  OBVIOUS
<1>1. CASE b = "trail"
  <2>. DEFINE q == Split!Front(p)
              r == Append(q, "accent")
  <2>1. p # <<>> /\ p[Len(p)] = "lead"
    BY <1>1 DEF EndsHalf
  <2>2. /\ q \in Seq(Dots) /\ Len(q) = Len(p) - 1
        /\ \A i \in 1 .. Len(p) - 1 : q[i] = p[i]
    BY <2>1, FrontType
  <2>3. Join(p, b) = r
    BY <1>1, <2>1 DEF Join, Split!Last
  <2>. HIDE DEF q
  <2>4. /\ DOMAIN r = 1 .. Len(p) /\ Len(r) = Len(p) /\ r[Len(p)] = "accent"
        /\ \A i \in 1 .. Len(p) - 1 : r[i] = q[i]
    <3>1. /\ DOMAIN r = 1 .. Len(q) + 1 /\ Len(r) = Len(q) + 1 /\ r[Len(q) + 1] = "accent"
          /\ \A i \in 1 .. Len(q) : r[i] = q[i]
      BY <2>2
    <3>2. Len(q) + 1 = Len(p) /\ Len(q) = Len(p) - 1
      BY <1>0, <2>2
    <3>. HIDE DEF r
    <3>. QED BY <3>1, <3>2
  <2>. HIDE DEF r
  <2>5. ASSUME NEW j \in DOMAIN r PROVE r[j] # "trail" /\ (r[j] = "lead" => j = Len(r))
    <3>1. CASE j = Len(p)
      BY <2>4, <3>1
    <3>2. CASE j \in 1 .. Len(p) - 1
      <4>1. r[j] = p[j] /\ j \in DOMAIN p /\ j # Len(p)
        BY <1>0, <2>2, <2>4, <3>2
      <4>. QED BY <4>1 DEF Halves
    <3>3. j = Len(p) \/ j \in 1 .. Len(p) - 1
      BY <1>0, <2>4
    <3>. QED BY <3>1, <3>2, <3>3
  <2>. QED BY <2>3, <2>5 DEF Halves
<1>2. CASE b # "trail"
  <2>. DEFINE r == Append(p, b)
  <2>1. Join(p, b) = r
    BY <1>2 DEF Join
  <2>2. /\ DOMAIN r = 1 .. Len(p) + 1 /\ Len(r) = Len(p) + 1 /\ r[Len(p) + 1] = b
        /\ \A i \in 1 .. Len(p) : r[i] = p[i]
    BY <1>0
  <2>. HIDE DEF r
  <2>3. ASSUME NEW j \in DOMAIN r PROVE r[j] # "trail" /\ (r[j] = "lead" => j = Len(r))
    <3>1. CASE j = Len(p) + 1
      BY <1>2, <2>2, <3>1
    <3>2. CASE j \in 1 .. Len(p)
      <4>1. r[j] = p[j] /\ j \in DOMAIN p
        BY <1>0, <2>2, <3>2
      <4>2. p[j] # "trail" /\ (p[j] = "lead" => j = Len(p))
        BY <4>1 DEF Halves
      <4>3. p[j] # "lead"
        <5>1. ASSUME p[j] = "lead" PROVE FALSE
          <6>1. p # <<>> /\ p[Len(p)] = "lead"
            BY <1>0, <4>1, <4>2, <5>1
          <6>. QED BY <1>2, <6>1 DEF EndsHalf
        <5>. QED BY <5>1
      <4>. QED BY <4>1, <4>2, <4>3
    <3>3. j = Len(p) + 1 \/ j \in 1 .. Len(p)
      BY <1>0, <2>2
    <3>. QED BY <3>1, <3>2, <3>3
  <2>. QED BY <2>1, <2>3 DEF Halves
<1>. QED BY <1>1, <1>2

\* The code points of a text of whole letters hold no half but at the end.
LEMMA PointsHalves == \A s \in Seq(Split!Bytes) : Parted(s) => Halves(Split!Points(s))
<1>. DEFINE P(s) == Parted(s) => Halves(Split!Points(s))
            S == {s \in Seq(Split!Bytes) : P(s)}
<1>1. P(<<>>)
  BY PointsGrow DEF Halves
<1>2. ASSUME NEW s \in Seq(Split!Bytes), NEW b \in Split!Bytes, P(s) PROVE P(Append(s, b))
  <2>. SUFFICES ASSUME Parted(Append(s, b)) PROVE Halves(Split!Points(Append(s, b)))
    OBVIOUS
  <2>1. Parted(s) /\ (b = "trail" <=> EndsHalf(s))
    BY PartedAppend
  <2>2. Split!Points(s) \in Seq(Dots) /\ Split!Points(Append(s, b)) = Join(Split!Points(s), b)
    BY PointsGrow
  <2>3. EndsHalf(Split!Points(s)) <=> EndsHalf(s)
    BY PointsEnd
  <2>4. Halves(Split!Points(s))
    BY <1>2, <2>1
  <2>5. Halves(Join(Split!Points(s), b))
    BY <2>1, <2>2, <2>3, <2>4, JoinHalves
  <2>. QED BY <2>2, <2>5
<1>. HIDE DEF P
<1>3. /\ <<>> \in S
      /\ \A s \in Seq(Split!Bytes), b \in Split!Bytes : s \in S => Append(s, b) \in S
  BY <1>1, <1>2
<1>. HIDE DEF S
<1>4. Seq(Split!Bytes) \subseteq S
  BY <1>3, SeqInduction
<1>. QED BY <1>4 DEF S, P

\* Min picks the smallest element of a part of 1 .. m: the first place to cut.
LEMMA Smallest ==
  ASSUME NEW m \in Nat, NEW T, T \subseteq 1 .. m, T # {}
  PROVE  Split!Min(T) \in T /\ \A y \in T : Split!Min(T) <= y
<1>. DEFINE U == {(m - x) + 1 : x \in T}
<1>1. U \subseteq 1 .. m /\ U # {} /\ \A x \in T : x \in 1 .. m
  <2>1. \A x \in T : x \in 1 .. m /\ (m - x) + 1 \in 1 .. m
    OBVIOUS
  <2>2. \E x : x \in T
    OBVIOUS
  <2>. QED BY <2>1, <2>2
<1>. HIDE DEF U
<1>2. PICK u \in U : \A z \in U : z <= u
  BY <1>1, HasLargest
<1>3. PICK x \in T : u = (m - x) + 1
  BY DEF U
<1>4. \A z \in T : (m - z) + 1 <= (m - x) + 1
  BY <1>2, <1>3 DEF U
<1>5. \E v \in T : \A y \in T : v <= y
  BY <1>1, <1>4
<1>. QED BY <1>5 DEF Split!Min

\* What is kept for the ear is words, and a sentence if no letter is parted.
LEMMA CleanIsWords ==
  ASSUME NEW s \in Seq(Split!Bytes)
  PROVE  /\ Split!Clean(s) \in Seq(Dots) /\ Split!Words(Split!Clean(s))
         /\ Split!Clean(s) # <<>> /\ Parted(s) /\ ~ EndsHalf(s) => Split!Sentence(Split!Clean(s))
<1>. DEFINE p == Split!Points(s)
            out == Kept(p)
            said == {i \in DOMAIN out : out[i] # "space"}
            lo == Split!Min(said)
            hi == Split!Max(said)
<1>1. p \in Seq(Dots)
  BY PointsGrow
<1>2. out \in Seq(Dots) /\ Tidy(out, p)
  <2>. HIDE DEF p
  <2>. QED BY <1>1, KeptGrows, KeptTidy
<1>3. Split!Clean(s) = IF {out[i] : i \in DOMAIN out} \cap Split!Spoken = {}
                       THEN <<>> ELSE SubSeq(out, lo, hi)
  BY KeptFold
<1>4. Parted(s) /\ ~ EndsHalf(s) => Halves(p) /\ ~ EndsHalf(p)
  BY PointsHalves, PointsEnd
<1>. HIDE DEF p
<1>5. CASE {out[i] : i \in DOMAIN out} \cap Split!Spoken = {}
  <2>1. Split!Clean(s) = <<>>
    BY <1>3, <1>5
  <2>2. <<>> \in Seq(Dots) /\ Split!Words(<<>>)
    BY DEF Split!Words
  <2>. QED BY <2>1, <2>2
<1>6. CASE {out[i] : i \in DOMAIN out} \cap Split!Spoken # {}
  <2>1. PICK x \in DOMAIN out : out[x] \in Split!Spoken
    BY <1>6
  <2>2. out[x] # "space"
    BY <2>1 DEF Split!Spoken
  <2>. HIDE DEF out
  <2>3. said \subseteq 1 .. Len(out) /\ x \in said /\ Len(out) \in Nat
    BY <1>2, <2>2
  <2>4. /\ lo \in said /\ \A y \in said : lo <= y
        /\ hi \in said /\ \A y \in said : y <= hi
    <3>. HIDE DEF said
    <3>. QED BY <2>3, Smallest, Largest
  <2>5. /\ lo \in 1 .. Len(out) /\ hi \in 1 .. Len(out) /\ lo <= x /\ x <= hi
        /\ out[lo] # "space" /\ out[hi] # "space" /\ x \in Nat
    BY <2>3, <2>4
  <2>6. \A k \in DOMAIN out : /\ out[k] \notin {"mark", "break", "tab", "emoji"}
                              /\ out[k] # "space" => \E j \in DOMAIN p : p[j] = out[k]
    BY <1>2, Zenon DEF Tidy
  <2>7. \A k \in 1 .. Len(out) - 1 : out[k] # "space" \/ out[k + 1] # "space"
    BY <1>2, Zenon DEF Tidy
  <2>. HIDE DEF said, lo, hi
  <2>. DEFINE r == SubSeq(out, lo, hi)
              n == hi - lo + 1
  <2>8. /\ r \in Seq(Dots) /\ Len(r) = n /\ DOMAIN r = 1 .. n /\ n \in Nat \ {0}
        /\ \A k \in 1 .. n : r[k] = out[lo + k - 1] /\ lo + k - 1 \in 1 .. Len(out)
    BY <1>2, <2>5
  <2>9. DOMAIN out = 1 .. Len(out)
    BY <1>2
  <2>10. Split!Clean(s) = r
    BY <1>3, <1>6, Zenon
  <2>11. lo + n - 1 = hi /\ lo + 1 - 1 = lo
    BY <2>5
  <2>12. x - lo + 1 \in 1 .. n /\ lo + (x - lo + 1) - 1 = x
    BY <2>5
  <2>. HIDE DEF r, n
  <2>13. {r[k] : k \in DOMAIN r} \cap {"mark", "break", "tab", "emoji"} = {}
    BY <2>6, <2>8, <2>9
  <2>14. r[1] # "space" /\ Split!Last(r) # "space"
    <3>1. 1 \in 1 .. n /\ n \in 1 .. n
      BY <2>8
    <3>2. r[1] = out[lo] /\ r[n] = out[hi]
      BY <2>8, <2>11, <3>1
    <3>. QED BY <2>5, <2>8, <3>2 DEF Split!Last
  <2>15. ASSUME NEW k \in 1 .. Len(r) - 1 PROVE r[k] # "space" \/ r[k + 1] # "space"
    <3>1. k \in 1 .. n /\ k + 1 \in 1 .. n /\ k \in Nat
      BY <2>8
    <3>. DEFINE i == lo + k - 1
    <3>2. r[k] = out[i] /\ r[k + 1] = out[lo + (k + 1) - 1] /\ lo + (k + 1) - 1 \in 1 .. Len(out)
      BY <2>8, <3>1
    <3>3. i + 1 = lo + (k + 1) - 1 /\ i \in 1 .. Len(out) - 1
      BY <2>3, <2>5, <3>1, <3>2
    <3>. HIDE DEF i
    <3>. QED BY <2>7, <3>2, <3>3
  <2>16. Split!Words(r)
    BY <2>13, <2>14, <2>15, Zenon DEF Split!Words
  <2>17. ASSUME Halves(p), ~ EndsHalf(p) PROVE Split!Sentence(r)
    <3>1. ASSUME NEW j \in DOMAIN p PROVE p[j] \notin {"lead", "trail"}
      <4>1. p[j] # "trail" /\ (p[j] = "lead" => j = Len(p))
        BY <2>17 DEF Halves
      <4>2. p # <<>>
        BY <1>1
      <4>3. j = Len(p) => p[j] # "lead"
        BY <2>17, <4>2 DEF EndsHalf
      <4>. QED BY <4>1, <4>3
    <3>2. \A k \in DOMAIN out : out[k] \notin {"lead", "trail"}
      BY <2>6, <3>1
    <3>3. {r[k] : k \in DOMAIN r} \cap {"lead", "trail"} = {}
      BY <2>8, <2>9, <3>2
    <3>4. r[x - lo + 1] = out[x]
      BY <2>8, <2>12
    <3>5. out[x] \in {"letter", "accent"}
      BY <2>1, <3>2 DEF Split!Spoken
    <3>6. {r[k] : k \in DOMAIN r} \cap {"letter", "accent"} # {}
      BY <2>8, <2>12, <3>4, <3>5
    <3>. QED BY <3>3, <3>6, Zenon DEF Split!Sentence
  <2>. QED BY <1>4, <2>8, <2>10, <2>16, <2>17
<1>. QED BY <1>5, <1>6

(* --------------------------- the cuts of a text ------------------------ *)

\* Where the unit that ends at c begins, the unit, and those that end by n.
From(t, c) == Split!Max({0} \cup {b \in Split!Cuts(t) : b < c})
Piece(t, c) == Split!Unit(Split!Clean(SubSeq(t, From(t, c) + 1, c)),
                          Split!Utf16(SubSeq(t, 1, c)))
UnitsTo(t, n) == {u \in {Piece(t, c) : c \in {k \in Split!Cuts(t) : k <= n}} : u.text # <<>>}
\* A place where t is cut whatever follows it.
CutsAt(t, a) == a = 0 \/ a \in Split!Cuts(t)

\* The units of a whole text are those that end by its end.
LEMMA UnitsToEnd ==
  ASSUME NEW t \in Seq(Split!Bytes) PROVE Split!UnitsOf(t) = UnitsTo(t, Len(t))
<1>1. {k \in Split!Cuts(t) : k <= Len(t)} = Split!Cuts(t)
  BY DEF Split!Cuts
<1>2. UnitsTo(t, Len(t)) = {u \in {Piece(t, c) : c \in Split!Cuts(t)} : u.text # <<>>}
  BY <1>1, Zenon DEF UnitsTo
<1>. QED BY <1>2, Zenon DEF Split!UnitsOf, Piece, From

\* A cut is after a break or a terminator.
LEMMA CutsType ==
  ASSUME NEW t \in Seq(Split!Bytes)
  PROVE  /\ Split!Cuts(t) \subseteq 1 .. Len(t) /\ Len(t) \in Nat
         /\ \A c \in Split!Cuts(t) : t[c] \in {"break", "stop"}
BY DEF Split!Cuts

\* The largest of 0 and some cuts.
LEMMA MaxOfCuts ==
  ASSUME NEW m \in Nat, NEW C, C \subseteq 1 .. m
  PROVE  /\ Split!Max({0} \cup C) \in {0} \cup C
         /\ \A y \in {0} \cup C : y <= Split!Max({0} \cup C)
<1>. DEFINE U == {x + 1 : x \in {0} \cup C}
<1>1. U \subseteq 1 .. m + 1 /\ U # {} /\ \A x \in {0} \cup C : x \in Nat
  <2>1. \A x \in {0} \cup C : x \in Nat /\ x + 1 \in 1 .. m + 1
    OBVIOUS
  <2>2. \E x : x \in {0} \cup C
    OBVIOUS
  <2>. QED BY <2>1, <2>2
<1>. HIDE DEF U
<1>w. m + 1 \in Nat
  OBVIOUS
<1>2. PICK u \in U : \A z \in U : z <= u
  BY <1>1, <1>w, HasLargest
<1>3. PICK x \in {0} \cup C : u = x + 1
  BY DEF U
<1>4. \A z \in {0} \cup C : z + 1 <= x + 1
  BY <1>2, <1>3 DEF U
<1>5. \E v \in {0} \cup C : \A y \in {0} \cup C : v >= y
  BY <1>1, <1>4
<1>. DEFINE V == {0} \cup C
<1>. HIDE DEF V
<1>6. Split!Max(V) \in V /\ \A y \in V : Split!Max(V) >= y
  BY <1>5, Zenon DEF Split!Max, V
<1>7. \A x1, y \in V : x1 >= y => y <= x1
  BY <1>1 DEF V
<1>. QED BY <1>6, <1>7 DEF V

\* A unit begins where the one before it ends.
LEMMA FromType ==
  ASSUME NEW t \in Seq(Split!Bytes), NEW c \in Split!Cuts(t)
  PROVE  /\ From(t, c) \in 0 .. c - 1 /\ CutsAt(t, From(t, c))
         /\ \A b \in Split!Cuts(t) : b < c => b <= From(t, c)
<1>. DEFINE C == {b \in Split!Cuts(t) : b < c}
<1>1. C \subseteq 1 .. Len(t) /\ Len(t) \in Nat /\ c \in 1 .. Len(t)
  BY CutsType
<1>2. \A b \in C : b \in Split!Cuts(t) /\ b < c
  OBVIOUS
<1>3. From(t, c) = Split!Max({0} \cup C)
  BY Zenon DEF From
<1>. HIDE DEF C
<1>4. From(t, c) \in {0} \cup C /\ \A y \in {0} \cup C : y <= From(t, c)
  BY <1>1, <1>3, MaxOfCuts
<1>5. From(t, c) \in 0 .. c - 1 /\ CutsAt(t, From(t, c))
  <2>. DEFINE f == From(t, c)
  <2>. HIDE DEF f
  <2>1. f = 0 \/ f \in C
    BY <1>4 DEF f
  <2>c. c \in Nat \ {0}
    BY <1>1
  <2>2. f \in Nat /\ f < c /\ c \in Nat /\ (f = 0 \/ f \in Split!Cuts(t))
    <3>1. CASE f = 0
      BY <2>c, <3>1
    <3>2. CASE f \in C
      <4>1. f \in Split!Cuts(t) /\ f < c /\ f \in 1 .. Len(t)
        BY <1>1, <1>2, <3>2
      <4>. QED BY <1>1, <2>c, <4>1
    <3>. QED BY <2>1, <3>1, <3>2
  <2>3. f \in 0 .. c - 1
    BY <2>2
  <2>. QED BY <2>2, <2>3 DEF f, CutsAt
<1>. QED BY <1>4, <1>5 DEF C

\* The cuts of a text up to one of them stay as it grows.
LEMMA CutsStay ==
  ASSUME NEW t \in Seq(Split!Bytes), NEW d \in Seq(Split!Bytes), NEW a \in 0 .. Len(t), CutsAt(t, a)
  PROVE  /\ CutsAt(t \o d, a)
         /\ \A c \in 1 .. a : c \in Split!Cuts(t) <=> c \in Split!Cuts(t \o d)
<1>. DEFINE s == t \o d
<1>1. /\ DOMAIN t = 1 .. Len(t) /\ Len(t) \in Nat /\ Len(d) \in Nat
      /\ s \in Seq(Split!Bytes) /\ Len(s) = Len(t) + Len(d) /\ DOMAIN s = 1 .. Len(t) + Len(d)
      /\ \A i \in 1 .. Len(t) : s[i] = t[i]
  BY ConcatProperties
<1>. HIDE DEF s
<1>2. ASSUME NEW c \in 1 .. Len(t), c < Len(t) PROVE c \in Split!Cuts(t) <=> c \in Split!Cuts(s)
  <2>1. c \in DOMAIN t /\ c \in DOMAIN s /\ c < Len(s) /\ c + 1 \in 1 .. Len(t)
    BY <1>1, <1>2
  <2>2. s[c] = t[c] /\ s[c + 1] = t[c + 1]
    BY <1>1, <2>1
  <2>. QED BY <1>2, <2>1, <2>2 DEF Split!Cuts
<1>3. ASSUME Len(t) \in Split!Cuts(t) PROVE Len(t) \in Split!Cuts(s)
  <2>1. t[Len(t)] = "break" /\ Len(t) \in 1 .. Len(t)
    BY <1>1, <1>3 DEF Split!Cuts
  <2>2. s[Len(t)] = "break" /\ Len(t) \in DOMAIN s
    BY <1>1, <2>1
  <2>. QED BY <2>2 DEF Split!Cuts
<1>4. ASSUME a # 0 PROVE a \in Split!Cuts(s)
  <2>1. a \in Split!Cuts(t) /\ a \in 1 .. Len(t)
    BY <1>1, <1>4 DEF CutsAt
  <2>. QED BY <1>1, <1>2, <1>3, <2>1
<1>5. ASSUME NEW c \in 1 .. a PROVE c \in Split!Cuts(t) <=> c \in Split!Cuts(s)
  <2>. DEFINE n == Len(t)
  <2>0. n \in Nat /\ a \in 0 .. n
    BY <1>1
  <2>. HIDE DEF n
  <2>1. c \in 1 .. n /\ (c < n \/ (c = n /\ c = a /\ a # 0))
    BY <2>0
  <2>2. CASE c < n
    BY <1>2, <2>1, <2>2 DEF n
  <2>3. CASE c = n /\ c = a /\ a # 0
    BY <1>4, <2>3 DEF CutsAt
  <2>. QED BY <2>1, <2>2, <2>3
<1>. QED BY <1>4, <1>5 DEF CutsAt, s

\* A unit cut from a text stays the same as the text grows.
LEMMA PieceStays ==
  ASSUME NEW t \in Seq(Split!Bytes), NEW d \in Seq(Split!Bytes),
         NEW a \in 0 .. Len(t), CutsAt(t, a),
         NEW c \in Split!Cuts(t), c <= a
  PROVE  Piece(t \o d, c) = Piece(t, c)
<1>. DEFINE s == t \o d
<1>1. c \in 1 .. Len(t) /\ c \in 1 .. a /\ Len(t) \in Nat /\ Split!Cuts(t) \subseteq 1 .. Len(t)
  BY CutsType
<1>2. s \in Seq(Split!Bytes)
  BY ConcatProperties
<1>3. Split!Cuts(s) \subseteq 1 .. Len(s) /\ Len(s) \in Nat
  BY <1>2, CutsType
<1>4. \A k \in 1 .. a : k \in Split!Cuts(t) <=> k \in Split!Cuts(s)
  BY CutsStay
<1>5. {b \in Split!Cuts(t) : b < c} = {b \in Split!Cuts(s) : b < c}
  <2>1. \A b \in Split!Cuts(t) : b < c => b \in 1 .. a
    BY <1>1
  <2>2. \A b \in Split!Cuts(s) : b < c => b \in 1 .. a
    BY <1>1, <1>3
  <2>. QED BY <1>4, <2>1, <2>2
<1>6. From(s, c) = From(t, c)
  BY <1>5, Zenon DEF From
<1>7. From(t, c) \in 0 .. c - 1
  BY FromType
<1>8. ASSUME NEW k \in 1 .. c PROVE SubSeq(s, k, c) = SubSeq(t, k, c)
  <2>1. k \in 1 .. Len(t)
    BY <1>1
  <2>. QED BY <1>1, <2>1, SubSeqOfConcat1
<1>9. From(t, c) + 1 \in 1 .. c /\ 1 \in 1 .. c
  BY <1>1, <1>7
<1>10. /\ SubSeq(s, From(s, c) + 1, c) = SubSeq(t, From(t, c) + 1, c)
       /\ SubSeq(s, 1, c) = SubSeq(t, 1, c)
  BY <1>6, <1>8, <1>9
<1>. QED BY <1>10, Zenon DEF Piece

\* So do all of them up to a cut.
LEMMA UnitsStay ==
  ASSUME NEW t \in Seq(Split!Bytes), NEW d \in Seq(Split!Bytes), NEW a \in 0 .. Len(t), CutsAt(t, a)
  PROVE  UnitsTo(t \o d, a) = UnitsTo(t, a)
<1>1. Split!Cuts(t) \subseteq 1 .. Len(t) /\ Len(t) \in Nat
  BY CutsType
<1>2. t \o d \in Seq(Split!Bytes)
  BY ConcatProperties
<1>3. Split!Cuts(t \o d) \subseteq 1 .. Len(t \o d) /\ Len(t \o d) \in Nat
  BY <1>2, CutsType
<1>4. {k \in Split!Cuts(t) : k <= a} = {k \in Split!Cuts(t \o d) : k <= a}
  <2>1. \A k \in 1 .. a : k \in Split!Cuts(t) <=> k \in Split!Cuts(t \o d)
    BY CutsStay
  <2>2. \A k \in Split!Cuts(t) \cup Split!Cuts(t \o d) : k <= a => k \in 1 .. a
    BY <1>1, <1>3
  <2>. QED BY <2>1, <2>2
<1>5. \A c \in {k \in Split!Cuts(t) : k <= a} : Piece(t \o d, c) = Piece(t, c)
  BY PieceStays
<1>. QED BY <1>4, <1>5 DEF UnitsTo

(* ------------------------------ the splitter --------------------------- *)

Texts == Seq(Split!Bytes)
\* What follows the first a bytes of t.
Rest(t, a) == SubSeq(t, a + 1, Len(t))

\* The rest of a text.
LEMMA RestType ==
  ASSUME NEW t \in Texts, NEW a \in 0 .. Len(t)
  PROVE  /\ Rest(t, a) \in Texts /\ Len(Rest(t, a)) = Len(t) - a
         /\ \A i \in 1 .. Len(t) - a : Rest(t, a)[i] = t[a + i]
<1>. DEFINE B == Split!Bytes
            m == a + 1
            n == Len(t)
<1>1. t \in Seq(B) /\ m \in Int /\ n \in Int /\ n \in Nat /\ a \in 0 .. n
  BY DEF Texts
<1>2. \A i \in m .. n : t[i] \in B
  <2>1. \A i \in 1 .. n : t[i] \in B
    BY <1>1, ElementOfSeq
  <2>. QED BY <1>1, <2>1
<1>. HIDE DEF B, n
<1>3. /\ SubSeq(t, m, n) \in Seq(B)
      /\ Len(SubSeq(t, m, n)) = IF m <= n THEN n - m + 1 ELSE 0
      /\ \A i \in 1 .. n - m + 1 : SubSeq(t, m, n)[i] = t[m + i - 1]
  <2>. HIDE DEF m
  <2>. QED BY <1>1, <1>2, SubSeqProperties
<1>4. Rest(t, a) = SubSeq(t, m, n)
  BY DEF Rest, n
<1>5. n - m + 1 = n - a /\ (IF m <= n THEN n - m + 1 ELSE 0) = n - a
  BY <1>1
<1>6. \A i \in 1 .. n - a : m + i - 1 = a + i
  BY <1>1
<1>. HIDE DEF m
<1>7. Len(SubSeq(t, m, n)) = n - a
  BY <1>3, <1>5
<1>8. \A i \in 1 .. n - a : SubSeq(t, m, n)[i] = t[a + i]
  BY <1>3, <1>5, <1>6
<1>. QED BY <1>3, <1>4, <1>7, <1>8 DEF Texts, B, n

\* A delta comes at the end of the rest.
LEMMA RestGrows ==
  ASSUME NEW t \in Texts, NEW d \in Texts, NEW a \in 0 .. Len(t)
  PROVE  /\ t \o d \in Texts /\ Len(t \o d) = Len(t) + Len(d) /\ a \in 0 .. Len(t \o d)
         /\ Rest(t \o d, a) = Rest(t, a) \o d
         /\ SubSeq(t \o d, 1, a) = SubSeq(t, 1, a)
<1>. DEFINE s == t \o d
            p == Rest(t, a)
            q == Rest(s, a)
            l == Len(t)
            m == Len(d)
<1>0. l \in Nat /\ m \in Nat /\ a \in 0 .. l
  BY DEF Texts
<1>1. /\ s \in Texts /\ Len(s) = l + m
      /\ \A i \in 1 .. l + m : s[i] = IF i <= l THEN t[i] ELSE d[i - l]
  BY ConcatProperties DEF Texts
<1>2. a \in 0 .. Len(s)
  BY <1>0, <1>1
<1>3. /\ p \in Texts /\ Len(p) = l - a
      /\ \A i \in 1 .. l - a : p[i] = t[a + i]
  BY RestType
<1>. HIDE DEF s
<1>4. /\ q \in Texts /\ Len(q) = Len(s) - a
      /\ \A i \in 1 .. Len(s) - a : q[i] = s[a + i]
  BY <1>1, <1>2, RestType
<1>. HIDE DEF p, q
<1>5. /\ p \o d \in Texts /\ Len(p \o d) = (l - a) + m
      /\ \A i \in 1 .. (l - a) + m : (p \o d)[i] = IF i <= l - a THEN p[i] ELSE d[i - (l - a)]
  <2>. DEFINE k == Len(p)
  <2>1. /\ p \o d \in Texts /\ Len(p \o d) = k + m
        /\ \A i \in 1 .. k + m : (p \o d)[i] = IF i <= k THEN p[i] ELSE d[i - k]
    BY <1>3, ConcatProperties DEF Texts
  <2>2. k = l - a
    BY <1>3
  <2>. HIDE DEF k, l, m
  <2>. QED BY <2>1, <2>2
<1>. DEFINE r == p \o d
<1>. HIDE DEF r, l, m
<1>6. Len(r) = Len(q) /\ Len(q) = (l + m) - a
  BY <1>0, <1>1, <1>4, <1>5 DEF r
<1>7. ASSUME NEW i \in 1 .. Len(q) PROVE q[i] = r[i]
  <2>1. i \in 1 .. (l + m) - a /\ i \in 1 .. (l - a) + m /\ a + i \in 1 .. l + m
    BY <1>0, <1>6
  <2>2. q[i] = s[a + i] /\ s[a + i] = IF a + i <= l THEN t[a + i] ELSE d[(a + i) - l]
    BY <1>1, <1>4, <2>1
  <2>3. r[i] = IF i <= l - a THEN p[i] ELSE d[i - (l - a)]
    BY <1>5, <2>1 DEF r
  <2>4. CASE a + i <= l
    <3>1. i <= l - a /\ i \in 1 .. l - a
      BY <1>0, <2>1, <2>4
    <3>. QED BY <1>3, <2>2, <2>3, <2>4, <3>1
  <2>5. CASE ~ (a + i <= l)
    <3>1. ~ (i <= l - a) /\ (a + i) - l = i - (l - a)
      BY <1>0, <2>1, <2>5
    <3>. QED BY <2>2, <2>3, <2>5, <3>1
  <2>. QED BY <2>4, <2>5
<1>8. q = r
  <2>1. q \in Texts /\ r \in Texts
    BY <1>4, <1>5 DEF r
  <2>. QED BY <1>6, <1>7, <2>1, SeqEqual DEF Texts
<1>9. SubSeq(s, 1, a) = SubSeq(t, 1, a)
  <2>1. CASE a = 0
    <3>1. SubSeq(s, 1, 0) = <<>> /\ SubSeq(t, 1, 0) = <<>>
      BY SubSeqEmpty
    <3>. QED BY <2>1, <3>1
  <2>2. CASE a # 0
    <3>1. 1 \in 1 .. l /\ a \in 1 .. l
      BY <1>0, <2>2
    <3>. QED BY <3>1, SubSeqOfConcat1 DEF Texts, s, l
  <2>. QED BY <2>1, <2>2
<1>. QED BY <1>1, <1>2, <1>8, <1>9 DEF s, p, q, r, l, m

\* A cut takes the head of the rest, and leaves the rest after it.
LEMMA RestCut ==
  ASSUME NEW t \in Texts, NEW a \in 0 .. Len(t), NEW c \in a + 1 .. Len(t)
  PROVE  /\ SubSeq(Rest(t, a), 1, c - a) = SubSeq(t, a + 1, c)
         /\ SubSeq(Rest(t, a), (c - a) + 1, Len(Rest(t, a))) = Rest(t, c)
         /\ SubSeq(t, 1, a) \o SubSeq(t, a + 1, c) = SubSeq(t, 1, c)
<1>. DEFINE l == Len(t)
            p == Rest(t, a)
            k == c - a
<1>0. l \in Nat /\ a \in 0 .. l /\ c \in a + 1 .. l
  BY DEF Texts
<1>1. p \in Texts /\ Len(p) = l - a
  BY RestType
<1>2. p = SubSeq(t, a + 1, l)
  BY DEF Rest
<1>. HIDE DEF p, l
<1>3. /\ a + 1 \in 1 .. l /\ l \in 1 .. l
      /\ k \in 1 .. (l - (a + 1)) + 1 /\ 1 \in 1 .. (l - (a + 1)) + 1
  BY <1>0
<1>4. SubSeq(p, 1, k) = SubSeq(t, a + 1, c)
  <2>1. ((a + 1) + 1) - 1 = a + 1 /\ ((a + 1) + k) - 1 = c
    BY <1>0
  <2>. HIDE DEF k
  <2>. DEFINE i == a + 1
  <2>. HIDE DEF i
  <2>2. SubSeq(SubSeq(t, i, l), 1, k) = SubSeq(t, (i + 1) - 1, (i + k) - 1)
    BY <1>3, SubSeqOfSubSeq DEF Texts, i, l
  <2>. QED BY <1>2, <2>1, <2>2 DEF i
<1>5. SubSeq(p, k + 1, Len(p)) = SubSeq(t, c + 1, l)
  <2>1. CASE c = l
    <3>1. /\ Len(p) < k + 1 /\ k + 1 \in Int /\ Len(p) \in Int
          /\ l < c + 1 /\ c + 1 \in Int /\ l \in Int
      BY <1>0, <1>1, <2>1
    <3>. HIDE DEF k
    <3>2. SubSeq(p, k + 1, Len(p)) = <<>> /\ SubSeq(t, c + 1, l) = <<>>
      BY <3>1, SubSeqEmpty
    <3>. QED BY <3>2
  <2>2. CASE c # l
    <3>. DEFINE i == a + 1
                m == k + 1
                n == l - a
    <3>1. /\ i \in 1 .. l /\ m \in 1 .. (l - i) + 1 /\ n \in 1 .. (l - i) + 1
          /\ (i + m) - 1 = c + 1 /\ (i + n) - 1 = l
      BY <1>0, <2>2
    <3>. HIDE DEF i, m, n
    <3>2. SubSeq(SubSeq(t, i, l), m, n) = SubSeq(t, (i + m) - 1, (i + n) - 1)
      BY <1>3, <3>1, SubSeqOfSubSeq DEF Texts, l
    <3>. QED BY <1>1, <1>2, <3>1, <3>2 DEF i, m, n
  <2>. QED BY <2>1, <2>2
<1>6. SubSeq(t, 1, a) \o SubSeq(t, a + 1, c) = SubSeq(t, 1, c)
  <2>1. 1 \in 1 .. l + 1 /\ a \in 1 - 1 .. l /\ c \in a .. l
    BY <1>0
  <2>. QED BY <2>1, ConcatAdjacentSubSeq DEF Texts, l
<1>. QED BY <1>4, <1>5, <1>6 DEF Rest, p, k, l


\* c is the first cut of t after the place a, where it was cut too.
FirstCut(t, a, c) ==
  /\ t \in Texts /\ a \in 0 .. Len(t) /\ CutsAt(t, a)
  /\ c \in Split!Cuts(t) /\ a < c
  /\ \A b \in Split!Cuts(t) : b < c => b <= a

\* The unit that the first cut ends.
LEMMA FirstCutEnds ==
  ASSUME NEW t, NEW a, NEW c, FirstCut(t, a, c)
  PROVE  /\ c \in a + 1 .. Len(t) /\ c \in 0 .. Len(t) /\ CutsAt(t, c)
         /\ From(t, c) = a
         /\ Piece(t, c) = Split!Unit(Split!Clean(SubSeq(t, a + 1, c)), Split!Utf16(SubSeq(t, 1, c)))
<1>0. /\ t \in Seq(Split!Bytes) /\ c \in Split!Cuts(t) /\ a < c /\ CutsAt(t, a) /\ a \in 0 .. Len(t)
      /\ \A b \in Split!Cuts(t) : b < c => b <= a
  BY DEF FirstCut, Texts
<1>1. c \in 1 .. Len(t) /\ Len(t) \in Nat
  BY <1>0, CutsType
<1>2. From(t, c) \in 0 .. c - 1 /\ CutsAt(t, From(t, c))
      /\ \A b \in Split!Cuts(t) : b < c => b <= From(t, c)
  BY <1>0, FromType
<1>. DEFINE f == From(t, c)
<1>3. f = a
  <2>. HIDE DEF f
  <2>1. f \in Nat /\ f < c /\ (f = 0 \/ f \in Split!Cuts(t))
    BY <1>1, <1>2 DEF f, CutsAt
  <2>2. f <= a
    BY <1>0, <2>1
  <2>3. a <= f
    BY <1>0, <1>2, <2>1 DEF CutsAt, f
  <2>. QED BY <1>0, <2>1, <2>2, <2>3
<1>4. c \in a + 1 .. Len(t) /\ c \in 0 .. Len(t) /\ CutsAt(t, c)
  BY <1>0, <1>1 DEF CutsAt
<1>5. Piece(t, c) = Split!Unit(Split!Clean(SubSeq(t, a + 1, c)), Split!Utf16(SubSeq(t, 1, c)))
  BY <1>3, Zenon DEF Piece, f
<1>. QED BY <1>3, <1>4, <1>5 DEF f

\* One unit more, if it says something.
LEMMA FirstCutUnits ==
  ASSUME NEW t, NEW a, NEW c, FirstCut(t, a, c)
  PROVE  UnitsTo(t, c) = UnitsTo(t, a) \cup {u \in {Piece(t, c)} : u.text # <<>>}
<1>1. /\ t \in Seq(Split!Bytes) /\ c \in Split!Cuts(t) /\ a < c /\ a \in 0 .. Len(t)
      /\ \A b \in Split!Cuts(t) : b < c => b <= a
  BY DEF FirstCut, Texts
<1>2. Split!Cuts(t) \subseteq 1 .. Len(t) /\ Len(t) \in Nat
  BY <1>1, CutsType
<1>3. \A k \in Split!Cuts(t) : k <= c <=> k <= a \/ k = c
  BY <1>1, <1>2
<1>4. {k \in Split!Cuts(t) : k <= c} = {k \in Split!Cuts(t) : k <= a} \cup {c}
  BY <1>1, <1>3
<1>. DEFINE T == {k \in Split!Cuts(t) : k <= a}
<1>5. UnitsTo(t, c) = {u \in {Piece(t, k) : k \in T \cup {c}} : u.text # <<>>}
  BY <1>4, Zenon DEF UnitsTo
<1>6. UnitsTo(t, a) = {u \in {Piece(t, k) : k \in T} : u.text # <<>>}
  BY Zenon DEF UnitsTo
<1>. HIDE DEF T
<1>7. {Piece(t, k) : k \in T \cup {c}} = {Piece(t, k) : k \in T} \cup {Piece(t, c)}
  BY Zenon
<1>. QED BY <1>5, <1>6, <1>7

\* The bytes up to a cut do not part a letter, nor do those between two.
LEMMA FirstCutWhole ==
  ASSUME NEW t, NEW a, NEW c, FirstCut(t, a, c), Parted(t)
  PROVE  LET s == SubSeq(t, a + 1, c) IN
         /\ s \in Texts /\ s # <<>> /\ Parted(s) /\ ~ EndsHalf(s)
         /\ Split!Utf16(s) \in Nat
         /\ Split!Utf16(SubSeq(t, 1, a)) \in Nat
         /\ Split!Utf16(SubSeq(t, 1, c)) = Split!Utf16(SubSeq(t, 1, a)) + Split!Utf16(s)
         /\ Split!Utf16(SubSeq(t, 1, a)) < Split!Utf16(SubSeq(t, 1, c))
<1>. DEFINE s == SubSeq(t, a + 1, c)
            h == SubSeq(t, 1, a)
            n == c - a
<1>0. /\ t \in Texts /\ c \in Split!Cuts(t) /\ a < c /\ CutsAt(t, a) /\ a \in 0 .. Len(t)
  BY DEF FirstCut
<1>1. c \in a + 1 .. Len(t) /\ Len(t) \in Nat /\ t[c] \in {"break", "stop"}
  BY <1>0, FirstCutEnds, CutsType DEF Texts
<1>2. a > 0 => t[a] \in {"break", "stop"}
  BY <1>0, CutsType DEF CutsAt, Texts
<1>3. \A i \in 1 .. Len(t) : t[i] \in Split!Bytes
  BY <1>0, ElementOfSeq DEF Texts
<1>4. /\ s \in Texts /\ Len(s) = n /\ n \in Nat \ {0}
      /\ \A i \in 1 .. n : s[i] = t[a + i]
  BY <1>0, <1>1, <1>3 DEF Texts
<1>5. /\ h \in Texts /\ Len(h) = a /\ \A i \in 1 .. a : h[i] = t[i]
  BY <1>0, <1>1, <1>3 DEF Texts
<1>6. SubSeq(t, 1, c) = h \o s
  BY <1>0, <1>1, RestCut
<1>. HIDE DEF s, h
<1>7. ~ EndsHalf(h)
  BY <1>0, <1>1, <1>2, <1>5 DEF EndsHalf
<1>8. s # <<>>
  BY <1>4 DEF Texts
<1>9. ~ EndsHalf(s)
  <2>1. s[n] = t[c]
    BY <1>0, <1>1, <1>4
  <2>. QED BY <1>1, <1>4, <2>1 DEF EndsHalf
<1>10. Parted(s)
  <2>1. ASSUME NEW i \in DOMAIN s PROVE (s[i] = "trail") = (i > 1 /\ s[i - 1] = "lead")
    <3>0. i \in 1 .. n
      BY <1>4 DEF Texts
    <3>1. s[i] = t[a + i] /\ a + i \in 1 .. Len(t) /\ a + i \in DOMAIN t
      BY <1>0, <1>1, <1>4, <3>0 DEF Texts
    <3>. DEFINE j == a + i
    <3>2. (t[j] = "trail") = (j > 1 /\ t[j - 1] = "lead")
      BY <3>1 DEF Parted
    <3>3. CASE i > 1
      <4>1. i - 1 \in 1 .. n /\ a + (i - 1) = j - 1 /\ j > 1
        BY <1>0, <1>1, <1>4, <3>0, <3>3
      <4>2. s[i - 1] = t[j - 1]
        BY <1>4, <4>1
      <4>. HIDE DEF j
      <4>. QED BY <3>1, <3>2, <3>3, <4>1, <4>2 DEF j
    <3>4. CASE i = 1
      <4>1. j - 1 = a /\ (j > 1 <=> a > 0)
        BY <1>0, <1>1, <3>4
      <4>. HIDE DEF j
      <4>. QED BY <1>2, <3>1, <3>2, <3>4, <4>1 DEF j
    <3>. QED BY <3>0, <3>3, <3>4
  <2>. QED BY <2>1 DEF Parted
<1>11. /\ Split!Utf16(h) \in Nat /\ Split!Utf16(s) \in Nat
       /\ Split!Utf16(h \o s) = Split!Utf16(h) + Split!Utf16(s) /\ Split!Utf16(s) > 0
  BY <1>4, <1>5, <1>7, <1>8, Utf16Cat DEF Texts
<1>12. Split!Utf16(h) < Split!Utf16(h \o s)
  <2>. DEFINE x == Split!Utf16(h)
              y == Split!Utf16(s)
              z == Split!Utf16(h \o s)
  <2>1. x \in Nat /\ y \in Nat /\ z = x + y /\ y > 0
    BY <1>11
  <2>. HIDE DEF x, y, z
  <2>2. x < z
    BY <2>1
  <2>. QED BY <2>2 DEF x, z
<1>13. s \in Texts
  BY <1>4
<1>. QED BY <1>13, <1>6, <1>8, <1>9, <1>10, <1>11, <1>12, Zenon DEF s, h

UnitSet == [text : Seq(Dots), end : Nat]
\* The units are those of the cuts of t passed at n, in order, each a sentence.
UnitsInv(t, us, n) ==
  /\ Split!Range(us) = UnitsTo(t, n)
  /\ \A i, j \in DOMAIN us : i < j => us[i].end < us[j].end
  /\ \A i \in DOMAIN us : /\ us[i].end <= Split!Utf16(SubSeq(t, 1, n))
                          /\ Split!Words(us[i].text) /\ Split!Sentence(us[i].text)

\* The units handed out follow the cuts.
LEMMA UnitsCut ==
  ASSUME NEW t, NEW a, NEW c, FirstCut(t, a, c), Parted(t),
         NEW us \in Seq(UnitSet), UnitsInv(t, us, a)
  PROVE  LET s == Split!Clean(SubSeq(t, a + 1, c))
             u == Split!Unit(s, Split!Utf16(SubSeq(t, 1, c)))
         IN  /\ s = <<>> => UnitsInv(t, us, c)
             /\ s # <<>> => UnitsInv(t, Append(us, u), c)
<1>. DEFINE r == SubSeq(t, a + 1, c)
            s == Split!Clean(r)
            x == Split!Utf16(SubSeq(t, 1, a))
            y == Split!Utf16(SubSeq(t, 1, c))
            u == Split!Unit(s, y)
            vs == Append(us, u)
<1>1. r \in Texts /\ r # <<>> /\ Parted(r) /\ ~ EndsHalf(r)
  BY FirstCutWhole
<1>2. x \in Nat /\ y \in Nat /\ x < y
  <2>. DEFINE z == Split!Utf16(r)
  <2>1. x \in Nat /\ z \in Nat /\ y = x + z /\ x < y
    BY FirstCutWhole
  <2>. HIDE DEF x, y, z
  <2>. QED BY <2>1
<1>3. UnitsTo(t, c) = UnitsTo(t, a) \cup {w \in {u} : w.text # <<>>}
  <2>1. Piece(t, c) = u
    BY FirstCutEnds, Zenon
  <2>. QED BY <2>1, FirstCutUnits
<1>4. u.text = s /\ u.end = y
  BY DEF Split!Unit
<1>5. s \in Seq(Dots) /\ Split!Words(s) /\ (s # <<>> => Split!Sentence(s))
  BY <1>1, CleanIsWords DEF Texts
<1>6. /\ Split!Range(us) = UnitsTo(t, a)
      /\ \A i, j \in DOMAIN us : i < j => us[i].end < us[j].end
      /\ \A i \in DOMAIN us : /\ us[i].end <= x
                              /\ Split!Words(us[i].text) /\ Split!Sentence(us[i].text)
  BY Zenon DEF UnitsInv
<1>7. \A i \in DOMAIN us : us[i].end \in Nat /\ us[i].end <= y /\ us[i].end < y
  <2>1. \A i \in DOMAIN us : us[i].end \in Nat
    <3>1. \A i \in DOMAIN us : us[i] \in UnitSet
      OBVIOUS
    <3>. QED BY <3>1 DEF UnitSet
  <2>. HIDE DEF x, y
  <2>. QED BY <1>2, <1>6, <2>1
<1>8. ASSUME s = <<>> PROVE UnitsInv(t, us, c)
  <2>1. UnitsTo(t, c) = UnitsTo(t, a)
    BY <1>3, <1>4, <1>8
  <2>. HIDE DEF x
  <2>2. /\ Split!Range(us) = UnitsTo(t, c)
        /\ \A i \in DOMAIN us : /\ us[i].end <= y
                                /\ Split!Words(us[i].text) /\ Split!Sentence(us[i].text)
    BY <1>6, <1>7, <2>1
  <2>. QED BY <1>6, <2>2, Zenon DEF UnitsInv
<1>9. ASSUME s # <<>> PROVE UnitsInv(t, vs, c)
  <2>1. UnitsTo(t, c) = UnitsTo(t, a) \cup {u}
    BY <1>3, <1>4, <1>9
  <2>t. u \in UnitSet
    BY <1>2, <1>5 DEF UnitSet, Split!Unit
  <2>. HIDE DEF u, s, x, y
  <2>2. /\ DOMAIN us = 1 .. Len(us) /\ Len(us) \in Nat
        /\ DOMAIN vs = 1 .. Len(us) + 1 /\ vs[Len(us) + 1] = u
        /\ \A i \in 1 .. Len(us) : vs[i] = us[i]
    BY <2>t
  <2>. HIDE DEF vs
  <2>. DEFINE n == Len(us) + 1
  <2>3. n \in DOMAIN vs /\ \A i \in DOMAIN vs : i \in DOMAIN us \/ i = n
    BY <2>2
  <2>4. \A i \in DOMAIN us : i \in DOMAIN vs /\ i < n /\ i \in Nat /\ n \in Nat
    BY <2>2
  <2>. HIDE DEF n
  <2>5. \A i \in DOMAIN us : vs[i] = us[i]
    BY <2>2
  <2>6. vs[n] = u
    BY <2>2 DEF n
  <2>7. Split!Range(vs) = UnitsTo(t, c)
    <3>1. \A e : e \in Split!Range(vs) <=> e \in Split!Range(us) \/ e = u
      BY <2>3, <2>4, <2>5, <2>6 DEF Split!Range
    <3>. QED BY <1>6, <2>1, <3>1
  <2>8. ASSUME NEW i \in DOMAIN vs, NEW j \in DOMAIN vs, i < j PROVE vs[i].end < vs[j].end
    <3>1. CASE j \in DOMAIN us
      <4>1. i \in DOMAIN us
        BY <2>3, <2>4, <2>8, <3>1
      <4>. QED BY <1>6, <2>5, <2>8, <3>1, <4>1
    <3>2. CASE j = n
      <4>1. i \in DOMAIN us
        <5>1. n \in Nat
          BY <2>2 DEF n
        <5>. QED BY <2>3, <2>8, <3>2, <5>1
      <4>. QED BY <1>4, <1>7, <2>5, <2>6, <3>2, <4>1
    <3>. QED BY <2>3, <3>1, <3>2
  <2>9. ASSUME NEW i \in DOMAIN vs
        PROVE  vs[i].end <= y /\ Split!Words(vs[i].text) /\ Split!Sentence(vs[i].text)
    <3>1. CASE i \in DOMAIN us
      BY <1>6, <1>7, <2>5, <3>1
    <3>2. CASE i = n
      <4>1. y <= y
        BY <1>2
      <4>. QED BY <1>4, <1>5, <1>9, <2>6, <3>2, <4>1
    <3>. QED BY <2>3, <3>1, <3>2
  <2>. HIDE DEF n
  <2>. QED BY <2>7, <2>8, <2>9, Zenon DEF UnitsInv, y
<1>. QED BY <1>8, <1>9, Zenon DEF s, u, r, vs, y

\* How much of the text left as units, or was found to say nothing.
At == Len(written) - Len(pending)
\* The units but for the tail.
Handed == IF flushed THEN Split!Front(units) ELSE units

SplitTyped ==
  /\ pending \in Texts /\ written \in Texts /\ consumed \in Nat
  /\ cutting \in BOOLEAN /\ flushed \in BOOLEAN /\ units \in Seq(UnitSet)

\* What waits is the end of what was written, from a cut on.
PendingInv ==
  /\ Parted(written)
  /\ At \in 0 .. Len(written) /\ pending = Rest(written, At)
  /\ consumed = Split!Utf16(SubSeq(written, 1, At))
  /\ ~ flushed => CutsAt(written, At)
  /\ flushed => pending = <<>> /\ ~ cutting /\ units # <<>>
  /\ ~ cutting => \A c \in Split!Cuts(written) : c <= At

TailInv ==
  flushed => /\ units[Len(units)] = Split!Unit(Split!Clean(Split!Remainder(written)),
                                               Split!Utf16(written))
             /\ Split!Words(units[Len(units)].text)

SplitInv == SplitTyped /\ PendingInv /\ UnitsInv(written, Handed, At) /\ TailInv

\* The splitter starts with nothing.
LEMMA SplitInit == Split!Init => SplitInv
<1>. SUFFICES ASSUME Split!Init PROVE SplitInv
  OBVIOUS
<1>1. /\ pending = <<>> /\ written = <<>> /\ units = <<>> /\ consumed = 0
      /\ cutting = FALSE /\ flushed = FALSE
  BY DEF Split!Init
<1>2. SplitTyped
  <2>1. <<>> \in Texts /\ <<>> \in Seq(UnitSet)
    BY DEF Texts
  <2>. QED BY <1>1, <2>1 DEF SplitTyped
<1>3. At = 0 /\ Len(written) = 0
  BY <1>1 DEF At
<1>4. Split!Cuts(written) = {}
  BY <1>1 DEF Split!Cuts
<1>5. SubSeq(written, 1, 0) = <<>> /\ Rest(written, 0) = <<>>
  <2>1. SubSeq(written, 1, 0) = <<>> /\ SubSeq(written, 0 + 1, 0) = <<>>
    BY SubSeqEmpty
  <2>. QED BY <1>3, <2>1 DEF Rest
<1>6. Split!Utf16(<<>>) = 0
  <2>1. <<>> \in Seq(Split!Bytes)
    OBVIOUS
  <2>. QED BY <2>1, Utf16Cat
<1>7. PendingInv
  <2>1. Parted(written)
    BY <1>1 DEF Parted
  <2>2. At \in 0 .. Len(written) /\ CutsAt(written, At)
    BY <1>3 DEF CutsAt
  <2>3. pending = Rest(written, At) /\ SubSeq(written, 1, At) = <<>>
    BY <1>1, <1>3, <1>5
  <2>4. consumed = Split!Utf16(SubSeq(written, 1, At))
    BY <1>1, <1>6, <2>3
  <2>5. ~ flushed /\ \A c \in Split!Cuts(written) : c <= At
    BY <1>1, <1>4
  <2>. QED BY <2>1, <2>2, <2>3, <2>4, <2>5, Zenon DEF PendingInv
<1>8. UnitsInv(written, Handed, At)
  <2>1. Handed = <<>>
    BY <1>1 DEF Handed
  <2>2. Split!Range(<<>>) = {}
    BY DEF Split!Range
  <2>3. UnitsTo(written, 0) = {}
    BY <1>4 DEF UnitsTo
  <2>. QED BY <1>3, <2>1, <2>2, <2>3 DEF UnitsInv
<1>9. TailInv
  BY <1>1 DEF TailInv
<1>. QED BY <1>2, <1>7, <1>8, <1>9 DEF SplitInv

\* What waits is the text from At on.
LEMMA AtType ==
  ASSUME SplitTyped, PendingInv
  PROVE  /\ At \in 0 .. Len(written) /\ Len(written) \in Nat
         /\ Len(pending) = Len(written) - At /\ DOMAIN pending = 1 .. Len(pending)
         /\ \A i \in 1 .. Len(pending) : pending[i] = written[At + i]
<1>1. written \in Texts /\ pending \in Texts
  BY DEF SplitTyped
<1>2. At \in 0 .. Len(written) /\ pending = Rest(written, At)
  BY Zenon DEF PendingInv
<1>3. DOMAIN pending = 1 .. Len(pending) /\ Len(written) \in Nat
  BY <1>1 DEF Texts
<1>4. /\ Len(Rest(written, At)) = Len(written) - At
      /\ \A i \in 1 .. Len(written) - At : Rest(written, At)[i] = written[At + i]
  <2>. DEFINE a == At
  <2>1. a \in 0 .. Len(written)
    BY <1>2
  <2>. HIDE DEF a
  <2>2. /\ Len(Rest(written, a)) = Len(written) - a
        /\ \A i \in 1 .. Len(written) - a : Rest(written, a)[i] = written[a + i]
    BY <1>1, <2>1, RestType
  <2>. QED BY <2>2 DEF a
<1>5. Len(pending) = Len(written) - At
  BY <1>2, <1>4, Zenon
<1>. QED BY <1>2, <1>3, <1>4, <1>5

\* What waits may be cut where the text is, beyond what left.
LEMMA CutPointIsCut ==
  ASSUME SplitTyped, PendingInv
  PROVE  \A i \in 1 .. Len(pending) : i \in Split!CutPoint <=> At + i \in Split!Cuts(written)
<1>. DEFINE a == At
            n == Len(pending)
            l == Len(written)
<1>1. /\ a \in 0 .. l /\ l \in Nat /\ n = l - a /\ DOMAIN pending = 1 .. n
      /\ \A i \in 1 .. n : pending[i] = written[a + i]
  BY AtType
<1>2. DOMAIN written = 1 .. l
  BY DEF SplitTyped, Texts
<1>. HIDE DEF a, n, l
<1>3. ASSUME NEW i \in 1 .. n PROVE i \in Split!CutPoint <=> a + i \in Split!Cuts(written)
  <2>1. /\ i \in DOMAIN pending /\ a + i \in DOMAIN written /\ (i < n <=> a + i < l)
        /\ pending[i] = written[a + i]
    BY <1>1, <1>2
  <2>2. i < n => pending[i + 1] = written[(a + i) + 1]
    <3>. SUFFICES ASSUME i < n PROVE pending[i + 1] = written[(a + i) + 1]
      OBVIOUS
    <3>1. i + 1 \in 1 .. n /\ a + (i + 1) = (a + i) + 1
      BY <1>1
    <3>2. pending[i + 1] = written[a + (i + 1)]
      BY <1>1, <3>1
    <3>. QED BY <3>1, <3>2
  <2>. DEFINE j == a + i
  <2>3. j \in Split!Cuts(written) <=>
          written[j] = "break" \/ (j < l /\ written[j] = "stop"
                                   /\ written[j + 1] \in {"space", "break", "quote"})
    BY <2>1 DEF Split!Cuts, l
  <2>4. i \in Split!CutPoint <=>
          pending[i] = "break" \/ (pending[i] = "stop" /\ i < n /\ Split!Confirms(pending[i + 1]))
    BY <2>1 DEF Split!CutPoint, n
  <2>. HIDE DEF j
  <2>. QED BY <2>1, <2>2, <2>3, <2>4 DEF Split!Confirms, j
<1>. QED BY <1>3 DEF a, n

\* A delta changes no unit (sentence_split_push appends it).
LEMMA SplitPush == SplitInv /\ Split!Push => SplitInv'
<1>. SUFFICES ASSUME SplitInv, Split!Push PROVE SplitInv'
  OBVIOUS
<1>. DEFINE a == At
<1>1. SplitTyped /\ PendingInv /\ UnitsInv(written, Handed, a)
  BY DEF SplitInv
<1>2. /\ ~ flushed /\ ~ cutting /\ cutting' = TRUE
      /\ consumed' = consumed /\ units' = units /\ flushed' = flushed
  BY DEF Split!Push
<1>3. PICK n \in 1 .. MaxDelta : \E delta \in [1 .. n -> Split!Bytes] :
        /\ written' = written \o delta /\ pending' = pending \o delta
        /\ \A i \in DOMAIN written' :
             (written'[i] = "trail") = (i > 1 /\ written'[i - 1] = "lead")
  BY Zenon DEF Split!Push
<1>4. PICK d \in [1 .. n -> Split!Bytes] :
        /\ written' = written \o d /\ pending' = pending \o d
        /\ \A i \in DOMAIN written' :
             (written'[i] = "trail") = (i > 1 /\ written'[i - 1] = "lead")
  BY <1>3
<1>5. d \in Texts /\ written \in Texts /\ pending \in Texts
  BY <1>1 DEF Texts, SplitTyped
<1>6. /\ a \in 0 .. Len(written) /\ pending = Rest(written, a)
      /\ consumed = Split!Utf16(SubSeq(written, 1, a)) /\ CutsAt(written, a)
  BY <1>1, <1>2, Zenon DEF PendingInv
<1>. HIDE DEF a
<1>7. /\ written' \in Texts /\ Len(written') = Len(written) + Len(d)
      /\ a \in 0 .. Len(written')
      /\ pending' = Rest(written', a)
      /\ SubSeq(written', 1, a) = SubSeq(written, 1, a)
  BY <1>4, <1>5, <1>6, RestGrows
<1>8. At' = a
  <2>1. Len(pending') = Len(pending) + Len(d) /\ pending' \in Texts
    BY <1>4, <1>5, ConcatProperties DEF Texts
  <2>2. Len(pending) \in Nat /\ Len(d) \in Nat /\ Len(written) \in Nat
    BY <1>5 DEF Texts
  <2>3. a = Len(written) - Len(pending) /\ At' = Len(written') - Len(pending')
    BY DEF At, a
  <2>. QED BY <1>7, <2>1, <2>2, <2>3
<1>9. CutsAt(written', a)
  BY <1>4, <1>5, <1>6, CutsStay DEF Texts
<1>10. UnitsTo(written', a) = UnitsTo(written, a)
  BY <1>4, <1>5, <1>6, UnitsStay DEF Texts
<1>11. SplitTyped'
  <2>1. pending' \in Texts
    BY <1>4, <1>5, ConcatProperties DEF Texts
  <2>. QED BY <1>1, <1>2, <1>7, <2>1, Zenon DEF SplitTyped
<1>12. PendingInv'
  <2>1. Parted(written')
    BY <1>4, Zenon DEF Parted
  <2>2. consumed' = Split!Utf16(SubSeq(written', 1, a))
    BY <1>2, <1>6, <1>7
  <2>3. ~ flushed' /\ cutting'
    BY <1>2
  <2>. QED BY <1>7, <1>8, <1>9, <2>1, <2>2, <2>3, Zenon DEF PendingInv
<1>13. UnitsInv(written', Handed', a)
  <2>1. Handed' = units /\ Handed = units
    BY <1>2, Zenon DEF Handed
  <2>. QED BY <1>1, <1>7, <1>10, <2>1, Zenon DEF UnitsInv
<1>14. TailInv'
  BY <1>2 DEF TailInv
<1>. QED BY <1>8, <1>11, <1>12, <1>13, <1>14, Zenon DEF SplitInv

\* A cut hands out the unit of the text that ends there.
LEMMA SplitCut == SplitInv /\ Split!Cut => SplitInv'
<1>. SUFFICES ASSUME SplitInv, Split!Cut PROVE SplitInv'
  OBVIOUS
<1>. DEFINE a == At
            k == Split!Min(Split!CutPoint)
            c == a + k
            s == SubSeq(written, a + 1, c)
            u == Split!Unit(Split!Clean(s), consumed')
<1>1. SplitTyped /\ PendingInv /\ UnitsInv(written, Handed, a)
  BY DEF SplitInv
<1>2. /\ cutting /\ cutting' = cutting /\ flushed' = flushed /\ written' = written
      /\ Split!CutPoint # {}
      /\ pending' = SubSeq(pending, k + 1, Len(pending))
      /\ consumed' = consumed + Split!Utf16(SubSeq(pending, 1, k))
      /\ units' = IF Split!Clean(SubSeq(pending, 1, k)) = <<>> THEN units
                  ELSE Append(units, Split!Unit(Split!Clean(SubSeq(pending, 1, k)), consumed'))
  BY Zenon DEF Split!Cut
<1>3. /\ a \in 0 .. Len(written) /\ Len(written) \in Nat
      /\ Len(pending) = Len(written) - a /\ DOMAIN pending = 1 .. Len(pending)
      /\ \A i \in 1 .. Len(pending) : i \in Split!CutPoint <=> a + i \in Split!Cuts(written)
  BY <1>1, AtType, CutPointIsCut
<1>4. /\ written \in Texts /\ pending \in Texts /\ ~ flushed /\ CutsAt(written, a)
      /\ pending = Rest(written, a) /\ Parted(written)
      /\ consumed = Split!Utf16(SubSeq(written, 1, a))
  <2>1. ~ flushed
    BY <1>1, <1>2, Zenon DEF PendingInv
  <2>. QED BY <1>1, <2>1, Zenon DEF PendingInv, SplitTyped
<1>5. k \in 1 .. Len(pending) /\ k \in Split!CutPoint /\ \A i \in Split!CutPoint : k <= i
  <2>. DEFINE T == Split!CutPoint
              m == Len(pending)
  <2>1. m \in Nat /\ T \subseteq 1 .. m /\ T # {}
    <3>1. T \subseteq DOMAIN pending
      BY DEF Split!CutPoint
    <3>2. m \in Nat
      BY <1>4 DEF Texts
    <3>. HIDE DEF T
    <3>. QED BY <1>2, <1>3, <3>1, <3>2 DEF T
  <2>. HIDE DEF T, m
  <2>2. Split!Min(T) \in T /\ \A y \in T : Split!Min(T) <= y
    BY <2>1, Smallest
  <2>. QED BY <2>1, <2>2 DEF T, m
<1>. HIDE DEF a, k
<1>6. FirstCut(written, a, c)
  <2>1. c \in Split!Cuts(written) /\ a < c
    BY <1>3, <1>5
  <2>2. ASSUME NEW b \in Split!Cuts(written), b < c PROVE b <= a
    <3>1. b \in 1 .. Len(written)
      BY <1>4, CutsType DEF Texts
    <3>2. ASSUME a < b PROVE FALSE
      <4>1. b - a \in 1 .. Len(pending) /\ a + (b - a) = b
        BY <1>3, <3>1, <3>2
      <4>2. b - a \in Split!CutPoint
        BY <1>3, <4>1
      <4>3. k <= b - a
        BY <1>5, <4>2
      <4>. QED BY <1>3, <1>5, <2>2, <3>1, <4>3
    <3>. QED BY <1>3, <3>1, <3>2
  <2>. HIDE DEF c
  <2>. QED BY <1>3, <1>4, <2>1, <2>2, Zenon DEF FirstCut
<1>7. /\ c \in a + 1 .. Len(written) /\ c \in 0 .. Len(written) /\ CutsAt(written, c)
      /\ c - a = k
  <2>1. c - a = k
    BY <1>3, <1>5
  <2>. QED BY <1>6, <2>1, FirstCutEnds
<1>8. SubSeq(pending, 1, k) = s /\ pending' = Rest(written', c)
  <2>1. /\ SubSeq(Rest(written, a), 1, c - a) = SubSeq(written, a + 1, c)
        /\ SubSeq(Rest(written, a), (c - a) + 1, Len(Rest(written, a))) = Rest(written, c)
    BY <1>3, <1>4, <1>7, RestCut
  <2>. HIDE DEF c
  <2>2. /\ SubSeq(pending, 1, k) = SubSeq(written, a + 1, c)
        /\ SubSeq(pending, k + 1, Len(pending)) = Rest(written, c)
    BY <1>4, <1>7, <2>1, Zenon
  <2>. QED BY <1>2, <2>2
<1>. HIDE DEF c
<1>9. /\ consumed' = Split!Utf16(SubSeq(written, 1, c)) /\ consumed' \in Nat
      /\ s \in Texts
  <2>1. /\ s \in Texts /\ Split!Utf16(s) \in Nat /\ Split!Utf16(SubSeq(written, 1, a)) \in Nat
        /\ Split!Utf16(SubSeq(written, 1, c)) = Split!Utf16(SubSeq(written, 1, a)) + Split!Utf16(s)
    BY <1>4, <1>6, FirstCutWhole
  <2>2. consumed' = Split!Utf16(SubSeq(written, 1, a)) + Split!Utf16(s)
    BY <1>2, <1>4, <1>8
  <2>. QED BY <2>1, <2>2
<1>10. units' = IF Split!Clean(s) = <<>> THEN units ELSE Append(units, u)
  BY <1>2, <1>8, Zenon
<1>11. At' = c /\ pending' \in Texts
  <2>1. /\ Rest(written, c) \in Texts /\ Len(Rest(written, c)) = Len(written) - c
    BY <1>4, <1>7, RestType
  <2>2. c \in 0 .. Len(written) /\ Len(written) \in Nat
    BY <1>3, <1>7
  <2>3. At' = Len(written') - Len(pending')
    BY DEF At
  <2>4. pending' = Rest(written, c) /\ written' = written
    BY <1>2, <1>8
  <2>5. At' = Len(written) - (Len(written) - c)
    BY <2>1, <2>3, <2>4, Zenon
  <2>6. At' = c
    BY <2>2, <2>5
  <2>. QED BY <2>1, <2>4, <2>6, Zenon
<1>12. Split!Clean(s) \in Seq(Dots)
  BY <1>9, CleanIsWords DEF Texts
<1>13. units \in Seq(UnitSet) /\ u \in UnitSet
  BY <1>1, <1>9, <1>12 DEF SplitTyped, UnitSet, Split!Unit
<1>14. SplitTyped'
  <2>1. units' \in Seq(UnitSet)
    <3>. HIDE DEF u
    <3>1. Append(units, u) \in Seq(UnitSet)
      BY <1>13
    <3>. QED BY <1>10, <1>13, <3>1
  <2>. QED BY <1>1, <1>2, <1>9, <1>11, <2>1, Zenon DEF SplitTyped
<1>15. PendingInv'
  BY <1>2, <1>4, <1>7, <1>8, <1>9, <1>11, Zenon DEF PendingInv
<1>16. UnitsInv(written', Handed', c)
  <2>1. Handed' = units' /\ Handed = units
    BY <1>2, <1>4, Zenon DEF Handed
  <2>2. u = Split!Unit(Split!Clean(s), Split!Utf16(SubSeq(written, 1, c)))
    BY <1>9
  <2>3. /\ Split!Clean(s) = <<>> => UnitsInv(written, units, c)
        /\ Split!Clean(s) # <<>> => UnitsInv(written, Append(units, u), c)
    <3>1. UnitsInv(written, units, a)
      BY <1>1, <2>1
    <3>2. FirstCut(written, a, c) /\ Parted(written) /\ units \in Seq(UnitSet)
      BY <1>4, <1>6, <1>13
    <3>. HIDE DEF u
    <3>. QED BY <2>2, <3>1, <3>2, UnitsCut
  <2>. HIDE DEF u, s
  <2>. QED BY <1>2, <1>10, <2>1, <2>3
<1>17. TailInv'
  BY <1>2, <1>4, Zenon DEF TailInv
<1>. QED BY <1>11, <1>14, <1>15, <1>16, <1>17, Zenon DEF SplitInv

\* The loop stops when no cut is left.
LEMMA SplitPushed == SplitInv /\ Split!Pushed => SplitInv'
<1>. SUFFICES ASSUME SplitInv, Split!Pushed PROVE SplitInv'
  OBVIOUS
<1>1. SplitTyped /\ PendingInv /\ UnitsInv(written, Handed, At) /\ TailInv
  BY DEF SplitInv
<1>2. /\ cutting /\ cutting' = FALSE /\ Split!CutPoint = {}
      /\ pending' = pending /\ consumed' = consumed /\ units' = units
      /\ flushed' = flushed /\ written' = written
  BY DEF Split!Pushed
<1>3. At' = At /\ Handed' = Handed /\ (TailInv' <=> TailInv)
  BY <1>2, Zenon DEF At, Handed, TailInv
<1>4. \A c \in Split!Cuts(written) : c <= At
  <2>. DEFINE a == At
  <2>1. /\ a \in 0 .. Len(written) /\ Len(written) \in Nat
        /\ Len(pending) = Len(written) - a
        /\ \A i \in 1 .. Len(pending) : i \in Split!CutPoint <=> a + i \in Split!Cuts(written)
    BY <1>1, AtType, CutPointIsCut
  <2>2. Split!Cuts(written) \subseteq 1 .. Len(written)
    BY <1>1, CutsType DEF SplitTyped, Texts
  <2>. HIDE DEF a
  <2>3. ASSUME NEW c \in Split!Cuts(written), a < c PROVE FALSE
    <3>1. c - a \in 1 .. Len(pending) /\ a + (c - a) = c
      BY <2>1, <2>2, <2>3
    <3>. QED BY <1>2, <2>1, <3>1
  <2>4. \A c \in Split!Cuts(written) : c <= a
    BY <2>1, <2>2, <2>3
  <2>. QED BY <2>4 DEF a
<1>5. SplitTyped'
  BY <1>1, <1>2, Zenon DEF SplitTyped
<1>6. PendingInv'
  <2>1. ~ cutting'
    BY <1>2
  <2>2. /\ Parted(written)
        /\ At \in 0 .. Len(written) /\ pending = Rest(written, At)
        /\ consumed = Split!Utf16(SubSeq(written, 1, At))
        /\ ~ flushed => CutsAt(written, At)
        /\ ~ flushed
    BY <1>1, <1>2, Zenon DEF PendingInv
  <2>. QED BY <1>2, <1>3, <1>4, <2>1, <2>2, Zenon DEF PendingInv
<1>. QED BY <1>1, <1>2, <1>3, <1>5, <1>6, Zenon DEF SplitInv

\* The length of a text is that of its two parts at a cut.
LEMMA RestIsWhole ==
  ASSUME NEW t \in Texts, NEW a \in 0 .. Len(t), CutsAt(t, a)
  PROVE  /\ Split!Utf16(SubSeq(t, 1, a)) \in Nat /\ Split!Utf16(Rest(t, a)) \in Nat
         /\ Split!Utf16(t) = Split!Utf16(SubSeq(t, 1, a)) + Split!Utf16(Rest(t, a))
<1>. DEFINE h == SubSeq(t, 1, a)
            r == Rest(t, a)
<1>0. a \in 0 .. Len(t) /\ Len(t) \in Nat
  BY DEF Texts
<1>1. a > 0 => t[a] \in {"break", "stop"}
  BY CutsType DEF CutsAt, Texts
<1>2. \A i \in 1 .. Len(t) : t[i] \in Split!Bytes
  BY ElementOfSeq DEF Texts
<1>3. h \in Texts /\ Len(h) = a /\ \A i \in 1 .. a : h[i] = t[i]
  BY <1>0, <1>2 DEF Texts
<1>4. h \o r = t
  <2>1. 1 \in 1 .. Len(t) + 1 /\ a \in 1 - 1 .. Len(t) /\ Len(t) \in a .. Len(t)
    BY <1>0
  <2>2. h \o r = SubSeq(t, 1, Len(t))
    BY <2>1, ConcatAdjacentSubSeq DEF Texts, Rest
  <2>3. SubSeq(t, 1, Len(t)) = t
    BY SubSeqFull DEF Texts
  <2>. QED BY <2>2, <2>3, Zenon
<1>5. r \in Texts
  BY RestType
<1>. HIDE DEF h, r
<1>6. ~ EndsHalf(h)
  BY <1>0, <1>1, <1>3 DEF EndsHalf
<1>7. Split!Utf16(h) \in Nat /\ Split!Utf16(r) \in Nat
      /\ Split!Utf16(h \o r) = Split!Utf16(h) + Split!Utf16(r)
  BY <1>3, <1>5, <1>6, Utf16Cat DEF Texts
<1>. QED BY <1>4, <1>7 DEF h, r

\* What lies after the last cut is what waits after it.
LEMMA RemainderIs ==
  ASSUME NEW t \in Texts, NEW a \in 0 .. Len(t), CutsAt(t, a),
         \A c \in Split!Cuts(t) : c <= a
  PROVE  Split!Remainder(t) = Rest(t, a)
<1>. DEFINE S == {0} \cup Split!Cuts(t)
<1>1. S \subseteq Nat
  BY CutsType DEF Texts
<1>2. a \in S /\ \A c \in S : c <= a
  BY DEF CutsAt, Texts
<1>. HIDE DEF S
<1>3. PICK m \in S : /\ \A c \in S : m >= c
                     /\ m = CHOOSE x \in S : \A y \in S : x >= y
  BY <1>1, <1>2
<1>4. m = a
  BY <1>1, <1>2, <1>3
<1>5. Split!Max(S) = a
  BY <1>3, <1>4, Zenon DEF Split!Max
<1>. QED BY <1>5, Zenon DEF S, Split!Remainder, Rest

\* The flush hands out what waits and nothing else.
LEMMA SplitFlush == SplitInv /\ Split!Flush => SplitInv'
<1>. SUFFICES ASSUME SplitInv, Split!Flush PROVE SplitInv'
  OBVIOUS
<1>. DEFINE a == At
            l == Len(written)
            u == Split!Unit(Split!Clean(pending), consumed')
<1>1. SplitTyped /\ PendingInv /\ UnitsInv(written, Handed, a)
  BY DEF SplitInv
<1>2. /\ ~ cutting /\ ~ flushed /\ cutting' = cutting /\ flushed' = TRUE /\ written' = written
      /\ consumed' = consumed + Split!Utf16(pending)
      /\ units' = Append(units, u) /\ pending' = <<>>
  BY Zenon DEF Split!Flush
<1>3. /\ a \in 0 .. l /\ pending = Rest(written, a) /\ Parted(written)
      /\ consumed = Split!Utf16(SubSeq(written, 1, a)) /\ CutsAt(written, a)
      /\ \A c \in Split!Cuts(written) : c <= a
  BY <1>1, <1>2, Zenon DEF PendingInv
<1>4. /\ written \in Texts /\ pending \in Texts /\ l \in Nat /\ units \in Seq(UnitSet)
  BY <1>1 DEF SplitTyped, Texts
<1>. HIDE DEF a
<1>5. /\ consumed' = Split!Utf16(written) /\ consumed' \in Nat
      /\ consumed \in Nat /\ consumed <= consumed'
  <2>. DEFINE x == Split!Utf16(SubSeq(written, 1, a))
              y == Split!Utf16(Rest(written, a))
  <2>1. x \in Nat /\ y \in Nat /\ Split!Utf16(written) = x + y
    BY <1>3, <1>4, RestIsWhole
  <2>2. consumed' = x + y /\ consumed = x
    BY <1>2, <1>3
  <2>. HIDE DEF x, y
  <2>. QED BY <2>1, <2>2
<1>6. Split!Clean(pending) \in Seq(Dots) /\ Split!Words(Split!Clean(pending))
  BY <1>4, CleanIsWords DEF Texts
<1>7. u \in UnitSet /\ u.end = consumed' /\ u.text = Split!Clean(pending)
  BY <1>5, <1>6 DEF UnitSet, Split!Unit
<1>. HIDE DEF u
<1>8. /\ units' \in Seq(UnitSet) /\ Len(units') = Len(units) + 1
      /\ units'[Len(units) + 1] = u /\ units' # <<>>
  BY <1>2, <1>4, <1>7
<1>9. Split!Front(units') = units
  BY <1>2, <1>4, <1>7, FrontOfAppend
<1>10. Handed' = units /\ Handed = units
  BY <1>2, <1>9, Zenon DEF Handed
<1>11. At' = l
  <2>1. At' = Len(written') - Len(pending')
    BY DEF At
  <2>. QED BY <1>2, <1>4, <2>1
<1>12. SplitTyped'
  <2>1. pending' \in Texts
    BY <1>2 DEF Texts
  <2>2. flushed' \in BOOLEAN
    BY <1>2
  <2>. QED BY <1>1, <1>2, <1>5, <1>8, <2>1, <2>2, Zenon DEF SplitTyped
<1>13. SubSeq(written, 1, l) = written
  BY <1>4, SubSeqFull DEF Texts
<1>14. PendingInv'
  <2>1. Rest(written', l) = <<>>
    <3>1. l < l + 1 /\ l + 1 \in Int /\ l \in Int
      BY <1>4
    <3>2. SubSeq(written, l + 1, l) = <<>>
      BY <3>1, SubSeqEmpty
    <3>. QED BY <1>2, <3>2 DEF Rest
  <2>2. l \in 0 .. Len(written') /\ \A c \in Split!Cuts(written') : c <= l
    <3>1. Split!Cuts(written) \subseteq 1 .. l
      BY <1>4, CutsType DEF Texts
    <3>. QED BY <1>2, <1>4, <3>1
  <2>3. consumed' = Split!Utf16(SubSeq(written', 1, l))
    BY <1>2, <1>5, <1>13, Zenon
  <2>. HIDE DEF l
  <2>. QED BY <1>2, <1>3, <1>8, <1>11, <2>1, <2>2, <2>3, Zenon DEF PendingInv
<1>15. UnitsInv(written', Handed', l)
  <2>1. UnitsTo(written, l) = UnitsTo(written, a)
    <3>1. Split!Cuts(written) \subseteq 1 .. l
      BY <1>4, CutsType DEF Texts
    <3>2. {c \in Split!Cuts(written) : c <= l} = {c \in Split!Cuts(written) : c <= a}
      BY <1>3, <1>4, <3>1
    <3>. HIDE DEF l
    <3>. QED BY <3>2, Zenon DEF UnitsTo
  <2>2. /\ Split!Range(units) = UnitsTo(written, a)
        /\ \A i, j \in DOMAIN units : i < j => units[i].end < units[j].end
        /\ \A i \in DOMAIN units : /\ units[i].end <= consumed
                                    /\ Split!Words(units[i].text) /\ Split!Sentence(units[i].text)
    BY <1>1, <1>3, <1>10, Zenon DEF UnitsInv
  <2>3. \A i \in DOMAIN units : units[i].end <= consumed'
    <3>1. \A i \in DOMAIN units : units[i] \in UnitSet
      BY <1>4
    <3>2. \A i \in DOMAIN units : units[i].end \in Nat
      BY <3>1 DEF UnitSet
    <3>. QED BY <1>5, <2>2, <3>2
  <2>4. consumed' = Split!Utf16(SubSeq(written', 1, l))
    BY <1>2, <1>5, <1>13, Zenon
  <2>. HIDE DEF l
  <2>. QED BY <1>2, <1>10, <2>1, <2>2, <2>3, <2>4, Zenon DEF UnitsInv
<1>16. TailInv'
  <2>1. units'[Len(units')] = u
    BY <1>8, Zenon
  <2>2. pending = Split!Remainder(written)
    BY <1>3, <1>4, RemainderIs
  <2>3. u = Split!Unit(Split!Clean(Split!Remainder(written)), Split!Utf16(written))
    BY <1>5, <2>2, Zenon DEF u
  <2>. QED BY <1>2, <1>6, <1>7, <2>1, <2>3, Zenon DEF TailInv
<1>. QED BY <1>11, <1>12, <1>14, <1>15, <1>16, Zenon DEF SplitInv

\* The path along the voice runs the splitter.
LEMMA SplitterRuns == MCSpec => Split!Spec
<1>1. MCInit => Split!Init
  BY DEF MCInit
<1>2. [MCNext]_MCVars => [Split!Next]_Split!vars
  BY DEF MCNext, MCVars, splitter, Split!vars
<1>3. QED BY <1>1, <1>2, PTL DEF MCSpec, Split!Spec

\* The invariant holds.
LEMMA SplitterInvariant == Split!Spec => []SplitInv
<1>1. Split!Init => SplitInv
  BY SplitInit
<1>2. SplitInv /\ [Split!Next]_Split!vars => SplitInv'
  <2>1. SplitInv /\ Split!Next => SplitInv'
    BY SplitPush, SplitCut, SplitPushed, SplitFlush, Zenon DEF Split!Next
  <2>2. SplitInv /\ UNCHANGED Split!vars => SplitInv'
    <3>. SUFFICES ASSUME SplitInv, UNCHANGED Split!vars PROVE SplitInv'
      OBVIOUS
    <3>1. /\ pending' = pending /\ consumed' = consumed /\ units' = units
          /\ cutting' = cutting /\ flushed' = flushed /\ written' = written
      BY DEF Split!vars
    <3>2. At' = At /\ Handed' = Handed /\ (TailInv' <=> TailInv)
          /\ (SplitTyped' <=> SplitTyped)
      BY <3>1, Zenon DEF At, Handed, TailInv, SplitTyped
    <3>3. PendingInv' <=> PendingInv
      BY <3>1, <3>2, Zenon DEF PendingInv
    <3>. QED BY <3>1, <3>2, <3>3, Zenon DEF SplitInv
  <2>. QED BY <2>1, <2>2, Zenon
<1>. QED BY <1>1, <1>2, PTL DEF Split!Spec

\* The invariant says what the units are.
LEMMA SplitInvWritten == SplitInv => Split!UnitsOfWritten
<1>. SUFFICES ASSUME SplitInv PROVE Split!UnitsOfWritten
  OBVIOUS
<1>1. SplitTyped /\ PendingInv /\ UnitsInv(written, Handed, At) /\ TailInv
  BY DEF SplitInv
<1>2. /\ written \in Texts /\ units \in Seq(UnitSet) /\ pending \in Texts
      /\ flushed \in BOOLEAN /\ cutting \in BOOLEAN
  BY <1>1, Zenon DEF SplitTyped
<1>3. ~ cutting => Split!Range(Handed) = Split!UnitsOf(written)
  <2>. SUFFICES ASSUME ~ cutting PROVE Split!Range(Handed) = Split!UnitsOf(written)
    OBVIOUS
  <2>1. Split!UnitsOf(written) = UnitsTo(written, Len(written))
    BY <1>2, UnitsToEnd DEF Texts
  <2>2. \A c \in Split!Cuts(written) : c <= At /\ c <= Len(written)
    <3>1. \A c \in Split!Cuts(written) : c <= At
      BY <1>1, Zenon DEF PendingInv
    <3>2. Split!Cuts(written) \subseteq 1 .. Len(written)
      BY <1>2, CutsType DEF Texts
    <3>3. Len(written) \in Nat
      BY <1>2 DEF Texts
    <3>4. \A c \in Split!Cuts(written) : c <= Len(written)
      BY <3>2, <3>3
    <3>. QED BY <3>1, <3>4
  <2>3. {c \in Split!Cuts(written) : c <= At} = {c \in Split!Cuts(written) : c <= Len(written)}
    BY <2>2, Zenon
  <2>4. UnitsTo(written, Len(written)) = UnitsTo(written, At)
    BY <2>3, Zenon DEF UnitsTo
  <2>. QED BY <1>1, <2>1, <2>4, Zenon DEF UnitsInv
<1>4. \A i, j \in DOMAIN Handed : i < j => Handed[i].end < Handed[j].end
  BY <1>1, Zenon DEF UnitsInv
<1>5. consumed + Split!Utf16(pending) = Split!Utf16(written)
  <2>. DEFINE a == At
  <2>1. /\ a \in 0 .. Len(written) /\ pending = Rest(written, a)
        /\ consumed = Split!Utf16(SubSeq(written, 1, a))
    BY <1>1, Zenon DEF PendingInv
  <2>2. CASE ~ flushed
    <3>1. CutsAt(written, a)
      BY <1>1, <2>2, Zenon DEF PendingInv
    <3>. HIDE DEF a
    <3>. QED BY <1>2, <2>1, <3>1, RestIsWhole
  <2>3. CASE flushed
    <3>1. pending = <<>>
      BY <1>1, <2>3, Zenon DEF PendingInv
    <3>2. a = Len(written) /\ Len(written) \in Nat
      BY <1>2, <3>1 DEF At, Texts
    <3>. HIDE DEF a
    <3>3. SubSeq(written, 1, a) = written
      BY <1>2, <3>2, SubSeqFull DEF Texts
    <3>4. Split!Utf16(pending) = 0 /\ Split!Utf16(written) \in Nat
      BY <1>2, <3>1, Utf16Cat DEF Texts
    <3>5. consumed = Split!Utf16(written)
      BY <2>1, <3>3, Zenon
    <3>. DEFINE w == Split!Utf16(written)
    <3>. HIDE DEF w
    <3>6. w \in Nat /\ consumed = w
      BY <3>4, <3>5 DEF w
    <3>7. consumed + 0 = w
      BY <3>6
    <3>. QED BY <3>4, <3>7 DEF w
  <2>. QED BY <2>2, <2>3
<1>6. flushed => Split!Last(units) = Split!Unit(Split!Clean(Split!Remainder(written)),
                                               Split!Utf16(written))
  BY <1>1, Zenon DEF TailInv, Split!Last
<1>7. ASSUME NEW i \in DOMAIN units
      PROVE  /\ Split!Words(units[i].text)
             /\ ~ flushed \/ i < Len(units) => Split!Sentence(units[i].text)
  <2>0. DOMAIN units = 1 .. Len(units) /\ Len(units) \in Nat
    BY <1>2
  <2>1. CASE ~ flushed
    <3>1. Handed = units
      BY <2>1, Zenon DEF Handed
    <3>. QED BY <1>1, <3>1, Zenon DEF UnitsInv
  <2>2. CASE flushed
    <3>1. Handed = Split!Front(units) /\ units # <<>>
      BY <1>1, <2>2, Zenon DEF Handed, PendingInv
    <3>. DEFINE f == Split!Front(units)
    <3>2. /\ f \in Seq(UnitSet) /\ Len(f) = Len(units) - 1
          /\ \A k \in 1 .. Len(units) - 1 : f[k] = units[k]
      BY <1>2, <3>1, FrontType
    <3>. HIDE DEF f
    <3>3. CASE i < Len(units)
      <4>1. i \in DOMAIN f /\ f[i] = units[i]
        <5>1. i \in 1 .. Len(f) /\ i \in 1 .. Len(units) - 1
          BY <2>0, <3>2, <3>3
        <5>2. DOMAIN f = 1 .. Len(f)
          BY <3>2
        <5>. QED BY <3>2, <5>1, <5>2
      <4>2. Split!Words(f[i].text) /\ Split!Sentence(f[i].text)
        BY <1>1, <3>1, <4>1, Zenon DEF UnitsInv, f
      <4>. QED BY <4>1, <4>2
    <3>4. CASE ~ (i < Len(units))
      <4>1. i = Len(units)
        BY <2>0, <3>4
      <4>. QED BY <1>1, <2>2, <3>4, <4>1, Zenon DEF TailInv
    <3>. QED BY <3>3, <3>4
  <2>. QED BY <2>1, <2>2
<1>8. /\ Handed = IF flushed THEN Split!Front(units) ELSE units
  BY DEF Handed
<1>. QED BY <1>3, <1>4, <1>5, <1>6, <1>7, <1>8, Zenon DEF Split!UnitsOfWritten, Handed

\* The units sentence_split_push and sentence_split_flush hand out are those of the text
\* that was written, whatever the deltas it came in: none is lost, none is spoken twice, each
\* ends at its UTF-16 offset in that text, and each is clean words.
THEOREM UnitsAreWritten == MCSpec => []UnitsOfWritten
<1>1. SplitInv => UnitsOfWritten
  BY SplitInvWritten DEF UnitsOfWritten
<1>. QED BY <1>1, SplitterRuns, SplitterInvariant, PTL
=============================================================================
