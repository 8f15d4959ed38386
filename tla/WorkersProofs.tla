---------------------------- MODULE WorkersProofs ----------------------------
(***************************************************************************)
(* What the contexts all the connections share keep apart, proved of the   *)
(* two parts of MCWorkers for every set of sessions and every bound.       *)
(*                                                                         *)
(* The canceller: no stream hears another.  EchoApart is not inductive:    *)
(* that a pass writes to a slot the hop of the stream that holds it rests  *)
(* on who waits, on the lanes it raised and on the windows it set.  Placed *)
(* gives every open stream a slot of its own, Queued says what a pass is   *)
(* made of, and OwnHistory is what the history of a stream holds while a   *)
(* hop of it is still to be run.                                           *)
(*                                                                         *)
(* The networks: no session reads the score, the error or the memory of    *)
(* another.  ScoresAreOwn looks at a session between its calls.  What      *)
(* makes it true lies in the middle of one: the inputs of the voice graph  *)
(* are those of the session that holds the mutex (Mine), and the job of    *)
(* the classifier is that of the one session that waits for it (Waits,     *)
(* OneJob).                                                                *)
(***************************************************************************)
EXTENDS MCWorkers, FiniteSetTheorems, SequenceTheorems, TLAPS

(* ---------------------------- the canceller ---------------------------- *)

Marks == Streams \X Nat \X Nat
Numbers(h) == {h[i][3] : i \in DOMAIN h}
Rising(h) == \A i, j \in DOMAIN h : i < j => h[i][3] < h[j][3]

Typed ==
  /\ phase \in [Streams -> {"closed", "open", "waiting"}]
  /\ life \in [Streams -> Nat] /\ sent \in [Streams -> Nat]
  /\ clean \in [Streams -> SUBSET Nat] /\ slot \in [Streams -> Nat]
  /\ done \in [Streams -> BOOLEAN] /\ status \in [Streams -> BOOLEAN]
  /\ queue \subseteq Streams /\ batch \subseteq Streams
  /\ computing \in BOOLEAN /\ built \in BOOLEAN /\ capacity \in Nat
  /\ window \in [Slots -> Marks \cup {Silence}]
  /\ history \in [Slots -> Seq(Marks)] /\ seen \in [Slots -> Seq(Marks)]

\* Every stream that is open holds a slot of the graph, and nobody else does.
Placed ==
  /\ capacity <= Cardinality(Streams)
  /\ used = {slot[c] : c \in Held} /\ used \subseteq 0 .. capacity - 1
  /\ \A c, d \in Held : slot[c] = slot[d] => c = d

\* A hop the worker has not answered yet, and the pass that runs.
Queued ==
  /\ \A c \in queue \cup batch : phase[c] = "waiting" /\ ~done[c]
  /\ queue \cap batch = {}
  /\ ~computing => batch = {}
  /\ lanes = {slot[c] : c \in batch}
  /\ \A c \in batch : window[slot[c]] = Hop(c)
  /\ computing => seen = history

\* The history h of the life l of a stream c, of which n hops were sent.
Own(h, c, l, n) == \A i \in DOMAIN h : h[i][1] = c /\ h[i][2] = l /\ h[i][3] <= n
OwnHistory(c) ==
  LET h == history[slot[c]] IN
    /\ Own(h, c, life[c], sent[c]) /\ Rising(h)
    /\ clean[c] \subseteq Numbers(h)
    /\ c \in queue \cup batch => sent[c] \notin Numbers(h)
    /\ phase[c] = "waiting" /\ done[c] /\ status[c] => sent[c] \in Numbers(h)

Apart == Placed /\ Queued /\ \A c \in Held : OwnHistory(c)
IInv == Typed /\ (built => Apart)

LEMMA StreamsCounted == Cardinality(Streams) \in Nat \ {0}
BY EchoAssumption, FS_CardinalityType, FS_EmptySet

LEMMA HeldSlot ==
  ASSUME Typed, Placed, NEW c \in Held
  PROVE  slot[c] \in Slots /\ history[slot[c]] \in Seq(Marks)
<1>1. slot[c] \in 0 .. capacity - 1
  BY DEF Placed
<1>2. slot[c] \in Slots
  BY <1>1, StreamsCounted DEF Placed, Slots, Typed
<1>3. QED BY <1>2 DEF Typed

\* A closed stream leaves a slot to the others: when all are held, there are
\* fewer of them than streams.
LEMMA RoomToGrow ==
  ASSUME Typed, Placed, NEW c \in Streams, phase[c] = "closed", FirstFree(capacity)
  PROVE  capacity < Cardinality(Streams)
<1> DEFINE all == 0 .. capacity - 1
           others == Streams \ {c}
           holder == [s \in all |-> CHOOSE d \in Held : slot[d] = s]
<1>1. IsFiniteSet(others) /\ Cardinality(others) = Cardinality(Streams) - 1
  BY EchoAssumption, FS_RemoveElement
<1>2. IsFiniteSet(all) /\ Cardinality(all) = capacity
  <2>1. capacity \in Nat /\ 0 \in Int /\ capacity - 1 \in Int
    BY DEF Typed
  <2>2. /\ IsFiniteSet(0 .. capacity - 1)
        /\ Cardinality(0 .. capacity - 1) =
             IF 0 > capacity - 1 THEN 0 ELSE capacity - 1 - 0 + 1
    BY <2>1, FS_Interval
  <2>3. QED BY <2>1, <2>2
<1>3. \A s \in all : holder[s] \in others /\ slot[holder[s]] = s
  BY DEF Placed, FirstFree, Held
<1>4. holder \in [all -> others]
  BY <1>3
<1> HIDE DEF all, others, holder
<1>5. ~(Cardinality(others) < Cardinality(all))
  BY <1>1, <1>2, <1>3, <1>4, FS_PigeonHole
<1>6. QED BY <1>1, <1>2, <1>5, StreamsCounted DEF Typed

\* What a pass makes of the history of a stream whose hop it runs.
LEMMA OneMore ==
  ASSUME NEW h \in Seq(Marks), NEW c \in Streams, NEW l \in Nat, NEW n \in Nat,
         Own(h, c, l, n), Rising(h), n \notin Numbers(h)
  PROVE  LET g == Append(h, <<c, l, n>>) IN
           /\ g \in Seq(Marks) /\ Own(g, c, l, n) /\ Rising(g)
           /\ Numbers(g) = Numbers(h) \cup {n}
<1> DEFINE g == Append(h, <<c, l, n>>)
<1>1. <<c, l, n>> \in Marks
  BY DEF Marks
<1>2. /\ g \in Seq(Marks) /\ Len(g) = Len(h) + 1
      /\ \A i \in 1 .. Len(h) : g[i] = h[i]
      /\ g[Len(h) + 1] = <<c, l, n>>
  BY <1>1, AppendProperties
<1>3. Len(h) \in Nat /\ DOMAIN h = 1 .. Len(h) /\ DOMAIN g = 1 .. Len(h) + 1
  BY <1>2
<1>4. \A i \in DOMAIN h : h[i][3] \in Nat /\ h[i][3] < n
  <2>1. \A i \in DOMAIN h : h[i] \in Marks /\ h[i][3] <= n /\ h[i][3] # n
    BY ElementOfSeq, <1>3 DEF Own, Numbers
  <2>2. QED BY <2>1 DEF Marks
<1> HIDE DEF g
<1>5. Own(g, c, l, n)
  BY <1>2, <1>3 DEF Own
<1>6. Rising(g)
  BY <1>2, <1>3, <1>4 DEF Rising
<1>7. Numbers(g) = Numbers(h) \cup {n}
  BY <1>2, <1>3 DEF Numbers
<1>8. QED BY <1>2, <1>5, <1>6, <1>7 DEF g

LEMMA InitApart == Init => IInv
<1>1. SUFFICES ASSUME Init PROVE IInv
  OBVIOUS
<1>2. Held = {}
  BY <1>1 DEF Init, Held
<1>3. Typed
  <2>1. <<>> \in Seq(Marks)
    OBVIOUS
  <2>2. /\ window \in [Slots -> Marks \cup {Silence}]
        /\ history \in [Slots -> Seq(Marks)] /\ seen \in [Slots -> Seq(Marks)]
    BY <1>1, <2>1 DEF Init
  <2>3. QED BY <1>1, <2>2 DEF Init, Typed
<1>4. Placed
  BY <1>1, <1>2, StreamsCounted DEF Init, Placed
<1>5. Queued
  BY <1>1 DEF Init, Queued
<1>6. QED BY <1>2, <1>3, <1>4, <1>5 DEF IInv, Apart

\* A stream opened, on a slot nobody holds.
LEMMA HoldKeeps ==
  ASSUME Typed, Apart, AtRest, NEW c \in Streams, NEW s \in Nat, phase[c] = "closed",
         s \notin used, s < capacity', capacity' \in {capacity, capacity + 1},
         capacity' <= Cardinality(Streams), Hold(c, s)
  PROVE  Typed' /\ Apart'
<1>1. s \in Slots
  BY StreamsCounted DEF Slots, Typed
<1>2. /\ life' = [life EXCEPT ![c] = @ + 1] /\ sent' = [sent EXCEPT ![c] = 0]
      /\ clean' = [clean EXCEPT ![c] = {}] /\ phase' = [phase EXCEPT ![c] = "open"]
      /\ slot' = [slot EXCEPT ![c] = s] /\ used' = used \cup {s}
      /\ history' = [history EXCEPT ![s] = <<>>]
      /\ UNCHANGED <<done, status, queue, batch, computing, window, lanes, seen, built>>
  BY DEF Hold, Begin, Clear
<1>3. Typed'
  BY <1>1, <1>2, SMTT(30) DEF Typed
<1>4. Held' = Held \cup {c} /\ c \notin Held
  BY <1>2 DEF Held, Typed
<1>5. Placed'
  <2>1. \A d \in Held : slot'[d] = slot[d] /\ slot[d] # s
    BY <1>2, <1>4 DEF Typed, Held, Apart, Placed
  <2>2. slot'[c] = s
    BY <1>2 DEF Typed
  <2>3. used' = {slot'[d] : d \in Held'}
    BY <1>2, <1>4, <2>1, <2>2 DEF Apart, Placed
  <2>4. used' \subseteq 0 .. capacity' - 1
    BY <1>2 DEF Apart, Placed, Typed
  <2>5. QED BY <1>4, <2>1, <2>2, <2>3, <2>4 DEF Apart, Placed
<1>6. batch = {} /\ lanes = {} /\ c \notin queue
  BY DEF AtRest, Apart, Queued
<1>7. Queued'
  BY <1>2, <1>6 DEF Apart, Queued, Typed, AtRest
<1>8. ASSUME NEW d \in Held' PROVE OwnHistory(d)'
  <2>1. CASE d = c
    <3>1. history'[slot'[c]] = <<>>
      BY <1>1, <1>2 DEF Typed
    <3>2. phase'[c] = "open" /\ clean'[c] = {} /\ c \notin queue' \cup batch'
      BY <1>2, <1>6 DEF Typed
    <3>3. QED BY <2>1, <3>1, <3>2 DEF OwnHistory, Own, Rising, Numbers
  <2>2. CASE d # c
    <3>1. d \in Held
      BY <1>4, <2>2
    <3>2. /\ slot'[d] = slot[d] /\ history'[slot[d]] = history[slot[d]] /\ life'[d] = life[d]
          /\ sent'[d] = sent[d] /\ clean'[d] = clean[d] /\ phase'[d] = phase[d]
      BY <1>1, <1>2, <2>2, <3>1 DEF Typed, Apart, Placed, Held
    <3>3. OwnHistory(d)
      BY <3>1 DEF Apart
    <3>4. QED BY <1>2, <3>2, <3>3 DEF OwnHistory
  <2>3. QED BY <2>1, <2>2
<1>9. QED BY <1>3, <1>5, <1>7, <1>8 DEF Apart

LEMMA TakeSlotKeeps ==
  ASSUME IInv, built, NEW c \in Streams, TakeSlot(c) PROVE Typed' /\ Apart'
<1>1. PICK s \in 0 .. capacity - 1 : FirstFree(s) /\ Hold(c, s)
  BY DEF TakeSlot
<1>2. s \in Nat /\ s < capacity /\ s \notin used /\ capacity' = capacity
  BY <1>1 DEF TakeSlot, FirstFree, IInv, Typed
<1>3. QED BY <1>1, <1>2, HoldKeeps DEF TakeSlot, IInv, Apart, Placed

LEMMA GrowKeeps ==
  ASSUME IInv, built, NEW c \in Streams, Grow(c) PROVE Typed' /\ Apart'
<1>1. capacity < Cardinality(Streams)
  BY RoomToGrow DEF Grow, IInv, Apart
<1>2. capacity \in Nat /\ capacity' = capacity + 1 /\ capacity \notin used
  BY DEF Grow, FirstFree, IInv, Typed
<1>3. capacity' <= Cardinality(Streams) /\ capacity < capacity'
  BY <1>1, <1>2, StreamsCounted
<1>4. QED BY <1>2, <1>3, HoldKeeps DEF Grow, IInv

\* Nothing is asked of a context whose growth failed.
LEMMA GrowFailsKeeps ==
  ASSUME IInv, built, NEW c \in Streams, GrowFails(c) PROVE Typed' /\ ~built'
<1>1. <<>> \in Seq(Marks)
  OBVIOUS
<1>2. capacity' = capacity + 1 /\ history' = [s \in Slots |-> <<>>] /\ built' = FALSE
  BY DEF GrowFails
<1>3. history' \in [Slots -> Seq(Marks)]
  BY <1>1, <1>2
<1>4. UNCHANGED <<phase, life, sent, clean, slot, done, status, queue, batch, computing, used,
                 window, lanes, seen>>
  BY DEF GrowFails, callers
<1>5. capacity' \in Nat
  BY <1>2 DEF IInv, Typed
<1>6. Typed'
  BY <1>2, <1>3, <1>4, <1>5 DEF IInv, Typed
<1>7. QED BY <1>2, <1>6

\* A stream that starts over keeps its slot.
LEMMA ResetKeeps ==
  ASSUME IInv, built, NEW c \in Streams, Reset(c) PROVE Typed' /\ Apart'
<1>1. /\ phase[c] = "open" /\ ~computing
      /\ life' = [life EXCEPT ![c] = @ + 1] /\ sent' = [sent EXCEPT ![c] = 0]
      /\ clean' = [clean EXCEPT ![c] = {}] /\ history' = [history EXCEPT ![slot[c]] = <<>>]
      /\ UNCHANGED <<phase, slot, done, status, queue, batch, computing, capacity, used, window,
                     lanes, seen, built>>
  BY DEF Reset, AtRest, Begin, Clear
<1>2. Typed /\ Placed /\ Queued /\ Held' = Held /\ c \in Held
  BY <1>1 DEF IInv, Apart, Held, Typed
<1>3. slot[c] \in Slots
  BY <1>2, HeldSlot
<1>4. Typed'
  <2>1. <<>> \in Seq(Marks)
    OBVIOUS
  <2>2. history' \in [Slots -> Seq(Marks)]
    BY <1>1, <1>2, <2>1 DEF Typed
  <2>3. QED BY <1>1, <1>2, <2>2 DEF Typed
<1>5. Placed'
  BY <1>1, <1>2 DEF Placed
<1>6. c \notin queue /\ batch = {}
  BY <1>1, <1>2 DEF Queued
<1>7. Queued'
  BY <1>1, <1>2, <1>6 DEF Queued
<1>8. ASSUME NEW d \in Held' PROVE OwnHistory(d)'
  <2>1. CASE d = c
    <3>1. history'[slot[c]] = <<>> /\ clean'[c] = {}
      BY <1>1, <1>2, <1>3 DEF Typed
    <3>2. QED BY <1>1, <1>6, <2>1, <3>1 DEF OwnHistory, Own, Rising, Numbers
  <2>2. CASE d # c
    <3>1. /\ history'[slot[d]] = history[slot[d]] /\ life'[d] = life[d]
          /\ sent'[d] = sent[d] /\ clean'[d] = clean[d]
      BY <1>1, <1>2, <1>8, <2>2 DEF Typed, Placed
    <3>2. OwnHistory(d)
      BY <1>2, <1>8 DEF IInv, Apart
    <3>3. QED BY <1>1, <3>1, <3>2 DEF OwnHistory
  <2>3. QED BY <2>1, <2>2
<1>9. QED BY <1>4, <1>5, <1>7, <1>8 DEF Apart

\* A stream that is closed is in no pass.
LEMMA FreeKeeps ==
  ASSUME IInv, built, NEW c \in Streams, Free(c) PROVE Typed' /\ Apart'
<1>1. /\ phase[c] = "open" /\ phase' = [phase EXCEPT ![c] = "closed"]
      /\ used' = used \ {slot[c]}
      /\ UNCHANGED <<life, sent, clean, slot, done, status, queue, batch, computing, capacity,
                     window, lanes, history, seen, built>>
  BY DEF Free, device
<1>2. Typed /\ Placed /\ Queued /\ c \in Held /\ Held' = Held \ {c}
  BY <1>1 DEF IInv, Apart, Held, Typed
<1>3. Typed'
  BY <1>1, <1>2 DEF Typed
<1>4. Placed'
  BY <1>1, <1>2 DEF Placed
<1>5. c \notin queue \cup batch
  BY <1>1, <1>2 DEF Queued
<1>6. Queued'
  BY <1>1, <1>2, <1>5 DEF Queued, Typed, Hop
<1>7. ASSUME NEW d \in Held' PROVE OwnHistory(d)'
  <2>1. d # c /\ d \in Held
    BY <1>2, <1>7
  <2>2. phase'[d] = phase[d]
    BY <1>1, <1>2, <2>1 DEF Typed
  <2>3. OwnHistory(d)
    BY <2>1 DEF IInv, Apart
  <2>4. QED BY <1>1, <2>2, <2>3 DEF OwnHistory
<1>8. QED BY <1>3, <1>4, <1>6, <1>7 DEF Apart

\* A hop is sent: it is above all those of the history.
LEMMA ProcessKeeps ==
  ASSUME IInv, built, NEW c \in Streams, Process(c) PROVE Typed' /\ Apart'
<1>1. /\ phase[c] = "open" /\ phase' = [phase EXCEPT ![c] = "waiting"]
      /\ sent' = [sent EXCEPT ![c] = @ + 1] /\ done' = [done EXCEPT ![c] = FALSE]
      /\ queue' = queue \cup {c}
      /\ UNCHANGED <<life, clean, slot, status, batch, computing, capacity, used, window, lanes,
                     history, seen, built>>
  BY DEF Process, device
<1>2. Typed /\ Placed /\ Queued /\ c \in Held /\ Held' = Held
  BY <1>1 DEF IInv, Apart, Held, Typed
<1>3. Typed'
  BY <1>1, <1>2 DEF Typed
<1>4. Placed'
  BY <1>1, <1>2 DEF Placed
<1>5. c \notin queue \cup batch
  BY <1>1, <1>2 DEF Queued
<1>6. \A d \in Streams \ {c} : /\ phase'[d] = phase[d] /\ done'[d] = done[d]
                               /\ sent'[d] = sent[d]
  BY <1>1, <1>2 DEF Typed
<1>7. phase'[c] = "waiting" /\ ~done'[c] /\ sent'[c] = sent[c] + 1
  BY <1>1, <1>2 DEF Typed
<1>8. Queued'
  <2>1. \A d \in queue' \cup batch' : phase'[d] = "waiting" /\ ~done'[d]
    BY <1>1, <1>2, <1>5, <1>6, <1>7 DEF Queued, Typed
  <2>2. \A d \in batch' : window'[slot'[d]] = Hop(d)'
    BY <1>1, <1>2, <1>5, <1>6 DEF Queued, Typed, Hop
  <2>3. QED BY <1>1, <1>2, <1>5, <2>1, <2>2 DEF Queued
<1>9. ASSUME NEW d \in Held' PROVE OwnHistory(d)'
  <2>1. d \in Held /\ d \in Streams /\ OwnHistory(d)
    BY <1>2, <1>9 DEF IInv, Apart, Held
  <2>2. CASE d = c
    <3>1. PICK h \in Seq(Marks) : h = history[slot[c]]
      BY <1>2, HeldSlot
    <3>2. /\ Own(h, c, life[c], sent[c]) /\ Rising(h) /\ clean[c] \subseteq Numbers(h)
      BY <2>1, <2>2, <3>1 DEF OwnHistory
    <3>3. sent[c] \in Nat /\ \A i \in DOMAIN h : h[i][3] \in Nat
      BY <1>2, ElementOfSeq DEF Typed, Marks
    <3>4. Own(h, c, life[c], sent[c] + 1) /\ sent[c] + 1 \notin Numbers(h)
      BY <3>2, <3>3 DEF Own, Numbers
    <3>5. QED BY <1>1, <1>7, <2>2, <3>1, <3>2, <3>4 DEF OwnHistory
  <2>3. CASE d # c
    BY <1>1, <1>6, <2>1, <2>3 DEF OwnHistory
  <2>4. QED BY <2>2, <2>3
<1>10. QED BY <1>3, <1>4, <1>8, <1>9 DEF Apart

\* The clean audio of a hop is handed over once its pass succeeded.
LEMMA ReturnKeeps ==
  ASSUME IInv, built, NEW c \in Streams, Return(c) PROVE Typed' /\ Apart'
<1>1. /\ phase[c] = "waiting" /\ done[c] /\ phase' = [phase EXCEPT ![c] = "open"]
      /\ clean' = [clean EXCEPT ![c] = IF status[c] THEN @ \cup {sent[c]} ELSE @]
      /\ UNCHANGED <<life, sent, slot, done, status, queue, batch, computing, capacity, used,
                     window, lanes, history, seen, built>>
  BY DEF Return, device
<1>2. Typed /\ Placed /\ Queued /\ c \in Held /\ Held' = Held
  BY <1>1 DEF IInv, Apart, Held, Typed
<1>3. Typed'
  BY <1>1, <1>2 DEF Typed
<1>4. Placed'
  BY <1>1, <1>2 DEF Placed
<1>5. c \notin queue \cup batch
  BY <1>1, <1>2 DEF Queued
<1>6. Queued'
  BY <1>1, <1>2, <1>5 DEF Queued, Typed, Hop
<1>7. ASSUME NEW d \in Held' PROVE OwnHistory(d)'
  <2>1. d \in Held /\ d \in Streams /\ OwnHistory(d)
    BY <1>2, <1>7 DEF IInv, Apart, Held
  <2>2. CASE d = c
    <3>1. /\ phase'[c] = "open"
          /\ clean'[c] = IF status[c] THEN clean[c] \cup {sent[c]} ELSE clean[c]
      BY <1>1, <1>2 DEF Typed
    <3>2. clean'[c] \subseteq Numbers(history[slot[c]])
      BY <1>1, <2>1, <2>2, <3>1 DEF OwnHistory
    <3>3. QED BY <1>1, <1>5, <2>1, <2>2, <3>1, <3>2 DEF OwnHistory
  <2>3. CASE d # c
    <3>1. phase'[d] = phase[d] /\ clean'[d] = clean[d]
      BY <1>1, <1>2, <2>1, <2>3 DEF Typed
    <3>2. QED BY <1>1, <2>1, <3>1 DEF OwnHistory
  <2>4. QED BY <2>2, <2>3
<1>8. QED BY <1>3, <1>4, <1>6, <1>7 DEF Apart

\* The worker takes the hops that wait: each sets the window of its own slot.
LEMMA StartPassKeeps == ASSUME IInv, built, StartPass PROVE Typed' /\ Apart'
<1> DEFINE taken == {slot[c] : c \in queue}
           hopOf(s) == Hop(CHOOSE c \in queue : slot[c] = s)
<1>1. /\ ~computing /\ batch' = queue /\ queue' = {} /\ computing' = TRUE
      /\ window' = [s \in Slots |-> IF s \in taken THEN hopOf(s) ELSE window[s]]
      /\ lanes' = lanes \cup taken /\ seen' = history
      /\ UNCHANGED <<phase, life, sent, clean, slot, done, status, capacity, used, history, built>>
  BY DEF StartPass, callers
<1>2. Typed /\ Placed /\ Queued /\ Held' = Held /\ batch = {} /\ lanes = {}
  BY <1>1 DEF IInv, Apart, Held, Queued
<1>3. queue \subseteq Held
  BY <1>2 DEF Queued, Held, Typed
<1>4. \A c \in queue : slot[c] \in Slots /\ hopOf(slot[c]) = Hop(c)
  <2>1. SUFFICES ASSUME NEW c \in queue PROVE slot[c] \in Slots /\ hopOf(slot[c]) = Hop(c)
    OBVIOUS
  <2>2. slot[c] \in Slots
    BY <1>2, <1>3, HeldSlot
  <2>3. \A d \in queue : slot[d] = slot[c] => d = c
    BY <1>2, <1>3 DEF Placed
  <2>4. (CHOOSE d \in queue : slot[d] = slot[c]) = c
    BY <2>3
  <2>5. QED BY <2>2, <2>4
<1>5. \A c \in Streams : Hop(c) \in Marks
  BY <1>2 DEF Hop, Marks, Typed
<1>6. Typed'
  <2>1. \A s \in Slots : window'[s] \in Marks \cup {Silence}
    <3>1. SUFFICES ASSUME NEW s \in Slots PROVE window'[s] \in Marks \cup {Silence}
      OBVIOUS
    <3>2. CASE s \in taken
      <4>1. PICK c \in queue : s = slot[c]
        BY <3>2
      <4>2. window'[s] = Hop(c)
        BY <1>1, <1>4, <3>2, <4>1
      <4>3. QED BY <1>2, <1>5, <4>2 DEF Typed
    <3>3. CASE s \notin taken
      BY <1>1, <1>2, <3>3 DEF Typed
    <3>4. QED BY <3>2, <3>3
  <2>2. window' \in [Slots -> Marks \cup {Silence}]
    BY <1>1, <2>1
  <2>3. QED BY <1>1, <1>2, <2>2 DEF Typed
<1>7. Placed'
  BY <1>1, <1>2 DEF Placed
<1>8. Queued'
  <2>1. ASSUME NEW c \in batch' PROVE window'[slot'[c]] = Hop(c)'
    <3>1. c \in queue /\ slot[c] \in taken /\ slot[c] \in Slots /\ hopOf(slot[c]) = Hop(c)
      BY <1>1, <1>4, <2>1
    <3>2. window'[slot[c]] = Hop(c)
      BY <1>1, <3>1
    <3>3. QED BY <1>1, <3>2 DEF Hop
  <2>2. lanes' = {slot'[c] : c \in batch'}
    BY <1>1, <1>2
  <2>3. QED BY <1>1, <1>2, <2>1, <2>2 DEF Queued
<1>9. ASSUME NEW d \in Held' PROVE OwnHistory(d)'
  BY <1>1, <1>2, <1>9 DEF IInv, Apart, OwnHistory
<1>10. QED BY <1>6, <1>7, <1>8, <1>9 DEF Apart

\* A pass adds to a history the hop of its own stream, and nothing to the
\* history of a stream that rests, whether it succeeds or fails.
LEMMA EndPassKeeps ==
  ASSUME IInv, built, NEW ok \in BOOLEAN, EndPass(ok) PROVE Typed' /\ Apart'
<1>1. PICK moved \in SUBSET Slots :
        /\ ok => moved = Slots
        /\ history' = [s \in Slots |-> IF s \in moved THEN Advance(s) ELSE seen[s]]
  BY DEF EndPass
<1>2. /\ computing /\ computing' = FALSE /\ batch' = {}
      /\ lanes' = lanes \ {slot[c] : c \in batch}
      /\ done' = [c \in Streams |-> c \in batch \/ done[c]]
      /\ status' = [c \in Streams |-> IF c \in batch THEN ok ELSE status[c]]
      /\ UNCHANGED <<phase, life, sent, clean, slot, queue, capacity, used, window, seen, built>>
  BY DEF EndPass, RestLanes, Answer, callers
<1>3. /\ Typed /\ Placed /\ Queued /\ Held' = Held /\ seen = history /\ lanes' = {}
      /\ lanes = {slot[c] : c \in batch}
  BY <1>2 DEF IInv, Apart, Held, Queued
<1>4. batch \subseteq Held
  BY <1>3 DEF Queued, Held, Typed
<1>5. \A s \in Slots \ lanes : history'[s] = history[s]
  BY <1>1, <1>3 DEF Advance
<1>6. \A c \in batch :
        \/ history'[slot[c]] = history[slot[c]] /\ ~ok
        \/ history'[slot[c]] = Append(history[slot[c]], <<c, life[c], sent[c]>>)
  <2>1. SUFFICES ASSUME NEW c \in batch
                 PROVE  \/ history'[slot[c]] = history[slot[c]] /\ ~ok
                        \/ history'[slot[c]] =
                             Append(history[slot[c]], <<c, life[c], sent[c]>>)
    OBVIOUS
  <2>2. slot[c] \in Slots /\ slot[c] \in lanes
    BY <1>3, <1>4, HeldSlot
  <2>3. window[slot[c]] = <<c, life[c], sent[c]>>
    BY <1>3 DEF Queued, Hop
  <2>4. QED BY <1>1, <1>3, <2>2, <2>3 DEF Advance
<1>7. \A c \in batch :
        /\ history[slot[c]] \in Seq(Marks) /\ c \in Streams /\ life[c] \in Nat
        /\ sent[c] \in Nat /\ OwnHistory(c)
        /\ sent[c] \notin Numbers(history[slot[c]])
  <2>1. SUFFICES ASSUME NEW c \in batch
                 PROVE  /\ history[slot[c]] \in Seq(Marks) /\ c \in Streams /\ life[c] \in Nat
                        /\ sent[c] \in Nat /\ OwnHistory(c)
                        /\ sent[c] \notin Numbers(history[slot[c]])
    OBVIOUS
  <2>2. OwnHistory(c)
    BY <1>4 DEF IInv, Apart
  <2>3. history[slot[c]] \in Seq(Marks)
    BY <1>3, <1>4, HeldSlot
  <2>4. QED BY <1>3, <2>2, <2>3 DEF OwnHistory, Typed
<1>8. Typed'
  <2>1. \A s \in Slots : history'[s] \in Seq(Marks)
    <3>1. SUFFICES ASSUME NEW s \in Slots PROVE history'[s] \in Seq(Marks)
      OBVIOUS
    <3>2. CASE s \in lanes
      <4>1. PICK c \in batch : s = slot[c]
        BY <1>3, <3>2
      <4>2. <<c, life[c], sent[c]>> \in Marks
        BY <1>7 DEF Marks
      <4>3. Append(history[s], <<c, life[c], sent[c]>>) \in Seq(Marks)
        BY <1>7, <4>1, <4>2, AppendProperties
      <4>4. QED BY <1>6, <1>7, <4>1, <4>3
    <3>3. CASE s \notin lanes
      BY <1>3, <1>5, <3>3 DEF Typed
    <3>4. QED BY <3>2, <3>3
  <2>2. history' \in [Slots -> Seq(Marks)]
    BY <1>1, <2>1
  <2>3. done' \in [Streams -> BOOLEAN] /\ status' \in [Streams -> BOOLEAN]
    BY <1>2, <1>3 DEF Typed
  <2>4. QED BY <1>2, <1>3, <2>2, <2>3 DEF Typed
<1>9. Placed'
  BY <1>2, <1>3 DEF Placed
<1>10. Queued'
  <2>1. \A c \in queue : phase[c] = "waiting" /\ ~done[c] /\ c \notin batch /\ c \in Streams
    BY <1>3 DEF Queued, Typed
  <2>2. \A c \in queue' \cup batch' : phase'[c] = "waiting" /\ ~done'[c]
    BY <1>2, <2>1
  <2>3. QED BY <1>2, <1>3, <2>2 DEF Queued
<1>11. ASSUME NEW d \in Held' PROVE OwnHistory(d)'
  <2>1. d \in Held /\ d \in Streams /\ OwnHistory(d) /\ slot[d] \in Slots
    BY <1>3, <1>11, HeldSlot DEF IInv, Apart, Held
  <2>2. CASE d \in batch
    <3>1. d \notin queue' \cup batch' /\ (status'[d] <=> ok)
      BY <1>2, <1>3, <2>1, <2>2 DEF Queued
    <3>2. CASE history'[slot[d]] = history[slot[d]] /\ ~ok
      BY <1>2, <2>1, <3>1, <3>2 DEF OwnHistory
    <3>3. CASE history'[slot[d]] = Append(history[slot[d]], <<d, life[d], sent[d]>>)
      <4>1. PICK h \in Seq(Marks) : h = history[slot[d]]
        BY <1>7, <2>2
      <4>2. PICK g : g = Append(h, <<d, life[d], sent[d]>>)
        OBVIOUS
      <4>3. Own(h, d, life[d], sent[d]) /\ Rising(h) /\ clean[d] \subseteq Numbers(h)
        BY <2>1, <4>1 DEF OwnHistory
      <4>4. /\ Own(g, d, life[d], sent[d]) /\ Rising(g)
            /\ Numbers(g) = Numbers(h) \cup {sent[d]}
        BY <1>7, <2>2, <4>1, <4>2, <4>3, OneMore
      <4>5. history'[slot'[d]] = g
        BY <1>2, <3>3, <4>1, <4>2
      <4>6. QED BY <1>2, <3>1, <4>3, <4>4, <4>5 DEF OwnHistory
    <3>4. QED BY <1>6, <2>2, <3>2, <3>3
  <2>3. CASE d \notin batch
    <3>1. slot[d] \notin lanes
      BY <1>3, <1>4, <2>1, <2>3 DEF Placed
    <3>2. history'[slot[d]] = history[slot[d]]
      BY <1>5, <2>1, <3>1
    <3>3. (done'[d] <=> done[d]) /\ (status'[d] <=> status[d])
      BY <1>2, <2>1, <2>3
    <3>4. QED BY <1>2, <2>1, <2>3, <3>2, <3>3 DEF OwnHistory
  <2>4. QED BY <2>2, <2>3
<1>12. QED BY <1>8, <1>9, <1>10, <1>11 DEF Apart

LEMMA StepApart == IInv /\ [Next]_vars => IInv'
<1>1. SUFFICES ASSUME IInv, [Next]_vars PROVE IInv'
  OBVIOUS
<1>2. CASE Worker
  BY <1>1, <1>2, StartPassKeeps, EndPassKeeps DEF Worker, IInv
<1>3. ASSUME NEW c \in Streams, Caller(c) PROVE IInv'
  BY <1>1, <1>3, TakeSlotKeeps, GrowKeeps, GrowFailsKeeps, ResetKeeps, FreeKeeps, ProcessKeeps,
     ReturnKeeps DEF Caller, IInv
<1>4. CASE (built /\ Stop) \/ UNCHANGED vars
  <2>1. UNCHANGED <<phase, life, sent, clean, slot, done, status, queue, batch, computing,
                   capacity, used, window, lanes, history, seen, built>>
    BY <1>4 DEF Stop, callers, device, vars
  <2>2. Typed' /\ (Placed <=> Placed') /\ (Queued <=> Queued') /\ Held' = Held
    BY <1>1, <2>1 DEF IInv, Typed, Placed, Queued, Held, Hop
  <2>3. \A c \in Held : OwnHistory(c) <=> OwnHistory(c)'
    BY <2>1 DEF OwnHistory
  <2>4. QED BY <1>1, <2>1, <2>2, <2>3 DEF IInv, Apart
<1>5. QED BY <1>1, <1>2, <1>3, <1>4 DEF Next

LEMMA ApartIsHeard == IInv => EchoApart
<1>1. SUFFICES ASSUME IInv, built, NEW c \in Held PROVE OwnHops(c)
  BY DEF EchoApart
<1>2. OwnHistory(c)
  BY <1>1 DEF IInv, Apart
<1>3. QED BY <1>2 DEF OwnHops, OwnHistory, Own, Rising, Numbers

\* The canceller of a stream never takes in a hop of another one, nor of the
\* stream that held its slot before: lv_process, lv_state_new, lv_state_reset
\* and the passes of the worker, in whatever order the threads come.
THEOREM StreamsApart == Spec => []EchoApart
<1>1. Init => IInv
  BY InitApart
<1>2. IInv /\ [Next]_vars => IInv'
  BY StepApart
<1>3. QED BY <1>1, <1>2, ApartIsHeard, PTL DEF Spec

(* ----------------------------- the networks ---------------------------- *)

Sounds == Streams \X Nat
Sound == Sounds \union {Nets!Nothing}
Windows == Sound \X Sounds
Places == {"closed", "session", "framed", "computing", "asking", "waiting"}

NetsTyped ==
  /\ at \in [Streams -> Places] /\ calls \in [Streams -> Nat]
  /\ memory \in [Streams -> Seq(Windows)] /\ fed \in [Streams -> Seq(Windows)]
  /\ left \in [Streams -> Sound] /\ frame \in [Streams -> Windows \union {Nets!Nothing}]
  /\ inputs \in [frame : Windows \union {Nets!Nothing}, memory : Seq(Windows)]
  /\ owner \in Streams \union {Nets!Nobody} /\ caller \in Streams \union {Nets!Nobody}
  /\ job \in [audio : Sound, ready : BOOLEAN, done : BOOLEAN, of : Sound, error : Sound]
  /\ worker \in {"waiting", "computing", "gone"} /\ recorded \in Sound
  /\ answer \in [Streams -> [of : Sound, error : Sound]]

\* The windows of a session, each behind the tail of the one before.
InOrder(windows, s) ==
  \A i \in 1 .. Len(windows) :
    /\ windows[i][2][1] = s
    /\ windows[i][1] = IF i = 1 THEN Nets!Nothing ELSE windows[i - 1][2]
LastOf(windows) == IF windows = <<>> THEN Nets!Nothing ELSE windows[Len(windows)][2]

Remembers(s) ==
  at[s] # "closed" =>
    memory[s] = fed[s] /\ left[s] = LastOf(fed[s]) /\ InOrder(fed[s], s)
Framed(s) == at[s] \in {"framed", "computing"} => frame[s] = <<left[s], Nets!Audio(s)>>
Mine(s) ==
  at[s] = "computing" => owner = s /\ inputs.frame = frame[s] /\ inputs.memory = memory[s]
Waits(s) ==
  at[s] = "waiting" =>
    /\ caller = s /\ job.audio = Nets!Audio(s)
    /\ job.done => job.of = Nets!Audio(s) /\ job.error \in {Nets!Nothing, Nets!Audio(s)}
Given(s) ==
  /\ at[s] = "closed" => answer[s].of = Nets!Nothing
  /\ at[s] = "session" /\ answer[s].of # Nets!Nothing =>
       answer[s].of = Nets!Audio(s) /\ answer[s].error \in {Nets!Nothing, Nets!Audio(s)}
OneJob ==
  /\ job.ready \/ worker = "computing" =>
       caller \in Streams /\ at[caller] = "waiting" /\ ~job.done
  /\ ~(job.ready /\ worker = "computing")

SessionOwn(s) == Remembers(s) /\ Framed(s) /\ Mine(s) /\ Waits(s) /\ Given(s)
NetsInv == NetsTyped /\ OneJob /\ \A s \in Streams : SessionOwn(s)

LEMMA InitOwn == Nets!Init => NetsInv
<1> SUFFICES ASSUME Nets!Init PROVE NetsInv
  OBVIOUS
<1>1. NetsTyped
  BY DEF Nets!Init, NetsTyped, Places, Sound, Nets!NoJob, Nets!Answered, Nets!Nothing
<1>2. OneJob
  BY DEF Nets!Init, OneJob, Nets!NoJob
<1>3. ASSUME NEW s \in Streams PROVE SessionOwn(s)
  BY DEF Nets!Init, SessionOwn, Remembers, Framed, Mine, Waits, Given, Nets!Answered
<1> QED BY <1>1, <1>2, <1>3 DEF NetsInv

LEMMA AudioTyped ==
  ASSUME NetsInv,
   NEW s \in Streams PROVE Nets!Audio(s) \in Sounds /\ Nets!Audio(s) \in Sound
BY DEF NetsInv, NetsTyped, Nets!Audio, Sounds, Sound

(* ------------------------------- a session ----------------------------- *)

LEMMA OpenOwn == ASSUME NetsInv, NEW s \in Streams, Nets!Open(s) PROVE NetsInv'
<1>1. NetsTyped'
  BY DEF NetsInv, NetsTyped, Nets!Open, Nets!classifier, Places, Sound
<1>2. OneJob'
  BY DEF NetsInv, NetsTyped, OneJob, Nets!Open, Nets!classifier
<1>3. ASSUME NEW t \in Streams PROVE SessionOwn(t)'
  <2>1. Remembers(t)'
    BY DEF NetsInv, NetsTyped, SessionOwn, Remembers, Nets!Open, InOrder, LastOf
  <2>2. Framed(t)' /\ Mine(t)' /\ Waits(t)' /\ Given(t)'
    BY DEF NetsInv, NetsTyped, SessionOwn, Framed, Mine, Waits, Given, Nets!Open, Nets!classifier,
       Nets!Audio
  <2> QED BY <2>1, <2>2 DEF SessionOwn
<1> QED BY <1>1, <1>2, <1>3 DEF NetsInv

LEMMA CloseOwn == ASSUME NetsInv, NEW s \in Streams, Nets!Close(s) PROVE NetsInv'
<1>1. NetsTyped'
  BY DEF NetsInv, NetsTyped, Nets!Close, Nets!sides, Nets!classifier, Places, Sound, Nets!Answered
<1>2. OneJob'
  BY DEF NetsInv, NetsTyped, OneJob, Nets!Close, Nets!classifier
<1>3. ASSUME NEW t \in Streams PROVE SessionOwn(t)'
  <2>1. Remembers(t)' /\ Framed(t)' /\ Mine(t)' /\ Waits(t)'
    BY DEF NetsInv, NetsTyped, SessionOwn, Remembers, Framed, Mine, Waits, Nets!Close, Nets!sides,
       Nets!classifier, Nets!Audio
  <2>2. Given(t)'
    BY DEF NetsInv, NetsTyped, SessionOwn, Given, Nets!Close, Nets!Audio, Nets!Answered
  <2> QED BY <2>1, <2>2 DEF SessionOwn
<1> QED BY <1>1, <1>2, <1>3 DEF NetsInv

(* --------------------------- the voice network ------------------------- *)

LEMMA FrameOwn == ASSUME NetsInv, NEW s \in Streams, Nets!Frame(s) PROVE NetsInv'
<1>1. calls' = [calls EXCEPT ![s] = calls[s] + 1] /\ <<s, calls[s] + 1>> \in Sounds
  BY DEF NetsInv, NetsTyped, Nets!Frame, Nets!Call, Sounds
<1>2. NetsTyped'
  <2> DEFINE new == <<left[s], <<s, calls[s] + 1>>>>
  <2>1. new \in Windows /\ frame' = [frame EXCEPT ![s] = new]
    BY <1>1 DEF NetsInv, NetsTyped, Nets!Frame, Windows
  <2> HIDE DEF new
  <2>2. frame' \in [Streams -> Windows \union {Nets!Nothing}] /\ calls' \in [Streams -> Nat]
    BY <1>1, <2>1 DEF NetsInv, NetsTyped
  <2>3. /\ at' \in [Streams -> Places]
        /\ UNCHANGED <<memory, left, inputs, owner, fed, Nets!classifier, answer>>
    BY DEF NetsInv, NetsTyped, Nets!Frame, Nets!Call, Places
  <2> QED BY <2>2, <2>3 DEF NetsInv, NetsTyped, Nets!classifier
<1>3. OneJob'
  BY DEF NetsInv, NetsTyped, OneJob, Nets!Frame, Nets!Call, Nets!classifier
<1>4. ASSUME NEW t \in Streams PROVE SessionOwn(t)'
  <2>1. Remembers(t)'
    BY DEF NetsInv, NetsTyped, SessionOwn, Remembers, Nets!Frame, Nets!Call
  <2>2. Framed(t)' /\ Mine(t)' /\ Waits(t)'
    BY <1>1 DEF NetsInv, NetsTyped, SessionOwn, Framed, Mine, Waits, Nets!Frame, Nets!Call,
       Nets!classifier, Nets!Audio
  <2>3. Given(t)'
    BY <1>1 DEF NetsInv, NetsTyped, SessionOwn, Given, Nets!Frame, Nets!Call, Nets!Audio
  <2> QED BY <2>1, <2>2, <2>3 DEF SessionOwn
<1> QED BY <1>2, <1>3, <1>4 DEF NetsInv

LEMMA SetInputsOwn ==
  ASSUME Nets!Nobody \notin Streams, NetsInv, NEW s \in Streams, Nets!SetInputs(s) PROVE NetsInv'
<1>1. NetsTyped'
  BY DEF NetsInv, NetsTyped, Nets!SetInputs, Nets!classifier, Places
<1>2. OneJob'
  BY DEF NetsInv, NetsTyped, OneJob, Nets!SetInputs, Nets!classifier
<1>3. \A t \in Streams : at[t] # "computing"
  BY DEF NetsInv, SessionOwn, Mine, Nets!SetInputs
<1>4. ASSUME NEW t \in Streams PROVE SessionOwn(t)'
  <2>1. Remembers(t)'
    BY DEF NetsInv, NetsTyped, SessionOwn, Remembers, Nets!SetInputs
  <2>2. Framed(t)' /\ Mine(t)' /\ Waits(t)' /\ Given(t)'
    BY <1>3 DEF NetsInv, NetsTyped, SessionOwn, Framed, Mine, Waits, Given, Nets!SetInputs,
       Nets!classifier, Nets!Audio
  <2> QED BY <2>1, <2>2 DEF SessionOwn
<1> QED BY <1>1, <1>2, <1>4 DEF NetsInv

\* One added more, behind the tail of the last.
LEMMA OneMoreWindow ==
  ASSUME NEW s, NEW windows \in Seq(Windows), NEW sound \in Sounds, sound[1] = s,
         InOrder(windows, s), <<LastOf(windows), sound>> \in Windows
  PROVE  LET more == Append(windows, <<LastOf(windows), sound>>) IN
         more \in Seq(Windows) /\ InOrder(more, s) /\ LastOf(more) = sound
<1> DEFINE added == <<LastOf(windows), sound>>
           more == Append(windows, added)
<1>1. /\ more \in Seq(Windows) /\ Len(more) = Len(windows) + 1
      /\ \A i \in 1 .. Len(windows) : more[i] = windows[i]
      /\ more[Len(windows) + 1] = added /\ more # <<>>
  <2>1. added \in Windows
    OBVIOUS
  <2> HIDE DEF added
  <2> QED BY <2>1
<1>2. added[1] = LastOf(windows) /\ added[2] = sound
  OBVIOUS
<1> HIDE DEF added, more
<1>3. LastOf(more) = sound
  BY <1>1, <1>2 DEF LastOf
<1>4. InOrder(more, s)
  <2> SUFFICES ASSUME NEW i \in 1 .. Len(windows) + 1
               PROVE  /\ more[i][2][1] = s
                      /\ more[i][1] = IF i = 1 THEN Nets!Nothing ELSE more[i - 1][2]
    BY <1>1 DEF InOrder
  <2>1. CASE i \in 1 .. Len(windows)
    <3>1. more[i] = windows[i] /\ (i # 1 => more[i - 1] = windows[i - 1])
      BY <1>1, <2>1
    <3> QED BY <2>1, <3>1 DEF InOrder
  <2>2. CASE i = Len(windows) + 1
    <3>1. more[i] = added /\ (i # 1 => more[i - 1] = windows[Len(windows)])
      BY <1>1, <2>2
    <3>2. i = 1 <=> windows = <<>>
      BY <2>2
    <3> QED BY <1>2, <2>2, <3>1, <3>2 DEF LastOf
  <2> QED BY <2>1, <2>2
<1> QED BY <1>1, <1>3, <1>4 DEF more, added

LEMMA ComputeOwn ==
  ASSUME Nets!Nobody \notin Streams, NetsInv, NEW s \in Streams, Nets!Compute(s) PROVE NetsInv'
<1>1. /\ at[s] = "computing" /\ owner = s /\ frame[s] = <<left[s], Nets!Audio(s)>>
      /\ inputs.frame = frame[s] /\ inputs.memory = memory[s] /\ memory[s] = fed[s]
      /\ left[s] = LastOf(fed[s]) /\ InOrder(fed[s], s) /\ fed[s] \in Seq(Windows)
  BY DEF NetsInv, NetsTyped, SessionOwn, Remembers, Framed, Mine, Nets!Compute
<1>2. /\ Nets!Audio(s) \in Sounds /\ Nets!Audio(s) \in Sound /\ Nets!Audio(s)[1] = s
      /\ left[s] \in Sound
  BY AudioTyped DEF NetsInv, NetsTyped, Nets!Audio
<1> DEFINE added == <<LastOf(fed[s]), Nets!Audio(s)>>
           more == Append(fed[s], added)
<1>3. added \in Windows /\ added = frame[s] /\ added[2] = Nets!Audio(s)
  BY <1>1, <1>2 DEF Windows
<1>4. more \in Seq(Windows) /\ InOrder(more, s) /\ LastOf(more) = Nets!Audio(s)
  BY <1>1, <1>2, <1>3, OneMoreWindow
<1>5. /\ at' = [at EXCEPT ![s] = "session"] /\ owner' = Nets!Nobody
      /\ UNCHANGED <<calls, frame, inputs, Nets!classifier>>
      /\ \/ /\ memory' = [memory EXCEPT ![s] = more] /\ fed' = [fed EXCEPT ![s] = more]
            /\ left' = [left EXCEPT ![s] = Nets!Audio(s)]
            /\ answer' = [answer EXCEPT ![s] = Nets!Answered(Nets!Audio(s), Nets!Nothing)]
         \/ /\ UNCHANGED <<memory, fed, left>>
            /\ answer' = [answer EXCEPT ![s] = Nets!Answered(Nets!Audio(s), Nets!Audio(s))]
  <2> HIDE DEF added
  <2> QED BY <1>1, <1>3 DEF NetsInv, NetsTyped, Nets!Compute, Nets!PassSucceeds, Nets!PassFails
<1> HIDE DEF added, more
<1>6. NetsTyped'
  <2>1. /\ memory' \in [Streams -> Seq(Windows)] /\ fed' \in [Streams -> Seq(Windows)]
        /\ left' \in [Streams -> Sound]
    <3>1. /\ memory \in [Streams -> Seq(Windows)] /\ fed \in [Streams -> Seq(Windows)]
          /\ left \in [Streams -> Sound] /\ more \in Seq(Windows) /\ Nets!Audio(s) \in Sound
      BY <1>2, <1>4 DEF NetsInv, NetsTyped
    <3>2. \/ /\ memory' = [memory EXCEPT ![s] = more] /\ fed' = [fed EXCEPT ![s] = more]
             /\ left' = [left EXCEPT ![s] = Nets!Audio(s)]
          \/ UNCHANGED <<memory, fed, left>>
      BY <1>5
    <3> QED BY <3>1, <3>2
  <2>2. answer' \in [Streams -> [of : Sound, error : Sound]]
    <3>1. /\ Nets!Answered(Nets!Audio(s), Nets!Nothing) \in [of : Sound, error : Sound]
          /\ Nets!Answered(Nets!Audio(s), Nets!Audio(s)) \in [of : Sound, error : Sound]
      BY <1>2 DEF Nets!Answered, Sound
    <3> QED BY <1>5, <3>1 DEF NetsInv, NetsTyped
  <2>3. at' \in [Streams -> Places]
    BY <1>5 DEF NetsInv, NetsTyped, Places
  <2> QED BY <1>5, <2>1, <2>2, <2>3 DEF NetsInv, NetsTyped, Nets!classifier
<1>7. OneJob'
  BY <1>1, <1>5 DEF NetsInv, NetsTyped, OneJob, Nets!classifier
<1>8. ASSUME NEW t \in Streams PROVE SessionOwn(t)'
  <2>1. Remembers(t)'
    <3>1. CASE t = s
      BY <1>1, <1>4, <1>5, <3>1 DEF NetsInv, NetsTyped, Remembers
    <3>2. CASE t # s
      BY <1>5, <3>2 DEF NetsInv, NetsTyped, SessionOwn, Remembers
    <3> QED BY <3>1, <3>2
  <2>2. Framed(t)' /\ Mine(t)' /\ Waits(t)'
    BY <1>1, <1>5 DEF NetsInv, NetsTyped, SessionOwn, Framed, Mine, Waits, Nets!classifier,
       Nets!Audio
  <2>3. Given(t)'
    <3>1. CASE t = s
      BY <1>5, <3>1 DEF NetsInv, NetsTyped, Given, Nets!Audio, Nets!Answered
    <3>2. CASE t # s
      BY <1>5, <3>2 DEF NetsInv, NetsTyped, SessionOwn, Given, Nets!Audio
    <3> QED BY <3>1, <3>2
  <2> QED BY <2>1, <2>2, <2>3 DEF SessionOwn
<1> QED BY <1>6, <1>7, <1>8 DEF NetsInv

(* ---------------------------- the Nets!classifier --------------------------- *)

LEMMA AskOwn == ASSUME NetsInv, NEW s \in Streams, Nets!Ask(s) PROVE NetsInv'
<1>1. NetsTyped'
  BY DEF NetsInv, NetsTyped, Nets!Ask, Nets!Call, Nets!sides, Nets!classifier, Places
<1>2. OneJob'
  BY DEF NetsInv, NetsTyped, OneJob, Nets!Ask, Nets!Call, Nets!classifier
<1>3. ASSUME NEW t \in Streams PROVE SessionOwn(t)'
  <2>1. Remembers(t)'
    BY DEF NetsInv, NetsTyped, SessionOwn, Remembers, Nets!Ask, Nets!Call, Nets!sides
  <2>2. Framed(t)' /\ Mine(t)' /\ Waits(t)' /\ Given(t)'
    BY DEF NetsInv, NetsTyped, SessionOwn, Framed, Mine, Waits, Given, Nets!Ask, Nets!Call,
       Nets!sides, Nets!classifier, Nets!Audio
  <2> QED BY <2>1, <2>2 DEF SessionOwn
<1> QED BY <1>1, <1>2, <1>3 DEF NetsInv

LEMMA PostOwn ==
  ASSUME Nets!Nobody \notin Streams, NetsInv, NEW s \in Streams, Nets!Post(s) PROVE NetsInv'
<1>1. /\ at' = [at EXCEPT ![s] = "waiting"] /\ caller' = s /\ at[s] = "asking"
      /\ job' = [job EXCEPT !.audio = Nets!Audio(s), !.ready = TRUE, !.done = FALSE]
      /\ UNCHANGED <<calls, Nets!sides, worker, recorded, halt, answer>>
  BY DEF Nets!Post, Nets!Posted
<1>2. /\ job'.audio = Nets!Audio(s) /\ job'.ready = TRUE /\ job'.done = FALSE
      /\ job' \in [audio : Sound, ready : BOOLEAN, done : BOOLEAN, of : Sound, error : Sound]
  BY <1>1, AudioTyped DEF NetsInv, NetsTyped
<1>3. caller = Nets!Nobody /\ worker # "computing" /\ \A t \in Streams : at[t] # "waiting"
  BY DEF NetsInv, OneJob, SessionOwn, Waits, Nets!Post
<1>4. NetsTyped'
  BY <1>1, <1>2 DEF NetsInv, NetsTyped, Nets!sides, Places
<1>5. OneJob'
  BY <1>1, <1>2, <1>3 DEF NetsInv, NetsTyped, OneJob
<1>6. ASSUME NEW t \in Streams PROVE SessionOwn(t)'
  <2>1. Remembers(t)'
    BY <1>1 DEF NetsInv, NetsTyped, SessionOwn, Remembers, Nets!sides
  <2>2. Framed(t)' /\ Mine(t)' /\ Given(t)'
    BY <1>1 DEF NetsInv, NetsTyped, SessionOwn, Framed, Mine, Given, Nets!sides, Nets!Audio
  <2>3. Waits(t)'
    BY <1>1, <1>2, <1>3 DEF NetsInv, NetsTyped, Waits, Nets!Audio
  <2> QED BY <2>1, <2>2, <2>3 DEF SessionOwn
<1> QED BY <1>4, <1>5, <1>6 DEF NetsInv

LEMMA TakeOwn == ASSUME NetsInv, Nets!Take PROVE NetsInv'
<1>1. /\ job' = [job EXCEPT !.ready = FALSE] /\ worker' = "computing" /\ job.ready
      /\ UNCHANGED <<at, calls, Nets!sides, caller, recorded, halt, answer>>
  BY DEF Nets!Take
<1>2. /\ ~job'.ready /\ job'.audio = job.audio /\ job'.done = job.done
      /\ job'.of = job.of /\ job'.error = job.error
      /\ job' \in [audio : Sound, ready : BOOLEAN, done : BOOLEAN, of : Sound, error : Sound]
  BY <1>1 DEF NetsInv, NetsTyped
<1>3. NetsTyped'
  BY <1>1, <1>2 DEF NetsInv, NetsTyped, Nets!sides
<1>4. OneJob'
  BY <1>1, <1>2 DEF NetsInv, OneJob
<1>5. ASSUME NEW t \in Streams PROVE SessionOwn(t)'
  <2>1. Remembers(t)'
    BY <1>1 DEF NetsInv, SessionOwn, Remembers, Nets!sides
  <2>2. Framed(t)' /\ Mine(t)' /\ Given(t)' /\ Waits(t)'
    BY <1>1, <1>2 DEF NetsInv, SessionOwn, Framed, Mine, Given, Waits, Nets!sides, Nets!Audio
  <2> QED BY <2>1, <2>2 DEF SessionOwn
<1> QED BY <1>3, <1>4, <1>5 DEF NetsInv

LEMMA ScoreOwn == ASSUME NetsInv, Nets!Score PROVE NetsInv'
<1>1. PICK failed \in BOOLEAN :
        /\ recorded' = IF failed THEN job.audio ELSE recorded
        /\ job' = [job EXCEPT !.of = job.audio, !.done = TRUE,
                              !.error = IF failed THEN recorded' ELSE Nets!Nothing]
  BY DEF Nets!Score
<1>2. /\ worker = "computing" /\ worker' = "waiting"
      /\ UNCHANGED <<at, calls, Nets!sides, caller, halt, answer>>
  BY DEF Nets!Score
<1>3. job.audio \in Sound /\ recorded' \in Sound
  BY <1>1 DEF NetsInv, NetsTyped
<1>4. /\ job'.ready = job.ready /\ job'.audio = job.audio /\ job'.of = job.audio
      /\ job'.error \in {Nets!Nothing, job.audio}
      /\ job' \in [audio : Sound, ready : BOOLEAN, done : BOOLEAN, of : Sound, error : Sound]
  BY <1>1, <1>3 DEF NetsInv, NetsTyped, Sound
<1>5. NetsTyped'
  BY <1>2, <1>3, <1>4 DEF NetsInv, NetsTyped, Nets!sides
<1>6. OneJob'
  BY <1>2, <1>4 DEF NetsInv, OneJob
<1>7. ASSUME NEW t \in Streams PROVE SessionOwn(t)'
  <2>1. Remembers(t)'
    BY <1>2 DEF NetsInv, SessionOwn, Remembers, Nets!sides
  <2>2. Framed(t)' /\ Mine(t)' /\ Given(t)' /\ Waits(t)'
    BY <1>2, <1>4 DEF NetsInv, SessionOwn, Framed, Mine, Given, Waits, Nets!sides, Nets!Audio
  <2> QED BY <2>1, <2>2 DEF SessionOwn
<1> QED BY <1>5, <1>6, <1>7 DEF NetsInv

LEMMA ReturnOwn ==
  ASSUME Nets!Nobody \notin Streams, NetsInv, NEW s \in Streams, Nets!Return(s) PROVE NetsInv'
<1>1. /\ at' = [at EXCEPT ![s] = "session"] /\ caller' = Nets!Nobody
      /\ at[s] = "waiting" /\ job.done
      /\ answer' = [answer EXCEPT ![s] = Nets!Answered(job.of, job.error)]
      /\ UNCHANGED <<calls, Nets!sides, job, worker, recorded, halt>>
  BY DEF Nets!Return
<1>2. /\ caller = s /\ job.of = Nets!Audio(s) /\ job.error \in {Nets!Nothing, Nets!Audio(s)}
      /\ job.of \in Sound /\ job.error \in Sound
  BY <1>1 DEF NetsInv, NetsTyped, SessionOwn, Waits
<1>3. NetsTyped'
  BY <1>1, <1>2 DEF NetsInv, NetsTyped, Nets!sides, Places, Nets!Answered
<1>4. OneJob'
  BY <1>1, <1>2 DEF NetsInv, OneJob
<1>5. ASSUME NEW t \in Streams PROVE SessionOwn(t)'
  <2>1. Remembers(t)'
    BY <1>1 DEF NetsInv, NetsTyped, SessionOwn, Remembers, Nets!sides
  <2>2. Framed(t)' /\ Mine(t)' /\ Waits(t)'
    BY <1>1, <1>2 DEF NetsInv, NetsTyped, SessionOwn, Framed, Mine, Waits, Nets!sides, Nets!Audio
  <2>3. Given(t)'
    <3>1. CASE t = s
      BY <1>1, <1>2, <3>1 DEF NetsInv, NetsTyped, Given, Nets!Audio, Nets!Answered
    <3>2. CASE t # s
      BY <1>1, <3>2 DEF NetsInv, NetsTyped, SessionOwn, Given, Nets!Audio
    <3> QED BY <3>1, <3>2
  <2> QED BY <2>1, <2>2, <2>3 DEF SessionOwn
<1> QED BY <1>3, <1>4, <1>5 DEF NetsInv

LEMMA EndOwn == ASSUME NetsInv, Nets!Halt \/ Nets!Leave \/ UNCHANGED Nets!networks PROVE NetsInv'
<1>1. /\ UNCHANGED <<at, calls, memory, left, frame, inputs, owner, fed, caller, job, recorded,
                     answer>>
      /\ worker' = worker \/ worker' = "gone"
  BY DEF Nets!Halt, Nets!Leave, Nets!networks, Nets!sides, Nets!classifier
<1>2. NetsTyped' /\ OneJob'
  BY <1>1 DEF NetsInv, NetsTyped, OneJob
<1>3. ASSUME NEW t \in Streams PROVE SessionOwn(t)'
  BY <1>1 DEF NetsInv, SessionOwn, Remembers, Framed, Mine, Waits, Given, Nets!Audio
<1> QED BY <1>2, <1>3 DEF NetsInv

LEMMA StepOwn == ASSUME Nets!Nobody \notin Streams, NetsInv,
   [Nets!Next]_(Nets!networks) PROVE NetsInv'
BY OpenOwn, CloseOwn, FrameOwn, SetInputsOwn, ComputeOwn, AskOwn, PostOwn, TakeOwn, ScoreOwn,
   ReturnOwn, EndOwn DEF Nets!Next

\* The two parts are checked side by side, each behaves as if it were alone.
LEMMA PartsAlone == MCSpec => Spec /\ Nets!Spec
<1>1. MCInit => Init /\ Nets!Init
  BY DEF MCInit
<1>2. [MCNext]_MCVars => [Next]_vars /\ [Nets!Next]_(Nets!networks)
  BY DEF MCNext, MCVars, Canceller, Network, networks, vars, Nets!networks, Nets!sides,
         Nets!classifier
<1> QED BY <1>1, <1>2, PTL DEF MCSpec, Spec, Nets!Spec

\* Whoever else asks meanwhile and whatever passes fail, a session gets the
\* score of its own audio and the error of its own pass, and its memory holds
\* its own windows in their order: sv_prob, st_predict and st_worker, for any
\* sessions, none of which is nobody.
THEOREM ScoresStayOwn == ASSUME Nets!Nobody \notin Streams PROVE MCSpec => []ScoresAreOwn
<1>1. Nets!Init => NetsInv
  BY InitOwn
<1>2. NetsInv /\ [Nets!Next]_(Nets!networks) => NetsInv'
  BY StepOwn
<1>3. NetsInv => ScoresAreOwn
  BY DEF NetsInv, SessionOwn, Remembers, InOrder, Given, ScoresAreOwn, Nets!ScoresAreOwn
<1> QED BY <1>1, <1>2, <1>3, PartsAlone, PTL DEF Nets!Spec
==============================================================================
