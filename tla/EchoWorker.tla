----------------------------- MODULE EchoWorker -----------------------------
(***************************************************************************)
(* The echo canceller of src/localvqe.cpp: one context, one worker and one *)
(* stream per connection.  A stream holds a slot of the graph; lv_process  *)
(* queues its hop and sleeps until the worker has run it, in one pass with *)
(* the hops of the other streams that wait.  A pass runs off the lock, and *)
(* computes every slot: the slots at rest go through with their last       *)
(* window, and a mask (in_valid, in_hold) keeps their history.             *)
(*                                                                         *)
(* A hop is named by its stream, the life of the stream (a stream opened   *)
(* or reset starts a new one) and its number; a history is the sequence of *)
(* the hops it took in.                                                    *)
(***************************************************************************)
EXTENDS Integers, Sequences, FiniteSets

CONSTANTS Streams,     \* the connections that may cancel their echo
          MaxLives,    \* bound: openings and resets of a stream
          MaxHops      \* bound: hops of a life

ASSUME EchoAssumption ==
  /\ IsFiniteSet(Streams) /\ Streams # {}
  /\ MaxLives \in Nat /\ MaxHops \in Nat

VARIABLES
  phase,       \* [Streams -> "closed" | "open" | "waiting"], the caller
  life, sent,  \* [Streams -> Nat], life and hops sent in it
  clean,       \* [Streams -> SUBSET Nat], hops of the life returned clean
  slot,        \* [Streams -> Slots], the slot of an open stream
  done,        \* [Streams -> BOOLEAN], the hop in flight is answered
  status,      \* [Streams -> BOOLEAN], ... by a pass that succeeded
  queue,       \* SUBSET Streams, the hops the worker has not taken
  batch,       \* SUBSET Streams, the hops of the pass that runs
  computing,   \* BOOLEAN, a pass runs off the lock
  capacity,    \* the slots of the graph
  used,        \* SUBSET Slots, the slots held by a stream
  lanes,       \* SUBSET Slots, where valid is 1 and hold 0
  window,      \* [Slots -> hop], the host's copy of the last windows
  history,     \* [Slots -> Seq(hop)], on the device
  seen,        \* what the pass that runs read of the histories
  built,       \* BOOLEAN, the graph stands: FALSE after a failed growth
  stop         \* BOOLEAN, lv_free stops the worker

callers == <<phase, life, sent, clean>>
device == <<window, lanes, history, seen>>
vars == <<phase, life, sent, clean, slot, done, status, queue, batch, computing,
          capacity, used, window, lanes, history, seen, built, stop>>

Slots == 0 .. Cardinality(Streams) - 1
Hops == Streams \X (1 .. MaxLives) \X (1 .. MaxHops)
Silence == <<>>
Hop(c) == <<c, life[c], sent[c]>>
Held == {c \in Streams : phase[c] # "closed"}

Init ==
  /\ phase = [c \in Streams |-> "closed"]
  /\ life = [c \in Streams |-> 0]
  /\ sent = [c \in Streams |-> 0]
  /\ clean = [c \in Streams |-> {}]
  /\ slot = [c \in Streams |-> 0]
  /\ done = [c \in Streams |-> FALSE]
  /\ status = [c \in Streams |-> FALSE]
  /\ queue = {} /\ batch = {}
  /\ computing = FALSE
  /\ capacity = 1
  /\ used = {} /\ lanes = {}
  /\ window = [s \in Slots |-> Silence]
  /\ history = [s \in Slots |-> <<>>]
  /\ seen = history
  /\ built = TRUE /\ stop = FALSE

(* ------------------------ opening, reset, closing ---------------------- *)

\* A growth or a clear waits for the pass that runs.
AtRest == ~computing

\* The first slot nobody holds, capacity when there is none.
FirstFree(s) == s \notin used /\ 0 .. s - 1 \subseteq used

\* A life begins with nothing sent.
Begin(c) ==
  /\ life[c] < MaxLives
  /\ life' = [life EXCEPT ![c] = @ + 1]
  /\ sent' = [sent EXCEPT ![c] = 0]
  /\ clean' = [clean EXCEPT ![c] = {}]

\* A slot is zeroed before its stream runs.
Clear(s) == history' = [history EXCEPT ![s] = <<>>]

Hold(c, s) ==
  /\ Begin(c)
  /\ phase' = [phase EXCEPT ![c] = "open"]
  /\ slot' = [slot EXCEPT ![c] = s]
  /\ used' = used \union {s}
  /\ Clear(s)
  /\ UNCHANGED <<done, status, queue, batch, computing, window, lanes, seen, built, stop>>

\* lv_state_new on a free slot.
TakeSlot(c) ==
  /\ phase[c] = "closed" /\ AtRest
  /\ \E s \in 0 .. capacity - 1 : FirstFree(s) /\ Hold(c, s)
  /\ UNCHANGED capacity

\* lv_state_new when every slot is held: the graph is rebuilt for one more,
\* and the histories move to the new buffer.
Grow(c) ==
  /\ phase[c] = "closed" /\ AtRest
  /\ FirstFree(capacity)
  /\ capacity' = capacity + 1
  /\ Hold(c, capacity)

\* The same when the new graph cannot be allocated: the caller gets no
\* stream, but capacity stays one up and the histories are gone with the old
\* buffer.  What the context does from there is undefined: the model stops.
GrowFails(c) ==
  /\ phase[c] = "closed" /\ AtRest
  /\ FirstFree(capacity)
  /\ life[c] < MaxLives
  /\ capacity' = capacity + 1
  /\ history' = [s \in Slots |-> <<>>]
  /\ built' = FALSE
  /\ UNCHANGED <<callers, slot, done, status, queue, batch, computing, used,
                 window, lanes, seen, stop>>

\* lv_state_reset: the same slot, from nothing.
Reset(c) ==
  /\ phase[c] = "open" /\ AtRest
  /\ Begin(c)
  /\ Clear(slot[c])
  /\ UNCHANGED <<phase, slot, done, status, queue, batch, computing, capacity, used,
                 window, lanes, seen, built, stop>>

\* lv_state_free: it does not wait for the pass.
Free(c) ==
  /\ phase[c] = "open"
  /\ phase' = [phase EXCEPT ![c] = "closed"]
  /\ used' = used \ {slot[c]}
  /\ UNCHANGED <<life, sent, clean, slot, done, status, queue, batch, computing,
                 capacity, device, built, stop>>

(* ----------------------------- a hop ----------------------------------- *)

\* lv_process, until it sleeps.
Process(c) ==
  /\ phase[c] = "open" /\ sent[c] < MaxHops
  /\ phase' = [phase EXCEPT ![c] = "waiting"]
  /\ sent' = [sent EXCEPT ![c] = @ + 1]
  /\ done' = [done EXCEPT ![c] = FALSE]
  /\ queue' = queue \union {c}
  /\ UNCHANGED <<life, clean, slot, status, batch, computing, capacity, used,
                 device, built, stop>>

\* lv_process, awake: the frame of a pass that failed is not handed over.
Return(c) ==
  /\ phase[c] = "waiting" /\ done[c]
  /\ phase' = [phase EXCEPT ![c] = "open"]
  /\ clean' = [clean EXCEPT ![c] = IF status[c] THEN @ \union {sent[c]} ELSE @]
  /\ UNCHANGED <<life, sent, slot, done, status, queue, batch, computing, capacity,
                 used, device, built, stop>>

(* ---------------------------- the worker ------------------------------- *)

\* Under the lock: the windows of the hops that wait, and their lanes.
StartPass ==
  /\ ~computing /\ ~stop /\ queue # {}
  /\ batch' = queue
  /\ queue' = {}
  /\ computing' = TRUE
  /\ LET taken == {slot[c] : c \in queue}
         hopOf(s) == Hop(CHOOSE c \in queue : slot[c] = s)
     IN  /\ window' = [s \in Slots |-> IF s \in taken THEN hopOf(s) ELSE window[s]]
         /\ lanes' = lanes \union taken
  /\ seen' = history
  /\ UNCHANGED <<callers, slot, done, status, capacity, used, history, built, stop>>

\* A lane takes its window in; a slot at rest is written back as it was read.
Advance(s) == IF s \in lanes THEN Append(seen[s], window[s]) ELSE seen[s]

\* Variant: the masks are left raised.
RestLanesRaised == lanes
\* The lanes go back to rest with the pass.
RestLanes == lanes \ {slot[c] : c \in batch}

\* Variant: a pass that fails leaves its callers waiting.
AnswerOnSuccess(ok) ==
  /\ done' = [c \in Streams |-> (c \in batch /\ ok) \/ done[c]]
  /\ status' = [c \in Streams |-> IF c \in batch THEN ok ELSE status[c]]
\* Under the lock again: every hop of the batch is answered, whatever came
\* of the pass.
Answer(ok) ==
  /\ done' = [c \in Streams |-> c \in batch \/ done[c]]
  /\ status' = [c \in Streams |-> IF c \in batch THEN ok ELSE status[c]]

\* A pass that succeeds advances every lane; one that fails stops anywhere in
\* the graph, and leaves each history as it was or advanced.
EndPass(ok) ==
  /\ computing
  /\ computing' = FALSE
  /\ batch' = {}
  /\ lanes' = RestLanes
  /\ Answer(ok)
  /\ \E moved \in SUBSET Slots :
       /\ ok => moved = Slots
       /\ history' = [s \in Slots |-> IF s \in moved THEN Advance(s) ELSE seen[s]]
  /\ UNCHANGED <<callers, slot, queue, capacity, used, window, seen, built, stop>>

\* lv_free, once every connection is closed; the worker returns.
Stop ==
  /\ \A c \in Streams : phase[c] = "closed"
  /\ ~stop
  /\ stop' = TRUE
  /\ UNCHANGED <<callers, slot, done, status, queue, batch, computing, capacity, used,
                 device, built>>

Worker == built /\ (StartPass \/ \E ok \in BOOLEAN : EndPass(ok))

\* A stream is open while the context lives.
Caller(c) ==
  /\ built /\ ~stop
  /\ TakeSlot(c) \/ Grow(c) \/ GrowFails(c) \/ Reset(c) \/ Free(c) \/ Process(c) \/ Return(c)

Next == Worker \/ (\E c \in Streams : Caller(c)) \/ (built /\ Stop)

Spec == Init /\ [][Next]_vars

\* The worker runs, and a caller that was answered returns.
FairSpec ==
  /\ Spec
  /\ WF_vars(Worker)
  /\ \A c \in Streams : WF_vars(built /\ ~stop /\ Return(c))

(* ---------------------------- properties ------------------------------- *)

\* Streams never hear each other, nor the stream that held the slot before:
\* the history of a stream holds hops of its own life only, in order and once,
\* and all those whose clean audio was returned.
OwnHops(c) ==
  LET h == history[slot[c]]
  IN  /\ \A i \in DOMAIN h : h[i][1] = c /\ h[i][2] = life[c]
      /\ \A i, j \in DOMAIN h : i < j => h[i][3] < h[j][3]
      /\ clean[c] \subseteq {h[i][3] : i \in DOMAIN h}
EchoApart == built => \A c \in Held : OwnHops(c)

\* A growth moves the states of the running streams into the new buffer: it
\* takes no history away from a stream that runs.
\* The code does not keep it: see the README.
GrowthKeepsStreams ==
  [][capacity' # capacity => \A c \in Held : history'[slot[c]] = history[slot[c]]]_vars

\* lv_process returns: a hop that waits is answered, pass failed or not.
EveryHopAnswered ==
  \A c \in Streams : phase[c] = "waiting" ~> (phase[c] = "open" \/ ~built)
=============================================================================
