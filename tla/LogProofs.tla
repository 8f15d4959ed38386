------------------------------ MODULE LogProofs -----------------------------
(***************************************************************************)
(* No line of LogRing is lost by the exit or by a follower that keeps up,  *)
(* for every size of the ring, number of lines and set of followers.       *)
(*                                                                         *)
(* Both halves of NoLineLost are about the end of a line's way, so neither *)
(* is inductive: AllSomewhere follows every line from its write to the     *)
(* terminal, InOrder says that the lines in the pipe and in the hands of   *)
(* the reader are the next of the ring, and Latest that a slot not yet     *)
(* overwritten holds the line a follower looks for.                        *)
(***************************************************************************)
EXTENDS LogRing, SequenceTheorems, TLAPS

Lines(s) == {s[i] : i \in DOMAIN s}

Typed ==
  /\ piped \in Nat /\ straight \in Nat /\ captured \in BOOLEAN /\ drained \in BOOLEAN
  /\ pipe \in Seq(Int) /\ terminal \in Seq(Int) /\ partial \in Seq(Int)
  /\ ring \in [0 .. Size - 1 -> Nat] /\ log_seq \in Nat
  /\ at \in [Followers -> Places] /\ lagged \in [Followers -> BOOLEAN]
  /\ cursor \in [Followers -> Nat] /\ first \in [Followers -> Nat]
  /\ sent \in [Followers -> Seq(Nat)]

\* A line is in the pipe or on the terminal, and in one of them only; the
\* reader is done once nothing is in the pipe or may still enter it.
AllSomewhere ==
  /\ Lines(terminal) \cup Lines(pipe) = -straight .. piped - 1
  /\ Len(terminal) + Len(pipe) = piped + straight
  /\ drained => pipe = <<>> /\ ~captured /\ entering = {}
  /\ main = "exited" => drained

\* What the reader holds comes next in the ring, then what the pipe holds.
InOrder ==
  /\ \A i \in DOMAIN partial : partial[i] = log_seq + i - 1
  /\ \A i \in DOMAIN pipe : pipe[i] = log_seq + Len(partial) + i - 1
  /\ piped = log_seq + Len(partial) + Len(pipe)

\* The ring holds its Size latest lines.
Latest ==
  \A n \in Nat : n < log_seq /\ log_seq <= n + Size => ring[Index(n)] = n

InStep ==
  \A f \in Followers :
    /\ cursor[f] <= log_seq
    /\ ~lagged[f] => /\ cursor[f] = first[f] + Len(sent[f])
                     /\ \A i \in DOMAIN sent[f] : sent[f][i] = first[f] + i - 1

IInv == Typed /\ AllSomewhere /\ InOrder /\ Latest /\ InStep

(* ------------------------- sequences and slots ------------------------- *)

LEMMA Joined ==
  ASSUME NEW s \in Seq(Int), NEW t \in Seq(Int)
  PROVE  /\ s \o t \in Seq(Int) /\ Len(s \o t) = Len(s) + Len(t)
         /\ Lines(s \o t) = Lines(s) \cup Lines(t)
<1>1. s \o t \in Seq(Int) /\ Len(s \o t) = Len(s) + Len(t)
  BY ConcatProperties
<1>2. Range(s \o t) = Range(s) \cup Range(t)
  BY RangeConcatenation
<1>3. \A r : Lines(r) = Range(r)
  BY Zenon DEF Lines, Range
<1>4. Lines(s \o t) = Lines(s) \cup Lines(t)
  BY <1>2, <1>3, Zenon
<1>5. QED BY <1>1, <1>4

LEMMA Taken ==
  ASSUME NEW s \in Seq(Int), NEW n \in 1 .. Len(s)
  PROVE  /\ SubSeq(s, 1, n) \in Seq(Int) /\ SubSeq(s, n + 1, Len(s)) \in Seq(Int)
         /\ Len(SubSeq(s, 1, n)) = n /\ Len(SubSeq(s, n + 1, Len(s))) = Len(s) - n
         /\ \A i \in 1 .. n : SubSeq(s, 1, n)[i] = s[i]
         /\ \A i \in 1 .. Len(s) - n : SubSeq(s, n + 1, Len(s))[i] = s[n + i]
         /\ Lines(SubSeq(s, 1, n)) \cup Lines(SubSeq(s, n + 1, Len(s))) = Lines(s)
<1> DEFINE a == SubSeq(s, 1, n)
           b == SubSeq(s, n + 1, Len(s))
<1>1. /\ a \in Seq(Int) /\ Len(a) = n /\ \A i \in 1 .. n : a[i] = s[i]
  OBVIOUS
<1>2. /\ b \in Seq(Int) /\ Len(b) = Len(s) - n /\ \A i \in 1 .. Len(s) - n : b[i] = s[n + i]
  OBVIOUS
<1>3. a \o b = s
  <2>1. SubSeq(s, 1, n) \o SubSeq(s, n + 1, Len(s)) = SubSeq(s, 1, Len(s))
    BY ConcatAdjacentSubSeq
  <2>2. SubSeq(s, 1, Len(s)) = s
    BY SubSeqFull
  <2>3. QED BY <2>1, <2>2
<1> HIDE DEF a, b
<1>4. Lines(a) \cup Lines(b) = Lines(s)
  BY <1>1, <1>2, <1>3, Joined
<1>5. QED BY <1>1, <1>2, <1>4 DEF a, b

\* Two lines less than a ring apart are in two slots.
LEMMA SlotsApart ==
  ASSUME NEW m \in Nat, NEW n \in Nat, m < n, n < m + Size PROVE Index(m) # Index(n)
<1>1. Size \in Nat \ {0}
  BY LogAssumption
<1>2. SUFFICES ASSUME Index(m) = Index(n) PROVE FALSE
  OBVIOUS
<1>3. PICK p \in Nat, q \in Nat, r \in 0 .. Size - 1 : m = Size * p + r /\ n = Size * q + r
  <2>1. \A a \in Nat : /\ a \div Size \in Nat /\ a % Size \in 0 .. Size - 1
                     /\ a = Size * (a \div Size) + (a % Size)
    BY <1>1
  <2>2. QED BY <1>2, <2>1 DEF Index
<1>4. PICK k \in Int : k = q - p
  BY <1>3
<1>5. n - m = Size * k
  BY <1>1, <1>3, <1>4
<1>6. k >= 1
  BY <1>1, <1>5
<1>7. Size * k >= Size
  BY <1>1, <1>4, <1>6
<1>8. QED BY <1>1, <1>5, <1>7

(* ------------------------------ the steps ------------------------------ *)

LEMMA Counted ==
  Typed => /\ pipe \in Seq(Int) /\ terminal \in Seq(Int) /\ partial \in Seq(Int)
           /\ Len(pipe) \in Nat /\ Len(terminal) \in Nat /\ Len(partial) \in Nat
           /\ piped \in Nat /\ straight \in Nat /\ log_seq \in Nat
           /\ DOMAIN pipe = 1 .. Len(pipe) /\ DOMAIN partial = 1 .. Len(partial)
BY DEF Typed

LEMMA InitKeeps == Init => IInv
<1>1. SUFFICES ASSUME Init PROVE IInv
  OBVIOUS
<1>2. <<>> \in Seq(Nat) /\ Size \in Nat \ {0}
  BY LogAssumption
<1>3. Typed
  <2>1. pipe \in Seq(Int) /\ terminal \in Seq(Int) /\ partial \in Seq(Int)
    BY <1>1, <1>2 DEF Init
  <2>2. sent \in [Followers -> Seq(Nat)] /\ ring \in [0 .. Size - 1 -> Nat]
    BY <1>1, <1>2 DEF Init
  <2>3. QED BY <1>1, <2>1, <2>2 DEF Init, Typed, Places
<1>4. AllSomewhere
  BY <1>1 DEF Init, AllSomewhere, Lines
<1>5. InOrder
  BY <1>1 DEF Init, InOrder
<1>6. Latest /\ InStep
  BY <1>1 DEF Init, Latest, InStep
<1>7. QED BY <1>3, <1>4, <1>5, <1>6 DEF IInv

\* The ring and the followers: what a step leaves alone.
LEMMA SameRing ==
  ASSUME Latest, InStep, UNCHANGED <<ring, log_seq, cursor, first, sent, lagged>>
  PROVE  Latest' /\ InStep'
BY DEF Latest, InStep

LEMMA SameLines ==
  ASSUME AllSomewhere, InOrder,
         UNCHANGED <<piped, straight, pipe, terminal, partial, log_seq>>,
         drained' => pipe = <<>> /\ ~captured' /\ entering' = {}, main' = "exited" => drained'
  PROVE  AllSomewhere' /\ InOrder'
<1>1. AllSomewhere'
  BY DEF AllSomewhere
<1>2. InOrder'
  BY DEF InOrder
<1>3. QED BY <1>1, <1>2

LEMMA OneMore ==
  ASSUME NEW s \in Seq(Int), NEW n \in Int
  PROVE  /\ Append(s, n) \in Seq(Int) /\ Len(Append(s, n)) = Len(s) + 1
         /\ Lines(Append(s, n)) = Lines(s) \cup {n}
<1>1. <<n>> \in Seq(Int) /\ Append(s, n) = s \o <<n>>
  BY AppendIsConcat
<1>2. Lines(<<n>>) = {n} /\ Len(<<n>>) = 1
  BY DEF Lines
<1>3. QED BY <1>1, <1>2, Joined

\* What the ring, the followers and the end are of a write.
Aside == <<ring, log_seq, drained, main, at, cursor, first, sent, lagged>>

\* A line goes straight out.
LEMMA StraightKeeps == ASSUME IInv, StraightOut, UNCHANGED Aside PROVE IInv'
<1>1. /\ straight' = straight + 1 /\ terminal' = Append(terminal, -(straight + 1))
      /\ UNCHANGED <<piped, captured, pipe, entering, partial, ring, log_seq, drained, main, at,
                     cursor, first, sent, lagged>>
  BY DEF StraightOut, Aside
<1>2. /\ terminal \in Seq(Int) /\ straight \in Nat /\ piped \in Nat
      /\ Len(terminal) \in Nat /\ Len(pipe) \in Nat
  BY Counted DEF IInv
<1>3. /\ terminal' \in Seq(Int) /\ Len(terminal') = Len(terminal) + 1
      /\ Lines(terminal') = Lines(terminal) \cup {-(straight + 1)}
  <2>1. -(straight + 1) \in Int
    BY <1>2
  <2>2. QED BY <1>1, <1>2, <2>1, OneMore, ZenonT(40)
<1>4. Typed'
  BY <1>1, <1>2, <1>3 DEF IInv, Typed
<1>5. AllSomewhere'
  <2>1. Lines(terminal') \cup Lines(pipe') = -straight' .. piped' - 1
    BY <1>1, <1>2, <1>3 DEF IInv, AllSomewhere
  <2>2. Len(terminal) + Len(pipe) = piped + straight
    BY DEF IInv, AllSomewhere
  <2>3. Len(terminal') + Len(pipe') = piped' + straight'
    BY <1>1, <1>2, <1>3, <2>2
  <2>4. QED BY <1>1, <2>1, <2>3 DEF IInv, AllSomewhere
<1>6. InOrder'
  BY <1>1 DEF IInv, InOrder
<1>7. QED BY <1>1, <1>4, <1>5, <1>6, SameRing DEF IInv

\* A write begins, on the pipe or straight out.
LEMMA WriteKeeps == ASSUME IInv, NEW what, Write(what), UNCHANGED Aside PROVE IInv'
<1>1. CASE captured /\ UNCHANGED <<piped, straight, captured, pipe, terminal, partial>>
  <2>1. UNCHANGED <<ring, log_seq, drained, main, at, cursor, first, sent, lagged>>
    BY DEF Aside
  <2>2. ~drained'
    BY <1>1, <2>1 DEF IInv, AllSomewhere
  <2>3. main' # "exited"
    BY <2>1, <2>2 DEF IInv, AllSomewhere
  <2>4. Typed'
    BY <1>1, <2>1 DEF IInv, Typed
  <2>5. AllSomewhere' /\ InOrder'
    BY <1>1, <2>1, <2>2, <2>3, SameLines DEF IInv
  <2>6. QED BY <1>1, <2>1, <2>4, <2>5, SameRing DEF IInv
<1>2. CASE StraightOut
  BY <1>2, StraightKeeps
<1>3. QED BY <1>1, <1>2 DEF Write

\* A write ends in the pipe, the reader still there to take it.
LEMMA EnterKeeps == ASSUME IInv, NEW what, Enter(what), UNCHANGED Aside PROVE IInv'
<1>1. /\ what \in entering /\ pipe' = Append(pipe, piped) /\ piped' = piped + 1
      /\ UNCHANGED <<straight, captured, terminal, partial, ring, log_seq, drained, main, at,
                     cursor, first, sent, lagged>>
  BY DEF Enter, Aside
<1>2. /\ pipe \in Seq(Int) /\ terminal \in Seq(Int) /\ Len(pipe) \in Nat
      /\ Len(terminal) \in Nat /\ Len(partial) \in Nat /\ piped \in Nat /\ straight \in Nat
      /\ log_seq \in Nat /\ DOMAIN pipe = 1 .. Len(pipe)
  BY Counted DEF IInv
<1>3. /\ pipe' \in Seq(Int) /\ Len(pipe') = Len(pipe) + 1
      /\ Lines(pipe') = Lines(pipe) \cup {piped}
  BY <1>1, <1>2, OneMore
<1>4. /\ \A i \in 1 .. Len(pipe) : pipe'[i] = pipe[i]
      /\ pipe'[Len(pipe) + 1] = piped
  BY <1>1, <1>2, AppendProperties
<1>5. Typed'
  BY <1>1, <1>2, <1>3 DEF IInv, Typed
<1>6. AllSomewhere'
  <2>1. ~drained /\ main # "exited"
    BY <1>1 DEF IInv, AllSomewhere
  <2>2. Lines(terminal') \cup Lines(pipe') = -straight' .. piped' - 1
    BY <1>1, <1>2, <1>3 DEF IInv, AllSomewhere
  <2>3. Len(terminal) + Len(pipe) = piped + straight
    BY DEF IInv, AllSomewhere
  <2>4. Len(terminal') + Len(pipe') = piped' + straight'
    <3>1. terminal' = terminal /\ straight' = straight /\ piped' = piped + 1
      BY <1>1
    <3>2. Len(terminal') = Len(terminal) /\ Len(pipe') = Len(pipe) + 1
      BY <3>1, <1>3
    <3>3. Len(terminal) + (Len(pipe) + 1) = (piped + 1) + straight
      BY <1>2, <2>3
    <3>4. QED BY <3>1, <3>2, <3>3, Zenon
  <2>5. QED BY <1>1, <2>1, <2>2, <2>4 DEF AllSomewhere
<1>7. InOrder'
  <2>1. piped = log_seq + Len(partial) + Len(pipe)
    BY DEF IInv, InOrder
  <2>2. ASSUME NEW i \in 1 .. Len(pipe) + 1 PROVE pipe'[i] = log_seq + Len(partial) + i - 1
    <3>1. CASE i = Len(pipe) + 1
      BY <1>2, <1>4, <2>1, <3>1
    <3>2. CASE i \in 1 .. Len(pipe)
      BY <1>2, <1>4, <3>2 DEF IInv, InOrder
    <3>3. QED BY <1>2, <3>1, <3>2
  <2>3. DOMAIN pipe' = 1 .. Len(pipe) + 1
    BY <1>3
  <2>4. piped' = log_seq + Len(partial) + Len(pipe')
    BY <1>1, <1>2, <1>3, <2>1
  <2>5. QED BY <1>1, <2>2, <2>3, <2>4 DEF IInv, InOrder
<1>8. QED BY <1>1, <1>5, <1>6, <1>7, SameRing DEF IInv

\* The reader forwards the lines of the pipe and keeps them for the ring.
LEMMA ReadKeeps == ASSUME IInv, Read PROVE IInv'
<1>1. Typed /\ AllSomewhere /\ InOrder /\ partial = <<>> /\ Len(partial) = 0
  BY DEF IInv, Read
<1>2. PICK n \in 1 .. Len(pipe) : /\ partial' = SubSeq(pipe, 1, n)
                                  /\ terminal' = terminal \o SubSeq(pipe, 1, n)
                                  /\ pipe' = SubSeq(pipe, n + 1, Len(pipe))
  BY DEF Read
<1>3. UNCHANGED <<piped, straight, captured, entering, drained, main, ring, log_seq, at, cursor,
                 first, sent, lagged>> /\ ~drained
  BY DEF Read, store, process, followers
<1>counts. /\ pipe \in Seq(Int) /\ terminal \in Seq(Int) /\ Len(pipe) \in Nat
      /\ Len(terminal) \in Nat /\ piped \in Nat /\ straight \in Nat /\ log_seq \in Nat
      /\ DOMAIN pipe = 1 .. Len(pipe)
  BY <1>1, Counted
<1>4. /\ partial' \in Seq(Int) /\ pipe' \in Seq(Int)
      /\ Len(partial') = n /\ Len(pipe') = Len(pipe) - n
      /\ \A i \in 1 .. n : partial'[i] = pipe[i]
      /\ \A i \in 1 .. Len(pipe) - n : pipe'[i] = pipe[n + i]
      /\ Lines(partial') \cup Lines(pipe') = Lines(pipe)
  BY <1>1, <1>2, Taken, ZenonT(40) DEF Typed
<1>5. /\ terminal' \in Seq(Int) /\ Len(terminal') = Len(terminal) + n
      /\ Lines(terminal') = Lines(terminal) \cup Lines(partial')
  BY <1>counts, <1>2, <1>4, Joined, ZenonT(40)
<1>6. Typed'
  BY <1>1, <1>3, <1>4, <1>5 DEF Typed
<1>7. AllSomewhere'
  <2>1. Lines(terminal') \cup Lines(pipe') = -straight' .. piped' - 1
    BY <1>1, <1>3, <1>4, <1>5 DEF AllSomewhere
  <2>2. Len(terminal') + Len(pipe') = piped' + straight'
    <3>1. Len(terminal) + Len(pipe) = piped + straight /\ piped' = piped /\ straight' = straight
      BY <1>1, <1>3 DEF AllSomewhere
    <3>2. Len(terminal') = Len(terminal) + n /\ Len(pipe') = Len(pipe) - n
      BY <1>4, <1>5
    <3>3. Len(terminal) \in Nat /\ Len(pipe) \in Nat /\ n \in Nat
      BY <1>counts
    <3>4. QED BY <3>1, <3>2, <3>3
  <2>3. QED BY <1>1, <1>3, <2>1, <2>2 DEF AllSomewhere
<1>8. InOrder'
  <2>1. ASSUME NEW i \in 1 .. Len(pipe) PROVE pipe[i] = log_seq + i - 1
    <3>1. pipe[i] = log_seq + Len(partial) + i - 1
      BY <1>counts, <1>1 DEF InOrder
    <3>2. QED BY <3>1, <1>1, <1>counts
  <2>2. \A i \in DOMAIN partial' : partial'[i] = log_seq' + i - 1
    <3>1. DOMAIN partial' = 1 .. n /\ n <= Len(pipe)
      BY <1>counts, <1>4
    <3>2. QED BY <1>counts, <1>3, <1>4, <2>1, <3>1
  <2>3. ASSUME NEW i \in DOMAIN pipe' PROVE pipe'[i] = log_seq' + Len(partial') + i - 1
    <3>1. i \in 1 .. Len(pipe) - n /\ n + i \in 1 .. Len(pipe)
      <4>1. DOMAIN pipe' = 1 .. Len(pipe) - n
        BY <1>counts, <1>4
      <4>2. QED BY <1>counts, <2>3, <4>1
    <3>2. pipe'[i] = pipe[n + i] /\ pipe[n + i] = log_seq + (n + i) - 1
      BY <1>4, <2>1, <3>1
    <3>3. QED BY <1>counts, <1>3, <1>4, <3>1, <3>2, SMTT(30)
  <2>4. piped' = log_seq' + Len(partial') + Len(pipe')
    BY <1>counts, <1>1, <1>3, <1>4 DEF InOrder
  <2>5. QED BY <2>2, <2>3, <2>4 DEF InOrder
<1>9. Latest' /\ InStep'
  BY <1>3, SameRing DEF IInv
<1>10. QED BY <1>6, <1>7, <1>8, <1>9 DEF IInv

\* The next line takes the slot of the oldest one.
LEMMA StoreKeeps == ASSUME IInv, Store PROVE IInv'
<1>1. /\ Typed /\ AllSomewhere /\ InOrder /\ Latest /\ InStep /\ partial # <<>>
      /\ ring' = [ring EXCEPT ![Index(log_seq)] = Head(partial)]
      /\ log_seq' = log_seq + 1 /\ partial' = Tail(partial) /\ at' = Woken
      /\ UNCHANGED <<piped, straight, captured, pipe, entering, terminal, drained, main, cursor, first,
                     sent, lagged>>
  BY DEF IInv, Store, process
<1>2. /\ partial \in Seq(Int) /\ Len(pipe) \in Nat /\ Len(partial) \in Nat \ {0}
      /\ log_seq \in Nat /\ DOMAIN pipe = 1 .. Len(pipe)
      /\ DOMAIN partial = 1 .. Len(partial)
  BY <1>1, Counted, EmptySeq
<1>3. /\ partial' \in Seq(Int) /\ Len(partial') = Len(partial) - 1
      /\ \A i \in 1 .. Len(partial) - 1 : partial'[i] = partial[i + 1]
      /\ Head(partial) = partial[1]
  BY <1>1, <1>2, HeadTailProperties
<1>4. Head(partial) = log_seq
  BY <1>1, <1>2, <1>3 DEF InOrder
<1>5. \A n \in Nat : Index(n) \in 0 .. Size - 1
  BY LogAssumption DEF Index
<1>6. Typed'
  <2>1. ring' \in [0 .. Size - 1 -> Nat]
    BY <1>1, <1>2, <1>4, <1>5 DEF Typed
  <2>2. at' \in [Followers -> Places]
    BY <1>1 DEF Typed, Woken, Places
  <2>3. QED BY <1>1, <1>2, <1>3, <2>1, <2>2 DEF Typed
<1>7. AllSomewhere'
  BY <1>1 DEF AllSomewhere
<1>8. InOrder'
  <2>1. ASSUME NEW i \in DOMAIN partial' PROVE partial'[i] = log_seq' + i - 1
    <3>1. i \in 1 .. Len(partial) - 1 /\ i + 1 \in DOMAIN partial
      <4>1. DOMAIN partial' = 1 .. Len(partial) - 1
        BY <1>2, <1>3
      <4>2. QED BY <1>2, <2>1, <4>1
    <3>2. partial[i + 1] = log_seq + (i + 1) - 1
      BY <1>1, <3>1 DEF InOrder
    <3>3. QED BY <1>1, <1>2, <1>3, <3>1, <3>2
  <2>2. log_seq' + Len(partial') = log_seq + Len(partial)
    BY <1>1, <1>2, <1>3
  <2>3. QED BY <1>1, <1>2, <2>1, <2>2 DEF InOrder
<1>9. Latest'
  <2>1. SUFFICES ASSUME NEW n \in Nat, n < log_seq + 1, log_seq + 1 <= n + Size
                 PROVE  ring'[Index(n)] = n
    BY <1>1 DEF Latest, Index
  <2>2. CASE n = log_seq
    BY <1>1, <1>4, <1>5, <2>2 DEF Typed
  <2>3. CASE n < log_seq
    <3>1. Size \in Nat /\ log_seq < n + Size /\ log_seq <= n + Size
      BY <1>2, <2>1, LogAssumption
    <3>2. Index(n) # Index(log_seq)
      BY <1>2, <2>3, <3>1, SlotsApart
    <3>3. ring[Index(n)] = n
      BY <1>1, <2>3, <3>1 DEF Latest
    <3>4. QED BY <1>1, <1>5, <3>2, <3>3 DEF Typed
  <2>4. QED BY <1>2, <2>1, <2>2, <2>3
<1>10. InStep'
  <2>1. \A f \in Followers : cursor[f] \in Nat /\ cursor[f] <= log_seq
    BY <1>1 DEF Typed, InStep
  <2>2. \A f \in Followers : cursor'[f] <= log_seq'
    BY <1>1, <1>2, <2>1
  <2>3. QED BY <1>1, <2>2 DEF InStep
<1>11. QED BY <1>6, <1>7, <1>8, <1>9, <1>10 DEF IInv

\* A follower comes: it will replay the ring.
LEMMA ConnectKeeps == ASSUME IInv, NEW f \in Followers, Connect(f) PROVE IInv'
<1>1. /\ Typed /\ AllSomewhere /\ InOrder /\ Latest /\ InStep /\ sent[f] = <<>>
      /\ at' = [at EXCEPT ![f] = "replay"]
      /\ cursor' = [cursor EXCEPT ![f] = IF log_seq < Size THEN 0 ELSE log_seq - Size]
      /\ first' = [first EXCEPT ![f] = cursor'[f]]
      /\ UNCHANGED <<piped, straight, captured, pipe, entering, terminal, partial, ring, log_seq,
                     drained, main, sent, lagged>>
  BY DEF IInv, Connect, Move, capture, store, process
<1>2. log_seq \in Nat /\ Size \in Nat \ {0}
  BY <1>1, LogAssumption DEF Typed
<1>3. PICK n \in Nat : n = (IF log_seq < Size THEN 0 ELSE log_seq - Size) /\ n <= log_seq
  BY <1>2
<1>4. cursor' = [cursor EXCEPT ![f] = n] /\ first' = [first EXCEPT ![f] = n]
  BY <1>1, <1>3 DEF Typed
<1>5. Typed'
  BY <1>1, <1>4 DEF Typed, Places
<1>6. AllSomewhere' /\ InOrder'
  BY <1>1, SameLines DEF AllSomewhere
<1>7. Latest'
  BY <1>1 DEF Latest
<1>8. InStep'
  <2>1. SUFFICES ASSUME NEW g \in Followers
                 PROVE  /\ cursor'[g] <= log_seq
                        /\ ~lagged[g] =>
                             /\ cursor'[g] = first'[g] + Len(sent[g])
                             /\ \A i \in DOMAIN sent[g] : sent[g][i] = first'[g] + i - 1
    BY <1>1 DEF InStep
  <2>2. CASE g = f
    <3>1. cursor'[f] = n /\ first'[f] = n /\ Len(sent[f]) = 0 /\ DOMAIN sent[f] = {}
      BY <1>1, <1>4 DEF Typed
    <3>2. QED BY <1>3, <2>2, <3>1
  <2>3. CASE g # f
    <3>1. cursor'[g] = cursor[g] /\ first'[g] = first[g]
      BY <1>1, <1>4, <2>3 DEF Typed
    <3>2. QED BY <1>1, <3>1 DEF InStep
  <2>4. QED BY <2>2, <2>3
<1>9. QED BY <1>5, <1>6, <1>7, <1>8 DEF IInv

\* A follower takes the line of its cursor, the one it looks for unless the
\* ring went round since.
LEMMA TakeKeeps ==
  ASSUME IInv, NEW f \in Followers, NEW from, NEW to \in Places, Take(f, from, to) PROVE IInv'
<1>1. /\ Typed /\ AllSomewhere /\ InOrder /\ Latest /\ InStep /\ cursor[f] < log_seq
      /\ at' = [at EXCEPT ![f] = to]
      /\ sent' = [sent EXCEPT ![f] = Append(@, ring[Index(cursor[f])])]
      /\ lagged' = [lagged EXCEPT ![f] = @ \/ cursor[f] + Size < log_seq]
      /\ cursor' = [cursor EXCEPT ![f] = @ + 1]
      /\ UNCHANGED <<piped, straight, captured, pipe, entering, terminal, partial, ring, log_seq,
                     drained, main, first>>
  BY DEF IInv, Take, Move, capture, store, process
<1>2. /\ log_seq \in Nat /\ Size \in Nat /\ cursor[f] \in Nat /\ first[f] \in Nat
      /\ sent[f] \in Seq(Nat) /\ Len(sent[f]) \in Nat
  BY <1>1, LogAssumption DEF Typed
<1>3. PICK line \in Nat : line = ring[Index(cursor[f])]
  <2>1. Index(cursor[f]) \in 0 .. Size - 1
    BY <1>2, LogAssumption DEF Index
  <2>2. QED BY <1>1, <2>1 DEF Typed
<1>4. PICK more : more = Append(sent[f], line)
  OBVIOUS
<1>5. /\ more \in Seq(Nat) /\ Len(more) = Len(sent[f]) + 1
      /\ \A i \in 1 .. Len(sent[f]) : more[i] = sent[f][i]
      /\ more[Len(sent[f]) + 1] = line
  BY <1>2, <1>3, <1>4, AppendProperties
<1>6. sent' = [sent EXCEPT ![f] = more]
  BY <1>1, <1>3, <1>4
<1>7. Typed'
  <2>1. sent' \in [Followers -> Seq(Nat)]
    BY <1>1, <1>5, <1>6 DEF Typed
  <2>2. cursor' \in [Followers -> Nat]
    BY <1>1, <1>2, SMTT(30) DEF Typed
  <2>3. lagged' \in [Followers -> BOOLEAN] /\ at' \in [Followers -> Places]
    BY <1>1 DEF Typed
  <2>4. QED BY <1>1, <2>1, <2>2, <2>3 DEF Typed
<1>8. AllSomewhere' /\ InOrder'
  BY <1>1, SameLines DEF AllSomewhere
<1>9. Latest'
  BY <1>1 DEF Latest
<1>10. InStep'
  <2>1. SUFFICES ASSUME NEW g \in Followers
                 PROVE  /\ cursor'[g] <= log_seq
                        /\ ~lagged'[g] =>
                             /\ cursor'[g] = first[g] + Len(sent'[g])
                             /\ \A i \in DOMAIN sent'[g] : sent'[g][i] = first[g] + i - 1
    BY <1>1 DEF InStep
  <2>2. CASE g = f
    <3>1. cursor'[f] = cursor[f] + 1 /\ sent'[f] = more
      BY <1>1, <1>6 DEF Typed
    <3>2. cursor'[f] <= log_seq
      BY <1>1, <1>2, <3>1
    <3>3. SUFFICES ASSUME ~lagged'[f]
                   PROVE  /\ cursor[f] + 1 = first[f] + Len(more)
                          /\ \A i \in DOMAIN more : more[i] = first[f] + i - 1
      BY <2>2, <3>1, <3>2
    <3>4. ~lagged[f] /\ ~(cursor[f] + Size < log_seq)
      BY <1>1, <3>3 DEF Typed
    <3>5. line = cursor[f]
      <4>1. log_seq <= cursor[f] + Size
        BY <1>2, <3>4
      <4>2. QED BY <1>1, <1>2, <1>3, <4>1 DEF Latest
    <3>6. /\ cursor[f] = first[f] + Len(sent[f])
          /\ \A i \in DOMAIN sent[f] : sent[f][i] = first[f] + i - 1
      BY <1>1, <3>4 DEF InStep
    <3>7. DOMAIN more = 1 .. Len(sent[f]) + 1 /\ DOMAIN sent[f] = 1 .. Len(sent[f])
      BY <1>2, <1>5
    <3>8. ASSUME NEW i \in DOMAIN more PROVE more[i] = first[f] + i - 1
      <4>1. CASE i = Len(sent[f]) + 1
        BY <1>2, <1>5, <3>5, <3>6, <4>1
      <4>2. CASE i \in 1 .. Len(sent[f])
        BY <1>5, <3>6, <3>7, <4>2
      <4>3. QED BY <1>2, <3>7, <3>8, <4>1, <4>2
    <3>9. QED BY <1>2, <1>5, <3>6, <3>8, SMTT(30)
  <2>3. CASE g # f
    <3>1. cursor'[g] = cursor[g] /\ sent'[g] = sent[g] /\ lagged'[g] = lagged[g]
      BY <1>1, <1>6, <2>3 DEF Typed
    <3>2. QED BY <1>1, <3>1 DEF InStep
  <2>4. QED BY <2>2, <2>3
<1>11. QED BY <1>7, <1>8, <1>9, <1>10 DEF IInv

\* A step that moves followers, and nothing else.
LEMMA MoveKeeps ==
  ASSUME IInv, at' \in [Followers -> Places],
         UNCHANGED <<capture, store, process, cursor, first, sent, lagged>>
  PROVE  IInv'
<1>1. UNCHANGED <<piped, straight, captured, pipe, entering, terminal, partial, ring, log_seq, drained,
                 main, cursor, first, sent, lagged>>
  BY DEF capture, store, process
<1>2. Typed'
  BY <1>1 DEF IInv, Typed
<1>3. AllSomewhere' /\ InOrder'
  BY <1>1 DEF IInv, AllSomewhere, InOrder
<1>4. QED BY <1>1, <1>2, <1>3, SameRing DEF IInv

LEMMA FollowKeeps ==
  ASSUME IInv, NEW f \in Followers, Follow(f) PROVE IInv'
<1>1. \A to \in Places : [at EXCEPT ![f] = to] \in [Followers -> Places]
  BY DEF IInv, Typed
<1>2. {"replay", "replaying", "calling", "waiting", "taking", "writing", "away"} \subseteq Places
  BY DEF Places
<1>3. CASE Take(f, "replay", "replaying") \/ Take(f, "taking", "writing")
  BY <1>2, <1>3, TakeKeeps
<1>4. CASE \/ Sent(f, "replaying", "replay") \/ CaughtUp(f, "replay", "waiting")
           \/ Call(f) \/ TimeOut(f)
           \/ Sent(f, "writing", "taking") \/ CaughtUp(f, "taking", "calling")
  <2>1. at' \in [Followers -> Places]
    BY <1>1, <1>2, <1>4 DEF Sent, CaughtUp, Call, TimeOut, Move
  <2>2. UNCHANGED <<capture, store, process, cursor, first, sent, lagged>>
    BY <1>4 DEF Sent, CaughtUp, Call, TimeOut
  <2>3. QED BY <2>1, <2>2, MoveKeeps
<1>5. QED BY <1>3, <1>4 DEF Follow

\* The ends of the capture, and what a crash does but write: nothing moves
\* but the flags.
LEMMA EndsKeep ==
  ASSUME IInv, EndOfFile \/ Stop \/ Exit \/ Crash \/ Restore \/ Die PROVE IInv'
<1>1. /\ UNCHANGED <<piped, straight, pipe, entering, terminal, partial, ring, log_seq, cursor,
                     first, sent, lagged>>
      /\ captured' \in BOOLEAN /\ drained' \in BOOLEAN /\ (captured' => captured)
      /\ drained' => drained \/ (pipe = <<>> /\ ~captured /\ entering = {})
      /\ main' = "exited" => drained' \/ main = "exited"
      /\ drained => drained'
  <2>1. captured \in BOOLEAN /\ drained \in BOOLEAN
    BY DEF IInv, Typed
  <2>2. CASE EndOfFile
    BY <2>1, <2>2 DEF EndOfFile, capture, store, followers
  <2>3. CASE Stop
    BY <2>1, <2>3 DEF Stop, store
  <2>4. CASE Exit
    BY <2>1, <2>4 DEF Exit, ReaderJoined, capture, store, followers
  <2>5. CASE Crash \/ Die
    BY <2>1, <2>5 DEF Crash, Die, capture, store, followers
  <2>6. CASE Restore
    BY <2>1, <2>6 DEF Restore, store, followers
  <2>7. QED BY <2>2, <2>3, <2>4, <2>5, <2>6
<1>2. at' \in [Followers -> Places]
  BY DEF EndOfFile, Stop, Exit, Crash, Restore, Die, followers, Woken, Places, IInv, Typed
<1>3. Typed'
  BY <1>1, <1>2 DEF IInv, Typed
<1>4. /\ drained' => pipe = <<>> /\ ~captured' /\ entering' = {}
      /\ main' = "exited" => drained'
  BY <1>1 DEF IInv, AllSomewhere
<1>5. AllSomewhere' /\ InOrder'
  BY <1>1, <1>4, SameLines DEF IInv
<1>6. QED BY <1>1, <1>3, <1>5, SameRing DEF IInv

LEMMA StepKeeps == IInv /\ [Next]_vars => IInv'
<1>1. SUFFICES ASSUME IInv, [Next]_vars PROVE IInv'
  OBVIOUS
<1>2. CASE UNCHANGED vars
  <2>1. at' \in [Followers -> Places]
    BY <1>1, <1>2 DEF vars, followers, IInv, Typed
  <2>2. UNCHANGED <<capture, store, process, cursor, first, sent, lagged>>
    BY <1>2 DEF vars, followers
  <2>3. QED BY <1>1, <2>1, <2>2, MoveKeeps
<1>3. ASSUME Next PROVE IInv'
  <2>2. CASE Log \/ Name
    <3>1. UNCHANGED Aside
      BY <2>2 DEF Log, Name, Aside, store, process, followers
    <3>2. QED BY <1>1, <2>2, <3>1, WriteKeeps DEF Log, Name
  <2>3. CASE Logged \/ Named
    <3>1. UNCHANGED Aside
      BY <2>3 DEF Logged, Named, Aside, store, process, followers
    <3>2. QED BY <1>1, <2>3, <3>1, EnterKeeps DEF Logged, Named
  <2>4. CASE NameReader
    <3>1. UNCHANGED Aside
      BY <2>4 DEF NameReader, Aside, store, followers
    <3>2. QED BY <1>1, <2>4, <3>1, StraightKeeps DEF NameReader
  <2>5. CASE Reader
    BY <1>1, <2>5, ReadKeeps, StoreKeeps, EndsKeep DEF Reader
  <2>6. CASE Stop \/ Exit \/ Crash \/ Restore \/ Die
    BY <1>1, <2>6, EndsKeep
  <2>7. ASSUME NEW f \in Followers, Connect(f) \/ Follow(f) PROVE IInv'
    BY <1>1, <2>7, ConnectKeeps, FollowKeeps
  <2>8. QED BY <1>3, <2>2, <2>3, <2>4, <2>5, <2>6, <2>7 DEF Next
<1>4. QED BY <1>1, <1>2, <1>3

LEMMA NothingLost == IInv => NoLineLost
<1>1. SUFFICES ASSUME IInv PROVE NoLineLost
  OBVIOUS
<1>2. FollowerInStep
  BY <1>1 DEF IInv, InStep, FollowerInStep
<1>3. ASSUME main = "exited"
      PROVE  /\ entering = {} /\ Len(terminal) = piped + straight
             /\ {terminal[i] : i \in DOMAIN terminal} = -straight .. piped - 1
  <2>1. pipe = <<>> /\ entering = {} /\ Lines(terminal) \cup Lines(pipe) = -straight .. piped - 1
    BY <1>1, <1>3 DEF IInv, AllSomewhere
  <2>2. Lines(pipe) = {} /\ Len(pipe) = 0
    BY <2>1 DEF Lines
  <2>3. Len(terminal) = piped + straight
    <3>1. Len(terminal) \in Nat /\ Len(terminal) + Len(pipe) = piped + straight
      BY <1>1, Counted DEF IInv, AllSomewhere
    <3>2. QED BY <2>2, <3>1
  <2>4. Lines(terminal) = -straight .. piped - 1
    BY <2>1, <2>2
  <2>5. QED BY <2>1, <2>3, <2>4 DEF Lines
<1>4. QED BY <1>2, <1>3 DEF NoLineLost, ExitKeepsLines

\* A line written before the exit is on the terminal by the exit, and a
\* follower that keeps within a ring of the reader misses none: the reader
\* thread, log_capture_stop and the followers of src/log-capture.h.
THEOREM LinesKept == Spec => []NoLineLost
<1>1. Init => IInv
  BY InitKeeps
<1>2. IInv /\ [Next]_vars => IInv'
  BY StepKeeps
<1>3. QED BY <1>1, <1>2, NothingLost, PTL DEF Spec
=============================================================================
