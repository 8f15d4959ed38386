---------------------------- MODULE RequestsProofs ----------------------------
(***************************************************************************)
(* What a turn asks of others, proved of the three parts of MCRequests for *)
(* any number of rounds, calls, deltas, requests, frames and sessions.     *)
(*                                                                         *)
(* The agent: every request is a conversation an endpoint accepts, and the *)
(* words of two rounds stay apart.  RequestsAnswered is about the messages *)
(* at the start of a round only, so it is not inductive: AnsweredSoFar     *)
(* says what they are in the middle of the calls, where the calls left to  *)
(* run are, in order, the ids of the last message no answer stands for     *)
(* yet.  RoundsSpoken needs to know whose word is the last heard, and that *)
(* what was heard is what is written before a round ends: Spoken.          *)
(*                                                                         *)
(* The client of a server of tools: the call is at the bottom of its       *)
(* exchanges, so nothing ran before it is over (CallBelow), a repetition   *)
(* is on a session the server opened for it (RepeatsOnNew), and an open    *)
(* client has one whose handshake ended (OpenIsReady).                     *)
(*                                                                         *)
(* The streamed request: what the receiver has, and what is left of the    *)
(* chunk up to the end of the answer, is what the endpoint sent.           *)
(***************************************************************************)
EXTENDS MCRequests, FiniteSetTheorems, FunctionTheorems, SequenceTheorems, TLAPS

Messages == [role : {"assistant", "tool"}, ids : Seq(Nat)]
Calls == [id : Nat, tool : AllTools]

Typed ==
  /\ messages \in Seq(Messages) /\ calls \in Seq(Calls)
  /\ ids \in Nat /\ open \in BOOLEAN

\* The k-th call of the message at i has its answer, or waits for it.
Placed(i, k) ==
  IF i + k <= Len(messages)
  THEN messages[i + k] = [role |-> "tool", ids |-> <<messages[i].ids[k]>>]
  ELSE /\ i + k - Len(messages) \in DOMAIN calls
       /\ calls[i + k - Len(messages)].id = messages[i].ids[k]

AnsweredSoFar ==
  /\ \A i \in DOMAIN messages : messages[i].role = "assistant" =>
       \A k \in DOMAIN messages[i].ids : Placed(i, k)
  /\ \A j \in DOMAIN messages : messages[j].role = "tool" =>
       \E i \in 1 .. j - 1 : messages[i].role = "assistant" /\ j <= i + Len(messages[i].ids)
  /\ calls # <<>> =>
       \E i \in DOMAIN messages :
         /\ messages[i].role = "assistant"
         /\ i + Len(messages[i].ids) = Len(messages) + Len(calls)

CallsInTime ==
  /\ at \in {"gather", "stream"} => calls = <<>>
  /\ open => at = "call" /\ calls # <<>>

IInv == Typed /\ AnsweredSoFar /\ CallsInTime

LEMMA InitAnswered == Init => IInv
<1>1. SUFFICES ASSUME Init PROVE IInv
  OBVIOUS
<1>2. messages = <<>> /\ calls = <<>> /\ ids = 0 /\ open = FALSE /\ at = "gather"
  BY <1>1 DEF Init
<1>3. Typed
  <2>1. <<>> \in Seq(Messages) /\ <<>> \in Seq(Calls)
    OBVIOUS
  <2>2. messages \in Seq(Messages) /\ calls \in Seq(Calls)
    BY <1>2, <2>1
  <2>3. QED BY <1>2, <2>2 DEF Typed
<1>4. AnsweredSoFar
  BY <1>2 DEF AnsweredSoFar
<1>5. CallsInTime
  BY <1>2 DEF CallsInTime
<1>6. QED BY <1>3, <1>4, <1>5 DEF IInv

LEMMA MessageIds ==
  ASSUME messages \in Seq(Messages), NEW i \in DOMAIN messages
  PROVE  messages[i].ids \in Seq(Nat) /\ i \in 1 .. Len(messages) /\ Len(messages) \in Nat
<1>1. messages[i] \in Messages /\ i \in 1 .. Len(messages)
  OBVIOUS
<1>2. QED BY <1>1 DEF Messages

LEMMA IsAnswered == IInv => RequestsAnswered
<1>1. SUFFICES ASSUME IInv, at = "stream"
               PROVE  /\ \A i \in DOMAIN messages : messages[i].role = "assistant" =>
                           \A k \in DOMAIN messages[i].ids :
                             /\ i + k \in DOMAIN messages
                             /\ messages[i + k] = [role |-> "tool", ids |-> <<messages[i].ids[k]>>]
                      /\ \A j \in DOMAIN messages : messages[j].role = "tool" =>
                           \E i \in 1 .. j - 1 :
                             messages[i].role = "assistant" /\ j <= i + Len(messages[i].ids)
  BY DEF RequestsAnswered, IInv, CallsInTime
<1>2. calls = <<>> /\ DOMAIN calls = {}
  BY <1>1 DEF IInv, CallsInTime
<1>3. ASSUME NEW i \in DOMAIN messages, messages[i].role = "assistant",
             NEW k \in DOMAIN messages[i].ids
      PROVE  /\ i + k \in DOMAIN messages
             /\ messages[i + k] = [role |-> "tool", ids |-> <<messages[i].ids[k]>>]
  <2>1. Placed(i, k)
    BY <1>1, <1>3 DEF IInv, AnsweredSoFar
  <2>2. messages \in Seq(Messages) /\ messages[i].ids \in Seq(Nat)
    BY <1>1, <1>3, MessageIds DEF IInv, Typed
  <2>3. i \in 1 .. Len(messages) /\ k \in 1 .. Len(messages[i].ids)
    BY <1>3, <2>2
  <2>4. QED BY <1>2, <2>1, <2>2, <2>3 DEF Placed
<1>4. QED BY <1>1, <1>3 DEF IInv, AnsweredSoFar

\* A step that leaves the messages and the calls as they are.
LEMMA SameKeeps ==
  ASSUME IInv, UNCHANGED <<messages, calls, ids>>, open' \in BOOLEAN, CallsInTime'
  PROVE  IInv'
BY DEF IInv, Typed, AnsweredSoFar, Placed

\* An answer asks for calls: each has an id of its own, and none is answered.
LEMMA AsksKeeps ==
  ASSUME IInv, StreamEnds, at' = "call" PROVE Typed' /\ AnsweredSoFar'
<1>1. PICK n \in 0 .. MaxCalls : \E named \in [1 .. n -> Tools] :
        /\ calls' = [i \in 1 .. n |-> [id |-> ids + i, tool |-> named[i]]]
        /\ ids' = ids + n /\ n # 0
        /\ messages' = Append(messages,
             [role |-> "assistant", ids |-> [i \in 1 .. n |-> ids + i]])
  BY DEF StreamEnds, Over
<1>2. PICK named \in [1 .. n -> Tools] :
        calls' = [i \in 1 .. n |-> [id |-> ids + i, tool |-> named[i]]]
  BY <1>1
<1>3. PICK asks : /\ asks = [role |-> "assistant", ids |-> [i \in 1 .. n |-> ids + i]]
                  /\ messages' = Append(messages, asks)
  BY <1>1
<1>4. n \in Nat /\ ids \in Nat /\ messages \in Seq(Messages) /\ calls = <<>>
  BY <1>1, AgentAssumption DEF IInv, Typed, CallsInTime, StreamEnds
<1>5. asks.ids \in Seq(Nat) /\ Len(asks.ids) = n /\ asks \in Messages
  BY <1>3, <1>4 DEF Messages
<1>6. calls' \in Seq(Calls) /\ Len(calls') = n
  <2>1. \A i \in 1 .. n : [id |-> ids + i, tool |-> named[i]] \in Calls
    BY <1>2, <1>4, AgentAssumption DEF Calls
  <2>2. QED BY <1>2, <1>4, <2>1
<1>7. /\ messages' \in Seq(Messages) /\ Len(messages') = Len(messages) + 1
      /\ \A i \in 1 .. Len(messages) : messages'[i] = messages[i]
      /\ messages'[Len(messages) + 1] = asks
  BY <1>3, <1>4, <1>5, AppendProperties
<1>8. Typed'
  BY <1>1, <1>4, <1>6, <1>7 DEF Typed, IInv, StreamEnds
<1>9. ASSUME NEW i \in DOMAIN messages', messages'[i].role = "assistant",
             NEW k \in DOMAIN messages'[i].ids
      PROVE  Placed(i, k)'
  <2>1. i \in 1 .. Len(messages) + 1
    BY <1>7
  <2>2. CASE i = Len(messages) + 1
    <3>1. k \in 1 .. n /\ messages'[i].ids[k] = ids + k
      BY <1>3, <1>4, <1>7, <2>2
    <3>2. calls'[k].id = ids + k /\ k \in DOMAIN calls'
      BY <1>2, <3>1
    <3>3. i + k - Len(messages') = k /\ ~(i + k <= Len(messages'))
      BY <1>4, <1>7, <2>2, <3>1
    <3>4. QED BY <3>1, <3>2, <3>3 DEF Placed
  <2>3. CASE i \in 1 .. Len(messages)
    <3>1. messages'[i] = messages[i] /\ Placed(i, k)
      BY <1>4, <1>7, <1>9, <2>3 DEF IInv, AnsweredSoFar
    <3>2. messages[i].ids \in Seq(Nat)
      BY <1>4, <2>3, MessageIds
    <3>3. k \in Nat \ {0}
      BY <1>9, <3>1, <3>2
    <3>4. /\ i + k \in 1 .. Len(messages)
          /\ messages[i + k] = [role |-> "tool", ids |-> <<messages[i].ids[k]>>]
      BY <1>4, <2>3, <3>1, <3>3 DEF Placed
    <3>5. QED BY <1>4, <1>7, <3>1, <3>4 DEF Placed
  <2>4. QED BY <1>4, <2>1, <2>2, <2>3
<1>10. ASSUME NEW j \in DOMAIN messages', messages'[j].role = "tool"
       PROVE  \E i \in 1 .. j - 1 :
                messages'[i].role = "assistant" /\ j <= i + Len(messages'[i].ids)
  <2>1. j \in 1 .. Len(messages) /\ messages'[j] = messages[j]
    BY <1>3, <1>4, <1>7, <1>10
  <2>2. PICK i \in 1 .. j - 1 : messages[i].role = "assistant" /\ j <= i + Len(messages[i].ids)
    <3>1. j \in DOMAIN messages /\ messages[j].role = "tool"
      BY <1>4, <1>10, <2>1
    <3>2. QED BY <3>1 DEF IInv, AnsweredSoFar
  <2>3. i \in 1 .. Len(messages)
    BY <1>4, <2>1, <2>2
  <2>4. messages'[i] = messages[i]
    BY <1>7, <2>3
  <2>5. QED BY <2>2, <2>4
<1>11. \E i \in DOMAIN messages' :
         /\ messages'[i].role = "assistant"
         /\ i + Len(messages'[i].ids) = Len(messages') + Len(calls')
  <2>1. Len(messages) + 1 \in DOMAIN messages'
    BY <1>4, <1>7
  <2>2. Len(messages) + 1 + Len(messages'[Len(messages) + 1].ids) = Len(messages') + Len(calls')
    BY <1>4, <1>5, <1>6, <1>7
  <2>3. messages'[Len(messages) + 1].role = "assistant"
    BY <1>3, <1>7
  <2>4. QED BY <2>1, <2>2, <2>3
<1>12. QED BY <1>8, <1>9, <1>10, <1>11 DEF AnsweredSoFar

\* A call is answered: its message takes the place it waited for.
LEMMA AnswerKeeps ==
  ASSUME IInv, calls # <<>>, Answer, UNCHANGED ids, open' \in BOOLEAN
  PROVE  Typed' /\ AnsweredSoFar'
<1>1. messages \in Seq(Messages) /\ calls \in Seq(Calls) /\ ids \in Nat
  BY DEF IInv, Typed
<1>2. /\ Head(calls) \in Calls /\ Head(calls) = calls[1] /\ Tail(calls) \in Seq(Calls)
      /\ Len(Tail(calls)) = Len(calls) - 1
      /\ \A i \in 1 .. Len(Tail(calls)) : Tail(calls)[i] = calls[i + 1]
  BY <1>1, HeadTailProperties
<1>3. PICK told : /\ told = [role |-> "tool", ids |-> <<Head(calls).id>>]
                  /\ messages' = Append(messages, told) /\ calls' = Tail(calls)
  BY DEF Answer
<1>4. told \in Messages
  BY <1>2, <1>3 DEF Messages, Calls
<1>5. /\ messages' \in Seq(Messages) /\ Len(messages') = Len(messages) + 1
      /\ \A i \in 1 .. Len(messages) : messages'[i] = messages[i]
      /\ messages'[Len(messages) + 1] = told
  BY <1>1, <1>3, <1>4, AppendProperties
<1>6. Typed'
  BY <1>1, <1>2, <1>3, <1>5 DEF Typed
<1>7. ASSUME NEW i \in DOMAIN messages', messages'[i].role = "assistant",
             NEW k \in DOMAIN messages'[i].ids
      PROVE  Placed(i, k)'
  <2>1. i \in 1 .. Len(messages) /\ messages'[i] = messages[i] /\ Placed(i, k)
    <3>1. i # Len(messages) + 1
      BY <1>3, <1>5, <1>7
    <3>2. i \in 1 .. Len(messages) /\ messages'[i] = messages[i]
      BY <1>1, <1>5, <3>1
    <3>3. QED BY <1>1, <1>7, <3>2 DEF IInv, AnsweredSoFar
  <2>2. messages[i].ids \in Seq(Nat)
    BY <1>1, <2>1, MessageIds
  <2>3. k \in Nat \ {0} /\ Len(messages) \in Nat /\ Len(calls) \in Nat
    BY <1>1, <1>7, <2>1, <2>2
  <2>4. CASE i + k <= Len(messages)
    BY <1>1, <1>5, <2>1, <2>3, <2>4 DEF Placed
  <2>5. CASE i + k = Len(messages) + 1
    <3>1. calls[1].id = messages[i].ids[k]
      <4>1. i + k - Len(messages) = 1 /\ ~(i + k <= Len(messages))
        BY <2>1, <2>3, <2>5
      <4>2. QED BY <2>1, <4>1 DEF Placed
    <3>2. messages'[i + k] = [role |-> "tool", ids |-> <<messages'[i].ids[k]>>]
      BY <1>2, <1>3, <1>5, <2>1, <2>5, <3>1
    <3>3. i + k <= Len(messages')
      BY <1>5, <2>5
    <3>4. QED BY <3>2, <3>3 DEF Placed
  <2>6. CASE i + k > Len(messages) + 1
    <3>1. PICK m \in Nat : m = i + k - Len(messages) - 1
      BY <2>1, <2>3, <2>6
    <3>2. m + 1 = i + k - Len(messages) /\ m >= 1 /\ m = i + k - Len(messages')
      BY <1>5, <2>1, <2>3, <2>6, <3>1, SMTT(30)
    <3>3. m + 1 \in DOMAIN calls /\ calls[m + 1].id = messages[i].ids[k]
      <4>1. ~(i + k <= Len(messages))
        BY <2>1, <2>3, <2>6
      <4>2. /\ i + k - Len(messages) \in DOMAIN calls
            /\ calls[i + k - Len(messages)].id = messages[i].ids[k]
        BY <2>1, <4>1 DEF Placed
      <4>3. QED BY <3>2, <4>2
    <3>4. m \in DOMAIN calls' /\ calls'[m] = calls[m + 1]
      BY <1>1, <1>2, <1>3, <2>3, <3>2, <3>3
    <3>5. ~(i + k <= Len(messages'))
      BY <1>5, <2>1, <2>3, <2>6
    <3>6. QED BY <2>1, <3>2, <3>3, <3>4, <3>5 DEF Placed
  <2>7. QED BY <2>1, <2>3, <2>4, <2>5, <2>6
<1>8. PICK i \in DOMAIN messages : /\ messages[i].role = "assistant"
                                   /\ i + Len(messages[i].ids) = Len(messages) + Len(calls)
  BY DEF IInv, AnsweredSoFar
<1>9. i \in 1 .. Len(messages) /\ messages'[i] = messages[i] /\ Len(messages[i].ids) \in Nat
  <2>1. messages[i].ids \in Seq(Nat)
    BY <1>1, <1>8, MessageIds
  <2>2. QED BY <1>1, <1>5, <1>8, <2>1
<1>10. Len(calls) \in Nat \ {0}
  BY <1>1
<1>11. ASSUME NEW j \in DOMAIN messages', messages'[j].role = "tool"
       PROVE  \E h \in 1 .. j - 1 :
                messages'[h].role = "assistant" /\ j <= h + Len(messages'[h].ids)
  <2>1. CASE j = Len(messages) + 1
    <3>1. i \in 1 .. j - 1 /\ j <= i + Len(messages'[i].ids)
      BY <1>1, <1>8, <1>9, <1>10, <2>1
    <3>2. QED BY <1>8, <1>9, <3>1
  <2>2. CASE j \in 1 .. Len(messages)
    <3>1. messages'[j] = messages[j]
      BY <1>5, <2>2
    <3>2. PICK h \in 1 .. j - 1 : messages[h].role = "assistant" /\ j <= h + Len(messages[h].ids)
      BY <1>1, <1>11, <2>2, <3>1 DEF IInv, AnsweredSoFar
    <3>3. QED BY <1>1, <1>5, <2>2, <3>2
  <2>3. QED BY <1>1, <1>5, <2>1, <2>2
<1>12. \E h \in DOMAIN messages' :
         /\ messages'[h].role = "assistant"
         /\ h + Len(messages'[h].ids) = Len(messages') + Len(calls')
  <2>1. i + Len(messages'[i].ids) = Len(messages') + Len(calls')
    BY <1>1, <1>2, <1>3, <1>5, <1>8, <1>9, <1>10
  <2>2. i \in DOMAIN messages'
    BY <1>1, <1>5, <1>9
  <2>3. QED BY <1>8, <1>9, <2>1, <2>2
<1>13. QED BY <1>6, <1>7, <1>11, <1>12 DEF AnsweredSoFar

LEMMA StepAnswered == IInv /\ [Next]_vars => IInv'
<1>1. SUFFICES ASSUME IInv, [Next]_vars PROVE IInv'
  OBVIOUS
<1>2. CASE Cancel \/ Gather \/ NoTools \/ Delta \/ StreamFails \/ Start \/ Again \/ UNCHANGED vars
  <2>1. UNCHANGED <<messages, calls, ids>>
    BY <1>2 DEF Cancel, Gather, NoTools, Delta, StreamFails, Start, Again, vars
  <2>2. open' \in BOOLEAN
    BY <1>1, <1>2 DEF Cancel, Gather, NoTools, Delta, StreamFails, Start, Again, vars, IInv, Typed
  <2>3. CallsInTime'
    <3>1. CallsInTime
      BY <1>1 DEF IInv
    <3>2. CASE Cancel \/ NoTools \/ StreamFails \/ UNCHANGED vars
      BY <2>1, <3>1, <3>2 DEF Cancel, NoTools, StreamFails, Over, CallsInTime, vars
    <3>3. CASE Gather \/ Again
      BY <2>1, <3>1, <3>3 DEF Gather, Again, Begin, Over, CallsInTime
    <3>4. CASE Delta
      BY <2>1, <3>1, <3>4 DEF Delta, Over, CallsInTime
    <3>5. CASE Start
      BY <2>1, <3>1, <3>5 DEF Start, CallsInTime
    <3>6. QED BY <1>2, <3>2, <3>3, <3>4, <3>5
  <2>4. QED BY <1>1, <2>1, <2>2, <2>3, SameKeeps
<1>3. CASE StreamEnds
  <2>1. calls = <<>> /\ ~open /\ open' = open
    BY <1>1, <1>3 DEF StreamEnds, IInv, CallsInTime
  <2>2. PICK n \in 0 .. MaxCalls : \E named \in [1 .. n -> Tools] :
          /\ calls' = [i \in 1 .. n |-> [id |-> ids + i, tool |-> named[i]]]
          /\ ids' = ids + n
          /\ IF n = 0 THEN at' = "over" /\ UNCHANGED messages ELSE at' = "call"
    BY <1>3 DEF StreamEnds, Over
  <2>3. CASE n = 0
    <3>1. calls' = <<>> /\ ids' = ids
      BY <1>1, <2>2, <2>3 DEF IInv, Typed
    <3>2. CallsInTime'
      BY <2>1, <2>2, <2>3 DEF CallsInTime
    <3>3. QED BY <1>1, <2>1, <2>2, <2>3, <3>1, <3>2, SameKeeps DEF IInv, Typed
  <2>4. CASE n # 0
    <3>1. CallsInTime'
      BY <2>1, <2>2, <2>4 DEF CallsInTime
    <3>2. QED BY <1>1, <1>3, <2>2, <2>4, <3>1, AsksKeeps DEF IInv
  <2>5. QED BY <2>3, <2>4
<1>4. CASE Returns \/ Fails
  <2>1. at = "call" /\ calls # <<>> /\ open' = FALSE /\ UNCHANGED ids
    BY <1>1, <1>4 DEF Returns, Fails, IInv, CallsInTime
  <2>2. CASE Answer /\ at' = at
    <3>1. CallsInTime'
      BY <2>1, <2>2 DEF CallsInTime
    <3>2. QED BY <1>1, <2>1, <2>2, <3>1, AnswerKeeps DEF IInv
  <2>3. CASE Over("false") /\ UNCHANGED <<messages, calls>>
    <3>1. CallsInTime'
      BY <2>1, <2>3 DEF CallsInTime, Over
    <3>2. QED BY <1>1, <2>1, <2>3, <3>1, SameKeeps
  <2>4. QED BY <1>4, <2>2, <2>3 DEF Returns, Fails
<1>5. QED BY <1>1, <1>2, <1>3, <1>4 DEF Next

\* Whatever the tools and the cancels of a turn, every call of an answer is
\* answered, once and in order, before the next request: llm_agent_run.
THEOREM CallsAnswered == Spec => []RequestsAnswered
<1>1. Init => IInv
  BY InitAnswered
<1>2. IInv /\ [Next]_vars => IInv'
  BY StepAnswered
<1>3. QED BY <1>1, <1>2, IsAnswered, PTL DEF Spec

(* ------------------------------ the words ------------------------------ *)

Chars == {"word", "space"}
Pieces == [what : Chars, by : Nat]
What(h) == [i \in DOMAIN h |-> h[i].what]
ApartIn(a, b) ==
  /\ a.what = "word" /\ b.what = "word" => a.by = b.by
  /\ Tap \in {a.by, b.by} => a.what # b.what
Apart(h) == \A i \in 1 .. Len(h) - 1 : ApartIn(h[i], h[i + 1])
LastBy(h) == h[Len(h)].by

\* What was heard is what is written, at any point of a round but after a
\* delta the caller refused; a round that wrote knows whose word is the last.
Spoken ==
  /\ at \in {"gather", "stream", "call", "over"} /\ round \in Nat
  /\ text \in Seq(Chars) /\ answer \in Seq(Chars) /\ heard \in Seq(Pieces)
  /\ at # "over" => result = "none"
  /\ at = "stream" => round > 0 /\ What(heard) = Written
  /\ at \in {"gather", "call"} \/ result = "true" => What(heard) = text
  /\ at = "stream" /\ answer = <<>> => (separate <=> WordLast(text)) /\ ~spaced
  /\ at = "stream" /\ answer # <<>> => ~separate /\ LastBy(heard) = round
  /\ at # "over" /\ heard # <<>> => LastBy(heard) # Tap
  /\ Apart(heard)

LEMMA WhatOf ==
  ASSUME NEW h \in Seq(Pieces)
  PROVE  /\ What(h) \in Seq(Chars) /\ Len(What(h)) = Len(h)
         /\ \A i \in 1 .. Len(h) : What(h)[i] = h[i].what
<1>1. DOMAIN h = 1 .. Len(h) /\ Len(h) \in Nat
  OBVIOUS
<1>2. \A i \in 1 .. Len(h) : h[i].what \in Chars
  <2>1. \A i \in 1 .. Len(h) : h[i] \in Pieces
    BY ElementOfSeq
  <2> QED BY <2>1 DEF Pieces
<1>3. What(h) = [i \in 1 .. Len(h) |-> h[i].what]
  BY <1>1 DEF What
<1>4. What(h) \in [1 .. Len(h) -> Chars]
  BY <1>2, <1>3
<1>5. What(h) \in Seq(Chars) /\ Len(What(h)) = Len(h)
  BY <1>1, <1>4, LenProperties, IsASeq
<1> QED BY <1>3, <1>5

LEMMA OneMorePiece ==
  ASSUME NEW h \in Seq(Pieces), NEW p \in Pieces
  PROVE  /\ h \o <<p>> \in Seq(Pieces) /\ h \o <<p>> # <<>>
         /\ What(h \o <<p>>) = What(h) \o <<p.what>>
         /\ LastBy(h \o <<p>>) = p.by
         /\ Apart(h) /\ (h # <<>> => ApartIn(h[Len(h)], p)) => Apart(h \o <<p>>)
<1>1. /\ h \o <<p>> \in Seq(Pieces) /\ Len(h \o <<p>>) = Len(h) + 1
      /\ \A i \in 1 .. Len(h) : (h \o <<p>>)[i] = h[i]
      /\ (h \o <<p>>)[Len(h) + 1] = p
  OBVIOUS
<1>2. p.what \in Chars
  BY DEF Pieces
<1>3. /\ What(h) \o <<p.what>> \in Seq(Chars) /\ Len(What(h) \o <<p.what>>) = Len(h) + 1
      /\ \A i \in 1 .. Len(h) : (What(h) \o <<p.what>>)[i] = h[i].what
      /\ (What(h) \o <<p.what>>)[Len(h) + 1] = p.what
  BY <1>2, WhatOf
<1>4. /\ What(h \o <<p>>) \in Seq(Chars) /\ Len(What(h \o <<p>>)) = Len(h) + 1
      /\ \A i \in 1 .. Len(h) + 1 : What(h \o <<p>>)[i] = (h \o <<p>>)[i].what
  BY <1>1, WhatOf
<1>5. \A i \in 1 .. Len(h) + 1 : What(h \o <<p>>)[i] = (What(h) \o <<p.what>>)[i]
  <2> TAKE i \in 1 .. Len(h) + 1
  <2>1. i \in 1 .. Len(h) \/ i = Len(h) + 1
    OBVIOUS
  <2> QED BY <1>1, <1>3, <1>4, <2>1
<1>6. What(h \o <<p>>) = What(h) \o <<p.what>>
  <2>1. \A s, t \in Seq(Chars) :
          Len(s) = Len(t) /\ (\A i \in 1 .. Len(s) : s[i] = t[i]) => s = t
    BY SeqEqual
  <2> QED BY <1>3, <1>4, <1>5, <2>1
<1>7. ASSUME Apart(h), h # <<>> => ApartIn(h[Len(h)], p) PROVE Apart(h \o <<p>>)
  <2> SUFFICES ASSUME NEW i \in 1 .. Len(h)
               PROVE  ApartIn((h \o <<p>>)[i], (h \o <<p>>)[i + 1])
    BY <1>1 DEF Apart
  <2>1. CASE i < Len(h)
    BY <1>1, <1>7, <2>1 DEF Apart
  <2>2. CASE i = Len(h)
    BY <1>1, <1>7, <2>2
  <2> QED BY <2>1, <2>2
<1>8. LastBy(h \o <<p>>) = p.by /\ h \o <<p>> # <<>>
  BY <1>1 DEF LastBy
<1> QED BY <1>1, <1>6, <1>7, <1>8

LEMMA DeltaSpoken == ASSUME Spoken, Delta PROVE Spoken'
<1>1. PICK delta \in Chars :
        LET apart == separate /\ delta # "space"
            gap == IF apart THEN <<[what |-> "space", by |-> Tap]>> ELSE <<>>
        IN  /\ spaced' = (spaced \/ apart) /\ separate' = FALSE
            /\ answer' = Append(answer, delta)
            /\ heard' = heard \o gap \o (IF apart /\ cancel THEN <<>>
                                          ELSE <<[what |-> delta, by |-> round]>>)
  BY DEF Delta, Chars
<1> DEFINE word == [what |-> delta, by |-> round]
           gap  == [what |-> "space", by |-> Tap]
<1>2. /\ at = "stream" /\ UNCHANGED <<round, text>>
      /\ \/ cancel /\ at' = "over" /\ result' = "false"
         \/ ~cancel /\ UNCHANGED <<at, result>>
  BY DEF Delta, Over
<1>3. /\ round \in Nat /\ round > 0 /\ text \in Seq(Chars) /\ answer \in Seq(Chars)
      /\ heard \in Seq(Pieces) /\ What(heard) = Written /\ result = "none" /\ Apart(heard)
      /\ heard # <<>> => LastBy(heard) # Tap
      /\ word \in Pieces /\ gap \in Pieces /\ answer' \in Seq(Chars) /\ answer' # <<>>
  BY <1>1, <1>2 DEF Spoken, Pieces, Chars, Tap
<1>4. heard # <<>> => Len(What(heard)) > 0 /\ What(heard)[Len(What(heard))] = heard[Len(heard)].what
  BY <1>3, WhatOf, SMTT(30)
<1>5. CASE separate /\ delta # "space"
  <2>1. answer = <<>> /\ ~spaced /\ WordLast(text) /\ delta = "word"
    BY <1>2, <1>5 DEF Spoken, Chars
  <2>2. Written = text
    BY <1>3, <2>1 DEF Written
  <2>3. text # <<>> /\ text[Len(text)] = "word"
    BY <1>3, <2>1 DEF WordLast, Last, Chars
  <2>4. heard # <<>> /\ heard[Len(heard)].what = "word"
    BY <1>3, <1>4, <2>2, <2>3, WhatOf
  <2>5. ApartIn(heard[Len(heard)], gap) /\ ApartIn(gap, word)
    BY <1>3, <2>1, <2>4 DEF ApartIn, Tap, LastBy
  <2>6. /\ heard \o <<gap>> \in Seq(Pieces) /\ Apart(heard \o <<gap>>)
        /\ What(heard \o <<gap>>) = text \o <<"space">>
        /\ (heard \o <<gap>>)[Len(heard \o <<gap>>)] = gap
    <3>1. gap.what = "space"
      OBVIOUS
    <3> HIDE DEF gap, word
    <3>2. (heard \o <<gap>>)[Len(heard \o <<gap>>)] = gap
      BY <1>3
    <3>3. /\ heard \o <<gap>> \in Seq(Pieces)
          /\ What(heard \o <<gap>>) = What(heard) \o <<gap.what>>
          /\ Apart(heard) /\ (heard # <<>> => ApartIn(heard[Len(heard)], gap))
               => Apart(heard \o <<gap>>)
      BY <1>3, OneMorePiece
    <3> QED BY <1>3, <2>2, <2>5, <3>1, <3>2, <3>3
  <2>7. CASE cancel
    <3>1. heard' = heard \o <<gap>>
      BY <1>1, <1>3, <1>5, <2>6, <2>7, ConcatEmptySeq
    <3>2. at' = "over" /\ result' = "false" /\ UNCHANGED <<round, text>>
      BY <1>2, <2>7
    <3>3. heard' \in Seq(Pieces) /\ Apart(heard')
      BY <2>6, <3>1
    <3> QED BY <1>3, <3>2, <3>3 DEF Spoken
  <2>8. CASE ~cancel
    <3>1. heard' = (heard \o <<gap>>) \o <<word>>
      BY <1>1, <1>5, <2>8
    <3>2. /\ heard' \in Seq(Pieces) /\ Apart(heard')
          /\ What(heard') = (text \o <<"space">>) \o <<delta>>
          /\ LastBy(heard') = round
      <4>1. word.what = delta /\ word.by = round
        OBVIOUS
      <4> HIDE DEF gap, word
      <4> QED BY <1>3, <2>5, <2>6, <3>1, <4>1, OneMorePiece
    <3>3. answer' = <<delta>> /\ spaced' = TRUE /\ separate' = FALSE
      <4>1. answer' = <<delta>>
        BY <1>1, <2>1
      <4> QED BY <1>1, <1>5, <4>1
    <3>4. Written' = (text \o <<"space">>) \o <<delta>>
      BY <1>2, <3>3 DEF Written
    <3>5. at' = "stream" /\ result' = "none" /\ UNCHANGED <<round, text>>
      BY <1>2, <1>3, <2>8
    <3> QED BY <1>3, <3>2, <3>3, <3>4, <3>5 DEF Spoken, Tap
  <2> QED BY <2>7, <2>8
<1>6. CASE ~(separate /\ delta # "space")
  <2>1. heard' = heard \o <<word>> /\ (spaced' <=> spaced) /\ ~separate'
    BY <1>1, <1>3, <1>6, ConcatEmptySeq
  <2>2. heard # <<>> => ApartIn(heard[Len(heard)], word)
    <3>1. CASE answer # <<>>
      BY <1>2, <1>3, <3>1 DEF Spoken, ApartIn, LastBy, Tap
    <3>2. CASE answer = <<>>
      <4>1. (separate <=> WordLast(text)) /\ ~spaced
        BY <1>2, <3>2 DEF Spoken
      <4>2. Written = text
        BY <1>3, <3>2, <4>1 DEF Written
      <4>3. heard # <<>> => text # <<>> /\ text[Len(text)] = heard[Len(heard)].what
        BY <1>3, <1>4, <4>2
      <4>4. heard # <<>> => delta = "space" \/ heard[Len(heard)].what = "space"
        BY <1>6, <4>1, <4>3 DEF WordLast, Last
      <4> QED BY <1>3, <4>4 DEF ApartIn, LastBy, Tap
    <3> QED BY <3>1, <3>2
  <2>3. /\ heard' \in Seq(Pieces) /\ Apart(heard') /\ What(heard') = Written \o <<delta>>
        /\ LastBy(heard') = round
    BY <1>3, <2>1, <2>2, OneMorePiece
  <2>4. Written' = Written \o <<delta>>
    <3> DEFINE before == text \o (IF spaced THEN <<"space">> ELSE <<>>)
    <3>1. before \in Seq(Chars) /\ Written = before \o answer
      <4>1. CASE spaced
        BY <1>3, <4>1 DEF Written, Chars
      <4>2. CASE ~spaced
        BY <1>3, <4>2 DEF Written, Chars
      <4> QED BY <4>1, <4>2
    <3>2. Written' = before \o answer'
      BY <1>2, <2>1 DEF Written
    <3>3. answer' = answer \o <<delta>> /\ <<delta>> \in Seq(Chars)
      BY <1>1, <1>3, AppendIsConcat
    <3> HIDE DEF before
    <3>4. (before \o answer) \o <<delta>> = before \o (answer \o <<delta>>)
      <4>1. before \in Seq(Chars) /\ answer \in Seq(Chars) /\ <<delta>> \in Seq(Chars)
        BY <1>3, <3>1, <3>3
      <4> QED BY <4>1, ConcatAssociative
    <3> QED BY <3>1, <3>2, <3>3, <3>4
  <2>5. What(heard') = Written'
    BY <2>3, <2>4
  <2>6. CASE cancel
    <3>1. at' = "over" /\ result' = "false" /\ UNCHANGED <<round, text>>
      BY <1>2, <2>6
    <3> QED BY <1>3, <2>3, <3>1 DEF Spoken
  <2>7. CASE ~cancel
    <3>1. at' = "stream" /\ result' = "none" /\ UNCHANGED <<round, text>>
      BY <1>2, <1>3, <2>7
    <3> QED BY <1>3, <2>1, <2>3, <2>5, <3>1, SMTT(30) DEF Spoken, Tap
  <2> QED BY <2>6, <2>7
<1> QED BY <1>5, <1>6

LEMMA StepSpoken == Spoken /\ [Next]_vars => Spoken'
<1> SUFFICES ASSUME Spoken, [Next]_vars PROVE Spoken'
  OBVIOUS
<1>1. CASE Gather \/ (Again /\ at' = "stream")
  <2>1. /\ at \in {"gather", "call"} /\ at' = "stream" /\ round' = round + 1
        /\ (separate' <=> WordLast(text)) /\ ~spaced' /\ answer' = <<>>
        /\ UNCHANGED <<text, result, heard>>
    BY <1>1 DEF Gather, Again, Begin, Over
  <2>2. Written' = text
    BY <2>1 DEF Written, Spoken
  <2>3. WordLast(text)' <=> WordLast(text)
    BY <2>1 DEF WordLast, Last
  <2>4. /\ round' \in Nat /\ round' > 0 /\ text' \in Seq(Chars) /\ answer' \in Seq(Chars)
        /\ heard' \in Seq(Pieces) /\ Apart(heard') /\ result' = "none"
        /\ What(heard') = text /\ (heard' # <<>> => LastBy(heard') # Tap)
    BY <2>1 DEF Spoken
  <2>5. (separate' <=> WordLast(text)') /\ ~spaced'
    BY <2>1, <2>3
  <2>6. What(heard') = Written'
    BY <2>2, <2>4
  <2> QED BY <2>1, <2>4, <2>5, <2>6 DEF Spoken
<1>2. CASE NoTools \/ StreamFails \/ (Again /\ at' # "stream")
  <2>1. /\ at' = "over" /\ result' = "false" /\ UNCHANGED <<round, text, answer, heard>>
    BY <1>2 DEF NoTools, StreamFails, Again, Begin, Over
  <2> QED BY <2>1 DEF Spoken
<1>3. CASE StreamEnds
  <2>1. /\ at = "stream" /\ text' = Written /\ UNCHANGED <<round, answer, heard>>
        /\ \/ at' = "over" /\ result' = "true"
           \/ at' = "call" /\ UNCHANGED result
    BY <1>3 DEF StreamEnds, Over
  <2>2. What(heard) = Written /\ text' \in Seq(Chars)
    BY <2>1, WhatOf DEF Spoken
  <2> QED BY <2>1, <2>2 DEF Spoken
<1>4. CASE Start \/ Returns \/ Fails \/ Cancel \/ UNCHANGED vars
  <2>1. /\ UNCHANGED <<round, text, answer, tap, heard>>
        /\ \/ at' = "over" /\ result' = "false"
           \/ UNCHANGED <<at, result>>
    BY <1>4 DEF Start, Returns, Fails, Cancel, Over, Answer, vars
  <2>2. (separate' <=> separate) /\ (spaced' <=> spaced) /\ Written' = Written
    BY <2>1 DEF tap, Written
  <2> QED BY <2>1, <2>2 DEF Spoken
<1> QED BY <1>1, <1>2, <1>3, <1>4, DeltaSpoken DEF Next

\* The words of two rounds are never glued, no space is added to a space, and
\* the text a turn ends with is what its caller heard: the tap of
\* llm_agent_run, for any number of rounds and deltas, in any order of spaces.
THEOREM RoundsStayApart == Spec => []RoundsSpoken
<1>1. Init => Spoken
  BY DEF Init, Spoken, What, Apart, LastBy
<1>2. Spoken => RoundsSpoken
  <2> SUFFICES ASSUME Spoken PROVE RoundsSpoken
    OBVIOUS
  <2>1. TextIsHeard
    BY DEF Spoken, TextIsHeard, What
  <2>2. RoundsApart
    BY DEF Spoken, RoundsApart, Apart, ApartIn
  <2> QED BY <2>1, <2>2 DEF RoundsSpoken
<1> QED BY <1>1, <1>2, StepSpoken, PTL DEF Spec

(* -------------------------- one server of tools ------------------------ *)

Asks == [what : {"request", "initialize", "initialized"}, retry : BOOLEAN]

ServerTyped ==
  /\ stack \in Seq(Asks)
  /\ given \in Nat /\ session \in 0 .. given /\ known \subseteq 1 .. given
  /\ opened \in BOOLEAN /\ keeps \in BOOLEAN /\ stopped \in BOOLEAN
  /\ trouble \in BOOLEAN /\ doubled \in BOOLEAN
  /\ runs \in Nat

\* The call is at the bottom of its exchanges, above it are those of
\* handshakes: nothing ran before the call is over.
CallBelow ==
  /\ stack # <<>> => stack[1].what = "request" /\ runs = 0
  /\ \A i \in 2 .. Len(stack) : stack[i].what # "request"
  /\ runs <= 1

\* What is repeated is repeated on a session the server opened for it, and
\* knows unless it forgot again.
RepeatsOnNew ==
  /\ \A i \in DOMAIN stack : ~stack[i].retry /\ ~trouble => ~Server!Forgotten
  /\ returned = "failed" => trouble

\* Open, a client has a session whose handshake ended: an initialize is only
\* ever the last of its exchanges, of a client that is not open.
OpenIsReady ==
  ~doubled =>
    /\ \A i \in 1 .. Len(stack) - 1 : stack[i].what # "initialize"
    /\ opened /\ keeps => session \in ready
    /\ stack # <<>> =>
         LET last == stack[Len(stack)] IN
           /\ last.what = "initialize" => ~opened
           /\ last.what = "initialized" /\ keeps => session # 0
           /\ last.what = "request" => opened

ServerInv == ServerTyped /\ CallBelow /\ RepeatsOnNew /\ OpenIsReady

\* The exchanges without the last, and with another in its place.
LEMMA StackShape ==
  ASSUME stack \in Seq(Asks), stack # <<>>
  PROVE  /\ Server!Current \in Asks /\ Server!Current = stack[Len(stack)]
         /\ Server!Outer \in Seq(Asks) /\ Len(Server!Outer) = Len(stack) - 1
         /\ Len(stack) \in Nat \ {0} /\ DOMAIN stack = 1 .. Len(stack)
         /\ \A i \in 1 .. Len(stack) - 1 : Server!Outer[i] = stack[i]
         /\ \A e \in Asks :
              /\ Append(Server!Outer, e) \in Seq(Asks)
              /\ Append(Server!Outer, e) # <<>>
              /\ Len(Append(Server!Outer, e)) = Len(stack)
              /\ DOMAIN Append(Server!Outer, e) = 1 .. Len(stack)
              /\ Append(Server!Outer, e)[Len(stack)] = e
              /\ \A i \in 1 .. Len(stack) - 1 : Append(Server!Outer, e)[i] = stack[i]
<1>1. Len(stack) \in Nat \ {0} /\ DOMAIN stack = 1 .. Len(stack)
  BY EmptySeq, LenProperties
<1>2. Server!Current \in Asks /\ Server!Current = stack[Len(stack)]
  BY <1>1, ElementOfSeq DEF Server!Current
<1>3. /\ Server!Outer \in Seq(Asks) /\ Len(Server!Outer) = Len(stack) - 1
      /\ \A i \in 1 .. Len(stack) - 1 : Server!Outer[i] = stack[i]
  BY <1>1, SubSeqProperties DEF Server!Outer
<1>4. ASSUME NEW e \in Asks
      PROVE  /\ Append(Server!Outer, e) \in Seq(Asks)
             /\ Append(Server!Outer, e) # <<>>
             /\ Len(Append(Server!Outer, e)) = Len(stack)
             /\ DOMAIN Append(Server!Outer, e) = 1 .. Len(stack)
             /\ Append(Server!Outer, e)[Len(stack)] = e
             /\ \A i \in 1 .. Len(stack) - 1 : Append(Server!Outer, e)[i] = stack[i]
  <2>1. /\ Append(Server!Outer, e) \in Seq(Asks)
        /\ Append(Server!Outer, e) # <<>>
        /\ Len(Append(Server!Outer, e)) = Len(Server!Outer) + 1
        /\ Append(Server!Outer, e)[Len(Server!Outer) + 1] = e
        /\ \A i \in 1 .. Len(Server!Outer) : Append(Server!Outer, e)[i] = Server!Outer[i]
    BY <1>3, AppendProperties
  <2>2. Len(Server!Outer) + 1 = Len(stack)
    BY <1>1, <1>3
  <2>3. DOMAIN Append(Server!Outer, e) = 1 .. Len(Append(Server!Outer, e))
    BY <2>1, LenProperties
  <2> QED BY <1>3, <2>1, <2>2, <2>3
<1> QED BY <1>1, <1>2, <1>3, <1>4

\* A step that ends the call leaves a client without exchanges.
LEMMA CallOver ==
  ASSUME ServerInv, stack' = <<>>,
         UNCHANGED <<opened, keeps, doubled>>,
         stopped' \in BOOLEAN, trouble' \in BOOLEAN,
         given' \in Nat, session' \in 0 .. given', known' \subseteq 1 .. given',
         runs' \in Nat, runs' <= 1,
         returned' = "failed" => trouble',
         opened /\ keeps /\ ~doubled => session' \in ready'
  PROVE  ServerInv'
<1>1. stack' \in Seq(Asks) /\ Len(stack') = 0 /\ DOMAIN stack' = {}
  BY EmptySeq
<1>2. ServerTyped'
  BY <1>1 DEF ServerInv, ServerTyped
<1>3. CallBelow'
  BY <1>1 DEF CallBelow
<1>4. RepeatsOnNew'
  BY <1>1 DEF RepeatsOnNew
<1>5. OpenIsReady'
  BY <1>1 DEF OpenIsReady
<1> QED BY <1>2, <1>3, <1>4, <1>5 DEF ServerInv

\* What the server does with a message, whatever becomes of its answer.
LEMMA Served ==
  ASSUME ServerInv, NEW kind, Server!Serves(kind)
  PROVE  /\ given' \in Nat /\ given <= given' /\ keeps' = keeps
         /\ known' \subseteq 1 .. given' /\ known \subseteq known'
         /\ session \in 0 .. given' /\ ready \subseteq ready'
         /\ kind = "initialize" /\ keeps => given' \in known' /\ given' # 0
         /\ kind # "initialize" => UNCHANGED <<known, given>> /\ ~Server!Forgotten
         /\ kind = "initialized" => ready' = ready \cup ({session} \ {0})
         /\ runs' = IF kind = "request" THEN runs + 1 ELSE runs
<1> QED BY DEF ServerInv, ServerTyped, Server!Serves

\* The call that runs has run nothing yet, and an open client has a session
\* whose handshake ended.
LEMMA NothingRanYet ==
  ASSUME ServerInv, Server!Running
  PROVE  /\ runs = 0
         /\ opened /\ keeps /\ ~doubled => session \in ready
         /\ Server!Current \in Asks
<1> QED BY StackShape DEF ServerInv, ServerTyped, CallBelow, OpenIsReady, Server!Running

LEMMA EndsServed ==
  ServerInv /\ (Server!Answered \/ Server!Lost \/ Server!Cancelled) => ServerInv'
<1> SUFFICES ASSUME ServerInv, Server!Answered \/ Server!Lost \/ Server!Cancelled
             PROVE  ServerInv'
  OBVIOUS
<1>1. Server!Running /\ stack' = <<>> /\ UNCHANGED <<opened, session, stopped, doubled>>
  BY DEF Server!Answered, Server!Lost, Server!Cancelled, Server!Fail, Server!Unwind
<1>2. /\ trouble' \in BOOLEAN
      /\ returned' = "failed" => trouble'
  BY DEF Server!Answered, Server!Lost, Server!Cancelled, Server!Fail, Server!Unwind, ServerInv,
         ServerTyped
<1>3. \/ Server!Serves(Server!Current.what)
      \/ UNCHANGED <<keeps, known, ready, given, runs>>
  BY DEF Server!Answered, Server!Lost, Server!Cancelled, Server!server
<1>4. /\ given' \in Nat /\ session' \in 0 .. given' /\ known' \subseteq 1 .. given'
      /\ keeps' = keeps /\ ready \subseteq ready' /\ runs' \in Nat /\ runs' <= 1
  <2>1. runs = 0
    BY <1>1, NothingRanYet
  <2>2. CASE Server!Serves(Server!Current.what)
    <3>1. /\ given' \in Nat /\ session \in 0 .. given' /\ known' \subseteq 1 .. given'
          /\ keeps' = keeps /\ ready \subseteq ready'
          /\ runs' = IF Server!Current.what = "request" THEN runs + 1 ELSE runs
      BY <2>2, Served
    <3> QED BY <1>1, <2>1, <3>1
  <2>3. CASE UNCHANGED <<keeps, known, ready, given, runs>>
    BY <1>1, <2>1, <2>3 DEF ServerInv, ServerTyped
  <2> QED BY <1>3, <2>2, <2>3
<1> QED
  BY <1>1, <1>2, <1>4, NothingRanYet, CallOver DEF ServerInv, ServerTyped

LEMMA EndsRefused ==
  ServerInv /\ (Server!Refused \/ Server!RefusedAgain) => ServerInv'
<1> SUFFICES ASSUME ServerInv, Server!Refused \/ Server!RefusedAgain
             PROVE  ServerInv'
  OBVIOUS
<1>1. /\ Server!Running /\ stack' = <<>>
      /\ UNCHANGED <<opened, session, stopped, doubled, keeps, known, ready, given, runs>>
  BY DEF Server!Refused, Server!RefusedAgain, Server!Fail, Server!Unwind, Server!server
<1>2. trouble' \in BOOLEAN /\ (returned' = "failed" => trouble')
  <2>1. CASE Server!Refused
    BY <2>1 DEF Server!Refused, Server!Fail
  <2>2. CASE Server!RefusedAgain
    <3>1. Len(stack) \in DOMAIN stack
      BY <1>1, StackShape DEF Server!Running, ServerInv, ServerTyped
    <3>2. Server!Forgotten /\ ~stack[Len(stack)].retry /\ trouble' = trouble
      BY <2>2 DEF Server!RefusedAgain, Server!Current
    <3> QED BY <3>1, <3>2 DEF ServerInv, ServerTyped, RepeatsOnNew
  <2> QED BY <2>1, <2>2
<1> QED
  BY <1>1, <1>2, NothingRanYet, CallOver DEF ServerInv, ServerTyped

LEMMA BeginsCall == ServerInv /\ Server!Begin => ServerInv'
<1> SUFFICES ASSUME ServerInv, Server!Begin PROVE ServerInv'
  OBVIOUS
<1> DEFINE e == Server!Exchange("request", TRUE)
<1>1. /\ UNCHANGED <<opened, session, keeps, known, ready, given, doubled>>
      /\ runs' = 0 /\ trouble' = FALSE /\ stopped' = FALSE /\ returned' = "none"
      /\ \/ opened /\ stack' = <<e>>
         \/ ~opened /\ stack' = <<e, Server!Opening>>
  BY DEF Server!Begin, Server!server
<1>2. /\ e \in Asks /\ e.what = "request" /\ e.retry
      /\ Server!Opening \in Asks /\ Server!Opening.what = "initialize" /\ Server!Opening.retry
  BY DEF Server!Exchange, Server!Opening, Asks
<1> HIDE DEF e
<1>3. stack' \in Seq(Asks)
  <2>1. \A x, y \in Asks : <<x>> \in Seq(Asks) /\ <<x, y>> \in Seq(Asks)
    OBVIOUS
  <2> QED BY <1>1, <1>2, <2>1
<1>4. /\ Len(stack') \in {1, 2} /\ DOMAIN stack' = 1 .. Len(stack')
      /\ stack'[1] = e
      /\ Len(stack') = 1 => opened
      /\ Len(stack') = 2 => ~opened /\ stack'[2] = Server!Opening
  BY <1>1
<1>5. ServerTyped'
  BY <1>1, <1>3 DEF ServerInv, ServerTyped
<1>6. CallBelow'
  BY <1>1, <1>2, <1>4 DEF CallBelow
<1>7. RepeatsOnNew'
  BY <1>1, <1>2, <1>4 DEF RepeatsOnNew
<1>8. OpenIsReady'
  BY <1>1, <1>2, <1>4 DEF OpenIsReady, ServerInv
<1> QED BY <1>5, <1>6, <1>7, <1>8 DEF ServerInv

LEMMA TakesSession == ServerInv /\ (Server!Initialized \/ Server!Unsupported) => ServerInv'
<1> SUFFICES ASSUME ServerInv, Server!Initialized \/ Server!Unsupported PROVE ServerInv'
  OBVIOUS
<1>1. /\ Server!Running /\ Server!Current.what = "initialize" /\ Server!Serves("initialize")
      /\ session' = (IF keeps THEN given' ELSE session)
      /\ UNCHANGED <<opened, stopped, doubled>>
  BY DEF Server!Initialized, Server!Unsupported, Server!Fail
<1>2. /\ given' \in Nat /\ session' \in 0 .. given' /\ known' \subseteq 1 .. given'
      /\ keeps' = keeps /\ runs' = runs /\ (keeps => session' \in known' /\ session' # 0)
  BY <1>1, Served
<1>3. stack # <<>> /\ runs = 0 /\ keeps \in BOOLEAN
  BY <1>1 DEF Server!Running, ServerInv, CallBelow, ServerTyped
<1>4. Len(stack) \in DOMAIN stack /\ stack[Len(stack)].what = "initialize"
  BY <1>1, StackShape DEF Server!Running, ServerInv, ServerTyped
<1>5. ~doubled => ~opened
  BY <1>3, <1>4 DEF ServerInv, OpenIsReady
<1>6. CASE Server!Unsupported
  <2>1. stack' = <<>> /\ trouble' = TRUE
    BY <1>6 DEF Server!Unsupported, Server!Fail, Server!Unwind
  <2> QED BY <1>1, <1>2, <1>3, <1>5, <2>1, CallOver DEF ServerInv, ServerTyped
<1>7. CASE Server!Initialized
  <2> DEFINE e == Server!Exchange("initialized", TRUE)
  <2>1. /\ stack' = Append(Server!Outer, e)
        /\ UNCHANGED <<returned, trouble>>
    BY <1>7 DEF Server!Initialized
  <2>2. e \in Asks /\ e.what = "initialized" /\ e.retry
    BY DEF Server!Exchange, Asks
  <2> HIDE DEF e
  <2>3. /\ stack' \in Seq(Asks) /\ stack' # <<>> /\ Len(stack') = Len(stack)
        /\ stack'[Len(stack)] = e
        /\ DOMAIN stack' = 1 .. Len(stack) /\ DOMAIN stack = 1 .. Len(stack)
        /\ Len(stack) \in Nat \ {0}
        /\ \A i \in 1 .. Len(stack) - 1 : stack'[i] = stack[i]
    BY <1>3, <2>1, <2>2, StackShape DEF ServerInv, ServerTyped
  <2>4. Len(stack) >= 2
    BY <1>3, <1>4, <2>3 DEF ServerInv, CallBelow
  <2>5. ServerTyped'
    BY <1>1, <1>2, <1>3, <2>1, <2>3 DEF ServerInv, ServerTyped
  <2>6. CallBelow'
    BY <1>2, <1>3, <2>2, <2>3, <2>4 DEF ServerInv, CallBelow
  <2>7. RepeatsOnNew'
    BY <1>2, <2>1 DEF ServerInv, RepeatsOnNew, Server!Forgotten
  <2>8. OpenIsReady'
    BY <1>1, <1>2, <1>5, <2>2, <2>3 DEF ServerInv, OpenIsReady
  <2> QED BY <2>5, <2>6, <2>7, <2>8 DEF ServerInv
<1> QED BY <1>6, <1>7

LEMMA OpensSession == ServerInv /\ Server!Opened => ServerInv'
<1> SUFFICES ASSUME ServerInv, Server!Opened PROVE ServerInv'
  OBVIOUS
<1>1. /\ Server!Running /\ Server!Current.what = "initialized" /\ Server!Serves("initialized")
      /\ opened' /\ opened' \in BOOLEAN /\ stack' = Server!Outer
      /\ UNCHANGED <<session, stopped, returned, trouble, doubled>>
  BY DEF Server!Opened
<1>2. /\ UNCHANGED <<given, known, keeps, runs>> /\ ~Server!Forgotten
      /\ ready' = ready \cup ({session} \ {0})
  BY <1>1, Served
<1>3. stack # <<>> /\ runs = 0
  BY <1>1 DEF Server!Running, ServerInv, CallBelow
<1>4. /\ Server!Outer \in Seq(Asks) /\ Len(Server!Outer) = Len(stack) - 1
      /\ Len(stack) \in Nat \ {0} /\ DOMAIN stack = 1 .. Len(stack)
      /\ \A i \in 1 .. Len(stack) - 1 : Server!Outer[i] = stack[i]
      /\ stack[Len(stack)].what = "initialized"
  BY <1>1, <1>3, StackShape DEF ServerInv, ServerTyped
<1>5. /\ stack' \in Seq(Asks) /\ Len(stack') = Len(stack) - 1
      /\ DOMAIN stack' = 1 .. Len(stack) - 1
      /\ \A i \in 1 .. Len(stack) - 1 : stack'[i] = stack[i]
      /\ Len(stack) >= 2
  <2>1. Len(stack) >= 2
    BY <1>3, <1>4 DEF ServerInv, CallBelow
  <2> QED BY <1>1, <1>4, <2>1, LenProperties
<1>6. ServerTyped'
  BY <1>1, <1>2, <1>5 DEF ServerInv, ServerTyped
<1>7. CallBelow'
  BY <1>2, <1>3, <1>4, <1>5 DEF ServerInv, CallBelow
<1>8. RepeatsOnNew'
  BY <1>1, <1>2 DEF ServerInv, RepeatsOnNew, Server!Forgotten
<1>9. ASSUME ~doubled, keeps
      PROVE  session # 0 /\ session \in ready'
  <2>1. session # 0
    BY <1>3, <1>4, <1>9 DEF ServerInv, OpenIsReady
  <2> QED BY <1>2, <2>1
<1>10. OpenIsReady'
  BY <1>1, <1>2, <1>4, <1>5, <1>9 DEF ServerInv, OpenIsReady
<1> QED BY <1>6, <1>7, <1>8, <1>10 DEF ServerInv

LEMMA OpensAnew == ServerInv /\ Server!Reopen => ServerInv'
<1> SUFFICES ASSUME ServerInv, Server!Reopen PROVE ServerInv'
  OBVIOUS
<1> DEFINE e == [Server!Current EXCEPT !.retry = FALSE]
           n == Len(stack)
           held == Append(Server!Outer, e)
<1>1. /\ Server!Running /\ session' = 0 /\ opened' = FALSE
      /\ stack' = Server!Outer \o <<e, Server!Opening>>
      /\ UNCHANGED <<stopped, keeps, known, ready, given, returned, runs, trouble>>
  BY DEF Server!Reopen, Server!server
<1>2. doubled' = (doubled \/ stack[n].what = "initialize") /\ doubled' \in BOOLEAN
  BY StackShape DEF Server!Reopen, Server!Current, ServerInv, ServerTyped
<1>3. stack # <<>> /\ runs = 0 /\ keeps \in BOOLEAN
  BY <1>1 DEF Server!Running, ServerInv, CallBelow, ServerTyped
<1>4. Server!Current \in Asks /\ Server!Current = stack[n]
  BY <1>3, StackShape DEF ServerInv, ServerTyped
<1>5. e \in Asks /\ e.what = stack[n].what
  BY <1>4 DEF Asks
<1>6. Server!Opening \in Asks /\ Server!Opening.what = "initialize"
  BY DEF Server!Exchange, Server!Opening, Asks
<1>7. /\ held \in Seq(Asks) /\ Len(held) = n /\ n \in Nat \ {0}
      /\ held[n] = e
      /\ DOMAIN stack = 1 .. n
      /\ \A i \in 1 .. n - 1 : held[i] = stack[i]
  BY <1>3, <1>5, StackShape DEF ServerInv, ServerTyped
<1>8. stack' = Append(held, Server!Opening)
  <2>1. Server!Outer \in Seq(Asks)
    BY <1>3, StackShape DEF ServerInv, ServerTyped
  <2> HIDE DEF e
  <2>2. /\ \A s \in Seq(Asks), x, y \in Asks : s \o <<x, y>> = Append(Append(s, x), y)
    OBVIOUS
  <2> QED BY <1>1, <1>5, <1>6, <2>1, <2>2
<1> HIDE DEF e, held, n
<1>9. /\ stack' \in Seq(Asks) /\ Len(stack') = n + 1 /\ stack' # <<>>
      /\ stack'[n + 1] = Server!Opening
      /\ \A i \in 1 .. n : stack'[i] = held[i]
  BY <1>6, <1>7, <1>8, AppendProperties
<1>10. DOMAIN stack' = 1 .. n + 1
  BY <1>9, LenProperties
<1>11. /\ stack'[n] = e
       /\ \A i \in 1 .. n - 1 : stack'[i] = stack[i]
  BY <1>7, <1>9
<1>12. ServerTyped'
  <2>1. /\ stack' \in Seq(Asks) /\ doubled' \in BOOLEAN /\ opened' \in BOOLEAN
        /\ session' = 0 /\ UNCHANGED <<given, known, keeps, stopped, trouble, runs>>
    BY <1>1, <1>2, <1>9
  <2> QED BY <2>1 DEF ServerInv, ServerTyped
<1>13. CallBelow'
  <2>1. stack'[1].what = "request"
    BY <1>3, <1>5, <1>7, <1>11 DEF ServerInv, CallBelow
  <2>2. ASSUME NEW i \in 2 .. n + 1 PROVE stack'[i].what # "request"
    <3>1. CASE i = n + 1
      BY <1>6, <1>9, <3>1
    <3>2. CASE i = n
      BY <1>5, <1>7, <1>11, <3>2 DEF ServerInv, CallBelow, n
    <3>3. CASE i < n
      BY <1>7, <1>11, <3>3 DEF ServerInv, CallBelow, n
    <3> QED BY <1>7, <3>1, <3>2, <3>3
  <2>3. \A i \in 2 .. Len(stack') : stack'[i].what # "request"
    BY <1>9, <2>2
  <2>4. runs' = 0
    BY <1>1, <1>3
  <2> QED BY <2>1, <2>3, <2>4 DEF CallBelow
<1>14. RepeatsOnNew'
  BY <1>1 DEF ServerInv, RepeatsOnNew, Server!Forgotten
<1>15. OpenIsReady'
  <2> SUFFICES ASSUME ~doubled' PROVE OpenIsReady'
    BY DEF OpenIsReady
  <2>1. ~doubled /\ stack[n].what # "initialize"
    BY <1>2
  <2>2. ASSUME NEW i \in 1 .. n PROVE stack'[i].what # "initialize"
    <3>1. CASE i = n
      BY <1>5, <1>11, <2>1, <3>1
    <3>2. CASE i < n
      BY <1>7, <1>11, <2>1, <3>2 DEF ServerInv, OpenIsReady, n
    <3> QED BY <1>7, <3>1, <3>2
  <2> QED BY <1>1, <1>6, <1>9, <1>7, <2>2 DEF OpenIsReady
<1> QED BY <1>12, <1>13, <1>14, <1>15 DEF ServerInv

LEMMA ServerAside ==
  ServerInv /\ (Server!Cancel \/ Server!Forget \/ Server!Free \/ UNCHANGED Server!vars) =>
    ServerInv'
<1> SUFFICES ASSUME ServerInv,
                    Server!Cancel \/ Server!Forget \/ Server!Free \/ UNCHANGED Server!vars
             PROVE  ServerInv'
  OBVIOUS
<1>1. CASE Server!Cancel \/ UNCHANGED Server!vars
  <2>1. /\ stopped' \in BOOLEAN
        /\ UNCHANGED <<opened, session, stack, keeps, known, ready, given, called, returned, runs,
                       openings, trouble, doubled>>
    BY <1>1 DEF Server!Cancel, Server!vars, Server!client, Server!server, Server!history,
                ServerInv, ServerTyped
  <2> QED
    BY <2>1 DEF ServerInv, ServerTyped, CallBelow, RepeatsOnNew, OpenIsReady, Server!Forgotten
<1>2. CASE Server!Forget
  <2>1. /\ known' = {} /\ trouble' \in BOOLEAN /\ (trouble => trouble')
        /\ stack # <<>> => trouble'
        /\ UNCHANGED <<opened, session, stack, stopped, keeps, ready, given, returned, runs,
                       doubled>>
    BY <1>2 DEF Server!Forget, Server!client, ServerInv, ServerTyped, Server!Running
  <2>2. stack = <<>> => DOMAIN stack = {}
    OBVIOUS
  <2> QED
    BY <2>1, <2>2 DEF ServerInv, ServerTyped, CallBelow, RepeatsOnNew, OpenIsReady
<1>3. CASE Server!Free
  <2>1. /\ stack = <<>> /\ stack' = <<>> /\ session' = 0 /\ opened' = FALSE
        /\ known' \subseteq known
        /\ UNCHANGED <<stopped, keeps, ready, given, returned, runs, trouble, doubled>>
    BY <1>3 DEF Server!Free, Server!Running, Server!history
  <2>2. DOMAIN stack' = {} /\ Len(stack') = 0
    BY <2>1
  <2>3. ServerTyped'
    <3>1. opened' \in BOOLEAN
      BY <2>1
    <3>2. stack' \in Seq(Asks) /\ session' = 0 /\ known' \subseteq known
      BY <2>1
    <3>3. UNCHANGED <<stopped, keeps, given, runs, trouble, doubled>>
      BY <2>1
    <3> QED BY <3>1, <3>2, <3>3 DEF ServerInv, ServerTyped
  <2>4. CallBelow' /\ RepeatsOnNew' /\ OpenIsReady'
    BY <2>1, <2>2 DEF ServerInv, CallBelow, RepeatsOnNew, OpenIsReady
  <2> QED BY <2>3, <2>4 DEF ServerInv
<1> QED BY <1>1, <1>2, <1>3

LEMMA ServerStep == ServerInv /\ [Server!Next]_(Server!vars) => ServerInv'
<1> QED
  BY BeginsCall, TakesSession, OpensSession, OpensAnew, EndsServed, EndsRefused, ServerAside
     DEF Server!Next

LEMMA ServerStarts == Server!Init => ServerInv
<1> SUFFICES ASSUME Server!Init PROVE ServerInv
  OBVIOUS
<1>1. /\ opened = FALSE /\ session = 0 /\ stack = <<>> /\ stopped = FALSE
      /\ keeps \in BOOLEAN /\ known = {} /\ given = 0 /\ returned = "done" /\ runs = 0
      /\ trouble = FALSE /\ doubled = FALSE
  BY DEF Server!Init
<1>2. DOMAIN stack = {} /\ Len(stack) = 0 /\ stack \in Seq(Asks)
  BY <1>1
<1>3. ServerTyped
  <2>1. /\ opened \in BOOLEAN /\ keeps \in BOOLEAN /\ stopped \in BOOLEAN
        /\ trouble \in BOOLEAN /\ doubled \in BOOLEAN
        /\ session = 0 /\ known = {} /\ given = 0 /\ runs = 0 /\ stack \in Seq(Asks)
    BY <1>1, <1>2
  <2> QED BY <2>1 DEF ServerTyped
<1>4. CallBelow /\ RepeatsOnNew /\ OpenIsReady
  BY <1>1, <1>2 DEF CallBelow, RepeatsOnNew, OpenIsReady
<1> QED BY <1>3, <1>4 DEF ServerInv

\* A request that ran did so on a session the server saw the end of the
\* handshake of.
LEMMA RunsReady ==
  ServerInv /\ [Server!Next]_(Server!vars) /\ runs' > runs /\ ~doubled =>
    (keeps => session \in ready)
<1> SUFFICES ASSUME ServerInv, Server!Next, runs' > runs, ~doubled, keeps
             PROVE  session \in ready
  BY DEF Server!vars, Server!history, ServerInv, ServerTyped
<1> DEFINE kind == Server!Current.what
<1>1. runs \in Nat
  BY DEF ServerInv, ServerTyped
<1>2. CASE Server!Begin
  <2>1. runs' = 0
    BY <1>2 DEF Server!Begin
  <2> QED BY <1>1, <2>1
<1>3. CASE Server!Initialized \/ Server!Unsupported \/ Server!Opened
  <2>1. Server!Serves("initialize") \/ Server!Serves("initialized")
    BY <1>3 DEF Server!Initialized, Server!Unsupported, Server!Opened
  <2>2. runs' = runs
    BY <2>1 DEF Server!Serves
  <2> QED BY <1>1, <2>2
<1>4. CASE \/ Server!Reopen \/ Server!RefusedAgain \/ Server!Refused
           \/ Server!Cancel \/ Server!Forget \/ Server!Free
  <2>1. runs' = runs
    BY <1>4 DEF Server!Reopen, Server!RefusedAgain, Server!Refused, Server!Cancel, Server!Forget,
                Server!Free, Server!history
  <2> QED BY <1>1, <2>1
<1>5. CASE Server!Answered \/ Server!Lost \/ Server!Cancelled
  <2>1. Server!Running
    BY <1>5 DEF Server!Answered, Server!Lost, Server!Cancelled
  <2>2. Server!Serves(kind) \/ runs' = runs
    BY <1>5 DEF Server!Answered, Server!Lost, Server!Cancelled
  <2>3. Server!Serves(kind)
    BY <1>1, <2>2
  <2> HIDE DEF kind
  <2>4. runs' = IF kind = "request" THEN runs + 1 ELSE runs
    BY <2>3, Served
  <2>5. kind = "request"
    BY <1>1, <2>4
  <2>6. stack # <<>> /\ stack[Len(stack)].what = "request"
    BY <2>1, <2>5 DEF Server!Running, Server!Current, kind
  <2> QED BY <2>6 DEF ServerInv, OpenIsReady
<1> QED BY <1>2, <1>3, <1>4, <1>5 DEF Server!Next

\* The three parts are checked side by side, each behaves as if it were alone.
LEMMA PartsAlone == MCSpec => Spec /\ Endpoint!Spec /\ Server!Spec
<1>1. MCInit => Init /\ Endpoint!Init /\ Server!Init
  BY DEF MCInit
<1>2. [MCNext]_MCVars =>
        [Next]_vars /\ [Endpoint!Next]_(Endpoint!vars) /\ [Server!Next]_(Server!vars)
  BY DEF MCNext, MCVars, OfEndpoint, stream, server, vars, tap,
         Endpoint!vars, Endpoint!answer, Endpoint!truth,
         Server!vars, Server!client, Server!server, Server!history
<1> QED BY <1>1, <1>2, PTL DEF MCSpec, Spec, Endpoint!Spec, Server!Spec

\* A tool runs once at most for one call of the model, whatever is refused,
\* lost, cancelled or forgotten; and a session that was forgotten between two
\* calls fails none.
THEOREM CallsRepeatSafely == MCSpec => []RepeatsSafely
<1>1. ServerInv => RepeatsSafely
  BY DEF ServerInv, CallBelow, RepeatsOnNew, RepeatsSafely, Server!RepeatsSafely, Server!RunsOnce,
         Server!OldSessionHeals
<1>2. Server!Spec => []RepeatsSafely
  BY <1>1, ServerStarts, ServerStep, PTL DEF Server!Spec
<1> QED BY <1>2, PartsAlone, PTL

\* A tool runs on a session only once the server saw the end of its handshake,
\* for any number of calls, sessions and failures, until an initialize is
\* itself repeated.
THEOREM ToolsRunWhenReady == MCSpec => RunsOnReadyOnce
<1>1. ServerInv /\ [Server!Next]_(Server!vars) =>
        [runs' > runs /\ ~doubled => (keeps => session \in ready)]_(Server!vars)
  BY RunsReady
<1>2. Server!Spec => RunsOnReadyOnce
  BY <1>1, ServerStarts, ServerStep, PTL
     DEF Server!Spec, RunsOnReadyOnce, Server!RunsOnReadyOnce
<1> QED BY <1>2, PartsAlone, PTL

(* -------------------------- one streamed request ----------------------- *)

\* Where a chunk holds frames of a kind before the end of the answer.
Places(chunk, kind) ==
  {i \in DOMAIN chunk : chunk[i] = kind /\ \A j \in 1 .. i - 1 : chunk[j] # "done"}

LEMMA PlacesFinite ==
  ASSUME NEW chunk \in Seq(Endpoint!Frames), NEW kind
  PROVE  /\ IsFiniteSet(Places(chunk, kind)) /\ Places(chunk, kind) \subseteq 1 .. Len(chunk)
         /\ Endpoint!Count(chunk, kind) = Cardinality(Places(chunk, kind))
         /\ Endpoint!Count(chunk, kind) \in Nat
<1>1. Places(chunk, kind) \in SUBSET (1 .. Len(chunk))
  BY LenProperties DEF Places
<1>2. IsFiniteSet(1 .. Len(chunk))
  BY LenProperties, FS_Interval
<1>3. IsFiniteSet(Places(chunk, kind))
  BY <1>1, <1>2, FS_Subset
<1>4. Endpoint!Count(chunk, kind) = Cardinality(Places(chunk, kind))
  BY DEF Endpoint!Count, Places, Endpoint!Cardinality, Cardinality
<1> QED BY <1>1, <1>3, <1>4, FS_CardinalityType

LEMMA CountOfNone == \A kind : Endpoint!Count(<<>>, kind) = 0
<1> SUFFICES ASSUME NEW kind PROVE Endpoint!Count(<<>>, kind) = 0
  OBVIOUS
<1>1. Places(<<>>, kind) = {}
  BY DEF Places
<1>2. Endpoint!Count(<<>>, kind) = Cardinality(Places(<<>>, kind))
  BY DEF Endpoint!Count, Places, Endpoint!Cardinality, Cardinality
<1> QED BY <1>1, <1>2, FS_EmptySet

\* Nothing counts after the end.
LEMMA CountAtEnd ==
  ASSUME NEW chunk \in Seq(Endpoint!Frames), chunk # <<>>, Head(chunk) = "done",
         NEW kind, kind # "done"
  PROVE  Endpoint!Count(chunk, kind) = 0
<1>1. chunk[1] = "done" /\ Len(chunk) \in Nat \ {0} /\ DOMAIN chunk = 1 .. Len(chunk)
  BY LenProperties, EmptySeq
<1>2. Places(chunk, kind) = {}
  BY <1>1 DEF Places
<1> QED BY <1>2, PlacesFinite, FS_EmptySet

\* A frame that does not end the answer counts one for its kind.
LEMMA CountOfTail ==
  ASSUME NEW chunk \in Seq(Endpoint!Frames), chunk # <<>>, Head(chunk) # "done", NEW kind
  PROVE  Endpoint!Count(chunk, kind) =
           Endpoint!Count(Tail(chunk), kind) + (IF Head(chunk) = kind THEN 1 ELSE 0)
<1> DEFINE rest == Tail(chunk)
           old == Places(chunk, kind)
           new == Places(rest, kind)
           Shift == [i \in new |-> i + 1]
<1>1. /\ Len(chunk) \in Nat \ {0} /\ DOMAIN chunk = 1 .. Len(chunk)
      /\ rest \in Seq(Endpoint!Frames) /\ Len(rest) = Len(chunk) - 1
      /\ DOMAIN rest = 1 .. Len(chunk) - 1
      /\ \A i \in 1 .. Len(chunk) - 1 : rest[i] = chunk[i + 1]
      /\ chunk[1] = Head(chunk)
  BY LenProperties, EmptySeq, HeadTailProperties
<1> HIDE DEF rest
<1>2. \A i \in 1 .. Len(chunk) - 1 : i \in new <=> i + 1 \in old
  <2> SUFFICES ASSUME NEW i \in 1 .. Len(chunk) - 1
               PROVE  i \in new <=> i + 1 \in old
    OBVIOUS
  <2>1. rest[i] = chunk[i + 1] /\ i + 1 \in DOMAIN chunk /\ i \in DOMAIN rest
    BY <1>1
  <2>2. ASSUME \A j \in 1 .. i - 1 : rest[j] # "done"
        PROVE  \A j \in 1 .. i : chunk[j] # "done"
    <3> SUFFICES ASSUME NEW j \in 1 .. i PROVE chunk[j] # "done"
      OBVIOUS
    <3>1. CASE j = 1
      BY <1>1, <3>1
    <3>2. CASE j > 1
      <4>1. j - 1 \in 1 .. i - 1 /\ j - 1 \in 1 .. Len(chunk) - 1 /\ (j - 1) + 1 = j
        BY <1>1, <3>2
      <4> QED BY <1>1, <2>2, <4>1
    <3> QED BY <3>1, <3>2
  <2>3. ASSUME \A j \in 1 .. i : chunk[j] # "done"
        PROVE  \A j \in 1 .. i - 1 : rest[j] # "done"
    BY <1>1, <2>3
  <2>4. (i + 1) - 1 = i
    OBVIOUS
  <2> QED BY <2>1, <2>2, <2>3, <2>4 DEF Places
<1>3. old \subseteq 1 .. Len(chunk) /\ new \subseteq 1 .. Len(chunk) - 1
      /\ IsFiniteSet(old) /\ IsFiniteSet(new)
  BY <1>1, PlacesFinite
<1>4. ExistsBijection(new, old \ {1})
  <2>1. Shift \in [new -> old \ {1}]
    BY <1>2, <1>3
  <2>2. \A a, b \in new : Shift[a] = Shift[b] => a = b
    BY <1>3
  <2>3. \A t \in old \ {1} : \E i \in new : Shift[i] = t
    <3> SUFFICES ASSUME NEW t \in old \ {1} PROVE \E i \in new : Shift[i] = t
      OBVIOUS
    <3>1. t - 1 \in 1 .. Len(chunk) - 1 /\ (t - 1) + 1 = t
      BY <1>1, <1>3
    <3>2. t - 1 \in new
      BY <1>2, <3>1
    <3> QED BY <3>1, <3>2
  <2> HIDE DEF Shift
  <2> QED BY <2>1, <2>2, <2>3, Fun_IsBij, Fun_ExistsBij
<1>5. Cardinality(old \ {1}) = Cardinality(new)
  BY <1>3, <1>4, FS_Bijection
<1>6. 1 \in old <=> Head(chunk) = kind
  BY <1>1 DEF Places
<1>7. Cardinality(old \ {1}) = IF 1 \in old THEN Cardinality(old) - 1 ELSE Cardinality(old)
  BY <1>3, FS_RemoveElement
<1>8. /\ Endpoint!Count(chunk, kind) = Cardinality(old)
      /\ Endpoint!Count(rest, kind) = Cardinality(new)
      /\ Cardinality(old) \in Nat /\ Cardinality(new) \in Nat
  BY <1>1, PlacesFinite
<1> QED BY <1>5, <1>6, <1>7, <1>8 DEF rest

EndpointTyped ==
  /\ pending \in Seq(Endpoint!Frames)
  /\ {written, passed, fragments, said, asked} \subseteq Nat
  /\ socket \in BOOLEAN /\ finish \in BOOLEAN /\ done \in BOOLEAN /\ failure \in BOOLEAN
  /\ cancelled \in BOOLEAN /\ dropped \in BOOLEAN /\ ended \in BOOLEAN /\ blame \in BOOLEAN

\* While the receiver takes all it gets, what it has and what is left of the
\* chunk are what the endpoint sent.
TakenSoFar ==
  ~failure /\ ~cancelled =>
    /\ written + Endpoint!Count(pending, "delta") = said
    /\ passed = written
    /\ fragments + Endpoint!Count(pending, "call") = asked
    /\ done \/ finish \/ Endpoint!Count(pending, "done") + Endpoint!Count(pending, "finish") > 0
         => ended
ChunkIsRead == done \/ where # "reading" => pending = <<>>

\* The result is that of a request that returned.
ResultLast ==
  /\ where # "idle" => outcome = "none"
  /\ AnswerIsWhole

\* A connection is lost for one of the reasons a request knows.
KeptSoFar ==
  /\ dropped => blame
  /\ where \in {"reading", "over"} /\ ~blame /\ ~failure /\ ~cancelled => socket
  /\ ConnectionKept

EndpointInv == EndpointTyped /\ TakenSoFar /\ ChunkIsRead /\ ResultLast /\ KeptSoFar

LEMMA EndpointStarts == Endpoint!Init => EndpointInv
<1> SUFFICES ASSUME Endpoint!Init PROVE EndpointInv
  OBVIOUS
<1>1. /\ pending = <<>> /\ where = "idle" /\ outcome = "none"
      /\ written = 0 /\ passed = 0 /\ fragments = 0 /\ said = 0 /\ asked = 0 /\ tool_calls = 0
  BY DEF Endpoint!Init
<1>2. /\ ~finish /\ ~done /\ ~dropped
      /\ socket \in BOOLEAN /\ finish \in BOOLEAN /\ done \in BOOLEAN /\ failure \in BOOLEAN
      /\ cancelled \in BOOLEAN /\ dropped \in BOOLEAN /\ ended \in BOOLEAN /\ blame \in BOOLEAN
  BY DEF Endpoint!Init
<1>3. pending \in Seq(Endpoint!Frames)
  BY <1>1
<1>4. EndpointTyped
  BY <1>1, <1>2, <1>3 DEF EndpointTyped
<1>5. \A kind : Endpoint!Count(pending, kind) = 0
  BY <1>1, CountOfNone
<1>6. TakenSoFar
  <2>1. Endpoint!Count(pending, "delta") = 0 /\ Endpoint!Count(pending, "call") = 0
        /\ Endpoint!Count(pending, "done") = 0 /\ Endpoint!Count(pending, "finish") = 0
    BY <1>5
  <2> QED BY <1>1, <1>2, <2>1 DEF TakenSoFar
<1>7. ChunkIsRead /\ ResultLast /\ KeptSoFar
  BY <1>1, <1>2 DEF ChunkIsRead, ResultLast, KeptSoFar, AnswerIsWhole, ConnectionKept,
                    Endpoint!AnswerIsWhole, Endpoint!ConnectionKept
<1> QED BY <1>4, <1>6, <1>7 DEF EndpointInv

\* A request begins blank.
LEMMA Posts == EndpointInv /\ Endpoint!Post => EndpointInv'
<1> SUFFICES ASSUME EndpointInv, Endpoint!Post PROVE EndpointInv'
  OBVIOUS
<1>1. /\ pending' = <<>> /\ outcome' = "none" /\ UNCHANGED socket
      /\ written' = 0 /\ passed' = 0 /\ fragments' = 0 /\ said' = 0 /\ asked' = 0
      /\ tool_calls' = 0 /\ where' \in {"reading", "connecting"}
      /\ where' = "reading" => socket
  BY DEF Endpoint!Post, Endpoint!Blank
<1>2. ~finish' /\ ~done' /\ ~dropped'
  BY DEF Endpoint!Post, Endpoint!Blank
<1>3. /\ finish' \in BOOLEAN /\ done' \in BOOLEAN /\ failure' \in BOOLEAN
      /\ cancelled' \in BOOLEAN /\ dropped' \in BOOLEAN /\ ended' \in BOOLEAN
      /\ blame' \in BOOLEAN
  BY DEF Endpoint!Post, Endpoint!Blank
<1>4. pending' \in Seq(Endpoint!Frames) /\ socket' \in BOOLEAN
  BY <1>1 DEF EndpointInv, EndpointTyped
<1>5. EndpointTyped'
  BY <1>1, <1>3, <1>4 DEF EndpointTyped
<1>6. TakenSoFar'
  <2>1. Endpoint!Count(pending', "delta") = 0 /\ Endpoint!Count(pending', "call") = 0
        /\ Endpoint!Count(pending', "done") = 0 /\ Endpoint!Count(pending', "finish") = 0
    BY <1>1, CountOfNone
  <2> QED BY <1>1, <1>2, <2>1 DEF TakenSoFar
<1>7. ChunkIsRead' /\ ResultLast' /\ KeptSoFar'
  BY <1>1, <1>2 DEF ChunkIsRead, ResultLast, KeptSoFar, AnswerIsWhole, ConnectionKept,
                    Endpoint!AnswerIsWhole, Endpoint!ConnectionKept
<1> QED BY <1>5, <1>6, <1>7 DEF EndpointInv

\* What leaves the answer alone: the connection made, lost, closed or kept.
LEMMA ConnectionMoves ==
  /\ EndpointInv
  /\ \/ Endpoint!Connected \/ Endpoint!ConnectFails \/ Endpoint!Trailer \/ Endpoint!EndOfBody
     \/ Endpoint!Status \/ Endpoint!Broken \/ Endpoint!Dropped \/ Endpoint!Cancel
     \/ Endpoint!Watch \/ Endpoint!Closed
  => EndpointInv'
<1> SUFFICES ASSUME EndpointInv,
                    \/ Endpoint!Connected \/ Endpoint!ConnectFails \/ Endpoint!Trailer
                    \/ Endpoint!EndOfBody \/ Endpoint!Status \/ Endpoint!Broken
                    \/ Endpoint!Dropped \/ Endpoint!Cancel \/ Endpoint!Watch \/ Endpoint!Closed
             PROVE  EndpointInv'
  OBVIOUS
<1>1. UNCHANGED <<pending, written, passed, fragments, finish, done, failure, cancelled,
                  tool_calls, outcome, said, asked, ended>>
  BY DEF Endpoint!Connected, Endpoint!ConnectFails, Endpoint!Trailer, Endpoint!EndOfBody,
         Endpoint!Status, Endpoint!Broken, Endpoint!Dropped, Endpoint!Cancel, Endpoint!Watch,
         Endpoint!Closed, Endpoint!answer, Endpoint!truth
<1>2. /\ socket' \in BOOLEAN /\ dropped' \in BOOLEAN /\ blame' \in BOOLEAN
      /\ blame => blame'
      /\ dropped' => dropped \/ blame'
      /\ where = "idle" => where' = "idle"
      /\ socket /\ ~blame' => socket'
      /\ where # "idle" => where' # "idle"
      /\ where' \in {"reading", "over"} /\ ~blame' => socket' \/ where \in {"reading", "over"}
      /\ where' # "reading" => where # "reading" \/ pending = <<>>
  <2>1. /\ socket \in BOOLEAN /\ dropped \in BOOLEAN /\ blame \in BOOLEAN
        /\ dropped => blame
        /\ where \in {"reading", "over"} /\ ~blame /\ ~failure /\ ~cancelled => socket
    BY DEF EndpointInv, EndpointTyped, KeptSoFar
  <2>2. CASE Endpoint!Connected
    BY <2>1, <2>2 DEF Endpoint!Connected
  <2>3. CASE Endpoint!ConnectFails
    BY <2>1, <2>3 DEF Endpoint!ConnectFails, Endpoint!Over
  <2>4. CASE Endpoint!Trailer
    BY <2>1, <2>4 DEF Endpoint!Trailer
  <2>5. CASE Endpoint!EndOfBody \/ Endpoint!Status
    BY <2>1, <2>5 DEF Endpoint!EndOfBody, Endpoint!Status, Endpoint!Over, Endpoint!Reading
  <2>6. CASE Endpoint!Broken
    BY <2>1, <2>6 DEF Endpoint!Broken, Endpoint!Over, Endpoint!Reading
  <2>7. CASE Endpoint!Dropped
    BY <2>1, <2>7 DEF Endpoint!Dropped
  <2>8. CASE Endpoint!Cancel
    BY <2>1, <2>8 DEF Endpoint!Cancel
  <2>9. CASE Endpoint!Watch
    BY <2>1, <2>9 DEF Endpoint!Watch, Endpoint!Watching
  <2>10. CASE Endpoint!Closed
    BY <2>1, <2>10 DEF Endpoint!Closed, Endpoint!Over, Endpoint!Reading
  <2> QED BY <2>2, <2>3, <2>4, <2>5, <2>6, <2>7, <2>8, <2>9, <2>10
<1>3. EndpointTyped'
  BY <1>1, <1>2 DEF EndpointInv, EndpointTyped
<1>4. TakenSoFar' /\ ChunkIsRead'
  BY <1>1, <1>2 DEF EndpointInv, TakenSoFar, ChunkIsRead
<1>5. ResultLast'
  BY <1>1, <1>2 DEF EndpointInv, ResultLast, AnswerIsWhole, Endpoint!AnswerIsWhole
<1>6. KeptSoFar'
  BY <1>1, <1>2 DEF EndpointInv, KeptSoFar, ConnectionKept, Endpoint!ConnectionKept
<1> QED BY <1>3, <1>4, <1>5, <1>6 DEF EndpointInv

LEMMA ChunkArrives == EndpointInv /\ Endpoint!Chunk => EndpointInv'
<1> SUFFICES ASSUME EndpointInv, Endpoint!Chunk PROVE EndpointInv'
  OBVIOUS
<1>0. PICK n \in 1 .. MaxChunk : \E chunk \in [1 .. n -> Endpoint!Frames] :
        /\ said' = said + Endpoint!Count(chunk, "delta")
        /\ asked' = asked + Endpoint!Count(chunk, "call")
        /\ ended' = (ended \/ Endpoint!Count(chunk, "done") + Endpoint!Count(chunk, "finish") > 0)
        /\ blame' = (blame \/ dropped \/ Endpoint!Count(chunk, "error") > 0)
        /\ IF dropped
           THEN /\ cancelled' = TRUE /\ Endpoint!Over("cut") /\ UNCHANGED pending
           ELSE /\ pending' = chunk /\ UNCHANGED <<where, over, socket, cancelled>>
  BY DEF Endpoint!Chunk
<1>1. PICK chunk \in [1 .. n -> Endpoint!Frames] :
        /\ said' = said + Endpoint!Count(chunk, "delta")
        /\ asked' = asked + Endpoint!Count(chunk, "call")
        /\ ended' = (ended \/ Endpoint!Count(chunk, "done") + Endpoint!Count(chunk, "finish") > 0)
        /\ blame' = (blame \/ dropped \/ Endpoint!Count(chunk, "error") > 0)
        /\ IF dropped
           THEN /\ cancelled' = TRUE /\ Endpoint!Over("cut") /\ UNCHANGED pending
           ELSE /\ pending' = chunk /\ UNCHANGED <<where, over, socket, cancelled>>
  BY <1>0
<1>2. /\ where = "reading" /\ pending = <<>> /\ socket /\ ~done
      /\ UNCHANGED <<written, passed, fragments, finish, done, failure, dropped, tool_calls,
                     outcome>>
  BY DEF Endpoint!Chunk, Endpoint!Reading
<1>3. chunk \in Seq(Endpoint!Frames)
  OBVIOUS
<1>4. /\ Endpoint!Count(chunk, "delta") \in Nat /\ Endpoint!Count(chunk, "call") \in Nat
      /\ Endpoint!Count(chunk, "done") \in Nat /\ Endpoint!Count(chunk, "finish") \in Nat
  BY <1>3, PlacesFinite
<1>5. /\ Endpoint!Count(pending, "delta") = 0 /\ Endpoint!Count(pending, "call") = 0
      /\ Endpoint!Count(pending, "done") = 0 /\ Endpoint!Count(pending, "finish") = 0
  BY <1>2, CountOfNone
<1>6. /\ said' \in Nat /\ asked' \in Nat /\ ended' \in BOOLEAN /\ blame' \in BOOLEAN
      /\ blame => blame'
      /\ dropped => blame'
  BY <1>1, <1>4, SMTT(30) DEF EndpointInv, EndpointTyped
<1>7. CASE dropped
  <2>1. cancelled' /\ cancelled' \in BOOLEAN /\ pending' = pending /\ where' = "over"
    BY <1>1, <1>7 DEF Endpoint!Over
  <2>2. socket' \in BOOLEAN
    BY <1>1, <1>7 DEF Endpoint!Over
  <2>3. EndpointTyped'
    BY <1>2, <1>6, <2>1, <2>2 DEF EndpointInv, EndpointTyped
  <2>4. TakenSoFar' /\ ChunkIsRead'
    BY <1>2, <2>1 DEF EndpointInv, TakenSoFar, ChunkIsRead
  <2>5. ResultLast' /\ KeptSoFar'
    BY <1>2, <1>6, <1>7, <2>1 DEF EndpointInv, ResultLast, KeptSoFar, AnswerIsWhole, ConnectionKept,
                      Endpoint!AnswerIsWhole, Endpoint!ConnectionKept
  <2> QED BY <2>3, <2>4, <2>5 DEF EndpointInv
<1>8. CASE ~dropped
  <2>1. pending' = chunk /\ UNCHANGED <<where, socket, cancelled>>
    BY <1>1, <1>8
  <2>2. EndpointTyped'
    BY <1>2, <1>3, <1>6, <2>1 DEF EndpointInv, EndpointTyped
  <2>3. TakenSoFar'
    <3> SUFFICES ASSUME ~failure, ~cancelled PROVE TakenSoFar'
      BY <1>2, <2>1 DEF TakenSoFar
    <3>1. /\ written = said /\ passed = written /\ fragments = asked
          /\ finish => ended
      BY <1>5 DEF EndpointInv, TakenSoFar, EndpointTyped
    <3>2. finish \/ Endpoint!Count(chunk, "done") + Endpoint!Count(chunk, "finish") > 0 => ended'
      BY <1>1, <3>1 DEF EndpointInv, EndpointTyped
    <3> QED BY <1>1, <1>2, <2>1, <3>1, <3>2 DEF TakenSoFar
  <2>4. ChunkIsRead' /\ ResultLast' /\ KeptSoFar'
    BY <1>2, <1>6, <2>1 DEF EndpointInv, ChunkIsRead, ResultLast, KeptSoFar, AnswerIsWhole,
          ConnectionKept, Endpoint!AnswerIsWhole, Endpoint!ConnectionKept
  <2> QED BY <2>2, <2>3, <2>4 DEF EndpointInv
<1> QED BY <1>7, <1>8

LEMMA RequestReturns == EndpointInv /\ Endpoint!Return => EndpointInv'
<1> SUFFICES ASSUME EndpointInv, Endpoint!Return PROVE EndpointInv'
  OBVIOUS
<1>1. /\ where = "over" /\ where' = "idle"
      /\ UNCHANGED <<socket, pending, written, passed, fragments, finish, done, failure,
                     cancelled, dropped, said, asked, ended, blame>>
      /\ \/ outcome' = "answered" /\ tool_calls' = fragments /\ Endpoint!Answered
         \/ outcome' = "failed" /\ tool_calls' = tool_calls
  BY DEF Endpoint!Return, Endpoint!answer, Endpoint!truth
<1>2. tool_calls = 0
  BY <1>1 DEF EndpointInv, ResultLast, AnswerIsWhole, Endpoint!AnswerIsWhole
<1>3. EndpointTyped' /\ TakenSoFar' /\ ChunkIsRead'
  BY <1>1 DEF EndpointInv, EndpointTyped, TakenSoFar, ChunkIsRead
<1>4. ASSUME Endpoint!Answered
      PROVE  /\ ended /\ written = said /\ passed = said /\ fragments = asked
             /\ ~blame => socket
  <2>1. ~failure /\ ~cancelled /\ (done \/ finish)
    BY <1>4 DEF Endpoint!Answered, Endpoint!Whole
  <2>2. pending = <<>>
    BY <1>1 DEF EndpointInv, ChunkIsRead
  <2>3. /\ Endpoint!Count(pending, "delta") = 0 /\ Endpoint!Count(pending, "call") = 0
    BY <2>2, CountOfNone
  <2> QED BY <1>1, <2>1, <2>3 DEF EndpointInv, EndpointTyped, TakenSoFar, KeptSoFar
<1>5. ResultLast' /\ KeptSoFar'
  BY <1>1, <1>2, <1>4 DEF EndpointInv, ResultLast, KeptSoFar, AnswerIsWhole, ConnectionKept,
                          Endpoint!AnswerIsWhole, Endpoint!ConnectionKept
<1> QED BY <1>3, <1>5 DEF EndpointInv

\* The receiver takes one frame of the chunk.
LEMMA FrameTaken == EndpointInv /\ Endpoint!Frame => EndpointInv'
<1> SUFFICES ASSUME EndpointInv, Endpoint!Frame PROVE EndpointInv'
  OBVIOUS
<1> DEFINE frame == Head(pending)
           Left(kind) == Endpoint!Count(pending, kind)
           Rest(kind) == Endpoint!Count(Tail(pending), kind)
           Abort == pending' = <<>> /\ Endpoint!Over("cut") /\ UNCHANGED done
           Go == pending' = Tail(pending) /\ UNCHANGED <<where, over, socket, done>>
<1>1. /\ where = "reading" /\ pending # <<>> /\ pending \in Seq(Endpoint!Frames)
      /\ UNCHANGED <<dropped, tool_calls, outcome, said, asked, ended, blame>>
  BY DEF Endpoint!Frame, Endpoint!truth, EndpointInv, EndpointTyped
<1>2. /\ Tail(pending) \in Seq(Endpoint!Frames) /\ frame \in Endpoint!Frames
      /\ <<>> \in Seq(Endpoint!Frames)
  BY <1>1, HeadTailProperties
<1>3. ~done /\ outcome = "none" /\ {written, passed, fragments, said, asked} \subseteq Nat
  BY <1>1 DEF EndpointInv, ChunkIsRead, ResultLast, EndpointTyped
<1>4. \A kind : Left(kind) \in Nat /\ Rest(kind) \in Nat
  BY <1>1, <1>2, PlacesFinite
<1>5. \A kind : frame # "done" => Left(kind) = Rest(kind) + (IF frame = kind THEN 1 ELSE 0)
  BY <1>1, CountOfTail
<1>6. \A kind : frame = "done" /\ kind # "done" => Left(kind) = 0
  BY <1>1, CountAtEnd
<1>7. frame = "done" => Left("done") > 0
  <2> SUFFICES ASSUME frame = "done" PROVE Left("done") > 0
    OBVIOUS
  <2>1. 1 \in Places(pending, "done")
    BY <1>1, LenProperties, EmptySeq DEF Places
  <2>2. Left("done") # 0
    BY <1>1, <2>1, PlacesFinite, FS_EmptySet
  <2> QED BY <1>4, <2>2
<1>8. \A kind : Endpoint!Count(<<>>, kind) = 0
  BY CountOfNone
\* What the receiver does not take it gives the reason of.
<1>9. ASSUME socket' \in BOOLEAN, finish' \in BOOLEAN, done' \in BOOLEAN, failure' \in BOOLEAN,
             cancelled' \in BOOLEAN, pending' \in Seq(Endpoint!Frames),
             {written', passed', fragments'} \subseteq Nat,
             TakenSoFar', done' \/ where' # "reading" => pending' = <<>>, where' # "idle",
             ~failure' /\ ~cancelled' => UNCHANGED <<failure, cancelled, socket>>
      PROVE  EndpointInv'
  <2>1. EndpointTyped'
    BY <1>1, <1>9 DEF EndpointInv, EndpointTyped
  <2>2. ChunkIsRead'
    BY <1>9 DEF ChunkIsRead
  <2>3. ResultLast'
    BY <1>1, <1>3, <1>9 DEF EndpointInv, ResultLast, AnswerIsWhole, Endpoint!AnswerIsWhole
  <2>4. KeptSoFar'
    BY <1>1, <1>3, <1>9 DEF EndpointInv, KeptSoFar, ConnectionKept, Endpoint!ConnectionKept
  <2> QED BY <1>9, <2>1, <2>2, <2>3, <2>4 DEF EndpointInv
<1>10. /\ socket \in BOOLEAN /\ finish \in BOOLEAN /\ failure \in BOOLEAN /\ cancelled \in BOOLEAN
       /\ ended \in BOOLEAN
  BY DEF EndpointInv, EndpointTyped
<1>11. ~failure /\ ~cancelled =>
         /\ written + Left("delta") = said /\ passed = written /\ fragments + Left("call") = asked
         /\ finish \/ Left("done") + Left("finish") > 0 => ended
  BY DEF EndpointInv, TakenSoFar
<1> HIDE DEF frame, Left, Rest, Abort, Go
<1>12. CASE frame = "done" /\ Endpoint!StopAtDone
            /\ UNCHANGED <<written, passed, fragments, finish, failure, cancelled>>
  <2>1. done' /\ done' \in BOOLEAN /\ pending' = <<>> /\ UNCHANGED <<where, over, socket>>
    BY <1>12 DEF Endpoint!StopAtDone
  <2>2. TakenSoFar'
    <3> SUFFICES ASSUME ~failure, ~cancelled PROVE TakenSoFar'
      BY <1>12 DEF TakenSoFar
    <3>1. Left("delta") = 0 /\ Left("call") = 0 /\ ended
      BY <1>4, <1>6, <1>7, <1>11, <1>12
    <3>2. written = said /\ passed = written /\ fragments = asked
      BY <1>3, <1>11, <3>1
    <3> QED BY <1>1, <1>3, <1>8, <1>12, <2>1, <3>1, <3>2 DEF TakenSoFar
  <2> QED BY <1>1, <1>2, <1>3, <1>9, <1>10, <1>12, <2>1, <2>2
<1>13. ASSUME Abort, failure' \/ cancelled', failure' \in BOOLEAN, cancelled' \in BOOLEAN,
              finish' = finish, {written', passed', fragments'} \subseteq Nat
       PROVE  EndpointInv'
  <2>1. pending' = <<>> /\ socket' \in BOOLEAN /\ where' = "over" /\ done' = done /\ ~done
    BY <1>3, <1>10, <1>13 DEF Abort, Endpoint!Over
  <2>2. TakenSoFar'
    BY <1>13 DEF TakenSoFar
  <2>3. done' \in BOOLEAN
    BY <2>1 DEF EndpointInv, EndpointTyped
  <2> QED BY <1>2, <1>9, <1>10, <1>13, <2>1, <2>2, <2>3
<1>14. ASSUME Go, UNCHANGED <<failure, cancelled>>, frame # "done",
              passed' = passed + (IF frame = "delta" THEN 1 ELSE 0),
              written' = written + (IF frame = "delta" THEN 1 ELSE 0),
              fragments' = fragments + (IF frame = "call" THEN 1 ELSE 0),
              finish' \in BOOLEAN, finish' => finish \/ frame = "finish"
       PROVE  EndpointInv'
  <2>1. pending' = Tail(pending) /\ UNCHANGED <<where, socket, done>> /\ done' = done /\ ~done
    BY <1>3, <1>14 DEF Go
  <2>2. TakenSoFar'
    <3> SUFFICES ASSUME ~failure, ~cancelled PROVE TakenSoFar'
      BY <1>14 DEF TakenSoFar
    <3>1. /\ Left("delta") = Rest("delta") + (IF frame = "delta" THEN 1 ELSE 0)
          /\ Left("call") = Rest("call") + (IF frame = "call" THEN 1 ELSE 0)
          /\ Left("finish") = Rest("finish") + (IF frame = "finish" THEN 1 ELSE 0)
          /\ Left("done") = Rest("done") + 0
      BY <1>5, <1>14
    <3>2. /\ Rest("delta") \in Nat /\ Rest("call") \in Nat /\ Rest("finish") \in Nat
          /\ Rest("done") \in Nat
      BY <1>4
    <3>3. written' + Rest("delta") = said
      BY <1>3, <1>11, <1>14, <3>1, <3>2
    <3>4. fragments' + Rest("call") = asked
      BY <1>3, <1>11, <1>14, <3>1, <3>2
    <3>5. passed' = written'
      BY <1>3, <1>11, <1>14
    <3>6. finish' \/ Rest("done") + Rest("finish") > 0 => ended
      BY <1>11, <1>14, <3>1, <3>2
    <3> QED BY <1>1, <2>1, <3>3, <3>4, <3>5, <3>6 DEF TakenSoFar, Rest
  <2>3. done' \in BOOLEAN /\ {written', passed', fragments'} \subseteq Nat
    BY <1>3, <1>14, <2>1 DEF EndpointInv, EndpointTyped
  <2> QED BY <1>1, <1>2, <1>9, <1>10, <1>14, <2>1, <2>2, <2>3
<1>15. CASE frame = "error" /\ failure' = TRUE /\ Abort
            /\ UNCHANGED <<written, passed, fragments, finish, cancelled>>
  <2>1. failure' /\ failure' \in BOOLEAN
    BY <1>15
  <2> QED BY <1>3, <1>10, <1>13, <1>15, <2>1
<1>16. CASE frame = "finish" /\ finish' = TRUE /\ Go
            /\ UNCHANGED <<written, passed, fragments, failure, cancelled>>
  <2>1. finish' \in BOOLEAN
    BY <1>16
  <2> QED BY <1>3, <1>14, <1>16, <2>1
<1>17. CASE frame = "call" /\ fragments' = fragments + 1 /\ Go
            /\ UNCHANGED <<written, passed, finish, failure, cancelled>>
  BY <1>3, <1>10, <1>14, <1>17
<1>18. CASE frame = "nothing" /\ Go
            /\ UNCHANGED <<written, passed, fragments, finish, failure, cancelled>>
  BY <1>3, <1>10, <1>14, <1>18
<1>19. CASE frame = "delta" /\ written' = written + 1 /\ passed' = passed + 1
            /\ (IF dropped THEN cancelled' = TRUE /\ Abort ELSE Go /\ UNCHANGED cancelled)
            /\ UNCHANGED <<fragments, finish, failure>>
  <2>1. CASE dropped
    <3>1. cancelled' /\ cancelled' \in BOOLEAN /\ Abort
      BY <1>19, <2>1
    <3> QED BY <1>3, <1>10, <1>13, <1>19, <3>1
  <2>2. CASE ~dropped
    BY <1>3, <1>10, <1>14, <1>19, <2>2
  <2> QED BY <2>1, <2>2
<1> QED
  BY <1>12, <1>15, <1>16, <1>17, <1>18, <1>19 DEF Endpoint!Frame, frame, Abort, Go

LEMMA EndpointStep == EndpointInv /\ [Endpoint!Next]_(Endpoint!vars) => EndpointInv'
<1> SUFFICES ASSUME EndpointInv, [Endpoint!Next]_(Endpoint!vars) PROVE EndpointInv'
  OBVIOUS
<1>1. CASE UNCHANGED Endpoint!vars
  BY <1>1 DEF Endpoint!vars, Endpoint!answer, Endpoint!truth, EndpointInv, EndpointTyped,
     TakenSoFar, ChunkIsRead, ResultLast, KeptSoFar, AnswerIsWhole, ConnectionKept,
     Endpoint!AnswerIsWhole, Endpoint!ConnectionKept
<1> QED
  BY <1>1, Posts, ConnectionMoves, ChunkArrives, FrameTaken, RequestReturns DEF Endpoint!Next

LEMMA EndpointHolds == MCSpec => []EndpointInv
<1>1. Endpoint!Spec => []EndpointInv
  BY EndpointStarts, EndpointStep, PTL DEF Endpoint!Spec
<1> QED BY <1>1, PartsAlone, PTL

\* An answer the client hands out is all the endpoint sent before its end,
\* text and calls, in chunks of any size and number, and a request that was
\* cut, refused or cancelled hands out no call.
THEOREM AnswersAreWhole == MCSpec => []AnswerIsWhole
<1>1. EndpointInv => AnswerIsWhole
  BY DEF EndpointInv, ResultLast
<1> QED BY <1>1, EndpointHolds, PTL

\* A request nobody broke leaves its connection open for the next one.
THEOREM ConnectionStays == MCSpec => []ConnectionKept
<1>1. EndpointInv => ConnectionKept
  BY DEF EndpointInv, KeptSoFar
<1> QED BY <1>1, EndpointHolds, PTL
=============================================================================
