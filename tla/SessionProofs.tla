--------------------------- MODULE SessionProofs ---------------------------
(***************************************************************************)
(* Proofs about the turn state machine, for every set of thresholds and    *)
(* every bound: its types, the invariant that ties the grace to the        *)
(* committed turn, that no turn is abandoned, and that the session         *)
(* implements the life of a turn (TurnLife); and about its audio: a turn   *)
(* is one piece of the stream, what it hands over only grows and holds all *)
(* its speech, and the wait before an answer is the one the thresholds     *)
(* name.                                                                   *)
(***************************************************************************)
EXTENDS SessionAudio, SequenceTheorems, FiniteSetTheorems, TLAPS

(* The thresholds under which a speaker who goes on is always recognised   *)
(* as such: a continuation takes no more speech than an opening or a       *)
(* barge-in, as in the defaults of s2s_session_params.                     *)
ReopenFirst == \A p \in Params : p.reopen <= p.open /\ p.reopen <= p.barge

----------------------------------------------------------------------------
(* The thresholds in force are naturals, the delay within the wait.        *)
LEMMA ThresholdTypes ==
  ASSUME NEW p \in Params
  PROVE  /\ p.open \in Nat /\ p.barge \in Nat /\ p.reopen \in Nat
         /\ p.close \in Nat /\ p.delay \in Nat /\ p.wait \in Nat
         /\ p.grace \in Nat
         /\ p.open > 0 /\ p.barge > 0 /\ p.reopen > 0 /\ p.close > 0 /\ p.delay > 0
         /\ p.wait - p.delay \in Nat
<1>1. p \in [open : PosNat, barge : PosNat, reopen : PosNat, close : PosNat,
             delay : PosNat, wait : PosNat, grace : Nat, pad : PosNat]
  BY ParamsAssumption
<1>2. p.delay <= p.wait
  BY ParamsAssumption
<1> QED
  BY <1>1, <1>2 DEF PosNat

(* The bounds are naturals.                                                *)
LEMMA Bounds == RunCap \in Nat /\ MaxTurns \in Nat /\ MaxRevisions \in Nat
  BY BoundsAssumption

(* The counters of a window stay in range.                                 *)
LEMMA WindowTypes ==
  ASSUME TypeOK, NEW prob \in Probabilities
  PROVE  /\ IsSpeech(prob) \in BOOLEAN
         /\ SpeechRun(prob) \in 0..RunCap
         /\ SilenceRun(prob) \in 0..RunCap
         /\ GraceLeft \in Nat
         /\ GraceLeft <= grace_left
         /\ StillOpen \in BOOLEAN
  BY Bounds
  DEF TypeOK, IsSpeech, SpeechRun, SilenceRun, Saturate, GraceLeft, StillOpen, FinalNow

(* A commit keeps the types.                                               *)
LEMMA CommitTypes ==
  ASSUME TypeOK, NEW g \in Nat, Commit(g)
  PROVE  /\ committed' \in BOOLEAN /\ released' \in BOOLEAN
         /\ phase' \in Phases
         /\ speech_run' \in 0..RunCap
         /\ pending_run' \in Nat
         /\ grace_left' \in Nat /\ grace_given' \in Nat
         /\ turn_id' \in 0..MaxTurns /\ revision' \in 0..MaxRevisions
<1>1. committed' \in BOOLEAN /\ released' \in BOOLEAN
  BY DEF Commit
<1>2. /\ phase' \in Phases
      /\ speech_run' \in 0..RunCap
      /\ pending_run' \in Nat
      /\ grace_left' \in Nat /\ grace_given' \in Nat
      /\ turn_id' \in 0..MaxTurns /\ revision' \in 0..MaxRevisions
  BY Bounds DEF Commit, TypeOK, Phases
<1> QED
  BY <1>1, <1>2

(* Every window keeps the types.                                           *)
LEMMA WindowTypeOK ==
  ASSUME TypeOK, NEW prob \in Probabilities, NEW complete \in BOOLEAN,
         Window(prob, complete)
  PROVE  TypeOK'
<1>1. params \in Params /\ speaking \in BOOLEAN
  BY DEF TypeOK
<1>2. /\ params' \in Params
      /\ speaking' \in BOOLEAN
      /\ in_speech' \in BOOLEAN
      /\ silence_run' \in 0..RunCap
  BY <1>1, WindowTypes DEF Window, Hear
<1>3. /\ params.grace \in Nat
      /\ params.wait - params.delay \in Nat
  BY <1>1, ThresholdTypes
<1>4. KeepTurn =>
        /\ grace_left' \in Nat /\ grace_given' \in Nat
        /\ committed' \in BOOLEAN /\ released' \in BOOLEAN
        /\ turn_id' \in 0..MaxTurns
  BY WindowTypes DEF TypeOK, KeepTurn
<1>5. /\ committed' \in BOOLEAN /\ released' \in BOOLEAN
      /\ phase' \in Phases
      /\ speech_run' \in 0..RunCap
      /\ pending_run' \in Nat
      /\ grace_left' \in Nat /\ grace_given' \in Nat
      /\ turn_id' \in 0..MaxTurns /\ revision' \in 0..MaxRevisions
  <2>1. CASE Resume(prob)
    <3>1. committed' \in BOOLEAN /\ released' \in BOOLEAN
      BY <2>1 DEF Resume, TypeOK
    <3> QED
      BY <2>1, <3>1, WindowTypes, Bounds DEF Resume, TypeOK, Phases
  <2>2. CASE OpenTurn(prob)
    <3>1. committed' \in BOOLEAN /\ released' \in BOOLEAN
      BY <2>2 DEF OpenTurn, TypeOK
    <3> QED
      BY <2>2, <3>1, WindowTypes, Bounds DEF OpenTurn, TypeOK, Phases
  <2>3. CASE StayIdle(prob)
    BY <1>4, <2>3, WindowTypes DEF StayIdle, TypeOK
  <2>4. CASE StaySpeaking(prob)
    BY <1>4, <2>4, WindowTypes DEF StaySpeaking, TypeOK
  <2>5. CASE Boundary(prob, complete)
    <3>1. CASE complete
      BY <1>3, <2>5, <3>1, CommitTypes DEF Boundary
    <3>2. CASE ~complete
      BY <1>4, <2>5, <3>2, WindowTypes DEF Boundary, TypeOK, Phases
    <3> QED
      BY <3>1, <3>2
  <2>6. CASE Reopen(prob)
    BY <1>4, <2>6, WindowTypes, Bounds DEF Reopen, TypeOK, Phases
  <2>7. CASE Expire(prob)
    BY <1>3, <2>7, CommitTypes DEF Expire
  <2>8. CASE StayPending(prob)
    BY <1>4, <2>8, WindowTypes DEF StayPending, TypeOK, Phases
  <2> QED
    BY <2>1, <2>2, <2>3, <2>4, <2>5, <2>6, <2>7, <2>8 DEF Window
<1> QED
  BY <1>2, <1>5 DEF TypeOK

(* The types hold at the start, and every call keeps them.                 *)
LEMMA InitTypeOK == Init => TypeOK
<1> SUFFICES ASSUME Init PROVE TypeOK
  OBVIOUS
<1>1. /\ in_speech \in BOOLEAN /\ committed \in BOOLEAN
      /\ released \in BOOLEAN /\ speaking \in BOOLEAN
  BY DEF Init
<1> QED
  BY <1>1, Bounds DEF Init, TypeOK, Phases

LEMMA StepTypeOK == ASSUME TypeOK, [Next]_vars PROVE TypeOK'
<1>1. CASE \E prob \in Probabilities, complete \in BOOLEAN : Window(prob, complete)
  BY <1>1, WindowTypeOK
<1>2. CASE \E t \in 0..MaxTurns, r \in 0..MaxRevisions : Release(t, r)
  <2>1. committed' \in BOOLEAN /\ released' \in BOOLEAN
    BY <1>2 DEF TypeOK, Release
  <2> QED
    BY <1>2, <2>1 DEF TypeOK, Release, clock, grace
<1>3. CASE \E s \in BOOLEAN : SetSpeaking(s)
  BY <1>3 DEF TypeOK, SetSpeaking, clock, grace, life
<1>4. CASE \E p \in Params : SetParams(p)
  BY <1>4 DEF TypeOK, SetParams, clock, grace, life
<1>5. CASE UNCHANGED vars
  BY <1>5 DEF TypeOK, vars, clock, grace, life
<1> QED
  BY <1>1, <1>2, <1>3, <1>4, <1>5 DEF Next

(* The session keeps its types, whatever the thresholds and the bounds.    *)
THEOREM SessionTypes == Spec => []TypeOK
<1>1. TypeOK /\ [Next]_vars => TypeOK'
  BY StepTypeOK
<1> QED
  BY <1>1, InitTypeOK, PTL DEF Spec

----------------------------------------------------------------------------
(* The invariant of the grace is inductive with the types.                 *)

(* What the start of a window leaves of the turn, KeepTurn, keeps it, in   *)
(* IDLE and out of it.                                                     *)
LEMMA KeepTurnInv ==
  ASSUME TypeOK, TurnInv, KeepTurn, phase = "IDLE" => phase' = "IDLE"
  PROVE  TurnInv'
<1> USE DEF TypeOK, TurnInv, KeepTurn, StillOpen, FinalNow, GraceLeft
<1>1. CASE FinalNow
  <2>1. ~committed'
    BY <1>1, Zenon
  <2>2. grace_left' = 0 /\ grace_given' \in Nat
    BY <1>1
  <2> QED
    BY <2>1, <2>2 DEF CommittedIsIdle, GraceOfCommitted, NoMissedFinal
<1>2. CASE ~FinalNow
  <2>1. committed' <=> committed
    BY <1>2
  <2>2. CommittedIsIdle'
    BY <2>1 DEF CommittedIsIdle
  <2>3. GraceOfCommitted'
    BY <2>1 DEF GraceOfCommitted
  <2>4. NoMissedFinal'
    BY <1>2, <2>1 DEF NoMissedFinal
  <2> QED
    BY <2>2, <2>3, <2>4
<1> QED
  BY <1>1, <1>2

\* A commit leaves the turn in IDLE, its grace whole and nobody's release on it.
LEMMA CommitInv ==
  ASSUME NEW g \in Nat, Commit(g)
  PROVE  TurnInv'
  BY DEF TurnInv, CommittedIsIdle, GraceOfCommitted, NoMissedFinal, Commit

\* Every outcome of a window keeps the invariant of the turn: one step each,
\* after the switch of s2s_session_window.
LEMMA WindowInv ==
  ASSUME TypeOK, TurnInv, NEW prob \in Probabilities, NEW complete \in BOOLEAN,
         Window(prob, complete)
  PROVE  TurnInv'
<1>1. params.grace \in Nat /\ params.wait - params.delay \in Nat
  BY ThresholdTypes DEF TypeOK
<1>2. CASE Resume(prob)
  BY <1>2 DEF Resume, TypeOK, TurnInv, CommittedIsIdle, GraceOfCommitted, NoMissedFinal
<1>3. CASE OpenTurn(prob)
  BY <1>3 DEF OpenTurn, TypeOK, TurnInv, CommittedIsIdle, GraceOfCommitted, NoMissedFinal
<1>4. CASE StayIdle(prob)
  BY <1>4, KeepTurnInv DEF StayIdle
<1>5. CASE StaySpeaking(prob)
  BY <1>5, KeepTurnInv DEF StaySpeaking
<1>6. CASE Boundary(prob, complete)
  <2>1. CASE complete
    BY <1>1, <1>6, <2>1, CommitInv DEF Boundary
  <2>2. CASE ~complete
    BY <1>6, <2>2, KeepTurnInv DEF Boundary
  <2> QED
    BY <2>1, <2>2
<1>7. CASE Reopen(prob)
  BY <1>7, KeepTurnInv DEF Reopen
<1>8. CASE Expire(prob)
  BY <1>1, <1>8, CommitInv DEF Expire
<1>9. CASE StayPending(prob)
  BY <1>9, KeepTurnInv DEF StayPending
<1> QED
  BY <1>2, <1>3, <1>4, <1>5, <1>6, <1>7, <1>8, <1>9 DEF Window

\* So do the other calls of the interface: a release ends the turn it finds
\* out of grace, a patch and the floor leave the turn alone.
LEMMA OtherCallsInv ==
  ASSUME TypeOK, TurnInv,
         \/ \E t \in 0..MaxTurns, r \in 0..MaxRevisions : Release(t, r)
         \/ \E s \in BOOLEAN : SetSpeaking(s)
         \/ \E p \in Params : SetParams(p)
         \/ UNCHANGED vars
  PROVE  TurnInv'
<1> USE DEF TypeOK, TurnInv, CommittedIsIdle, GraceOfCommitted, NoMissedFinal
<1>1. CASE \E t \in 0..MaxTurns, r \in 0..MaxRevisions : Release(t, r)
  BY <1>1 DEF Release, grace
<1>2. CASE \E s \in BOOLEAN : SetSpeaking(s)
  BY <1>2 DEF SetSpeaking, grace, life
<1>3. CASE \E p \in Params : SetParams(p)
  BY <1>3 DEF SetParams, grace, life
<1>4. CASE UNCHANGED vars
  BY <1>4 DEF vars, grace, life
<1> QED
  BY <1>1, <1>2, <1>3, <1>4

LEMMA InitTurnInv == Init => TurnInv
  BY DEF Init, TurnInv, CommittedIsIdle, GraceOfCommitted, NoMissedFinal

(* The grace belongs to the committed turn, which waits in IDLE, and a     *)
(* released turn whose grace is over is final: try_final misses none.      *)
THEOREM GraceInvariant == Spec => []TurnInv
<1>1. Init => TurnInv
  BY InitTurnInv
<1>2. TypeOK /\ TurnInv /\ [Next]_vars => TurnInv'
  BY WindowInv, OtherCallsInv DEF Next
<1> QED
  BY <1>1, <1>2, SessionTypes, PTL DEF Spec

----------------------------------------------------------------------------
(* A new turn opens over a committed one only when that one becomes final  *)
(* on the same window.                                                     *)
LEMMA OpenTurnStep ==
  ASSUME TypeOK, ReopenFirst, NEW prob \in Probabilities, OpenTurn(prob), committed
  PROVE  FinalNow
<1>1. params.reopen <= params.open /\ params.reopen <= params.barge
  BY DEF TypeOK, ReopenFirst
<1>2. /\ params.open \in Nat /\ params.barge \in Nat /\ params.reopen \in Nat
      /\ SpeechRun(prob) \in Int
  BY ThresholdTypes, WindowTypes, Bounds DEF TypeOK
<1>3. SpeechRun(prob) >= params.reopen
  BY <1>1, <1>2 DEF OpenTurn, OpenAt
<1> QED
  BY <1>3 DEF OpenTurn, StillOpen

\* A sequence of one report.
LEMMA Singleton == ASSUME NEW S, NEW x \in S PROVE <<x>> \in Seq(S)
  OBVIOUS

\* The first report of a call stays first whatever the call reports after it.
LEMMA FirstOfConcat ==
  ASSUME NEW S, NEW x \in S, NEW s \in Seq(S), NEW y \in S
  PROVE  ((<<x>> \o s) \o <<y>>)[1] = x
  OBVIOUS

\* A call that leaves a committed turn for another told its end first: the
\* TURN_FINAL of try_final precedes the TURN_STARTED of the opening.
LEMMA TurnStep ==
  ASSUME TypeOK, ReopenFirst, [Next]_vars
  PROVE  committed /\ turn_id' # turn_id => reports'[1] = Emit("TURN_FINAL")
<1> SUFFICES ASSUME committed, turn_id' # turn_id
             PROVE  reports'[1] = Emit("TURN_FINAL")
  OBVIOUS
<1>1. PICK prob \in Probabilities, complete \in BOOLEAN : Window(prob, complete)
  BY DEF Next, vars, Release, SetSpeaking, SetParams, life
<1>2. OpenTurn(prob)
  BY <1>1 DEF Window, Resume, StayIdle, StaySpeaking, Boundary, Reopen, Expire,
              StayPending, KeepTurn, Commit
<1>3. FinalFirst = <<Emit("TURN_FINAL")>>
  BY <1>2, OpenTurnStep DEF FinalFirst
<1> DEFINE barge == IF speaking THEN <<Emit("BARGE_IN")>> ELSE <<>>
           start == Report("SPEECH_STARTED", turn_id + 1, 0)
           final == Emit("TURN_FINAL")
           told  == {final, Emit("BARGE_IN"), start}
<1>4. reports' = (<<final>> \o barge) \o <<start>>
  BY <1>2, <1>3 DEF OpenTurn
<1>5. barge \in Seq(told)
  <2>1. CASE speaking
    BY <2>1, Singleton
  <2>2. CASE ~speaking
    BY <2>2, EmptySeq
  <2> QED
    BY <2>1, <2>2
<1>6. start \in told /\ final \in told
  OBVIOUS
<1> HIDE DEF barge, start, final, told
<1>7. reports'[1] = final
  BY <1>4, <1>5, <1>6, FirstOfConcat
<1> QED
  BY <1>7 DEF final

(* While a continuation takes no more speech than an opening, a committed  *)
(* turn is resumed or final, never dropped for another turn.               *)
THEOREM CommittedTurnKept == ReopenFirst => (Spec => NoTurnAbandoned)
<1> SUFFICES ASSUME ReopenFirst PROVE Spec => NoTurnAbandoned
  OBVIOUS
<1>1. TypeOK /\ [Next]_vars =>
        [committed /\ turn_id' # turn_id => reports'[1] = Emit("TURN_FINAL")]_vars
  BY TurnStep
<1> QED
  BY <1>1, SessionTypes, PTL DEF Spec, NoTurnAbandoned

----------------------------------------------------------------------------
(* The session implements TurnLife.                                        *)

(* The mapping, by cases on the committed turn.                            *)
LEMMA Mapping ==
  ASSUME TypeOK
  PROVE  /\ committed => /\ LifeStage = "committed"
                         /\ LifeAge = grace_given - grace_left
                         /\ LifeDue = grace_given
                         /\ LifeAsked = released
         /\ ~committed => /\ LifeStage = (IF phase = "IDLE" THEN "closed" ELSE "open")
                          /\ LifeAge = 0 /\ LifeDue = 0 /\ LifeAsked = FALSE
<1>1. committed => LifeAsked = released
  BY Zenon DEF LifeAsked, TypeOK
<1>2. ~committed => LifeAsked = FALSE
  BY DEF LifeAsked
<1> QED
  BY <1>1, <1>2 DEF LifeStage, LifeAge, LifeDue

\* The mapping after a step, the same definitions with every variable primed.
LEMMA MappingPrime ==
  ASSUME TypeOK'
  PROVE  /\ committed' => /\ LifeStage' = "committed"
                          /\ LifeAge' = grace_given' - grace_left'
                          /\ LifeDue' = grace_given'
                          /\ LifeAsked' = released'
         /\ ~committed' => /\ LifeStage' = (IF phase' = "IDLE" THEN "closed" ELSE "open")
                           /\ LifeAge' = 0 /\ LifeDue' = 0 /\ LifeAsked' = FALSE
<1>1. committed' => LifeAsked' = released'
  BY Zenon DEF LifeAsked, TypeOK
<1>2. ~committed' => LifeAsked' = FALSE
  BY DEF LifeAsked
<1> QED
  BY <1>1, <1>2 DEF LifeStage, LifeAge, LifeDue

LifeUnchanged == UNCHANGED <<turn_id, revision, LifeStage, LifeAge, LifeDue, LifeAsked>>

(* A step that leaves the turn alone.                                      *)
LEMMA SameLife ==
  ASSUME UNCHANGED <<phase, grace_left, grace_given, committed, released,
                     turn_id, revision>>
  PROVE  LifeUnchanged
  BY DEF LifeUnchanged, LifeStage, LifeAge, LifeDue, LifeAsked

(* A window that only ages the turn.                                       *)
LEMMA KeepTurnLife ==
  ASSUME TypeOK, TypeOK', TurnInv, KeepTurn, revision' = revision,
         (phase = "IDLE") <=> (phase' = "IDLE")
  PROVE  Life!Next \/ LifeUnchanged
<1>1. CASE FinalNow
  <2>1. ~committed' /\ phase' = "IDLE"
    BY <1>1 DEF KeepTurn, StillOpen, FinalNow, TurnInv, CommittedIsIdle
  <2>2. Life!Stand
    BY <1>1, <2>1, Mapping, MappingPrime
    DEF Life!Stand, Life!Standing, Life!Cleared, FinalNow, KeepTurn, TypeOK
  <2> QED
    BY <2>2 DEF Life!Next
<1>2. CASE ~FinalNow /\ committed
  <2>1. committed' /\ released' = released /\ turn_id' = turn_id
        /\ grace_given' = grace_given /\ grace_left' = GraceLeft
    BY <1>2 DEF KeepTurn, StillOpen
  <2>2. CASE grace_left > 0
    <3>1. Life!Age
      BY <1>2, <2>1, <2>2, Mapping, MappingPrime
      DEF Life!Age, Life!Standing, FinalNow, GraceLeft, TypeOK, TurnInv, GraceOfCommitted
    <3> QED
      BY <3>1 DEF Life!Next
  <2>3. CASE grace_left = 0
    BY <1>2, <2>1, <2>3, Mapping, MappingPrime DEF LifeUnchanged, GraceLeft
  <2> QED
    BY <2>2, <2>3 DEF TypeOK
<1>3. CASE ~committed
  <2>1. ~committed' /\ turn_id' = turn_id
    BY <1>3 DEF KeepTurn, StillOpen
  <2> QED
    BY <1>3, <2>1, Mapping, MappingPrime DEF LifeUnchanged
<1> QED
  BY <1>1, <1>2, <1>3

\* A commit of the session is a commit of TurnLife.
LEMMA CommitLife ==
  ASSUME TypeOK, TypeOK', TurnInv, NEW g \in Nat, Commit(g), phase # "IDLE"
  PROVE  Life!Commit
<1>1. LifeAsked' = FALSE
  BY Zenon DEF Commit, LifeAsked
<1>2. committed' /\ ~committed
  BY DEF Commit, TurnInv, CommittedIsIdle
<1>3. /\ LifeStage = "open" /\ LifeStage' = "committed"
      /\ LifeAge' = 0 /\ LifeDue' = g
      /\ turn_id' = turn_id /\ revision' = revision
  BY <1>2, Mapping, MappingPrime DEF Commit
<1> QED
  BY <1>1, <1>3 DEF Life!Commit

\* Every outcome of a window is a step of TurnLife, or changes nothing it sees.
LEMMA WindowLife ==
  ASSUME ReopenFirst, TypeOK, TypeOK', TurnInv,
         NEW prob \in Probabilities, NEW complete \in BOOLEAN, Window(prob, complete)
  PROVE  Life!Next \/ LifeUnchanged
<1>1. params.grace \in Nat /\ params.wait - params.delay \in Nat
  BY ThresholdTypes DEF TypeOK
<1>2. CASE Resume(prob)
  <2>1. committed /\ ~FinalNow /\ ~committed' /\ phase' # "IDLE"
    BY <1>2 DEF Resume, StillOpen
  <2>2. Life!Resume
    BY <1>2, <2>1, Mapping, MappingPrime
    DEF Resume, FinalNow, TypeOK, Life!Resume, Life!Standing, Life!Cleared
  <2> QED
    BY <2>2 DEF Life!Next
<1>3. CASE OpenTurn(prob)
  <2>1. ~committed' /\ phase = "IDLE" /\ phase' # "IDLE"
    BY <1>3 DEF OpenTurn
  <2>2. committed => Life!Standing
    BY <1>3, OpenTurnStep, Mapping DEF FinalNow, Life!Standing, TypeOK
  <2>3. Life!Open
    BY <1>3, <2>1, <2>2, Mapping, MappingPrime DEF OpenTurn, Life!Open, Life!Cleared
  <2> QED
    BY <2>3 DEF Life!Next
<1>4. CASE StayIdle(prob)
  BY <1>4, KeepTurnLife DEF StayIdle
<1>5. CASE StaySpeaking(prob)
  BY <1>5, KeepTurnLife DEF StaySpeaking
<1>6. CASE Boundary(prob, complete)
  <2>1. CASE complete
    BY <1>1, <1>6, <2>1, CommitLife DEF Boundary, Life!Next
  <2>2. CASE ~complete
    BY <1>6, <2>2, KeepTurnLife DEF Boundary
  <2> QED
    BY <2>1, <2>2
<1>7. CASE Reopen(prob)
  <2>1. ~committed /\ ~committed' /\ turn_id' = turn_id
    BY <1>7 DEF Reopen, KeepTurn, StillOpen, TurnInv, CommittedIsIdle
  <2>2. Life!Revise
    BY <1>7, <2>1, Mapping, MappingPrime DEF Reopen, Life!Revise
  <2> QED
    BY <2>2 DEF Life!Next
<1>8. CASE Expire(prob)
  BY <1>1, <1>8, CommitLife DEF Expire, Life!Next
<1>9. CASE StayPending(prob)
  BY <1>9, KeepTurnLife DEF StayPending
<1> QED
  BY <1>2, <1>3, <1>4, <1>5, <1>6, <1>7, <1>8, <1>9 DEF Window

\* A release is asked of the turn it names, and ends it when the grace is over.
LEMMA ReleaseLife ==
  ASSUME TypeOK, TypeOK', TurnInv, NEW t, NEW r, Release(t, r)
  PROVE  Life!Next \/ LifeUnchanged
<1> USE Mapping, MappingPrime DEF Release, grace
<1>1. CASE ~(committed /\ t = turn_id /\ r = revision)
  BY <1>1, SameLife
<1>2. CASE committed /\ grace_left > 0 /\ released' /\ committed'
  <2>1. Life!Release
    BY <1>2 DEF Life!Release, TypeOK, TurnInv, GraceOfCommitted
  <2> QED
    BY <2>1 DEF Life!Next
<1>3. CASE committed /\ grace_left = 0 /\ ~committed'
  <2>1. Life!Stand
    BY <1>3 DEF Life!Stand, Life!Cleared, TypeOK, TurnInv, CommittedIsIdle
  <2> QED
    BY <2>1 DEF Life!Next
<1> QED
  BY <1>1, <1>2, <1>3

(* While a continuation takes no more speech than an opening, the session  *)
(* implements the life of a turn: final only after its whole grace and its *)
(* release, never back after that, never dropped before.                   *)
THEOREM SessionImplementsLife == ReopenFirst => (Spec => LifeSpec)
<1> SUFFICES ASSUME ReopenFirst PROVE Spec => LifeSpec
  OBVIOUS
<1>1. Init /\ TypeOK => Life!Init
  BY Mapping DEF Init, Life!Init
<1>2. TypeOK /\ TypeOK' /\ TurnInv /\ [Next]_vars => [Life!Next]_(Life!vars)
  <2> SUFFICES ASSUME TypeOK, TypeOK', TurnInv, [Next]_vars
               PROVE  Life!Next \/ LifeUnchanged
    BY DEF LifeUnchanged, Life!vars
  <2>1. CASE \E prob \in Probabilities, complete \in BOOLEAN : Window(prob, complete)
    BY <2>1, WindowLife
  <2>2. CASE \E t \in 0..MaxTurns, r \in 0..MaxRevisions : Release(t, r)
    BY <2>2, ReleaseLife
  <2>3. CASE \E s \in BOOLEAN : SetSpeaking(s)
    BY <2>3, SameLife DEF SetSpeaking, grace, life
  <2>4. CASE \E p \in Params : SetParams(p)
    BY <2>4, SameLife DEF SetParams, grace, life
  <2>5. CASE UNCHANGED vars
    BY <2>5, SameLife DEF vars, grace, life
  <2> QED
    BY <2>1, <2>2, <2>3, <2>4, <2>5 DEF Next
<1> QED
  BY <1>1, <1>2, SessionTypes, GraceInvariant, PTL DEF Spec, LifeSpec, Life!Spec

----------------------------------------------------------------------------
(* The audio.  It follows the turn, so its invariants rest on TypeOK and   *)
(* TurnInv.                                                                *)

\* A stretch of the stream that ends with window n.
Stretch(s, n) == s \in Seq(Int) /\ \A i \in 1..Len(s) : s[i] = n - Len(s) + i

Heard ==
  /\ stream \in Seq(BOOLEAN) /\ Stretch(lookback, Len(stream))
  /\ TurnLives => Stretch(turn_pcm, Len(stream)) /\ speech_end \in 1..Len(turn_pcm)

LEMMA AppendStretch ==
  ASSUME NEW s, NEW n \in Nat, Stretch(s, n)
  PROVE  /\ Stretch(Append(s, n + 1), n + 1) /\ Append(s, n + 1) \in Seq(Int)
         /\ Len(Append(s, n + 1)) = Len(s) + 1 /\ Len(s) \in Nat
         /\ \A i \in 1..Len(s) : Append(s, n + 1)[i] = s[i]
  BY DEF Stretch

\* The ring keeps the end of what it held.
LEMMA LastStretch ==
  ASSUME NEW s, NEW n \in Nat, Stretch(s, n), NEW k \in Nat \ {0}
  PROVE  /\ Stretch(LastOf(s, k), n)
         /\ s # <<>> => Len(LastOf(s, k)) > 0
         /\ Len(LastOf(s, k)) = Smaller(k, Len(s))
<1> DEFINE m == Smaller(k, Len(s))
<1>1. s \in Seq(Int) /\ Len(s) \in Nat /\ m \in 0..Len(s) /\ (Len(s) > 0 => m > 0)
  BY DEF Stretch, Smaller
<1>2. LastOf(s, k) = SubSeq(s, Len(s) - m + 1, Len(s))
  BY DEF LastOf
<1>3. m = Smaller(k, Len(s))
  OBVIOUS
<1> HIDE DEF m
<1>4. /\ LastOf(s, k) \in Seq(Int) /\ Len(LastOf(s, k)) = m
      /\ \A i \in 1..m : LastOf(s, k)[i] = s[Len(s) - m + i]
  BY <1>1, <1>2, SubSeqProperties, SMTT(30)
<1>5. \A i \in 1..m : Len(s) - m + i \in 1..Len(s) /\ s[Len(s) - m + i] = n - m + i
  BY <1>1 DEF Stretch
<1>6. s # <<>> => Len(s) > 0
  BY <1>1
<1> QED
  BY <1>1, <1>3, <1>4, <1>5, <1>6 DEF Stretch

LEMMA Capacity ==
  ASSUME NEW p \in Params
  PROVE  LookbackCapacity(p) \in Nat \ {0}
<1>1. p.open \in Nat /\ p.barge \in Nat /\ p.open > 0 /\ p.pad \in Nat
  BY ThresholdTypes, ParamsAssumption DEF PosNat
<1> QED
  BY <1>1 DEF LookbackCapacity, Larger

\* A turn that lives on after a window lived before it, took the window in
\* and was not emptied by it.
LEMMA LivesOn ==
  ASSUME TypeOK, TurnInv, NEW prob \in Probabilities, NEW complete \in BOOLEAN,
         Window(prob, complete)
  PROVE  \/ turn_id' # turn_id
         \/ ~TurnLives'
         \/ turn_id' = turn_id /\ TurnLives /\ Grows /\ ~FinalNow
<1>1. phase # "IDLE" => ~committed
  BY DEF TurnInv, CommittedIsIdle
<1>2. CASE OpenTurn(prob)
  BY <1>2 DEF OpenTurn, TypeOK
<1>3. CASE Resume(prob)
  BY <1>3 DEF Resume, TurnLives, Grows, StillOpen
<1>4. CASE StayIdle(prob)
  BY <1>4 DEF StayIdle, KeepTurn, TurnLives, Grows, StillOpen
<1>5. CASE phase # "IDLE"
  <2>1. turn_id' = turn_id
    BY <1>5 DEF Window, Resume, OpenTurn, StayIdle, StaySpeaking, Boundary, Reopen, Expire,
                StayPending, KeepTurn, Commit
  <2> QED
    BY <1>1, <1>5, <2>1 DEF TurnLives, Grows, FinalNow
<1> QED
  BY <1>2, <1>3, <1>4, <1>5
  DEF Window, StaySpeaking, Boundary, Reopen, Expire, StayPending

LEMMA WindowHeard ==
  ASSUME TypeOK, TurnInv, Heard, NEW prob \in Probabilities, NEW complete \in BOOLEAN,
         AudioWindow(prob, complete)
  PROVE  Heard'
<1> DEFINE n == Len(stream) + 1
<1>1. /\ Window(prob, complete) /\ TakeWindow(prob)
      /\ stream' = Append(stream, IsSpeech(prob))
  BY DEF AudioWindow
<1>2. /\ Len(stream) \in Nat /\ n \in Nat /\ stream' \in Seq(BOOLEAN) /\ Len(stream') = n
  BY <1>1, WindowTypes DEF Heard
<1>3. LookbackCapacity(params) \in Nat \ {0}
  BY Capacity DEF TypeOK
<1>4. Stretch(lookback', n) /\ Len(lookback') > 0 /\ Len(lookback') \in Nat
  <2>1. /\ Stretch(Append(lookback, n), n) /\ Append(lookback, n) # <<>>
    BY <1>2, AppendStretch DEF Heard, Stretch
  <2>2. lookback' = LastOf(Append(lookback, n), LookbackCapacity(params))
    BY <1>1 DEF TakeWindow
  <2> HIDE DEF n
  <2>3. Stretch(lookback', n) /\ Len(lookback') > 0
    BY <1>2, <1>3, <2>1, <2>2, LastStretch
  <2>4. lookback' \in Seq(Int)
    BY <2>3 DEF Stretch
  <2> QED
    BY <2>3, <2>4
<1>5. TurnLives' => Stretch(turn_pcm', n) /\ speech_end' \in 1..Len(turn_pcm')
  <2>1. CASE turn_id' # turn_id
    <3>1. turn_pcm' = lookback' /\ speech_end' = Len(lookback')
      BY <1>1, <2>1 DEF TakeWindow
    <3> QED
      BY <1>4, <3>1
  <2>2. CASE turn_id' = turn_id /\ TurnLives /\ Grows /\ ~FinalNow
    <3>1. /\ turn_pcm' = Append(turn_pcm, n)
          /\ speech_end' = IF IsSpeech(prob) THEN Len(Append(turn_pcm, n)) ELSE speech_end
      BY <1>1, <2>2 DEF TakeWindow, Kept
    <3>2. Stretch(turn_pcm, Len(stream)) /\ speech_end \in 1..Len(turn_pcm)
      BY <2>2 DEF Heard
    <3>3. Stretch(turn_pcm', n) /\ Len(turn_pcm') = Len(turn_pcm) + 1 /\ Len(turn_pcm) \in Nat
      BY <1>2, <3>1, <3>2, AppendStretch
    <3> QED
      BY <3>1, <3>2, <3>3
  <2> QED
    BY <1>1, <2>1, <2>2, LivesOn
<1> QED
  BY <1>2, <1>4, <1>5 DEF Heard

\* Releases, the floor and the thresholds cut the ring at most.
LEMMA OtherCallsHeard ==
  ASSUME TypeOK, TurnInv, Heard,
         \/ AudioRelease(turn_id, revision)
         \/ \E s \in BOOLEAN : AudioSetSpeaking(s)
         \/ \E p \in Params : AudioSetParams(p)
         \/ UNCHANGED allVars
  PROVE  Heard'
<1>1. CASE AudioRelease(turn_id, revision)
  <2>1. /\ UNCHANGED <<phase, lookback, speech_end, stream>>
        /\ turn_pcm' = IF Reported("TURN_FINAL") THEN <<>> ELSE turn_pcm
        /\ committed' => committed
    BY <1>1 DEF AudioRelease, Release, history
  <2>2. Reported("TURN_FINAL") => ~committed' /\ phase = "IDLE"
    BY <1>1 DEF AudioRelease, Release, Reported, TurnInv, CommittedIsIdle
  <2>3. TurnLives' => TurnLives /\ turn_pcm' = turn_pcm
    BY <2>1, <2>2 DEF TurnLives
  <2> QED
    BY <2>1, <2>3 DEF Heard
<1>2. CASE \E p \in Params : AudioSetParams(p)
  <2>1. PICK p \in Params : AudioSetParams(p)
    BY <1>2
  <2>2. /\ UNCHANGED <<phase, committed, turn_pcm, speech_end, stream>>
        /\ lookback' = LastOf(lookback, LookbackCapacity(p))
    BY <2>1 DEF AudioSetParams, SetParams, life
  <2>3. Stretch(lookback', Len(stream))
    BY <2>2, Capacity, LastStretch DEF Heard
  <2> QED
    BY <2>2, <2>3 DEF Heard, TurnLives
<1>3. CASE (\E s \in BOOLEAN : AudioSetSpeaking(s)) \/ UNCHANGED allVars
  <2>1. UNCHANGED <<phase, committed, lookback, turn_pcm, speech_end, stream>>
    BY <1>3 DEF AudioSetSpeaking, SetSpeaking, life, allVars, vars, audio, history
  <2> QED
    BY <2>1 DEF Heard, TurnLives
<1> QED
  BY <1>1, <1>2, <1>3

\* The state machine does not see its audio.
LEMMA AudioStep ==
  ASSUME TypeOK, [AudioNext]_allVars
  PROVE  [Next]_vars
<1>1. turn_id \in 0..MaxTurns /\ revision \in 0..MaxRevisions
  BY DEF TypeOK
<1> QED
  BY <1>1 DEF AudioNext, AudioWindow, AudioRelease, AudioSetSpeaking, AudioSetParams, Next,
              allVars

LEMMA AudioImplements == AudioSpec => []TypeOK /\ []TurnInv
<1>1. AudioInit => TypeOK /\ TurnInv
  BY InitTypeOK, InitTurnInv DEF AudioInit
<1>2. TypeOK /\ TurnInv /\ [AudioNext]_allVars => (TypeOK /\ TurnInv)'
  BY AudioStep, StepTypeOK, WindowInv, OtherCallsInv DEF Next
<1> QED
  BY <1>1, <1>2, PTL DEF AudioSpec

\* The audio of a turn in flight is the stream itself up to now, without a
\* gap and without a repeat, for any thresholds the page sets and whenever it
\* sets them: the pushes of s2s_session_window, the ring of open_turn and the
\* final that empties the turn.
THEOREM TurnIsTheStream == AudioSpec => []AudioContinuous
<1>1. AudioInit => Heard
  BY DEF AudioInit, Init, Heard, Stretch, TurnLives
<1>2. TypeOK /\ TurnInv /\ Heard /\ [AudioNext]_allVars => Heard'
  BY WindowHeard, OtherCallsHeard DEF AudioNext
<1>3. Heard => AudioContinuous
  <2> SUFFICES ASSUME Heard, TurnLives
               PROVE  /\ turn_pcm # <<>> /\ turn_pcm[Len(turn_pcm)] = Len(stream)
                      /\ \A i \in 1..(Len(turn_pcm) - 1) : turn_pcm[i + 1] = turn_pcm[i] + 1
                      /\ speech_end \in 1..Len(turn_pcm)
    BY DEF AudioContinuous
  <2>1. /\ Stretch(turn_pcm, Len(stream)) /\ speech_end \in 1..Len(turn_pcm)
        /\ Len(stream) \in Nat
    BY DEF Heard
  <2>2. /\ Len(turn_pcm) \in Nat /\ Len(turn_pcm) > 0
        /\ \A i \in 1..Len(turn_pcm) : turn_pcm[i] = Len(stream) - Len(turn_pcm) + i
    BY <2>1 DEF Stretch
  <2>3. turn_pcm[Len(turn_pcm)] = Len(stream)
    BY <2>1, <2>2
  <2>4. \A i \in 1..(Len(turn_pcm) - 1) : turn_pcm[i + 1] = turn_pcm[i] + 1
    BY <2>1, <2>2
  <2> QED
    BY <2>1, <2>2, <2>3, <2>4
<1> QED
  BY <1>1, <1>2, <1>3, AudioImplements, PTL DEF AudioSpec

(* The grace is counted on from the boundary of the speech: while the turn *)
(* is pending the delay runs, and what is left of the wait comes after it. *)
Counted ==
  /\ stream \in Seq(BOOLEAN) /\ boundary \in Nat
  /\ phase = "PENDING_END" /\ ~patched =>
       ~complete_turn /\ Len(stream) - boundary = pending_run /\ pending_run < params.delay
  /\ HeardByWait

\* What a window that reports no boundary leaves.
LEMMA NoBoundary ==
  ASSUME NEW prob, NEW complete, AudioWindow(prob, complete), ~Reported("SPEECH_STOPPED")
  PROVE  UNCHANGED <<boundary, complete_turn, patched>>
  BY DEF AudioWindow

LEMMA WindowCounted ==
  ASSUME TypeOK, TurnInv, Counted, NEW prob \in Probabilities, NEW complete \in BOOLEAN,
         AudioWindow(prob, complete)
  PROVE  Counted'
<1>1. Window(prob, complete) /\ stream' = Append(stream, IsSpeech(prob)) /\ params' = params
  BY DEF AudioWindow, Window, Hear
<1>2. /\ stream' \in Seq(BOOLEAN) /\ Len(stream) \in Nat /\ Len(stream') = Len(stream) + 1
  BY <1>1, WindowTypes DEF Counted
<1>3. boundary' \in Nat
  BY <1>2 DEF AudioWindow, Counted
<1>4. /\ params.grace \in Nat /\ params.delay \in Nat /\ params.wait \in Nat /\ params.delay > 0
      /\ pending_run \in Nat /\ grace_left \in Nat /\ boundary \in Nat
  <2>1. params \in Params /\ pending_run \in Nat /\ grace_left \in Nat
    BY DEF TypeOK
  <2>2. boundary \in Nat
    BY DEF Counted
  <2> QED
    BY <2>1, <2>2, ThresholdTypes
<1>5. ASSUME phase # "IDLE" PROVE FinalFirst = <<>> /\ ~StillOpen
  BY <1>5 DEF FinalFirst, FinalNow, StillOpen, TurnInv, CommittedIsIdle
<1>6. CASE phase' = "USER_SPEAKING" /\ ~committed'
  BY <1>2, <1>3, <1>6 DEF Counted, HeardByWait
<1>7. CASE StayIdle(prob)
  <2>1. /\ phase' = "IDLE" /\ committed' = StillOpen
        /\ grace_left' = GraceLeft /\ reports' = FinalFirst
    BY <1>7 DEF StayIdle, KeepTurn
  <2>2. ASSUME StillOpen PROVE HeardByWait'
    <3>1. reports' = <<>>
      BY <2>1, <2>2 DEF FinalFirst, StillOpen
    <3>2. ~Reported("SPEECH_STOPPED")
      BY <3>1 DEF Reported
    <3>3. UNCHANGED <<boundary, complete_turn, patched>>
      BY <3>2, NoBoundary
    <3>4. grace_left' > 0 => grace_left > 0 /\ grace_left' = grace_left - 1
      BY <1>4, <2>1 DEF GraceLeft
    <3>5. committed
      BY <2>2 DEF StillOpen
    <3> QED
      BY <1>1, <1>2, <1>4, <3>3, <3>4, <3>5 DEF Counted, HeardByWait
  <2>3. HeardByWait'
    BY <2>1, <2>2 DEF HeardByWait
  <2> QED
    BY <1>2, <1>3, <2>1, <2>3 DEF Counted
<1>8. CASE Boundary(prob, complete)
  <2>1. Reported("SPEECH_STOPPED")
    <3>1. \E last : reports' = <<Emit("SPEECH_STOPPED"), last>>
      BY <1>5, <1>8 DEF Boundary
    <3> QED
      BY <3>1 DEF Reported, Emit, Report
  <2>2. boundary' = Len(stream') /\ (complete_turn' <=> complete)
    BY <2>1 DEF AudioWindow
  <2>3. CASE complete
    <3>1. phase' = "IDLE" /\ grace_left' = params.grace
      BY <1>8, <2>3 DEF Boundary, Commit
    <3> QED
      BY <1>1, <1>2, <1>3, <1>4, <2>2, <2>3, <3>1 DEF Counted, HeardByWait
  <2>4. CASE ~complete
    <3>1. phase' = "PENDING_END" /\ pending_run' = 0 /\ ~committed'
      BY <1>5, <1>8, <2>4 DEF Boundary, KeepTurn
    <3> QED
      BY <1>1, <1>2, <1>3, <1>4, <2>2, <2>4, <3>1 DEF Counted, HeardByWait
  <2> QED
    BY <2>3, <2>4
<1>9. CASE Expire(prob)
  <2>1. /\ phase = "PENDING_END" /\ phase' = "IDLE" /\ pending_run + 1 >= params.delay
        /\ grace_left' = params.wait - params.delay /\ reports' = <<Emit("TURN_COMMITTED")>>
    BY <1>5, <1>9 DEF Expire, Commit
  <2>2. ~Reported("SPEECH_STOPPED")
    BY <2>1 DEF Reported, Emit, Report
  <2>3. UNCHANGED <<boundary, complete_turn, patched>>
    BY <2>2, NoBoundary
  <2>4. HeardByWait'
    BY <1>1, <1>2, <1>4, <2>1, <2>3, SMTT(30) DEF Counted, HeardByWait
  <2> QED
    BY <1>2, <1>3, <2>1, <2>4 DEF Counted
<1>10. CASE StayPending(prob)
  <2>1. /\ phase = "PENDING_END" /\ phase' = "PENDING_END" /\ pending_run' = pending_run + 1
        /\ pending_run + 1 < params.delay /\ reports' = <<>> /\ ~committed'
    BY <1>5, <1>10 DEF StayPending, KeepTurn
  <2>2. ~Reported("SPEECH_STOPPED")
    BY <2>1 DEF Reported
  <2>3. UNCHANGED <<boundary, complete_turn, patched>>
    BY <2>2, NoBoundary
  <2> QED
    BY <1>1, <1>2, <1>3, <1>4, <2>1, <2>3 DEF Counted, HeardByWait
<1>11. CASE Resume(prob) \/ OpenTurn(prob) \/ StaySpeaking(prob) \/ Reopen(prob)
  <2>1. phase' = "USER_SPEAKING" /\ ~committed'
    BY <1>5, <1>11 DEF Resume, OpenTurn, StaySpeaking, Reopen, KeepTurn
  <2> QED
    BY <1>6, <2>1
<1> QED
  BY <1>1, <1>7, <1>8, <1>9, <1>10, <1>11 DEF Window

LEMMA OtherCallsCounted ==
  ASSUME TypeOK, TurnInv, Counted,
         \/ AudioRelease(turn_id, revision)
         \/ \E s \in BOOLEAN : AudioSetSpeaking(s)
         \/ \E p \in Params : AudioSetParams(p)
         \/ UNCHANGED allVars
  PROVE  Counted'
<1>1. CASE AudioRelease(turn_id, revision)
  <2>1. UNCHANGED <<params, phase, pending_run, grace_left, stream, boundary,
                    complete_turn, patched>>
    BY <1>1 DEF AudioRelease, Release, clock, grace, history
  <2>2. committed' => committed
    BY <1>1 DEF AudioRelease, Release
  <2> QED
    BY <2>1, <2>2 DEF Counted, HeardByWait
<1>2. CASE \E p \in Params : AudioSetParams(p)
  BY <1>2 DEF AudioSetParams, SetParams, Counted, HeardByWait
<1>3. CASE (\E s \in BOOLEAN : AudioSetSpeaking(s)) \/ UNCHANGED allVars
  <2>1. UNCHANGED <<params, phase, pending_run, grace_left, committed, stream, boundary,
                    complete_turn, patched>>
    BY <1>3 DEF AudioSetSpeaking, SetSpeaking, clock, grace, life, allVars, vars, audio, history
  <2> QED
    BY <2>1 DEF Counted, HeardByWait
<1> QED
  BY <1>1, <1>2, <1>3

\* The silence before an answer is heard is what the thresholds say, counted
\* from the boundary of the speech, however it is split between the delay and
\* the grace: s2s_session_window and s2s_session_commit, for every threshold
\* that is not changed meanwhile.
THEOREM WaitIsWhole == AudioSpec => []HeardByWait
<1>1. AudioInit => Counted
  BY DEF AudioInit, Init, Counted, HeardByWait
<1>2. TypeOK /\ TurnInv /\ Counted /\ [AudioNext]_allVars => Counted'
  BY WindowCounted, OtherCallsCounted DEF AudioNext
<1>3. Counted => HeardByWait
  BY DEF Counted
<1> QED
  BY <1>1, <1>2, <1>3, AudioImplements, PTL DEF AudioSpec

(* What was handed over of a turn stays its beginning, and once the turn   *)
(* goes on there is speech past it.                                        *)
Handed ==
  /\ handed.turn \in Nat /\ handed.turn <= turn_id /\ handed.pcm \in Seq(Int)
  /\ TurnLives /\ handed.turn = turn_id =>
       /\ Len(handed.pcm) <= Len(turn_pcm)
       /\ \A i \in 1..Len(handed.pcm) : turn_pcm[i] = handed.pcm[i]
       /\ phase # "IDLE" => Len(handed.pcm) < speech_end

\* A commit is told by the two outcomes that commit, and by no other.
LEMMA CommitTold ==
  ASSUME TypeOK, TurnInv, NEW prob \in Probabilities, NEW complete \in BOOLEAN,
         Window(prob, complete), Reported("TURN_COMMITTED")
  PROVE  phase # "IDLE" /\ phase' = "IDLE" /\ turn_id' = turn_id /\ committed'
<1> DEFINE Untold == ~Reported("TURN_COMMITTED")
<1>1. FinalFirst = <<>> \/ FinalFirst = <<Emit("TURN_FINAL")>>
  BY DEF FinalFirst
<1>2. phase # "IDLE" => FinalFirst = <<>>
  BY DEF FinalFirst, FinalNow, TurnInv, CommittedIsIdle
<1>3. ASSUME reports' = FinalFirst PROVE Untold
  BY <1>1, <1>3 DEF Reported, Emit, Report
<1>4. ~Resume(prob)
  <2> SUFFICES ASSUME Resume(prob) PROVE Untold
    OBVIOUS
  <2>1. reports' = <<Report("TURN_RESUMED", turn_id, revision + 1)>>
    BY DEF Resume
  <2> QED
    BY <2>1 DEF Reported, Report
<1>5. ~OpenTurn(prob)
  <2> SUFFICES ASSUME OpenTurn(prob) PROVE Untold
    OBVIOUS
  <2> DEFINE final == Emit("TURN_FINAL")
             barge == Emit("BARGE_IN")
             start == Report("SPEECH_STARTED", turn_id + 1, 0)
  <2>1. final.event = "TURN_FINAL" /\ barge.event = "BARGE_IN" /\ start.event = "SPEECH_STARTED"
    BY DEF Emit, Report
  <2>2. reports' = FinalFirst \o (IF speaking THEN <<barge>> ELSE <<>>) \o <<start>>
    BY DEF OpenTurn
  <2>3. FinalFirst = <<>> \/ FinalFirst = <<final>>
    BY <1>1
  <2> HIDE DEF final, barge, start
  <2> DEFINE Told == {final, barge, start}
             floor == IF speaking THEN <<barge>> ELSE <<>>
  <2>4. FinalFirst \in Seq(Told) /\ floor \in Seq(Told) /\ <<start>> \in Seq(Told)
    <3>1. <<>> \in Seq(Told)
      OBVIOUS
    <3> QED
      BY <2>3, <3>1, Singleton
  <2>5. reports' \in Seq(Told)
    <3>1. reports' = (FinalFirst \o floor) \o <<start>>
      BY <2>2
    <3> HIDE DEF Told, floor
    <3> QED
      BY <2>4, <3>1
  <2>6. \A i \in DOMAIN reports' : reports'[i] \in Told
    <3> HIDE DEF Told
    <3> QED
      BY <2>5
  <2> QED
    BY <2>1, <2>6 DEF Reported
<1>6. ~StayIdle(prob) /\ ~StaySpeaking(prob) /\ ~StayPending(prob)
  BY <1>3 DEF StayIdle, StaySpeaking, StayPending
<1>7. ~Reopen(prob)
  <2> SUFFICES ASSUME Reopen(prob) PROVE Untold
    OBVIOUS
  <2>1. reports' = <<Report("SPEECH_STARTED", turn_id, revision + 1)>>
    BY <1>2 DEF Reopen
  <2> QED
    BY <2>1 DEF Reported, Report
<1>8. CASE Boundary(prob, complete)
  <2>1. CASE complete
    BY <1>8, <2>1 DEF Boundary, Commit
  <2>2. CASE ~complete
    <3>1. reports' = <<Emit("SPEECH_STOPPED"), Emit("TURN_REOPENED")>>
      BY <1>2, <1>8, <2>2 DEF Boundary
    <3>2. Untold
      BY <3>1 DEF Reported, Emit, Report
    <3> QED
      BY <3>2
  <2> QED
    BY <2>1, <2>2
<1>9. CASE Expire(prob)
  BY <1>9 DEF Expire, Commit
<1> QED
  BY <1>4, <1>5, <1>6, <1>7, <1>8, <1>9 DEF Window

\* A window of a turn that lives on is added to it; speech is past all that
\* was there.
LEMMA TurnGrows ==
  ASSUME Heard, TurnLives, Grows, ~FinalNow, turn_id' = turn_id,
         NEW prob \in Probabilities, TakeWindow(prob)
  PROVE  /\ Len(turn_pcm) \in Nat /\ turn_pcm' \in Seq(Int)
         /\ Len(turn_pcm') = Len(turn_pcm) + 1
         /\ \A i \in 1..Len(turn_pcm) : turn_pcm'[i] = turn_pcm[i]
         /\ speech_end \in 1..Len(turn_pcm)
         /\ speech_end' = IF IsSpeech(prob) THEN Len(turn_pcm) + 1 ELSE speech_end
<1>1. /\ Stretch(turn_pcm, Len(stream)) /\ Len(stream) \in Nat
      /\ speech_end \in 1..Len(turn_pcm)
  BY DEF Heard
<1>2. /\ turn_pcm' = Append(turn_pcm, Len(stream) + 1)
      /\ speech_end' = IF IsSpeech(prob) THEN Len(turn_pcm') ELSE speech_end
  BY DEF TakeWindow, Kept
<1> QED
  BY <1>1, <1>2, AppendStretch

\* A commit hands over the turn up to the pad after its last speech.
LEMMA CommitHands ==
  ASSUME TypeOK, TurnInv, Heard,
         NEW prob \in Probabilities, NEW complete \in BOOLEAN,
         AudioWindow(prob, complete), Reported("TURN_COMMITTED")
  PROVE  \E k \in Nat :
           /\ handed'.turn = turn_id /\ handed'.pcm \in Seq(Int) /\ Len(handed'.pcm) = k
           /\ speech_end' <= k /\ k <= Len(turn_pcm') /\ k <= speech_end' + params.pad
           /\ \A i \in 1..k : handed'.pcm[i] = turn_pcm'[i]
<1>1. Window(prob, complete) /\ TakeWindow(prob)
  BY DEF AudioWindow
<1>2. phase # "IDLE" /\ turn_id' = turn_id
  BY <1>1, CommitTold
<1>3. TurnLives /\ Grows /\ ~FinalNow
  BY <1>2 DEF TurnLives, Grows, FinalNow, TurnInv, CommittedIsIdle
<1>4. /\ Len(turn_pcm') \in Nat /\ turn_pcm' \in Seq(Int)
      /\ speech_end' \in 1..Len(turn_pcm')
  BY <1>1, <1>2, <1>3, TurnGrows
<1> DEFINE k == Smaller(Len(turn_pcm'), speech_end' + params.pad)
<1>5. k \in speech_end'..Len(turn_pcm') /\ k \in Nat /\ k <= speech_end' + params.pad
  <2>1. params.pad \in Nat
    BY ParamsAssumption DEF TypeOK, PosNat
  <2> QED
    BY <1>4, <2>1 DEF Smaller
<1>6. handed' = [turn |-> turn_id, pcm |-> SubSeq(turn_pcm', 1, k)]
  BY DEF AudioWindow, HandedOver
<1> HIDE DEF k
<1>7. \A i \in 1..k : turn_pcm'[i] \in Int
  BY <1>4, <1>5
<1>8. /\ SubSeq(turn_pcm', 1, k) \in Seq(Int) /\ Len(SubSeq(turn_pcm', 1, k)) = k
      /\ \A i \in 1..k : SubSeq(turn_pcm', 1, k)[i] = turn_pcm'[i]
  BY <1>4, <1>5, <1>7, SubSeqProperties
<1>9. /\ handed'.turn = turn_id /\ handed'.pcm \in Seq(Int) /\ Len(handed'.pcm) = k
      /\ \A i \in 1..k : handed'.pcm[i] = turn_pcm'[i]
  BY <1>6, <1>8
<1> QED
  BY <1>4, <1>5, <1>9

\* A commit hands over the beginning of its turn, past its last speech.
LEMMA WindowHands ==
  ASSUME TypeOK, TurnInv, Heard, Handed,
         NEW prob \in Probabilities, NEW complete \in BOOLEAN,
         AudioWindow(prob, complete), Reported("TURN_COMMITTED")
  PROVE  /\ handed'.turn = turn_id /\ handed'.pcm \in Seq(Int)
         /\ Len(handed'.pcm) <= Len(turn_pcm')
         /\ \A i \in 1..Len(handed'.pcm) : turn_pcm'[i] = handed'.pcm[i]
         /\ phase # "IDLE" /\ phase' = "IDLE" /\ turn_id' = turn_id
         /\ handed.turn = turn_id =>
              /\ Len(handed'.pcm) > Len(handed.pcm)
              /\ \A i \in 1..Len(handed.pcm) : handed'.pcm[i] = handed.pcm[i]
<1>1. Window(prob, complete) /\ TakeWindow(prob)
  BY DEF AudioWindow
<1>2. phase # "IDLE" /\ phase' = "IDLE" /\ turn_id' = turn_id
  BY <1>1, CommitTold
<1>3. TurnLives /\ Grows /\ ~FinalNow
  BY <1>2 DEF TurnLives, Grows, FinalNow, TurnInv, CommittedIsIdle
<1>4. /\ Len(turn_pcm) \in Nat /\ turn_pcm' \in Seq(Int)
      /\ Len(turn_pcm') = Len(turn_pcm) + 1
      /\ \A i \in 1..Len(turn_pcm) : turn_pcm'[i] = turn_pcm[i]
      /\ speech_end \in 1..Len(turn_pcm) /\ speech_end' \in speech_end..Len(turn_pcm')
  <2>1. /\ Len(turn_pcm) \in Nat /\ turn_pcm' \in Seq(Int)
        /\ Len(turn_pcm') = Len(turn_pcm) + 1
        /\ \A i \in 1..Len(turn_pcm) : turn_pcm'[i] = turn_pcm[i]
        /\ speech_end \in 1..Len(turn_pcm)
        /\ speech_end' = IF IsSpeech(prob) THEN Len(turn_pcm) + 1 ELSE speech_end
    BY <1>1, <1>2, <1>3, TurnGrows
  <2> QED
    BY <2>1
<1>5. PICK k \in Nat :
        /\ handed'.turn = turn_id /\ handed'.pcm \in Seq(Int) /\ Len(handed'.pcm) = k
        /\ speech_end' <= k /\ k <= Len(turn_pcm')
        /\ \A i \in 1..k : handed'.pcm[i] = turn_pcm'[i]
  BY CommitHands
<1>6. ASSUME handed.turn = turn_id
      PROVE  /\ Len(handed'.pcm) > Len(handed.pcm)
             /\ \A i \in 1..Len(handed.pcm) : handed'.pcm[i] = handed.pcm[i]
  <2>1. /\ Len(handed.pcm) \in Nat /\ Len(handed.pcm) < speech_end
        /\ \A i \in 1..Len(handed.pcm) : turn_pcm[i] = handed.pcm[i]
    BY <1>2, <1>3, <1>6 DEF Handed
  <2>2. Len(handed.pcm) < k /\ Len(handed.pcm) < Len(turn_pcm)
    <3>1. /\ speech_end \in Nat /\ speech_end <= Len(turn_pcm)
          /\ speech_end' \in Nat /\ speech_end <= speech_end'
      BY <1>4
    <3>2. speech_end' <= k
      BY <1>5
    <3> QED
      BY <1>4, <2>1, <3>1, <3>2
  <2> QED
    <3>1. ASSUME NEW i \in 1..Len(handed.pcm) PROVE handed'.pcm[i] = handed.pcm[i]
      <4>1. i \in 1..k /\ i \in 1..Len(turn_pcm)
        BY <1>5, <2>1, <2>2
      <4>2. handed'.pcm[i] = turn_pcm'[i] /\ turn_pcm'[i] = turn_pcm[i]
        BY <1>4, <1>5, <4>1
      <4> QED
        BY <2>1, <4>2
    <3> QED
      BY <1>5, <2>2, <3>1
<1> QED
  BY <1>2, <1>4, <1>5, <1>6

LEMMA WindowHanded ==
  ASSUME TypeOK, TurnInv, Heard, Handed,
         NEW prob \in Probabilities, NEW complete \in BOOLEAN, AudioWindow(prob, complete)
  PROVE  Handed'
<1>1. Window(prob, complete) /\ TakeWindow(prob)
  BY DEF AudioWindow
<1>2. turn_id \in Nat /\ turn_id' \in Nat /\ turn_id <= turn_id'
  BY <1>1, Bounds
  DEF TypeOK, Window, Resume, OpenTurn, StayIdle, StaySpeaking, Boundary, Reopen, Expire,
      StayPending, KeepTurn, Commit
<1>3. CASE Reported("TURN_COMMITTED")
  BY <1>2, <1>3, WindowHands DEF Handed
<1>4. CASE ~Reported("TURN_COMMITTED")
  <2>1. handed' = handed
    BY <1>4 DEF AudioWindow
  <2>2. /\ handed.turn \in Nat /\ handed.turn <= turn_id /\ handed.pcm \in Seq(Int)
        /\ Len(handed.pcm) \in Nat
    BY DEF Handed
  <2>3. ASSUME TurnLives', handed.turn = turn_id'
        PROVE  /\ Len(handed.pcm) <= Len(turn_pcm')
               /\ \A i \in 1..Len(handed.pcm) : turn_pcm'[i] = handed.pcm[i]
               /\ phase' # "IDLE" => Len(handed.pcm) < speech_end'
    <3>1. turn_id' = turn_id
      BY <1>2, <2>2, <2>3
    <3>2. TurnLives /\ Grows /\ ~FinalNow
      BY <1>1, <2>3, <3>1, LivesOn
    <3>3. /\ Len(turn_pcm) \in Nat /\ turn_pcm' \in Seq(Int)
          /\ Len(turn_pcm') = Len(turn_pcm) + 1
          /\ \A i \in 1..Len(turn_pcm) : turn_pcm'[i] = turn_pcm[i]
          /\ speech_end \in 1..Len(turn_pcm)
          /\ speech_end' = IF IsSpeech(prob) THEN Len(turn_pcm) + 1 ELSE speech_end
      BY <1>1, <3>1, <3>2, TurnGrows
    <3>4. /\ Len(handed.pcm) <= Len(turn_pcm)
          /\ \A i \in 1..Len(handed.pcm) : turn_pcm[i] = handed.pcm[i]
          /\ phase # "IDLE" => Len(handed.pcm) < speech_end
      BY <2>3, <3>1, <3>2 DEF Handed
    <3>5. phase = "IDLE" /\ phase' # "IDLE" => IsSpeech(prob)
      <4>1. ~OpenTurn(prob)
        BY <3>1 DEF OpenTurn, TypeOK
      <4>2. Resume(prob) => IsSpeech(prob)
        BY ThresholdTypes DEF Resume, SpeechRun, TypeOK
      <4> QED
        BY <1>1, <4>1, <4>2
        DEF Window, StayIdle, StaySpeaking, Boundary, Reopen, Expire, StayPending
    <3>6. Len(handed.pcm) <= Len(turn_pcm')
      BY <2>2, <3>3, <3>4
    <3>7. ASSUME NEW i \in 1..Len(handed.pcm) PROVE turn_pcm'[i] = handed.pcm[i]
      <4>1. i \in 1..Len(turn_pcm)
        BY <2>2, <3>3, <3>4
      <4> QED
        BY <3>3, <3>4, <4>1
    <3>8. phase' # "IDLE" => Len(handed.pcm) < speech_end'
      BY <2>2, <3>3, <3>4, <3>5
    <3> QED
      BY <3>6, <3>7, <3>8
  <2> QED
    BY <1>2, <2>1, <2>2, <2>3 DEF Handed
<1> QED
  BY <1>3, <1>4

LEMMA OtherCallsHanded ==
  ASSUME TypeOK, TurnInv, Handed,
         \/ AudioRelease(turn_id, revision)
         \/ \E s \in BOOLEAN : AudioSetSpeaking(s)
         \/ \E p \in Params : AudioSetParams(p)
         \/ UNCHANGED allVars
  PROVE  Handed' /\ UNCHANGED handed
<1>1. CASE AudioRelease(turn_id, revision)
  <2>1. /\ UNCHANGED <<phase, turn_id, speech_end, handed>>
        /\ turn_pcm' = IF Reported("TURN_FINAL") THEN <<>> ELSE turn_pcm
        /\ committed' => committed
    BY <1>1 DEF AudioRelease, Release, history
  <2>2. Reported("TURN_FINAL") => ~committed' /\ phase = "IDLE"
    BY <1>1 DEF AudioRelease, Release, Reported, TurnInv, CommittedIsIdle
  <2>3. TurnLives' => TurnLives /\ turn_pcm' = turn_pcm
    BY <2>1, <2>2 DEF TurnLives
  <2> QED
    BY <2>1, <2>3 DEF Handed
<1>2. CASE \/ \E s \in BOOLEAN : AudioSetSpeaking(s)
           \/ \E p \in Params : AudioSetParams(p)
           \/ UNCHANGED allVars
  <2>1. UNCHANGED <<phase, committed, turn_id, turn_pcm, speech_end, handed>>
    BY <1>2 DEF AudioSetSpeaking, SetSpeaking, AudioSetParams, SetParams, life, allVars, vars,
                audio, history
  <2> QED
    BY <2>1 DEF Handed, TurnLives
<1> QED
  BY <1>1, <1>2

\* The next revision of a turn hands over all that the last one did, and
\* speech after it, whatever thresholds were set meanwhile: s2s_session_emit,
\* and the resumption that keeps the audio of the turn.
THEOREM RevisionsGrow == AudioSpec => RevisionsExtend
<1>1. AudioInit => Heard /\ Handed
  BY DEF AudioInit, Init, Heard, Stretch, Handed, TurnLives
<1>2. TypeOK /\ TurnInv /\ Heard /\ Handed /\ [AudioNext]_allVars => (Heard /\ Handed)'
  BY WindowHeard, OtherCallsHeard, WindowHanded, OtherCallsHanded DEF AudioNext
<1>3. TypeOK /\ TurnInv /\ Heard /\ Handed /\ [AudioNext]_allVars =>
        [handed' # handed /\ handed'.turn = handed.turn =>
           /\ Len(handed'.pcm) > Len(handed.pcm)
           /\ SubSeq(handed'.pcm, 1, Len(handed.pcm)) = handed.pcm]_allVars
  <2> SUFFICES ASSUME TypeOK, TurnInv, Heard, Handed, [AudioNext]_allVars,
                      handed' # handed, handed'.turn = handed.turn
               PROVE  /\ Len(handed'.pcm) > Len(handed.pcm)
                      /\ SubSeq(handed'.pcm, 1, Len(handed.pcm)) = handed.pcm
    OBVIOUS
  <2>1. PICK prob \in Probabilities, complete \in BOOLEAN : AudioWindow(prob, complete)
    BY OtherCallsHanded DEF AudioNext
  <2>2. Reported("TURN_COMMITTED")
    BY <2>1 DEF AudioWindow
  <2>3. /\ handed'.pcm \in Seq(Int) /\ handed.pcm \in Seq(Int)
        /\ Len(handed'.pcm) > Len(handed.pcm)
        /\ \A i \in 1..Len(handed.pcm) : handed'.pcm[i] = handed.pcm[i]
    BY <2>1, <2>2, WindowHands DEF Handed
  <2> DEFINE before == handed.pcm
             start == SubSeq(handed'.pcm, 1, Len(before))
  <2>4. /\ start \in Seq(Int) /\ Len(start) = Len(before) /\ Len(before) \in Nat
        /\ \A i \in 1..Len(before) : start[i] = handed'.pcm[i]
    BY <2>3, SubSeqProperties
  <2>5. \A i \in 1..Len(start) : start[i] = before[i]
    BY <2>3, <2>4
  <2>6. start = before
    <3> HIDE DEF start, before
    <3>1. before \in Seq(Int)
      BY <2>3 DEF before
    <3> QED
      BY <2>4, <2>5, <3>1, SeqEqual
  <2> QED
    BY <2>3, <2>6
<1> QED
  BY <1>1, <1>2, <1>3, AudioImplements, PTL DEF AudioSpec, RevisionsExtend

----------------------------------------------------------------------------
(* The ring holds the speech that may open a turn, and the turn all the    *)
(* windows from its onset on: nothing after speech_end is speech.          *)
Longest(p) == Larger(p.open, p.barge)
LastSpeech == Len(stream) - Len(turn_pcm) + speech_end

OnsetHeld ==
  /\ onset \in Nat /\ onset > 0
  /\ Len(lookback) <= Len(stream)
  /\ phase = "IDLE" => speech_run < Longest(params) /\ speech_run <= Len(lookback)
  /\ TurnLives =>
       /\ Len(stream) - Len(turn_pcm) < onset /\ onset <= LastSpeech
       /\ stream[LastSpeech]
       /\ \A n \in LastSpeech + 1 .. Len(stream) : ~stream[n]

(* No patch shortens the openings while the user has begun to speak.       *)
OnsetSpared == phase = "IDLE" /\ speech_run > 0 => Longest(params') >= Longest(params)

LEMMA LongestIs ==
  ASSUME NEW p \in Params
  PROVE  /\ Longest(p) \in Nat /\ p.open <= Longest(p) /\ p.barge <= Longest(p)
         /\ Longest(p) > 0 /\ Longest(p) <= RunCap
         /\ LookbackCapacity(p) \in Nat /\ LookbackCapacity(p) > Longest(p)
<1>1. /\ p.open \in Nat /\ p.barge \in Nat /\ p.open > 0 /\ p.pad \in Nat /\ p.pad > 0
      /\ p.open <= RunCap /\ p.barge <= RunCap
  BY ThresholdTypes, ParamsAssumption, BoundsAssumption DEF PosNat
<1> QED
  BY <1>1 DEF Longest, LookbackCapacity, Larger

\* What the ring holds after a push or a new capacity.
LEMMA RingLength ==
  ASSUME NEW s, NEW n \in Nat, Stretch(s, n), NEW k \in Nat, k > 0
  PROVE  /\ Len(s) \in Nat /\ Len(LastOf(s, k)) \in Nat /\ Len(LastOf(s, k)) <= Len(s)
         /\ \A m \in Nat : m <= k /\ m <= Len(s) => m <= Len(LastOf(s, k))
<1>1. Len(s) \in Nat
  BY DEF Stretch
<1>2. Len(LastOf(s, k)) = Smaller(k, Len(s))
  BY LastStretch
<1> QED
  BY <1>1, <1>2 DEF Smaller

\* Before a turn opens the run of speech does not saturate.
LEMMA IdleRun ==
  ASSUME TypeOK, OnsetHeld, phase = "IDLE", NEW prob \in Probabilities
  PROVE  /\ SpeechRun(prob) = IF IsSpeech(prob) THEN speech_run + 1 ELSE 0
         /\ speech_run \in Nat /\ speech_run < Longest(params) /\ speech_run <= Len(lookback)
<1>1. /\ speech_run \in Nat /\ speech_run < Longest(params) /\ speech_run <= Len(lookback)
      /\ Longest(params) <= RunCap /\ Longest(params) \in Nat /\ RunCap \in Nat
  BY LongestIs, Bounds DEF TypeOK, OnsetHeld
<1> QED
  BY <1>1 DEF SpeechRun, Saturate

\* A window leaves the ring with the speech of a turn that may open.
LEMMA WindowRing ==
  ASSUME TypeOK, TurnInv, Heard, OnsetHeld,
         NEW prob \in Probabilities, NEW complete \in BOOLEAN, AudioWindow(prob, complete)
  PROVE  /\ Len(lookback') \in Nat /\ Len(lookback') <= Len(stream')
         /\ phase = "IDLE" => SpeechRun(prob) <= Len(lookback')
         /\ phase' = "IDLE" => speech_run' < Longest(params') /\ speech_run' <= Len(lookback')
<1>1. /\ Window(prob, complete) /\ TakeWindow(prob)
      /\ stream' = Append(stream, IsSpeech(prob)) /\ params' = params
  BY DEF AudioWindow, Window, Hear
<1>2. /\ Len(stream) \in Nat /\ Len(stream') = Len(stream) + 1
  BY <1>1, WindowTypes DEF Heard
<1>3. /\ params \in Params /\ Longest(params) \in Nat /\ Longest(params) > 0
      /\ params.open <= Longest(params) /\ params.barge <= Longest(params)
      /\ params.open \in Nat /\ params.barge \in Nat
      /\ LookbackCapacity(params) \in Nat /\ LookbackCapacity(params) > Longest(params)
  BY LongestIs, ThresholdTypes DEF TypeOK
<1>4. /\ Stretch(Append(lookback, Len(stream) + 1), Len(stream) + 1)
      /\ Len(Append(lookback, Len(stream) + 1)) = Len(lookback) + 1
      /\ Len(lookback) \in Nat /\ Len(lookback) <= Len(stream)
  BY <1>2, AppendStretch DEF Heard, OnsetHeld
<1>5. lookback' = LastOf(Append(lookback, Len(stream) + 1), LookbackCapacity(params))
  BY <1>1 DEF TakeWindow
<1> DEFINE pushed == Append(lookback, Len(stream) + 1)
           k == LookbackCapacity(params)
<1>6. /\ Len(lookback') \in Nat /\ Len(lookback') <= Len(lookback) + 1
      /\ \A m \in Nat : m <= LookbackCapacity(params) /\ m <= Len(lookback) + 1
                          => m <= Len(lookback')
  <2>1. k \in Nat /\ k > 0 /\ Len(stream) + 1 \in Nat
    BY <1>2, <1>3
  <2>2. Stretch(pushed, Len(stream) + 1) /\ Len(pushed) = Len(lookback) + 1
    BY <1>4
  <2> HIDE DEF pushed, k
  <2>3. /\ Len(LastOf(pushed, k)) \in Nat /\ Len(LastOf(pushed, k)) <= Len(pushed)
        /\ \A m \in Nat : m <= k /\ m <= Len(pushed) => m <= Len(LastOf(pushed, k))
    BY <2>1, <2>2, RingLength
  <2>4. lookback' = LastOf(pushed, k)
    BY <1>5 DEF pushed, k
  <2>5. /\ Len(lookback') \in Nat /\ Len(lookback') <= Len(lookback) + 1
        /\ \A m \in Nat : m <= k /\ m <= Len(lookback) + 1 => m <= Len(lookback')
    BY <2>2, <2>3, <2>4
  <2> QED
    BY <2>5 DEF k
<1>7. phase = "IDLE" => SpeechRun(prob) \in Nat /\ SpeechRun(prob) <= Len(lookback')
  <2>1. ASSUME phase = "IDLE"
        PROVE  /\ SpeechRun(prob) \in Nat /\ SpeechRun(prob) <= LookbackCapacity(params)
               /\ SpeechRun(prob) <= Len(lookback) + 1
    BY <1>3, <1>4, <2>1, IdleRun
  <2> QED
    BY <1>6, <2>1
<1>8. ASSUME phase' = "IDLE"
      PROVE  speech_run' < Longest(params) /\ speech_run' <= Len(lookback')
  <2>1. CASE StayIdle(prob)
    <3>1. phase = "IDLE" /\ speech_run' = SpeechRun(prob) /\ SpeechRun(prob) < OpenAt
      BY <2>1 DEF StayIdle
    <3>2. OpenAt \in Nat /\ OpenAt <= Longest(params)
      BY <1>3 DEF OpenAt
    <3> QED
      BY <1>3, <1>7, <3>1, <3>2
  <2>2. CASE ~StayIdle(prob)
    <3>1. speech_run' = 0
      BY <1>1, <1>8, <2>2
      DEF Window, Resume, OpenTurn, StaySpeaking, Boundary, Reopen, Expire, StayPending, Commit
    <3> QED
      BY <1>3, <1>6, <3>1
  <2> QED
    BY <2>1, <2>2
<1> QED
  BY <1>1, <1>2, <1>4, <1>6, <1>7, <1>8

\* A turn that opens holds the speech that opened it.
LEMMA OpeningHeld ==
  ASSUME TypeOK, TurnInv, Heard, OnsetHeld,
         NEW prob \in Probabilities, NEW complete \in BOOLEAN, AudioWindow(prob, complete),
         turn_id' # turn_id
  PROVE  /\ onset' \in Nat /\ onset' > 0
         /\ Len(stream') - Len(turn_pcm') < onset' /\ onset' <= LastSpeech'
         /\ LastSpeech' = Len(stream') /\ Len(stream') \in Nat /\ stream'[LastSpeech']
<1>1. /\ Window(prob, complete) /\ TakeWindow(prob)
      /\ stream' = Append(stream, IsSpeech(prob))
  BY DEF AudioWindow
<1>2. OpenTurn(prob)
  BY <1>1
  DEF Window, Resume, StayIdle, StaySpeaking, Boundary, Reopen, Expire, StayPending, KeepTurn,
      Commit
<1>3. phase = "IDLE" /\ SpeechRun(prob) >= OpenAt
  BY <1>2 DEF OpenTurn
<1>4. OpenAt \in Nat /\ OpenAt > 0
  BY ThresholdTypes DEF OpenAt, TypeOK
<1>5. SpeechRun(prob) \in Nat /\ SpeechRun(prob) > 0 /\ IsSpeech(prob)
  BY <1>3, <1>4, IdleRun
<1>6. /\ Len(lookback') \in Nat /\ Len(lookback') <= Len(stream')
      /\ SpeechRun(prob) <= Len(lookback')
  BY <1>3, WindowRing
<1>7. /\ turn_pcm' = lookback' /\ speech_end' = Len(lookback')
      /\ onset' = (Len(stream) + 1) - SpeechRun(prob) + 1
  BY <1>1, Zenon DEF TakeWindow
<1>8. Len(stream) \in Nat /\ Len(stream') = Len(stream) + 1
  BY <1>1, WindowTypes DEF Heard
<1>9. stream'[Len(stream')] = IsSpeech(prob)
  BY <1>1, <1>8, WindowTypes DEF Heard
<1>10. LastSpeech' = Len(stream') /\ Len(stream') \in Nat
  BY <1>6, <1>7, <1>8 DEF LastSpeech
<1>11. stream'[LastSpeech']
  BY <1>5, <1>9, <1>10
<1>12. /\ onset' \in Nat /\ onset' > 0
       /\ Len(stream') - Len(turn_pcm') < onset' /\ onset' <= LastSpeech'
  BY <1>5, <1>6, <1>7, <1>8, <1>10
<1> QED
  BY <1>10, <1>11, <1>12

\* A turn that goes on moves speech_end to a window of speech and to no other.
LEMMA GrowthHeld ==
  ASSUME TypeOK, Heard, OnsetHeld, TurnLives, Grows, ~FinalNow, turn_id' = turn_id,
         NEW prob \in Probabilities, NEW complete \in BOOLEAN, AudioWindow(prob, complete)
  PROVE  /\ Len(stream') - Len(turn_pcm') < onset' /\ onset' <= LastSpeech'
         /\ stream'[LastSpeech']
         /\ \A n \in LastSpeech' + 1 .. Len(stream') : ~stream'[n]
<1>1. /\ TakeWindow(prob) /\ stream' = Append(stream, IsSpeech(prob)) /\ onset' = onset
  BY DEF AudioWindow, TakeWindow
<1>2. /\ Len(stream) \in Nat /\ Len(stream') = Len(stream) + 1
      /\ stream'[Len(stream) + 1] = IsSpeech(prob)
      /\ \A n \in 1..Len(stream) : stream'[n] = stream[n]
  BY <1>1, WindowTypes DEF Heard
<1>3. /\ Len(turn_pcm) \in Nat /\ Len(turn_pcm') = Len(turn_pcm) + 1
      /\ speech_end \in 1..Len(turn_pcm)
      /\ speech_end' = IF IsSpeech(prob) THEN Len(turn_pcm) + 1 ELSE speech_end
  BY <1>1, TurnGrows
<1>4. /\ onset \in Nat /\ onset > 0
      /\ Len(stream) - Len(turn_pcm) < onset /\ onset <= LastSpeech
      /\ stream[LastSpeech]
      /\ \A n \in LastSpeech + 1 .. Len(stream) : ~stream[n]
  BY DEF OnsetHeld
<1>5. /\ LastSpeech \in 1..Len(stream)
      /\ LastSpeech' = IF IsSpeech(prob) THEN Len(stream) + 1 ELSE LastSpeech
  <2> DEFINE base == Len(stream) - Len(turn_pcm)
  <2>1. base \in Int /\ base' = base /\ LastSpeech = base + speech_end
        /\ LastSpeech' = base' + speech_end'
    BY <1>2, <1>3 DEF LastSpeech
  <2>2. base + (Len(turn_pcm) + 1) = Len(stream) + 1
    BY <1>2, <1>3
  <2>3. base + speech_end \in 1..Len(stream)
    BY <1>2, <1>3, <1>4 DEF LastSpeech
  <2> HIDE DEF base
  <2> QED
    BY <1>3, <2>1, <2>2, <2>3
<1>6. Len(stream') - Len(turn_pcm') < onset' /\ onset' <= LastSpeech'
  BY <1>1, <1>2, <1>3, <1>4, <1>5
<1>7. CASE IsSpeech(prob)
  <2>1. LastSpeech' = Len(stream) + 1 /\ stream'[LastSpeech']
    BY <1>2, <1>5, <1>7
  <2>2. \A n \in LastSpeech' + 1 .. Len(stream') : FALSE
    BY <1>2, <2>1
  <2> QED
    BY <1>6, <2>1, <2>2
<1>8. CASE ~IsSpeech(prob)
  <2>1. LastSpeech' = LastSpeech /\ stream'[LastSpeech']
    BY <1>2, <1>4, <1>5, <1>8
  <2>2. ASSUME NEW n \in LastSpeech' + 1 .. Len(stream') PROVE ~stream'[n]
    <3>1. n \in LastSpeech + 1 .. Len(stream) \/ n = Len(stream) + 1
      BY <1>2, <1>5, <2>1
    <3>2. n \in LastSpeech + 1 .. Len(stream) => n \in 1 .. Len(stream)
      BY <1>2, <1>5
    <3> QED
      BY <1>2, <1>4, <1>8, <3>1, <3>2
  <2> QED
    BY <1>6, <2>1, <2>2
<1> QED
  BY <1>7, <1>8

LEMMA WindowOnset ==
  ASSUME TypeOK, TurnInv, Heard, OnsetHeld,
         NEW prob \in Probabilities, NEW complete \in BOOLEAN, AudioWindow(prob, complete)
  PROVE  OnsetHeld'
<1>1. Window(prob, complete) /\ TakeWindow(prob)
  BY DEF AudioWindow
<1>2. /\ Len(lookback') <= Len(stream')
      /\ phase' = "IDLE" => speech_run' < Longest(params') /\ speech_run' <= Len(lookback')
  BY WindowRing
<1>3. CASE turn_id' # turn_id
  <2>1. /\ onset' \in Nat /\ onset' > 0
        /\ Len(stream') - Len(turn_pcm') < onset' /\ onset' <= LastSpeech'
        /\ LastSpeech' = Len(stream') /\ Len(stream') \in Nat /\ stream'[LastSpeech']
    BY <1>3, OpeningHeld
  <2>2. \A n \in LastSpeech' + 1 .. Len(stream') : ~stream'[n]
    BY <2>1
  <2> QED
    BY <1>2, <2>1, <2>2 DEF OnsetHeld
<1>4. CASE turn_id' = turn_id
  <2>1. onset' \in Nat /\ onset' > 0
    BY <1>1, <1>4 DEF TakeWindow, OnsetHeld
  <2>2. TurnLives' =>
          /\ Len(stream') - Len(turn_pcm') < onset' /\ onset' <= LastSpeech'
          /\ stream'[LastSpeech']
          /\ \A n \in LastSpeech' + 1 .. Len(stream') : ~stream'[n]
    BY <1>1, <1>4, LivesOn, GrowthHeld
  <2> QED
    BY <1>2, <2>1, <2>2 DEF OnsetHeld
<1> QED
  BY <1>3, <1>4

LEMMA OtherCallsOnset ==
  ASSUME TypeOK, TurnInv, Heard, OnsetHeld, OnsetSpared,
         \/ AudioRelease(turn_id, revision)
         \/ \E s \in BOOLEAN : AudioSetSpeaking(s)
         \/ \E p \in Params : AudioSetParams(p)
         \/ UNCHANGED allVars
  PROVE  OnsetHeld'
<1>1. CASE AudioRelease(turn_id, revision)
  <2>1. /\ UNCHANGED <<params, phase, speech_run, lookback, speech_end, stream, onset>>
        /\ turn_pcm' = IF Reported("TURN_FINAL") THEN <<>> ELSE turn_pcm
        /\ committed' => committed
    BY <1>1 DEF AudioRelease, Release, history, clock
  <2>2. Reported("TURN_FINAL") => ~committed' /\ phase = "IDLE"
    BY <1>1 DEF AudioRelease, Release, Reported, TurnInv, CommittedIsIdle
  <2>3. TurnLives' => TurnLives /\ turn_pcm' = turn_pcm
    BY <2>1, <2>2 DEF TurnLives
  <2> QED
    BY <2>1, <2>3 DEF OnsetHeld, LastSpeech
<1>2. CASE \E p \in Params : AudioSetParams(p)
  <2>1. PICK p \in Params : AudioSetParams(p)
    BY <1>2
  <2>2. /\ UNCHANGED <<phase, committed, speech_run, turn_pcm, speech_end, stream, onset>>
        /\ params' = p /\ lookback' = LastOf(lookback, LookbackCapacity(p))
    BY <2>1 DEF AudioSetParams, SetParams, life, clock
  <2>3. /\ Longest(p) \in Nat /\ Longest(p) > 0
        /\ LookbackCapacity(p) \in Nat /\ LookbackCapacity(p) > Longest(p)
    BY LongestIs
  <2>4. /\ Len(lookback) \in Nat /\ Len(lookback') \in Nat /\ Len(lookback') <= Len(lookback)
        /\ \A m \in Nat : m <= LookbackCapacity(p) /\ m <= Len(lookback) => m <= Len(lookback')
    <3>1. Stretch(lookback, Len(stream)) /\ Len(stream) \in Nat
      BY DEF Heard
    <3>2. LookbackCapacity(p) \in Nat /\ LookbackCapacity(p) > 0
      BY <2>3
    <3> QED
      BY <2>2, <3>1, <3>2, RingLength
  <2>5. phase' = "IDLE" => speech_run' < Longest(params') /\ speech_run' <= Len(lookback')
    <3> SUFFICES ASSUME phase = "IDLE"
                 PROVE  speech_run < Longest(p) /\ speech_run <= Len(lookback')
      BY <2>2
    <3>1. /\ speech_run \in Nat /\ speech_run < Longest(params) /\ speech_run <= Len(lookback)
          /\ Longest(params) \in Nat
      BY LongestIs DEF TypeOK, OnsetHeld
    <3>2. speech_run > 0 => Longest(p) >= Longest(params)
      BY <2>2 DEF OnsetSpared
    <3>3. speech_run < Longest(p)
      BY <2>3, <3>1, <3>2
    <3> QED
      BY <2>3, <2>4, <3>1, <3>3
  <2>6. Len(lookback') <= Len(stream')
    BY <2>2, <2>4 DEF OnsetHeld, Heard
  <2>7. LastSpeech' = LastSpeech /\ (TurnLives' <=> TurnLives)
    BY <2>2 DEF LastSpeech, TurnLives
  <2> QED
    BY <2>2, <2>5, <2>6, <2>7 DEF OnsetHeld
<1>3. CASE (\E s \in BOOLEAN : AudioSetSpeaking(s)) \/ UNCHANGED allVars
  <2>1. UNCHANGED <<params, phase, committed, speech_run, lookback, turn_pcm, speech_end,
                    stream, onset>>
    BY <1>3 DEF AudioSetSpeaking, SetSpeaking, life, clock, allVars, vars, audio, history
  <2> QED
    BY <2>1 DEF OnsetHeld, TurnLives, LastSpeech
<1> QED
  BY <1>1, <1>2, <1>3

\* Of a stretch, its first windows are those of the stream from its start.
LEMMA StretchWindows ==
  ASSUME NEW s, NEW n \in Nat, Stretch(s, n), NEW t \in Seq(Int), NEW k \in Nat,
         Len(t) = k, k <= Len(s), \A i \in 1..k : t[i] = s[i]
  PROVE  Windows(t) = (n - Len(s)) + 1 .. (n - Len(s)) + k
<1>1. Len(s) \in Nat /\ \A i \in 1..Len(s) : s[i] = n - Len(s) + i
  BY DEF Stretch
<1>2. DOMAIN t = 1..k
  BY LenProperties
<1> DEFINE base == n - Len(s)
<1>3. base \in Int /\ \A i \in 1..k : t[i] = base + i
  <2>1. base \in Int
    BY <1>1
  <2>2. ASSUME NEW i \in 1..k PROVE t[i] = base + i
    <3>1. i \in 1..Len(s)
      BY <1>1
    <3> QED
      BY <1>1, <3>1
  <2> QED
    BY <2>1, <2>2
<1> HIDE DEF base
<1>4. ASSUME NEW w \in base + 1 .. base + k PROVE w \in Windows(t)
  <2>1. w - base \in 1..k /\ w = base + (w - base)
    BY <1>3
  <2> QED
    BY <1>2, <1>3, <2>1 DEF Windows
<1>5. ASSUME NEW w \in Windows(t) PROVE w \in base + 1 .. base + k
  <2>1. PICK i \in 1..k : w = t[i]
    BY <1>2 DEF Windows
  <2> QED
    BY <1>3, <2>1
<1>6. Windows(t) = base + 1 .. base + k
  BY <1>4, <1>5
<1> QED
  BY <1>6 DEF base

\* The speech from the onset on ends where the silence starts.
LEMMA SpeechWithin ==
  ASSUME NEW s, NEW o \in Nat, NEW e \in Nat, Len(s) \in Nat,
         o <= e, e <= Len(s), s[e], \A n \in e + 1 .. Len(s) : ~s[n]
  PROVE  SpeechOf(s, o) \subseteq o..e /\ e \in SpeechOf(s, o)
<1>1. ASSUME NEW n \in SpeechOf(s, o) PROVE n \in o..e
  <2>1. n \in o..Len(s) /\ s[n]
    BY DEF SpeechOf
  <2>2. n \notin e + 1 .. Len(s)
    BY <2>1
  <2> QED
    BY <2>1, <2>2
<1>2. e \in o..Len(s)
  OBVIOUS
<1> QED
  BY <1>1, <1>2 DEF SpeechOf

\* Windows that end at most p after the last speech hold all of it, and at
\* most p windows of silence after it.
LEMMA WithinPad ==
  ASSUME NEW a \in Int, NEW o \in Int, NEW e \in Int, NEW k \in Nat, NEW p \in Nat,
         NEW speech, NEW held, a < o, e <= a + k, a + k <= e + p,
         held = a + 1 .. a + k, speech \subseteq o..e, e \in speech
  PROVE  /\ speech \subseteq held
         /\ Cardinality({n \in held : \A m \in speech : m < n}) <= p
<1> DEFINE after == {n \in held : \A m \in speech : m < n}
<1>1. speech \subseteq held
  <2> SUFFICES ASSUME NEW n \in speech PROVE n \in a + 1 .. a + k
    OBVIOUS
  <2>1. n \in o..e
    OBVIOUS
  <2> QED
    BY <2>1
<1>2. after \subseteq e + 1 .. e + p
  <2> SUFFICES ASSUME NEW n \in after PROVE n \in e + 1 .. e + p
    OBVIOUS
  <2>1. n \in a + 1 .. a + k /\ e < n
    OBVIOUS
  <2> QED
    BY <2>1
<1> DEFINE room == e + 1 .. e + p
<1>3. IsFiniteSet(room) /\ Cardinality(room) = p
  <2>1. e + 1 \in Int /\ e + p \in Int
    OBVIOUS
  <2>2. /\ IsFiniteSet(room)
        /\ Cardinality(room) = IF e + 1 > e + p THEN 0 ELSE (e + p) - (e + 1) + 1
    BY <2>1, FS_Interval
  <2> HIDE DEF room
  <2> QED
    BY <2>2
<1> HIDE DEF after, room
<1>4. Cardinality(after) <= Cardinality(room)
  BY <1>2, <1>3, FS_Subset DEF room
<1> QED
  BY <1>1, <1>3, <1>4 DEF after

\* What a commit does, with the turn as the window leaves it.
LEMMA CommitWhole ==
  ASSUME TypeOK, TurnInv, Heard, OnsetHeld,
         NEW prob \in Probabilities, NEW complete \in BOOLEAN,
         AudioWindow(prob, complete), Reported("TURN_COMMITTED")
  PROVE  LET speech == SpeechOf(stream', onset)
             pcm    == handed'.pcm
         IN /\ speech \subseteq Windows(pcm)
            /\ Cardinality({n \in Windows(pcm) : \A m \in speech : m < n}) <= params.pad
<1>1. Window(prob, complete) /\ TakeWindow(prob)
  BY DEF AudioWindow
<1>2. /\ turn_id' = turn_id /\ TurnLives' /\ onset' = onset
  BY <1>1, CommitTold DEF TurnLives, TakeWindow
<1>3. /\ stream' \in Seq(BOOLEAN) /\ Stretch(turn_pcm', Len(stream'))
      /\ speech_end' \in 1..Len(turn_pcm')
  BY <1>2, WindowHeard DEF Heard
<1>4. /\ onset \in Nat /\ onset > 0
      /\ Len(stream') - Len(turn_pcm') < onset /\ onset <= LastSpeech'
      /\ stream'[LastSpeech']
      /\ \A n \in LastSpeech' + 1 .. Len(stream') : ~stream'[n]
  BY <1>2, WindowOnset DEF OnsetHeld
<1>5. PICK k \in Nat :
        /\ handed'.turn = turn_id /\ handed'.pcm \in Seq(Int) /\ Len(handed'.pcm) = k
        /\ speech_end' <= k /\ k <= Len(turn_pcm') /\ k <= speech_end' + params.pad
        /\ \A i \in 1..k : handed'.pcm[i] = turn_pcm'[i]
  BY CommitHands
<1>6. /\ Len(turn_pcm') \in Nat /\ Len(stream') \in Nat /\ speech_end' \in Nat
      /\ params.pad \in Nat /\ speech_end' > 0 /\ speech_end' <= Len(turn_pcm')
  <2>1. Len(turn_pcm') \in Nat /\ Len(stream') \in Nat
    BY <1>3 DEF Stretch
  <2>2. params.pad \in Nat
    BY ParamsAssumption DEF TypeOK, PosNat
  <2> QED
    BY <1>3, <2>1, <2>2
<1> DEFINE a == Len(stream') - Len(turn_pcm')
           e == a + speech_end'
<1>7. a \in Int /\ e \in Int /\ LastSpeech' = e
  BY <1>6 DEF LastSpeech
<1>8. /\ a < onset /\ onset <= e /\ stream'[e]
      /\ \A n \in e + 1 .. Len(stream') : ~stream'[n]
  BY <1>4, <1>7
<1>9. /\ e \in Nat /\ e <= Len(stream')
      /\ e <= a + k /\ a + k <= e + params.pad
  <2>1. e <= Len(stream')
    BY <1>6
  <2>2. k \in Nat /\ speech_end' <= k /\ k <= speech_end' + params.pad
    BY <1>5
  <2>3. a \in Int /\ e = a + speech_end'
    BY <1>7
  <2>4. e \in Int /\ onset \in Nat /\ onset <= e
    BY <1>4, <1>7, <1>8
  <2> HIDE DEF a, e
  <2>5. e \in Nat
    BY <2>4
  <2>6. ASSUME NEW x \in Nat, NEW p \in Nat, x <= k, k <= x + p
        PROVE  a + x <= a + k /\ a + k <= (a + x) + p
    BY <2>3, <2>6
  <2>7. a + speech_end' <= a + k /\ a + k <= (a + speech_end') + params.pad
    BY <1>6, <2>2, <2>6
  <2> QED
    BY <2>1, <2>3, <2>5, <2>7
<1>10. Windows(handed'.pcm) = a + 1 .. a + k
  <2>1. /\ handed'.pcm \in Seq(Int) /\ Len(handed'.pcm) = k /\ k <= Len(turn_pcm')
        /\ \A i \in 1..k : handed'.pcm[i] = turn_pcm'[i]
    BY <1>5
  <2>2. Stretch(turn_pcm', Len(stream')) /\ Len(stream') \in Nat
    BY <1>3, <1>6
  <2> QED
    BY <2>1, <2>2, StretchWindows
<1> HIDE DEF a, e
<1>11. SpeechOf(stream', onset) \subseteq onset..e /\ e \in SpeechOf(stream', onset)
  BY <1>4, <1>6, <1>8, <1>9, SpeechWithin
<1>12. onset \in Int /\ params.pad \in Nat
  BY <1>4, <1>6
<1> QED
  BY <1>7, <1>8, <1>9, <1>10, <1>11, <1>12, WithinPad

\* As long as no patch shortens the openings while the user has begun to
\* speak, every commit hands over all the speech since the onset of its turn,
\* through any reopenings and resumptions, and at most the pad of silence after
\* it: the lookback of s2s_session_open_turn and speech_end in s2s_session_emit.
THEOREM CommitsHandSpeech ==
  AudioSpec /\ [][OnsetSpared]_allVars => CommitHandsAllSpeech
<1>1. AudioInit => Heard /\ OnsetHeld
  <2> SUFFICES ASSUME AudioInit PROVE Heard /\ OnsetHeld
    OBVIOUS
  <2>1. Heard
    BY DEF AudioInit, Init, Heard, Stretch, TurnLives
  <2>2. Longest(params) > 0
    BY LongestIs DEF AudioInit, Init
  <2> QED
    BY <2>1, <2>2 DEF AudioInit, Init, OnsetHeld, TurnLives
<1>2. /\ TypeOK /\ TurnInv /\ Heard /\ OnsetHeld
      /\ [AudioNext]_allVars /\ [OnsetSpared]_allVars
      => (Heard /\ OnsetHeld)'
  <2> SUFFICES ASSUME TypeOK, TurnInv, Heard, OnsetHeld,
                      [AudioNext]_allVars, [OnsetSpared]_allVars
               PROVE  Heard' /\ OnsetHeld'
    OBVIOUS
  <2>1. OnsetSpared
    <3>1. UNCHANGED allVars => params' = params
      BY DEF allVars, vars
    <3>2. params' = params => OnsetSpared
      BY LongestIs DEF OnsetSpared, TypeOK
    <3> QED
      BY <3>1, <3>2
  <2>2. Heard'
    BY WindowHeard, OtherCallsHeard DEF AudioNext
  <2>3. OnsetHeld'
    BY <2>1, WindowOnset, OtherCallsOnset DEF AudioNext
  <2> QED
    BY <2>2, <2>3
<1>3. TypeOK /\ TurnInv /\ Heard /\ OnsetHeld /\ [AudioNext]_allVars =>
        [commit_at' # commit_at =>
           LET speech == SpeechOf(stream', onset)
               pcm    == handed'.pcm
           IN /\ speech \subseteq Windows(pcm)
              /\ Cardinality({n \in Windows(pcm) : \A m \in speech : m < n}) <= params.pad
        ]_allVars
  <2> SUFFICES ASSUME TypeOK, TurnInv, Heard, OnsetHeld, [AudioNext]_allVars,
                      commit_at' # commit_at
               PROVE  LET speech == SpeechOf(stream', onset)
                          pcm    == handed'.pcm
                      IN /\ speech \subseteq Windows(pcm)
                         /\ Cardinality({n \in Windows(pcm) : \A m \in speech : m < n})
                              <= params.pad
    OBVIOUS
  <2>1. PICK prob \in Probabilities, complete \in BOOLEAN : AudioWindow(prob, complete)
    BY DEF AudioNext, AudioRelease, AudioSetSpeaking, AudioSetParams, allVars, history
  <2>2. Reported("TURN_COMMITTED")
    BY <2>1 DEF AudioWindow
  <2> QED
    BY <2>1, <2>2, CommitWhole
<1> QED
  BY <1>1, <1>2, <1>3, AudioImplements, PTL DEF AudioSpec, CommitHandsAllSpeech
=============================================================================
