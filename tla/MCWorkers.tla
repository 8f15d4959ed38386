------------------------------ MODULE MCWorkers ------------------------------
(***************************************************************************)
(* The contexts all the connections share: the echo canceller, and the two *)
(* networks, checked side by side, each alone from its start.              *)
(***************************************************************************)
EXTENDS EchoWorker

CONSTANTS MaxCalls

VARIABLES part, at, calls, memory, left, frame, inputs, owner, caller, job, worker, recorded,
          halt, answer, fed

networks ==
  <<at, calls, memory, left, frame, inputs, owner, caller, job, worker, recorded, halt, answer,
    fed>>
Nets == INSTANCE Networks

MCInit == part \in {"canceller", "networks"} /\ Init /\ Nets!Init
Canceller(A) == part = "canceller" /\ A /\ UNCHANGED <<part, networks>>
Network(A) == part = "networks" /\ A /\ UNCHANGED <<part, vars>>
MCNext == Canceller(Next) \/ Network(Nets!Next)

\* The workers run, and a caller that was answered returns; a mutex is given
\* in the end to a thread that waits for it, however often others take it.
MCVars == <<part, vars, networks>>
MCSpec ==
  /\ MCInit /\ [][MCNext]_MCVars
  /\ WF_MCVars(Canceller(Worker))
  /\ WF_MCVars(Network(Nets!Take \/ Nets!Score))
  /\ \A s \in Streams :
       /\ WF_MCVars(Canceller(built /\ ~stop /\ Return(s)))
       /\ WF_MCVars(Network(Nets!Compute(s) \/ Nets!Return(s)))
       /\ SF_MCVars(Network(Nets!SetInputs(s) \/ Nets!Post(s)))

ScoresAreOwn == Nets!ScoresAreOwn

\* No caller of a shared context waits for ever: a hop of the canceller, a
\* window, a turn.
EveryCallAnswered == EveryHopAnswered /\ Nets!EveryScoreGiven
==============================================================================
