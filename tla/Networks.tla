------------------------------ MODULE Networks ------------------------------
(***************************************************************************)
(* The two networks every session asks about its audio: the voice activity *)
(* of src/silero.cpp and the turn classifier of src/smart-turn.cpp.  Each  *)
(* is one context for all the connections.  The voice network runs on the  *)
(* thread of its caller under a mutex, between two copies of a memory each *)
(* session keeps; the classifier has a thread of its own and a place for   *)
(* one job.                                                                *)
(*                                                                         *)
(* Audio is named by the session and the call it comes from.  A session    *)
(* makes one call at a time: it holds its lock throughout.                 *)
(***************************************************************************)
EXTENDS Integers, Sequences

CONSTANTS Streams,   \* the sessions
          MaxCalls   \* bound: calls of a session

VARIABLES
  at,        \* [Streams -> where its thread is]
  calls,     \* [Streams -> Nat], calls made
  memory,    \* [Streams -> Seq(audio)], what h and c hold
  left,      \* [Streams -> audio], the window whose tail is the left context
  frame,     \* [Streams -> the scratch: left context and window]
  inputs,    \* in_pcm, in_h and in_c of the voice graph
  owner,     \* who holds the mutex of the voice network
  caller,    \* who holds call_mutex of the classifier
  job,       \* the fields of its job
  worker,    \* "waiting", "computing" or "gone"
  recorded,  \* the last error recorded on the thread of the worker
  halt,      \* st_free raised stop
  answer,    \* [Streams -> what its last call returned]
  fed        \* history variable: [Streams -> the windows a pass took in]

sides == <<memory, left, frame, inputs, owner, fed>>
classifier == <<caller, job, worker, recorded, halt>>
networks == <<at, calls, sides, classifier, answer>>

Nothing == <<>>
Nobody == "nobody"
Audio(s) == <<s, calls[s]>>
Busy(s) == at[s] \notin {"closed", "session"}
NoJob == [audio |-> Nothing, ready |-> FALSE, done |-> FALSE, of |-> Nothing, error |-> Nothing]
Answered(of, error) == [of |-> of, error |-> error]

Init ==
  /\ at = [s \in Streams |-> "closed"] /\ calls = [s \in Streams |-> 0]
  /\ memory = [s \in Streams |-> <<>>] /\ left = [s \in Streams |-> Nothing]
  /\ frame = [s \in Streams |-> Nothing]
  /\ inputs = [frame |-> Nothing, memory |-> <<>>]
  /\ owner = Nobody /\ caller = Nobody
  /\ job = NoJob /\ worker = "waiting" /\ recorded = Nothing /\ halt = FALSE
  /\ answer = [s \in Streams |-> Answered(Nothing, Nothing)]
  /\ fed = [s \in Streams |-> <<>>]

\* A session opens with a memory of silence.
Open(s) ==
  /\ at[s] = "closed" /\ ~halt /\ calls[s] < MaxCalls
  /\ at' = [at EXCEPT ![s] = "session"]
  /\ memory' = [memory EXCEPT ![s] = <<>>] /\ left' = [left EXCEPT ![s] = Nothing]
  /\ fed' = [fed EXCEPT ![s] = <<>>]
  /\ UNCHANGED <<calls, frame, inputs, owner, classifier, answer>>

Close(s) ==
  /\ at[s] = "session" /\ at' = [at EXCEPT ![s] = "closed"]
  /\ answer' = [answer EXCEPT ![s] = Answered(Nothing, Nothing)]
  /\ UNCHANGED <<calls, sides, classifier>>

Call(s, place) ==
  /\ at[s] = "session" /\ calls[s] < MaxCalls
  /\ calls' = [calls EXCEPT ![s] = @ + 1]
  /\ at' = [at EXCEPT ![s] = place]

(* --------------------------- the voice network ------------------------- *)

\* sv_prob: the left context and the window, off the lock.
Frame(s) ==
  /\ Call(s, "framed")
  /\ frame' = [frame EXCEPT ![s] = <<left[s], <<s, calls[s] + 1>>>>]
  /\ UNCHANGED <<memory, left, inputs, owner, fed, classifier, answer>>

\* The mutex is taken and the inputs are set.
SetInputs(s) ==
  /\ at[s] = "framed" /\ owner = Nobody /\ owner' = s
  /\ inputs' = [frame |-> frame[s], memory |-> memory[s]]
  /\ at' = [at EXCEPT ![s] = "computing"]
  /\ UNCHANGED <<calls, memory, left, frame, fed, classifier, answer>>

\* A pass that fails leaves the memory as it was.
PassFails(s) == UNCHANGED <<memory, left, fed>>
PassSucceeds(s) ==
  /\ memory' = [memory EXCEPT ![s] = Append(inputs.memory, inputs.frame)]
  /\ left' = [left EXCEPT ![s] = Audio(s)]
  /\ fed' = [fed EXCEPT ![s] = Append(@, frame[s])]

Compute(s) ==
  /\ at[s] = "computing" /\ owner' = Nobody
  /\ \/ /\ PassSucceeds(s)
        /\ answer' = [answer EXCEPT ![s] = Answered(inputs.frame[2], Nothing)]
     \/ /\ PassFails(s)
        /\ answer' = [answer EXCEPT ![s] = Answered(Audio(s), Audio(s))]
  /\ at' = [at EXCEPT ![s] = "session"]
  /\ UNCHANGED <<calls, frame, inputs, classifier>>

(* --------------------------- the classifier ---------------------------- *)

\* st_predict waits for call_mutex.
Ask(s) == Call(s, "asking") /\ UNCHANGED <<sides, classifier, answer>>

\* Variant: the answer to the job before still stands.
PostedOverDone(s) == [job EXCEPT !.audio = Audio(s), !.ready = TRUE]
Posted(s) == [job EXCEPT !.audio = Audio(s), !.ready = TRUE, !.done = FALSE]
\* One caller at a time posts its job, for its whole request.
Post(s) ==
  /\ at[s] = "asking" /\ caller = Nobody /\ caller' = s
  /\ job' = Posted(s)
  /\ at' = [at EXCEPT ![s] = "waiting"]
  /\ UNCHANGED <<calls, sides, worker, recorded, halt, answer>>

Take ==
  /\ worker = "waiting" /\ job.ready /\ ~halt
  /\ job' = [job EXCEPT !.ready = FALSE] /\ worker' = "computing"
  /\ UNCHANGED <<at, calls, sides, caller, recorded, halt, answer>>

\* st_compute reads the audio of its caller; the diagnostic of a pass that
\* failed was recorded on the worker's thread and travels with the job.
Score ==
  /\ worker = "computing" /\ worker' = "waiting"
  /\ \E failed \in BOOLEAN :
       /\ recorded' = IF failed THEN job.audio ELSE recorded
       /\ job' = [job EXCEPT !.of = job.audio, !.done = TRUE,
                             !.error = IF failed THEN recorded' ELSE Nothing]
  /\ UNCHANGED <<at, calls, sides, caller, halt, answer>>

Return(s) ==
  /\ at[s] = "waiting" /\ job.done /\ caller' = Nobody
  /\ answer' = [answer EXCEPT ![s] = Answered(job.of, job.error)]
  /\ at' = [at EXCEPT ![s] = "session"]
  /\ UNCHANGED <<calls, sides, job, worker, recorded, halt>>

\* st_free, once every connection is closed; it joins the worker.
Halt ==
  /\ ~halt /\ \A s \in Streams : at[s] = "closed"
  /\ halt' = TRUE
  /\ UNCHANGED <<at, calls, sides, caller, job, worker, recorded, answer>>
Leave ==
  /\ halt /\ worker = "waiting" /\ worker' = "gone"
  /\ UNCHANGED <<at, calls, sides, caller, job, recorded, halt, answer>>

Next ==
  \/ \E s \in Streams :
       \/ Open(s) \/ Close(s)
       \/ Frame(s) \/ SetInputs(s) \/ Compute(s)
       \/ Ask(s) \/ Post(s) \/ Return(s)
  \/ Take \/ Score \/ Halt \/ Leave

Spec == Init /\ [][Next]_networks

(* ------------------------------ properties ----------------------------- *)

\* A score is that of the audio it was asked for, and an error that of its
\* own pass, whoever else asked meanwhile and whatever passes failed; the
\* memory of a session holds the windows that went through, in their order,
\* each behind the tail of the one before, and nobody else's.
ScoresAreOwn ==
  \A s \in Streams :
    /\ at[s] = "session" /\ answer[s].of # Nothing =>
         /\ answer[s].of = Audio(s)
         /\ answer[s].error \in {Nothing, Audio(s)}
    /\ at[s] # "closed" =>
         /\ memory[s] = fed[s]
         /\ \A i \in 1 .. Len(fed[s]) :
              /\ fed[s][i][2][1] = s
              /\ fed[s][i][1] = IF i = 1 THEN Nothing ELSE fed[s][i - 1][2]

\* A session that asked gets its answer, whatever passes fail.
EveryScoreGiven == \A s \in Streams : Busy(s) ~> ~Busy(s)
=============================================================================
