------------------------------ MODULE LogRing -------------------------------
(***************************************************************************)
(* The log capture of src/log-capture.h: stderr is a pipe, a reader thread *)
(* forwards it to the real stderr and to a ring of the latest lines, and   *)
(* each GET /logs follows the ring.  The capture ends at the exit of the   *)
(* process, or in the handler of a crash.                                  *)
(*                                                                         *)
(* A line is its number.  Those of the pipe count from 0, so that the n-th *)
(* of them is also the n-th of the ring, and those written straight to the *)
(* terminal from -1 down.  The pipe holds Room lines, and a write to a full *)
(* one waits; the terminal takes what it is given.  A step is what a thread *)
(* does under mtx_log, or between two holds of it.                         *)
(***************************************************************************)
EXTENDS Integers, Sequences, FiniteSets

CONSTANTS Followers,   \* the clients of /logs
          Size,        \* LOG_RING_SIZE
          Room,        \* the lines the pipe holds
          MaxLines     \* bound: lines logged

ASSUME LogAssumption == Size \in Nat \ {0} /\ Room \in Nat \ {0} /\ MaxLines \in Nat

VARIABLES
  piped,      \* lines that went into the pipe
  straight,   \* lines written straight to the terminal
  captured,   \* stderr is the pipe
  pipe,       \* lines in the pipe
  entering,   \* writes to the pipe that began: "line", "last words"
  terminal,   \* lines on the real stderr
  partial,    \* lines the reader has forwarded and not yet stored
  ring, log_seq,
  drained,    \* g_log_drained: the reader returned
  main,       \* "running", "stopping" (log_capture_stop joins), "exited"
  crash,      \* "none", "reader", or of another thread, see CrashStages
  held,       \* what the thread that crashed holds: mtx_log, the lock of the heap
  at,         \* [Followers -> where], see Places
  cursor,     \* [Followers -> Nat]
  first,      \* [Followers -> Nat], history: its cursor when it came
  sent,       \* [Followers -> Seq(Nat)], history: the lines it was sent
  lagged      \* [Followers -> BOOLEAN], history: it took a line overwritten

capture == <<piped, straight, captured, pipe, entering, terminal, partial>>
store == <<ring, log_seq>>
process == <<drained, main, crash, held>>
followers == <<at, cursor, first, sent, lagged>>
vars == <<capture, store, process, followers>>

\* The handler names the crash, writes it, restores stderr, waits and dies.
CrashStages == {"naming", "writing", "restoring", "draining", "dead"}

\* A follower replays the ring on its first call (replay), then waits and
\* takes what came, call after call; it writes with the lock released.
Places == {"away", "replay", "replaying", "calling", "waiting", "taking", "writing"}

Index(n) == n % Size

Init ==
  /\ piped = 0 /\ straight = 0 /\ captured = TRUE
  /\ pipe = <<>> /\ entering = {} /\ terminal = <<>> /\ partial = <<>>
  /\ ring = [i \in 0 .. Size - 1 |-> 0] /\ log_seq = 0
  /\ drained = FALSE /\ main = "running" /\ crash = "none" /\ held = {}
  /\ at = [f \in Followers |-> "away"]
  /\ cursor = [f \in Followers |-> 0]
  /\ first = [f \in Followers |-> 0]
  /\ sent = [f \in Followers |-> <<>>]
  /\ lagged = [f \in Followers |-> FALSE]

(* ----------------------------- the capture ----------------------------- *)

\* A write begins on what stderr is now: the pipe, or the terminal.
StraightOut ==
  /\ straight' = straight + 1 /\ terminal' = Append(terminal, -(straight + 1))
  /\ UNCHANGED <<piped, captured, pipe, entering, partial>>
Write(what) ==
  \/ /\ captured /\ entering' = entering \cup {what}
     /\ UNCHANGED <<piped, straight, captured, pipe, terminal, partial>>
  \/ ~captured /\ StraightOut

\* It ends in the pipe once there is room, whatever stderr is by then.
Enter(what) ==
  /\ what \in entering /\ entering' = entering \ {what}
  /\ Len(pipe) < Room
  /\ pipe' = Append(pipe, piped) /\ piped' = piped + 1
  /\ UNCHANGED <<straight, captured, terminal, partial>>

\* s2s_log: one line at a time, stdio locks the stream.
Log ==
  /\ main # "exited" /\ piped + straight < MaxLines /\ "line" \notin entering
  /\ Write("line")
  /\ UNCHANGED <<store, process, followers>>

Logged == Enter("line") /\ UNCHANGED <<store, process, followers>>

\* The reader forwards what one read returns, before it stores it.
Read ==
  /\ ~drained /\ crash # "reader" /\ partial = <<>> /\ pipe # <<>>
  /\ \E n \in 1 .. Len(pipe) :
       /\ partial' = SubSeq(pipe, 1, n)
       /\ terminal' = terminal \o SubSeq(pipe, 1, n)
       /\ pipe' = SubSeq(pipe, n + 1, Len(pipe))
  /\ UNCHANGED <<piped, straight, captured, entering, store, process, followers>>

\* notify_all: everyone who waits goes on.
Woken == [f \in Followers |-> IF at[f] = "waiting" THEN "taking" ELSE at[f]]

Store ==
  /\ crash # "reader" /\ partial # <<>> /\ "log" \notin held
  /\ ring' = [ring EXCEPT ![Index(log_seq)] = Head(partial)]
  /\ log_seq' = log_seq + 1
  /\ partial' = Tail(partial)
  /\ at' = Woken
  /\ UNCHANGED <<piped, straight, captured, pipe, entering, terminal, process, cursor, first,
                 sent, lagged>>

\* No write end is left, and the pipe is empty.
EndOfFile ==
  /\ ~drained /\ crash # "reader"
  /\ ~captured /\ entering = {} /\ pipe = <<>> /\ partial = <<>>
  /\ drained' = TRUE
  /\ UNCHANGED <<capture, store, main, crash, held, followers>>

\* log_capture_stop: stderr is restored, the followers are woken.
Stop ==
  /\ main = "running"
  /\ main' = "stopping"
  /\ captured' = FALSE
  /\ at' = Woken
  /\ UNCHANGED <<piped, straight, pipe, entering, terminal, partial, store, drained, crash, held,
                 cursor, first, sent, lagged>>

\* Variant: the process leaves without the reader.
ReaderJoinedUnawaited == TRUE
ReaderJoined == drained

Exit ==
  /\ main = "stopping" /\ ReaderJoined
  /\ main' = "exited"
  /\ UNCHANGED <<capture, store, drained, crash, held, followers>>

(* ------------------------------- crashes ------------------------------- *)

\* A thread crashes with mtx_log or the lock of the heap in its hands, with
\* both or with neither; the reader may be the one.
Crash ==
  /\ crash = "none" /\ main # "exited"
  /\ \/ crash' = "naming"
     \/ ~drained /\ crash' = "reader"
  /\ held' \in SUBSET {"log", "heap"}
  /\ UNCHANGED <<capture, store, drained, main, followers>>

\* The handler builds its line in the heap: with the lock of the heap held it
\* may never get there.  It is written as any other line.
Name ==
  /\ crash = "naming"
  /\ Write("last words")
  /\ crash' = IF captured THEN "writing" ELSE "restoring"
  /\ UNCHANGED <<store, drained, main, held, followers>>

Named ==
  /\ crash = "writing" /\ crash' = "restoring"
  /\ Enter("last words")
  /\ UNCHANGED <<store, drained, main, held, followers>>

Restore ==
  /\ crash = "restoring" /\ crash' = "draining"
  /\ captured' = FALSE
  /\ UNCHANGED <<piped, straight, pipe, entering, terminal, partial, store, drained, main, held,
                 followers>>

\* On the reader itself the line goes straight out, and the process with it.
NameReader ==
  /\ crash = "reader" /\ crash' = "dead"
  /\ StraightOut
  /\ UNCHANGED <<store, drained, main, held, followers>>

\* Variant: the crash waits for the reader without a bound.
DrainOverJoined == drained
\* The wait ends with the reader, or after LOG_CRASH_DRAIN_MS.
DrainOver == TRUE

Die ==
  /\ crash = "draining" /\ DrainOver
  /\ crash' = "dead"
  /\ UNCHANGED <<capture, store, drained, main, held, followers>>

(* ------------------------------ a follower ----------------------------- *)

LogFree == "log" \notin held
Move(f, from, to) == at[f] = from /\ at' = [at EXCEPT ![f] = to]

Connect(f) ==
  /\ Move(f, "away", "replay") /\ sent[f] = <<>> /\ LogFree
  /\ cursor' = [cursor EXCEPT ![f] = IF log_seq < Size THEN 0 ELSE log_seq - Size]
  /\ first' = [first EXCEPT ![f] = cursor'[f]]
  /\ UNCHANGED <<capture, store, process, sent, lagged>>

\* Under the lock: the slot of the cursor, whatever it holds by now.
Take(f, from, to) ==
  /\ Move(f, from, to) /\ cursor[f] < log_seq /\ LogFree
  /\ sent' = [sent EXCEPT ![f] = Append(@, ring[Index(cursor[f])])]
  /\ lagged' = [lagged EXCEPT ![f] = @ \/ cursor[f] + Size < log_seq]
  /\ cursor' = [cursor EXCEPT ![f] = @ + 1]
  /\ UNCHANGED <<capture, store, process, first>>

\* The write off the lock: the client reads at its pace, or is gone.
Sent(f, from, to) ==
  /\ Move(f, from, to) \/ Move(f, from, "away")
  /\ UNCHANGED <<capture, store, process, cursor, first, sent, lagged>>

\* The first call waits at once; the next ones release the lock between.
CaughtUp(f, from, to) ==
  /\ Move(f, from, to) /\ cursor[f] = log_seq /\ LogFree
  /\ UNCHANGED <<capture, store, process, cursor, first, sent, lagged>>

Call(f) ==
  /\ Move(f, "calling", "waiting") /\ LogFree
  /\ UNCHANGED <<capture, store, process, cursor, first, sent, lagged>>

\* Variant: a wait that only a notification ends.
WaitOverNotified(f) == FALSE
\* wait_for gives up after two seconds.
WaitOver(f) == LogFree

TimeOut(f) ==
  /\ Move(f, "waiting", "taking") /\ WaitOver(f)
  /\ UNCHANGED <<capture, store, process, cursor, first, sent, lagged>>

Follow(f) ==
  \/ Take(f, "replay", "replaying") \/ Sent(f, "replaying", "replay")
  \/ CaughtUp(f, "replay", "waiting")
  \/ Call(f) \/ TimeOut(f)
  \/ Take(f, "taking", "writing") \/ Sent(f, "writing", "taking")
  \/ CaughtUp(f, "taking", "calling")

Reader == Read \/ Store \/ EndOfFile

Alive == crash # "dead" /\ main # "exited"

Next ==
  /\ Alive
  /\ Log \/ Logged \/ Reader \/ Stop \/ Exit \/ Crash
     \/ Name \/ Named \/ Restore \/ NameReader \/ Die
     \/ \E f \in Followers : Connect(f) \/ Follow(f)

Spec == Init /\ [][Next]_vars

\* The reader, the exit, the handler and the followers go on, those that may
\* need the heap as long as nobody crashed with its lock; the threads that
\* wait for room in the pipe get it in turn.
HeapFree == "heap" \notin held
FairSpec ==
  /\ Spec
  /\ WF_vars(Alive /\ HeapFree /\ Reader) /\ WF_vars(Alive /\ Exit)
  /\ WF_vars(Alive /\ HeapFree /\ (Name \/ NameReader)) /\ WF_vars(Alive /\ (Restore \/ Die))
  /\ SF_vars(Alive /\ Named) /\ SF_vars(Alive /\ Logged)
  /\ \A f \in Followers : WF_vars(Alive /\ HeapFree /\ Follow(f))

(* ------------------------------ properties ----------------------------- *)

\* At the exit the pipe is drained: every line written is on the terminal,
\* once, those of the other threads after the restoration included, and those
\* they had begun to write before it.
ExitKeepsLines ==
  main = "exited" =>
    /\ entering = {} /\ Len(terminal) = piped + straight
    /\ {terminal[i] : i \in DOMAIN terminal} = -straight .. piped - 1

\* A follower that keeps within a ring of the reader gets the latest lines,
\* then every new one, in order.
FollowerInStep ==
  \A f \in Followers :
    ~lagged[f] => /\ cursor[f] = first[f] + Len(sent[f])
                  /\ \A i \in DOMAIN sent[f] : sent[f][i] = first[f] + i - 1

\* No line is lost, by the exit or by a follower that keeps up.
NoLineLost == ExitKeepsLines /\ FollowerInStep

\* /logs sends the ring, then every new line as it comes: never a line twice,
\* never a line before an older one.
\* The code does not keep it: see the README.
FollowerInOrder ==
  \A f \in Followers :
    \A i, j \in DOMAIN sent[f] : i < j => sent[f][i] < sent[f][j]

\* Every line in the ring reaches a follower that stays, although the wakeup
\* of a line stored between two of its calls is lost.
EveryLineFollowed ==
  \A f \in Followers : \A n \in 1 .. MaxLines + 1 :
    (at[f] # "away" /\ log_seq = n)
      ~> (at[f] = "away" \/ cursor[f] >= n \/ held # {} \/ ~Alive)

\* The last words wait for room in a pipe that nobody will empty: the reader
\* waits for the mutex of the thread that writes them.
Wedged ==
  /\ crash = "writing" /\ ~LogFree
  /\ partial # <<>> /\ Len(pipe) = Room

\* A crash ends the process, over a pipe that is full, other threads that go
\* on writing, and a reader that cannot go on: unless the handler found the
\* lock of the heap held before its line was written, or mtx_log with the
\* pipe full behind the reader.
CrashEnds ==
  crash # "none" /\ (HeapFree \/ crash \in {"restoring", "draining"}) ~> ~Alive \/ Wedged

\* "The wait is bounded, never a join: the crashed thread may hold a lock the
\* reader needs, the log ring or the heap, and a crash must end the process,
\* not hang it" (log-capture.h:158-160).
\* The code does not keep it: see the README.
CrashAlwaysEnds == crash # "none" ~> ~Alive
=============================================================================
