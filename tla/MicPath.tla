------------------------------ MODULE MicPath -------------------------------
(***************************************************************************)
(* The path of the microphone, from the callback of the client to the      *)
(* session: the pairs of src/tools/s2s-cli.cpp and the reference it sends  *)
(* or leaves out, the two resampled streams of src/audio-resample.h, and   *)
(* the hops conn_cancel_echo of src/s2s-conversation.cpp cuts them into    *)
(* for the canceller, which is made anew whenever the page asks.           *)
(*                                                                         *)
(* A sample of the client is the instant it was captured at.  A resampled  *)
(* one is the window of the input its kernel covers.                       *)
(***************************************************************************)
EXTENDS Integers, Sequences

CONSTANTS Orig, Newf,  \* the two rates, reduced
          Width,       \* the lookahead of the kernel
          Hop,         \* samples of a hop of the canceller
          MaxFrame,    \* bound: samples of a frame
          MaxInstants, \* bound: samples captured
          MaxRestarts  \* bound: changes of the method

VARIABLES
  now,       \* samples captured and sent
  loud,      \* the instants at which something played
  mic, ref,  \* the inputs of each stream not consumed yet
  running,   \* a canceller runs
  aec_mic, aec_ref, \* resampled, and not a whole hop yet
  weight,    \* the hop whose microphone energy is kept, when it played
  last,      \* the hop the canceller holds: its output comes with the next
  restarts,
  begun,     \* the instant the streams started at
  processed, \* history variable: the hops since
  weighed    \* history variable: the hop cleaned, and the one it was weighed with

micpath == <<now, loud, mic, ref, running, aec_mic, aec_ref, weight, last, restarts, begun,
             processed, weighed>>

K == 2 * Width + Orig
Silent == [at |-> 0, loud |-> FALSE]
\* A stream starts with a lookahead of zeros.
Pad == [i \in 1 .. Width |-> Silent]
NoHop == [mic |-> <<>>, ref |-> <<>>]

Init ==
  /\ now = 0 /\ loud = {} /\ mic = Pad /\ ref = Pad
  /\ running = FALSE /\ aec_mic = <<>> /\ aec_ref = <<>>
  /\ weight = NoHop /\ last = NoHop
  /\ restarts = 0 /\ begun = 0 /\ processed = <<>> /\ weighed = <<NoHop, NoHop>>

(* ------------------------------- resampling ---------------------------- *)

\* The windows of a history, one for every Orig samples while one is whole.
Windows(history) == IF Len(history) < K THEN 0 ELSE (Len(history) - K) \div Orig + 1
\* Newf samples for each of them.
Out(history) ==
  [i \in 1 .. Windows(history) * Newf |->
     LET pos == ((i - 1) \div Newf) * Orig IN
       [window |-> SubSeq(history, pos + 1, pos + K), phase |-> (i - 1) % Newf]]
Rest(history) == SubSeq(history, Windows(history) * Orig + 1, Len(history))

(* --------------------------------- hops -------------------------------- *)

Loud(samples) ==
  \E i \in DOMAIN samples : \E k \in DOMAIN samples[i].window : samples[i].window[k].loud

HopOf(m, r, i) ==
  [mic |-> SubSeq(m, (i - 1) * Hop + 1, i * Hop), ref |-> SubSeq(r, (i - 1) * Hop + 1, i * Hop)]
Kept(hop) == IF Loud(hop.ref) THEN hop ELSE NoHop

\* The canceller takes every whole hop.  Each hands back the one before,
\* weighed against the energy kept of it, when it played.
CancelEcho(m, r) ==
  LET n == Len(m) \div Hop
      hops == [i \in 1 .. n |-> HopOf(m, r, i)]
      before(i) == IF i = 1 THEN last ELSE hops[i - 1]
      kept(i) == IF i = 1 THEN weight ELSE Kept(hops[i - 1])
      heavy == {i \in 1 .. n : kept(i) # NoHop}
  IN  /\ processed' = processed \o hops
      /\ last' = IF n = 0 THEN last ELSE hops[n]
      /\ weight' = IF n = 0 THEN weight ELSE Kept(hops[n])
      /\ weighed' = IF heavy = {} THEN weighed
                    ELSE LET i == CHOOSE i \in heavy : \A j \in heavy : j <= i
                         IN <<before(i), kept(i)>>
      /\ aec_mic' = SubSeq(m, n * Hop + 1, Len(m))
      /\ aec_ref' = SubSeq(r, n * Hop + 1, Len(r))

(* -------------------------------- a frame ------------------------------ *)

Instants(n) == now + 1 .. now + n
Capture(n) == [i \in 1 .. n |-> [at |-> now + i, loud |-> FALSE]]

\* The reference travels when any sample of the frame played.
Played(n, sounds) == sounds # {}
Reference(n, sounds) ==
  [i \in 1 .. n |-> [at |-> now + i, loud |-> now + i \in sounds /\ Played(n, sounds)]]

\* A frame of any length reaches the connection; the reference is only
\* resampled for a canceller, silence in its place when it was left out.
Frame ==
  \E n \in 1 .. MaxFrame : \E sounds \in {{}, {now + n}, Instants(n)} :
    /\ now + n <= MaxInstants
    /\ now' = now + n
    /\ loud' = loud \union sounds
    /\ LET m == mic \o Capture(n)
           r == ref \o Reference(n, sounds)
       IN  /\ mic' = Rest(m)
           /\ IF running
              THEN ref' = Rest(r) /\ CancelEcho(aec_mic \o Out(m), aec_ref \o Out(r))
              ELSE UNCHANGED <<ref, aec_mic, aec_ref, weight, last, processed, weighed>>
    /\ UNCHANGED <<running, restarts, begun>>

\* Variant: the stream that was still goes on.
RestartMicrophone == mic' = Pad /\ UNCHANGED ref
\* The microphone and the reference restart together.
RestartStreams == mic' = Pad /\ ref' = Pad

\* The page names another method: a fresh canceller, or none.
Restart ==
  /\ restarts < MaxRestarts /\ restarts' = restarts + 1
  /\ running' \in BOOLEAN
  /\ RestartStreams
  /\ aec_mic' = <<>> /\ aec_ref' = <<>>
  /\ weight' = NoHop /\ last' = NoHop
  /\ begun' = now /\ processed' = <<>>
  /\ UNCHANGED <<now, loud, weighed>>

Next == Frame \/ Restart
Spec == Init /\ [][Next]_micpath

(* ------------------------------ properties ----------------------------- *)

At(sample) == [k \in DOMAIN sample.window |-> sample.window[k].at]
\* What a resampled stream is made of when it comes in one piece.
Whole(i) ==
  LET first == begun + ((i - 1) \div Newf) * Orig - Width IN
    [k \in 1 .. K |-> IF first + k <= begun THEN 0 ELSE first + k]

\* Whatever the lengths of the frames, the references left out and the
\* cancellers made, the hops are those of streams that came in one piece:
\* sample for sample, the microphone and the reference of a hop are of the
\* same instants, and the reference is what played then.
HopsInStep ==
  /\ \A h \in DOMAIN processed : \A i \in 1 .. Hop :
       LET hop == processed[h] IN
       /\ At(hop.mic[i]) = Whole((h - 1) * Hop + i) /\ At(hop.ref[i]) = At(hop.mic[i])
       /\ hop.ref[i].phase = hop.mic[i].phase
       /\ \A k \in 1 .. K : LET sample == hop.ref[i].window[k] IN
            sample.loud = (sample.at \in loud)
  /\ weighed[1].mic = weighed[2].mic
=============================================================================
