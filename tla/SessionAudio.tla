---------------------------- MODULE SessionAudio ----------------------------
(***************************************************************************)
(* The audio of the turn session, src/s2s-session.cpp: what a turn holds,  *)
(* what a commit hands over, and when.  A window is named by its number in *)
(* the stream; the state machine itself is module Session.                 *)
(***************************************************************************)
EXTENDS Session, FiniteSets

CONSTANT MaxWindows   (* bound: windows of audio the client sends            *)

ASSUME MaxWindowsAssumption == MaxWindows \in Nat

VARIABLES
  lookback,      (* the most recent windows, up to the capacity of the ring  *)
  turn_pcm,      (* the windows the turn holds                               *)
  speech_end     (* how many of them up to the last speech                   *)

(* History, read by the properties only.                                   *)
VARIABLES
  stream,        (* for every window since the start, whether it was speech  *)
  onset,         (* the first window of the speech that opened the turn      *)
  boundary,      (* the number of windows heard at the last SPEECH_STOPPED   *)
  commit_at,     (* ... and at the last TURN_COMMITTED                       *)
  complete_turn, (* what the classifier said at the last boundary            *)
  handed,        (* what the last commit handed over, and of which turn      *)
  patched        (* a patch landed since the last boundary                   *)

audio   == <<lookback, turn_pcm, speech_end>>
history == <<stream, onset, boundary, commit_at, complete_turn, handed, patched>>
allVars == <<vars, audio, history>>

Smaller(a, b) == IF a < b THEN a ELSE b
Larger(a, b)  == IF a > b THEN a ELSE b

(* SampleRing: a push overwrites the oldest, a new capacity keeps the most *)
(* recent that fit.                                                        *)
LastOf(s, n) == SubSeq(s, Len(s) - Smaller(n, Len(s)) + 1, Len(s))

LookbackCapacity(p) == Larger(p.open, p.barge) + p.pad

Reported(event) == \E i \in DOMAIN reports' : reports'[i].event = event

(* Variants: a turn that stops growing at its commit; one emptied by it;   *)
(* the silence of the turn handed over with it.                            *)
GrowsWhileOpen == phase # "IDLE"
KeptUncommitted == IF committed THEN <<>> ELSE turn_pcm
HandedWhole == turn_pcm'

(* The turn takes the window while it is open or resumable.                *)
Grows == phase # "IDLE" \/ StillOpen

(* A final turn is emptied.                                                *)
Kept == IF FinalNow THEN <<>> ELSE turn_pcm

(* s2s_session_emit on a commit: the turn up to the pad after its speech.  *)
HandedOver == SubSeq(turn_pcm', 1, Smaller(Len(turn_pcm'), speech_end' + params.pad))

(* The audio side of s2s_session_window, in its order: the final clears    *)
(* the turn, the ring takes the window, the turn takes it if it is open or *)
(* committed, and a turn that opens starts from the ring.                  *)
TakeWindow(prob) ==
  LET n      == Len(stream) + 1
      held   == IF Grows THEN Append(Kept, n) ELSE Kept
      opened == turn_id' # turn_id
  IN /\ lookback' = LastOf(Append(lookback, n), LookbackCapacity(params))
     /\ turn_pcm' = IF opened THEN lookback' ELSE held
     /\ speech_end' = IF opened THEN Len(lookback')
                      ELSE IF Grows /\ IsSpeech(prob) THEN Len(held)
                      ELSE speech_end
     /\ onset' = IF opened THEN n - SpeechRun(prob) + 1 ELSE onset

AudioWindow(prob, complete) ==
  /\ Len(stream) < MaxWindows
  /\ Window(prob, complete)
  /\ TakeWindow(prob)
  /\ stream' = Append(stream, IsSpeech(prob))
  /\ IF Reported("SPEECH_STOPPED")
     THEN boundary' = Len(stream') /\ complete_turn' = complete /\ patched' = FALSE
     ELSE UNCHANGED <<boundary, complete_turn, patched>>
  /\ IF Reported("TURN_COMMITTED")
     THEN commit_at' = Len(stream') /\ handed' = [turn |-> turn_id, pcm |-> HandedOver]
     ELSE UNCHANGED <<commit_at, handed>>

AudioRelease(t, r) ==
  /\ Release(t, r)
  /\ turn_pcm' = IF Reported("TURN_FINAL") THEN <<>> ELSE turn_pcm
  /\ UNCHANGED <<lookback, speech_end, history>>

AudioSetSpeaking(s) == SetSpeaking(s) /\ UNCHANGED <<audio, history>>

AudioSetParams(p) ==
  /\ SetParams(p)
  /\ lookback' = LastOf(lookback, LookbackCapacity(p))
  /\ patched' = TRUE
  /\ UNCHANGED <<turn_pcm, speech_end, stream, onset, boundary, commit_at,
                 complete_turn, handed>>

AudioInit ==
  /\ Init
  /\ lookback = <<>>
  /\ turn_pcm = <<>>
  /\ speech_end = 0
  /\ stream = <<>>
  /\ onset = 1
  /\ boundary = 0
  /\ commit_at = 0
  /\ complete_turn = FALSE
  /\ handed = [turn |-> 0, pcm |-> <<>>]
  /\ patched = FALSE

AudioNext ==
  \/ \E prob \in Probabilities, complete \in BOOLEAN : AudioWindow(prob, complete)
  \/ AudioRelease(turn_id, revision)
  \/ \E s \in BOOLEAN : AudioSetSpeaking(s)
  \/ \E p \in Params \ {params} : AudioSetParams(p)

AudioSpec == AudioInit /\ [][AudioNext]_allVars

----------------------------------------------------------------------------
TurnLives == phase # "IDLE" \/ committed

(* The audio of a turn in flight, resumable included, is the stream itself *)
(* up to now, without a gap and without a repeat: the resumption of a      *)
(* committed turn continues it through the silence it waited.              *)
AudioContinuous ==
  TurnLives =>
    /\ turn_pcm # <<>>
    /\ turn_pcm[Len(turn_pcm)] = Len(stream)
    /\ \A i \in 1..(Len(turn_pcm) - 1) : turn_pcm[i + 1] = turn_pcm[i] + 1
    /\ speech_end \in 1..Len(turn_pcm)

SpeechOf(s, from) == {n \in from..Len(s) : s[n]}
Windows(s) == {s[i] : i \in DOMAIN s}

(* Every commit hands over all the speech since the onset of its turn,     *)
(* whatever revisions went before, and at most the pad of silence after it *)
(* (speech_end and the pad in s2s_session_emit, the lookback in open_turn). *)
CommitHandsAllSpeech ==
  [][commit_at' # commit_at =>
       LET speech == SpeechOf(stream', onset)
           pcm    == handed'.pcm
       IN /\ speech \subseteq Windows(pcm)
          /\ Cardinality({n \in Windows(pcm) : \A m \in speech : m < n}) <= params.pad
    ]_allVars

(* The next revision of a turn hands over what the last one did, and more. *)
RevisionsExtend ==
  [][handed' # handed /\ handed'.turn = handed.turn =>
       /\ Len(handed'.pcm) > Len(handed.pcm)
       /\ SubSeq(handed'.pcm, 1, Len(handed.pcm)) = handed.pcm
    ]_allVars

(* The floor is the assistant's exactly when the thresholds say, counted   *)
(* from the speech to silence boundary: after the grace for a turn judged  *)
(* complete, after the whole wait for one judged incomplete, however it is *)
(* split between the delay and the grace.                                  *)
HeardByWait ==
  committed /\ grace_left > 0 /\ ~patched =>
    (Len(stream) - boundary) + grace_left
      = (IF complete_turn THEN params.grace ELSE params.wait)

(* s2s-session.cpp 252 to 254: a resumption takes speech that starts after *)
(* the commit, so a silence separates it from the speech of the commit.    *)
(* The code does not keep it: see the README.                              *)
ResumeTakesNewSpeech ==
  [][committed /\ Reported("TURN_RESUMED") =>
       \E n \in commit_at..Len(stream') : ~stream'[n]]_allVars
=============================================================================
