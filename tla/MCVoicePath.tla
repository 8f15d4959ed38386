----------------------------- MODULE MCVoicePath ------------------------------
(***************************************************************************)
(* What stands along the voice of one connection: the models it is loaded  *)
(* with, the path of the microphone, the recognizer, the splitter of the   *)
(* answer and the speech of its units, checked side by side, each alone    *)
(* from its start.                                                         *)
(***************************************************************************)
EXTENDS Recognizer

CONSTANTS
  MaxWritten, MaxDelta,
  Orig, Newf, Width, Hop, MaxFrame, MaxInstants, MaxRestarts,
  Names, Languages, MaxUnits, MaxEvents,
  MaxRecognitions

\* The directory of the voices is read whole; "auto" is no language.
ASSUME NamesAssumption == Names \in Nat /\ "auto" \notin Languages
\* The rates are positive once reduced, and so is the hop of a canceller.
ASSUME MicAssumption ==
  /\ Orig \in Nat \ {0} /\ Newf \in Nat \ {0} /\ Hop \in Nat \ {0} /\ Width \in Nat
  /\ MaxFrame \in Nat

VARIABLES
  part,
  pending, consumed, units, cutting, flushed, written,
  now, loud, mic, ref, running, aec_mic, aec_ref, weight, last, restarts, begun, processed,
  weighed,
  files, bridge, asked, at, request, verdict, cancel, sending, samples, unit, events, raised,
  doing, step, cleanup, failed, thrown, held, stage, left, early, recognized

\* A word starts with a marker, a piece may be one alone or hold one inside.
MCPieces == {<<"_">>, <<"_", "a">>, <<"a", "_", "a">>, <<"<", ">">>}

Mic == INSTANCE MicPath
Split == INSTANCE SentenceSplit
Spk == INSTANCE Speech
Mod == INSTANCE Loading

micpath == <<now, loud, mic, ref, running, aec_mic, aec_ref, weight, last, restarts, begun,
             processed, weighed>>
splitter == <<pending, consumed, units, cutting, flushed, written>>
speech == <<files, bridge, asked, at, request, verdict, cancel, sending, samples, unit, events,
            raised>>
models == <<doing, step, cleanup, failed, thrown, held, stage, left, early, recognized>>
MCVars == <<part, splitter, micpath, recognizer, speech, models>>

Parts == {"microphone", "recognizer", "splitter", "speech", "models"}
\* Only the part that runs chooses how it starts.
MCInit ==
  /\ part \in Parts
  /\ Init /\ Mic!Init /\ Split!Init /\ Spk!Init /\ Mod!Init
  /\ part # "recognizer" => ~listening
  /\ part # "speech" => \A i \in 1 .. Names : files[i] = [spk |-> "absent", rvq |-> "absent",
                                                          txt |-> "absent"]
MCNext ==
  /\ UNCHANGED part
  /\ \/ part = "microphone" /\ Mic!Next /\ UNCHANGED <<splitter, recognizer, speech, models>>
     \/ part = "recognizer" /\ Next /\ UNCHANGED <<splitter, micpath, speech, models>>
     \/ part = "splitter" /\ Split!Next /\ UNCHANGED <<micpath, recognizer, speech, models>>
     \/ part = "speech" /\ Spk!Next /\ UNCHANGED <<splitter, micpath, recognizer, models>>
     \/ part = "models" /\ Mod!Next /\ UNCHANGED <<splitter, micpath, recognizer, speech>>
MCSpec == MCInit /\ [][MCNext]_MCVars

HopsInStep == Mic!HopsInStep
UnitsOfWritten == Split!UnitsOfWritten
UnitIsHeard == Spk!UnitIsHeard
NothingLeft == Mod!NothingLeft
==============================================================================
