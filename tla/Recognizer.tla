----------------------------- MODULE Recognizer -----------------------------
(***************************************************************************)
(* The recognizer of one turn: the greedy loop of src/tdt-decoder.h over   *)
(* the frames of the encoder, the words src/sp-detok.h makes of its pieces *)
(* and what pk_transcribe of src/parakeet.cpp hands its caller.            *)
(*                                                                         *)
(* What the networks answer is free: at every step any piece or the blank, *)
(* with any duration.  A piece is a sequence of markers of a space and of  *)
(* letters; the special ones are written in no text.                       *)
(***************************************************************************)
EXTENDS Integers, Sequences

CONSTANTS Frames,       \* the frames of the turn
          Durations,    \* the durations of the model
          MaxSymbols,   \* its pieces at one frame
          Pieces        \* its table of pieces

Special == <<"<", ">">>
Marker == "_"

ASSUME RecognizerAssumption ==
  /\ Frames \in Nat /\ MaxSymbols \in Nat
  /\ Durations \subseteq Nat /\ Pieces \subseteq Seq(STRING)

VARIABLES
  listening,  \* the caller gave an on_token
  status,     \* "run", PK_STATUS_OK, _CANCELLED or _DECODE_FAILED
  frame,
  symbols,    \* pieces since the frame was last left by a blank or the cap
  text,       \* the transcript being built
  result,     \* what the caller gets
  steps,      \* stats.n_steps
  here,       \* history variable: steps at this very frame
  spelled,    \* history variable: the pieces the loop took
  handed      \* history variable: what on_token was given

decoder == <<frame, symbols, steps, here>>
words == <<text, spelled, handed>>
recognizer == <<listening, status, decoder, words, result>>

Init ==
  /\ listening \in BOOLEAN
  /\ status = "run" /\ frame = 0 /\ symbols = 0
  /\ text = <<>> /\ result = "none"
  /\ steps = 0 /\ here = 0 /\ spelled = <<>> /\ handed = <<>>

(* -------------------------------- the text ----------------------------- *)

Spaced(piece) == [i \in DOMAIN piece |-> IF piece[i] = Marker THEN " " ELSE piece[i]]
\* Its leading markers cut off.
Stripped(piece) ==
  LET markers(n) == \A i \in 1 .. n : piece[i] = Marker
      lead == CHOOSE n \in 0 .. Len(piece) :
                /\ markers(n)
                /\ n = Len(piece) \/ ~markers(n + 1)
  IN  SubSeq(piece, lead + 1, Len(piece))

\* Variant: a marker is dropped at the start of every piece.
WrittenJoined(piece) == IF piece = Special THEN <<>> ELSE Spaced(Stripped(piece))
\* What a piece adds: a space for every marker, none at the very start.
Written(piece) ==
  IF piece = Special THEN <<>>
  ELSE IF text = <<>> THEN Spaced(Stripped(piece)) ELSE Spaced(piece)

(* -------------------------------- the loop ----------------------------- *)

\* Variant: a blank moves by its duration, none included.
BlankStays(duration) == duration
\* A blank always moves forward.
Forward(duration) == IF duration > 0 THEN duration ELSE 1

Moves(n) ==
  /\ frame' = frame + n
  /\ here' = IF n = 0 THEN here + 1 ELSE 0

Step ==
  /\ status = "run" /\ frame < Frames
  /\ steps' = steps + 1

Blank ==
  /\ Step
  /\ \E duration \in Durations : Moves(Forward(duration))
  /\ symbols' = 0
  /\ UNCHANGED <<listening, status, words, result>>

\* The caller stops the loop: the piece is written, the loop does not go on.
Cancelled ==
  /\ listening
  /\ status' = "cancelled"
  /\ UNCHANGED <<frame, symbols, here>>

\* A frame gives so many pieces at most, and is left.
Full(duration) == duration = 0 /\ symbols + 1 >= MaxSymbols
Advances(duration) ==
  /\ Moves(IF Full(duration) THEN 1 ELSE duration)
  /\ symbols' = IF Full(duration) THEN 0 ELSE symbols + 1
  /\ UNCHANGED status

Emit ==
  /\ Step
  /\ \E piece \in Pieces, duration \in Durations :
       /\ text' = text \o Written(piece)
       /\ spelled' = Append(spelled, piece)
       /\ handed' = IF listening THEN Append(handed, Written(piece)) ELSE handed
       /\ Advances(duration) \/ Cancelled
  /\ UNCHANGED <<listening, result>>

\* A graph fails, the first prediction included, or a piece is not of the
\* table: the exception ends the pass.
Throw ==
  /\ status = "run" /\ status' = "failed"
  /\ UNCHANGED <<listening, decoder, words, result>>

\* The caller gets the text of a pass that ran to its end, and of no other.
Finish ==
  /\ status = "run" /\ frame >= Frames
  /\ status' = "ok" /\ result' = text
  /\ UNCHANGED <<listening, decoder, words>>

Next == Blank \/ Emit \/ Throw \/ Finish
Spec == Init /\ [][Next]_recognizer

(* ------------------------------ properties ----------------------------- *)

Most == IF MaxSymbols > 1 THEN MaxSymbols ELSE 1

\* The loop ends whatever the networks answer, a model that never gives a
\* blank nor a duration included: no frame takes more steps than its cap of
\* pieces, nor the turn more than that for each of its frames.
DecodeIsBounded == here < Most /\ steps <= Frames * Most

\* A caller that listens was handed the transcript, piece by piece; what is
\* returned is the pieces in their order, their markers read as spaces, and
\* none before the first word, special and empty pieces in between or not.
Flat(pieces) ==
  LET at[i \in 0 .. Len(pieces)] == IF i = 0 THEN <<>> ELSE at[i - 1] \o pieces[i]
  IN  at[Len(pieces)]
Plain(pieces) == [i \in DOMAIN pieces |-> IF pieces[i] = Special THEN <<>> ELSE pieces[i]]
TranscriptIsWhole ==
  /\ listening => Flat(handed) = text
  /\ text = Spaced(Stripped(Flat(Plain(spelled))))
  /\ result # "none" => status = "ok" /\ result = text
=============================================================================
