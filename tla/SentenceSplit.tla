--------------------------- MODULE SentenceSplit ----------------------------
(***************************************************************************)
(* The splitter of src/sentence-split.h: what the model writes, delta by   *)
(* delta, becomes units to speak.                                          *)
(*                                                                         *)
(* A text is a sequence of bytes, one for each class of characters the     *)
(* code tells apart: a letter, a space, a terminator, a quote, a line      *)
(* break, a tab (a carriage return is read alike), a mark of the markdown, *)
(* an emoji (two UTF-16 units), and the two bytes of an accented letter,   *)
(* which a delta may part.                                                 *)
(***************************************************************************)
EXTENDS Integers, Sequences, SequencesExt, FiniteSetsExt

CONSTANTS MaxWritten,   \* bound: bytes of the text
          MaxDelta      \* bound: bytes of one delta

Bytes ==
  {"letter", "space", "stop", "quote", "break", "tab", "mark", "emoji", "lead", "trail"}

VARIABLES
  pending, consumed,  \* of the splitter
  units,              \* the units handed out, the last one by the flush
  cutting,            \* sentence_split_push is in its loop
  flushed,
  written             \* history: the text so far

vars == <<pending, consumed, units, cutting, flushed, written>>

Init ==
  /\ pending = <<>> /\ consumed = 0 /\ units = <<>>
  /\ cutting = FALSE /\ flushed = FALSE /\ written = <<>>

(* -------------------------------- a text ------------------------------- *)

\* The code points of a text: a half without the other reads as U+FFFD.
Points(text) ==
  LET join(points, byte) ==
        IF byte = "trail" /\ points # <<>> /\ Last(points) = "lead"
        THEN Append(Front(points), "accent")
        ELSE Append(points, byte)
  IN  FoldLeft(join, <<>>, text)

Spoken == {"letter", "accent", "lead", "trail"}

\* Length in UTF-16, one per code point and two for an emoji.
Utf16(text) ==
  FoldLeft(LAMBDA n, point : n + (IF point = "emoji" THEN 2 ELSE 1), 0, Points(text))

\* What is read with the eyes is dropped, and a text with nothing to say is
\* empty.
Clean(text) ==
  LET keep(out, point) ==
        CASE point = "mark" -> out
          [] point \in {"break", "tab", "emoji"} ->
               IF out # <<>> /\ Last(out) # "space" THEN Append(out, "space") ELSE out
          [] point = "space" /\ out # <<>> /\ Last(out) = "space" -> out
          [] OTHER -> Append(out, point)
      out == FoldLeft(keep, <<>>, Points(text))
      words == {i \in DOMAIN out : out[i] # "space"}
  IN  IF {out[i] : i \in DOMAIN out} \cap Spoken = {}
      THEN <<>>
      ELSE SubSeq(out, Min(words), Max(words))

(* ------------------------------ the splitter --------------------------- *)

\* What confirms a terminator before it.
Confirms(byte) == byte \in {"space", "break", "quote"}

\* Variant: the end of what came confirms a terminator too.
CutPointHasty ==
  {i \in DOMAIN pending :
     \/ pending[i] = "break"
     \/ pending[i] = "stop" /\ (i = Len(pending) \/ Confirms(pending[i + 1]))}

\* Where the pending text may be cut; the loop takes the first.
CutPoint ==
  {i \in DOMAIN pending :
     \/ pending[i] = "break"
     \/ pending[i] = "stop" /\ i < Len(pending) /\ Confirms(pending[i + 1])}

\* A delta arrives.
Push ==
  /\ ~cutting /\ ~flushed
  /\ \E n \in 1 .. MaxDelta : \E delta \in [1 .. n -> Bytes] :
       LET text == written \o delta IN
       /\ Len(text) <= MaxWritten
       /\ \A i \in DOMAIN text : (text[i] = "trail") = (i > 1 /\ text[i - 1] = "lead")
       /\ written' = text
       /\ pending' = pending \o delta
  /\ cutting' = TRUE
  /\ UNCHANGED <<consumed, units, flushed>>

Unit(text, end) == [text |-> text, end |-> end]

\* A sentence leaves, unless it has nothing to say.
Cut ==
  /\ cutting /\ CutPoint # {}
  /\ LET cut == Min(CutPoint)
         text == SubSeq(pending, 1, cut)
     IN  /\ pending' = SubSeq(pending, cut + 1, Len(pending))
         /\ consumed' = consumed + Utf16(text)
         /\ units' = IF Clean(text) = <<>> THEN units
                     ELSE Append(units, Unit(Clean(text), consumed'))
  /\ UNCHANGED <<cutting, flushed, written>>

Pushed ==
  /\ cutting /\ CutPoint = {}
  /\ cutting' = FALSE
  /\ UNCHANGED <<pending, consumed, units, flushed, written>>

\* The stream ends: the tail is a unit, an empty one included.
Flush ==
  /\ ~cutting /\ ~flushed
  /\ consumed' = consumed + Utf16(pending)
  /\ units' = Append(units, Unit(Clean(pending), consumed'))
  /\ pending' = <<>> /\ flushed' = TRUE
  /\ UNCHANGED <<cutting, written>>

Next == Push \/ Cut \/ Pushed \/ Flush
Spec == Init /\ [][Next]_vars

(* ------------------------------ the reference -------------------------- *)

\* Where a whole text is cut: after a break, and after a terminator that a
\* space, a break or a quote follows.
Cuts(text) ==
  {i \in DOMAIN text :
     \/ text[i] = "break"
     \/ i < Len(text) /\ text[i] = "stop" /\ text[i + 1] \in {"space", "break", "quote"}}

\* The units of a whole text: what lies between two cuts and says something,
\* cleaned, with the place where it ends.
UnitsOf(text) ==
  LET cuts == Cuts(text)
      from(c) == Max({0} \cup {b \in cuts : b < c})
      piece(c) == Unit(Clean(SubSeq(text, from(c) + 1, c)), Utf16(SubSeq(text, 1, c)))
  IN  {u \in {piece(c) : c \in cuts} : u.text # <<>>}

\* What lies after the last cut.
Remainder(text) == SubSeq(text, Max({0} \cup Cuts(text)) + 1, Len(text))

(* ------------------------------ properties ----------------------------- *)

\* The talker is handed words: something to say in every unit of the stream,
\* no mark, no half of a letter, one space between two words and none around.
Words(text) ==
  /\ {text[k] : k \in DOMAIN text} \cap {"mark", "break", "tab", "emoji"} = {}
  /\ text # <<>> => text[1] # "space" /\ Last(text) # "space"
  /\ \A k \in 1 .. Len(text) - 1 : text[k] # "space" \/ text[k + 1] # "space"
Sentence(text) ==
  /\ {text[k] : k \in DOMAIN text} \cap {"letter", "accent"} # {}
  /\ {text[k] : k \in DOMAIN text} \cap {"lead", "trail"} = {}

\* The units depend on what was written, not on how the deltas cut it: a
\* terminator at the end of a delta, a letter parted by two.  Each ends where
\* the browser's copy of the text says, the last one is what lies after the
\* last cut, and each is words, with something to say but for the tail.
UnitsOfWritten ==
  /\ LET handed == IF flushed THEN Front(units) ELSE units IN
       /\ ~cutting => Range(handed) = UnitsOf(written)
       /\ \A i, j \in DOMAIN handed : i < j => handed[i].end < handed[j].end
  /\ consumed + Utf16(pending) = Utf16(written)
  /\ flushed => Last(units) = Unit(Clean(Remainder(written)), Utf16(written))
  /\ \A i \in DOMAIN units : /\ Words(units[i].text)
                             /\ ~flushed \/ i < Len(units) => Sentence(units[i].text)
=============================================================================
