-------------------------------- MODULE TextDoc --------------------------------
(***************************************************************************)
(* What one key of an editor may do to a text: a sequence of lines, each a *)
(* sequence of glyphs.  Empty lines at the end are not told apart from no  *)
(* lines.                                                                  *)
(***************************************************************************)
EXTENDS Integers, Sequences

CONSTANTS Glyph, Files

(* Line l of a text that goes on for ever.                                   *)
At(d, l) == IF l \in DOMAIN d THEN d[l] ELSE <<>>
Longest(d, e) == IF Len(d) < Len(e) THEN Len(e) ELSE Len(d)

(* more is line with one glyph put in.                                       *)
Grows(line, more) ==
  /\ Len(more) = Len(line) + 1
  /\ \E i \in 1 .. Len(more) :
       more = SubSeq(line, 1, i - 1) \o <<more[i]>> \o SubSeq(line, i, Len(line))

(* e is d with one glyph more, or less, in line l.                           *)
Inserted(d, e, l) ==
  /\ Grows(At(d, l), At(e, l))
  /\ \A k \in (1 .. Longest(d, e)) \ {l} : At(e, k) = At(d, k)
Deleted(d, e, l) == Inserted(e, d, l)

(* e is d with line l cut in two; or with the line below appended to line l. *)
Split(d, e, l) ==
  /\ At(e, l) \o At(e, l + 1) = At(d, l)
  /\ \A k \in 1 .. Longest(d, e) : /\ k < l => At(e, k) = At(d, k)
                                   /\ k > l => At(e, k + 1) = At(d, k)
Joined(d, e, l) == Split(e, d, l)

Shown(f, e) == \A l \in 1 .. Longest(f, e) : At(e, l) = At(f, l)

Edited(d, e) ==
  \/ \E f \in Files : Shown(f, e)
  \/ \E l \in 1 .. Longest(d, e) :
       Inserted(d, e, l) \/ Deleted(d, e, l) \/ Split(d, e, l) \/ Joined(d, e, l)
===============================================================================
