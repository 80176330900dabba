----------------------------- MODULE MCTermParser -----------------------------
(* One message of each kind that behaves differently: no, missing and too     *)
(* many parameters; an OSC string that holds digits and semicolons, is cut,   *)
(* and ends either way; both shifts and both designations.                    *)
EXTENDS TermParser

Csi_(private, params) ==
  [kind |-> "csi", private |-> private, params |-> params, final |-> "M"]
Osc_(number, text, bel) ==
  [kind |-> "osc", number |-> number, text |-> text, bel |-> bel]

Glyphs == {[kind |-> "text", glyph |-> "x"]}
Wide   == {[kind |-> "text", glyph |-> "wide"]}
Sequences_ ==
  { Csi_(FALSE, << <<>> >>), Csi_(TRUE, << <<"1">> >>),
    Csi_(FALSE, << <<>>, <<"1", "0">>, <<>>, <<>> >>),
    Csi_(FALSE, << <<"1">>, <<"1">>, <<"0">> >>),
    Osc_(<<"1">>, <<"x", ";", "0">>, TRUE), Osc_(<<>>, <<"\\">>, FALSE),
    [kind |-> "single", final |-> "M"],
    [kind |-> "designate", g |-> "G0", ruled |-> TRUE],
    [kind |-> "designate", g |-> "G1", ruled |-> TRUE],
    [kind |-> "designate", g |-> "G0", ruled |-> FALSE],
    [kind |-> "shift", on |-> TRUE], [kind |-> "shift", on |-> FALSE] }

\* KeepsLink holds of the first set.  Of the second it is refuted: a read that
\* ends inside a character of two bytes makes two characters of it.
OneByte == Glyphs \cup Sequences_
TwoByte == Glyphs \cup Wide
=============================================================================
