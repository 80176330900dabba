------------------------------- MODULE TermLink -------------------------------
(***************************************************************************)
(* What the terminal promises a program that writes to it: every character *)
(* and every control sequence takes effect once, in the order written.     *)
(* The bytes, and how read() cuts them, do not show.                       *)
(***************************************************************************)
EXTENDS Naturals, Sequences, SequencesExt

CONSTANTS
  Msg,         (* the messages programs write, see TermParser!Encode         *)
  MaxPalms,    (* parameters kept of a control sequence, 16 in the code      *)
  MaxText      (* characters kept of an OSC string, 512 in the code          *)

VARIABLES
  sent,        (* the messages written so far                                *)
  got,         (* their effects                                              *)
  charset,     (* [G -> BOOLEAN]: line drawing designated to G0, G1          *)
  shifted      (* G1 is in use                                               *)

G == {"G0", "G1"}

digit == [d \in {"0", "1"} |-> IF d = "1" THEN 1 ELSE 0]
Value(digits) == FoldLeft(LAMBDA v, d : 10 * v + digit[d], 0, digits)

Kept(s, n) == SubSeq(s, 1, IF Len(s) < n THEN Len(s) ELSE n)

\* A parameter that is not given is 0; one missing after the last ; is none.
Palms(params) ==
  LET values == [i \in DOMAIN params |-> Value(params[i])]
  IN  IF Len(params) > 1 /\ Last(params) = <<>> THEN Front(values) ELSE values

Effect(m, cs, sh) ==
  CASE m.kind = "text" ->
         [kind |-> "text", glyph |-> m.glyph,
          ruled |-> m.glyph # "wide" /\ cs[IF sh THEN "G1" ELSE "G0"]]
    [] m.kind = "csi" ->
         [kind |-> "csi", private |-> m.private, final |-> m.final,
          palms |-> Kept(Palms(m.params), MaxPalms)]
    [] m.kind = "osc" ->
         [kind |-> "osc", number |-> Value(m.number),
          text |-> Kept(<<";">> \o m.text, MaxText)]
    [] OTHER -> m

Init ==
  /\ sent = <<>>
  /\ got = <<>>
  /\ charset = [g \in G |-> FALSE]
  /\ shifted = FALSE

Send(m) ==
  /\ sent' = Append(sent, m)
  /\ UNCHANGED <<got, charset, shifted>>

Deliver ==
  /\ Len(got) < Len(sent)
  /\ LET m == sent[Len(got) + 1]
     IN  /\ got' = Append(got, Effect(m, charset, shifted))
         /\ charset' = IF m.kind = "designate"
                         THEN [charset EXCEPT ![m.g] = m.ruled] ELSE charset
         /\ shifted' = IF m.kind = "shift" THEN m.on ELSE shifted
  /\ UNCHANGED sent

vars == <<sent, got, charset, shifted>>

Next == Deliver \/ \E m \in Msg : Send(m)

\* Whatever was written takes effect in the end.
Spec == Init /\ [][Next]_vars /\ WF_vars(Deliver)
=============================================================================
