------------------------------ MODULE TermParser ------------------------------
(***************************************************************************)
(* bash_str_parse: the state machine that turns the bytes of the pty into  *)
(* characters and control sequences.  The bytes arrive in reads of any     *)
(* length, and one call parses one read: what must survive from a read to  *)
(* the next is in bash_parser_required_memb, what it looks ahead at is in  *)
(* the read itself.                                                        *)
(*                                                                         *)
(* A byte is a token; a two-byte character is "lead" and "cont".  Reading  *)
(* and parsing happen in the one thread of the terminal; a step of Parse   *)
(* is one turn of the loop, which nothing can interrupt but the end of the *)
(* read.                                                                   *)
(***************************************************************************)
EXTENDS Naturals, Sequences, SequencesExt

CONSTANTS Msg, MaxPalms, MaxText,
  MaxSent      (* bound: messages written in a behaviour                     *)

VARIABLES
  sent,        (* the messages written so far                                *)
  pty,         (* bytes written and not read                                 *)
  buff,        (* the rest of the read that is being parsed                  *)
  got,         (* the effects dispatched so far                              *)
  (* bash_parser_required_memb *)
  state, mode, osc_state, val, has_val, is_private, osc_pal_chr,
  palms,
  use_g_charset,
  charset      (* chr_data: the sets designated to G0 and G1                 *)

osc    == <<osc_state, osc_pal_chr>>
args   == <<val, has_val, palms>>
sets   == <<use_g_charset, charset>>
parser == <<state, mode, osc, args, is_private, sets>>
vars   == <<sent, pty, buff, got, parser>>

Link == INSTANCE TermLink WITH shifted <- use_g_charset

Digit     == {"0", "1"}
Printable == Digit \cup {";", "?", "[", "]", "(", ")", "\\", "M", "B", "x"}
Final     == {"[", "]", "\\", "M", "B", "x"}       \* 0x40 to 0x7E

\* How a program writes a message.
Encode(m) ==
  CASE m.kind = "text" -> IF m.glyph = "wide" THEN <<"lead", "cont">> ELSE <<m.glyph>>
    [] m.kind = "csi" ->
         <<"ESC", "[">> \o (IF m.private THEN <<"?">> ELSE <<>>)
           \o FoldLeft(LAMBDA s, p : s \o <<";">> \o p, Head(m.params), Tail(m.params))
           \o <<m.final>>
    [] m.kind = "osc" ->
         <<"ESC", "]">> \o m.number \o <<";">> \o m.text
           \o (IF m.bel THEN <<"BEL">> ELSE <<"ESC", "\\">>)
    [] m.kind = "designate" ->
         <<"ESC", IF m.g = "G0" THEN "(" ELSE ")", IF m.ruled THEN "0" ELSE "B">>
    [] m.kind = "shift" -> <<IF m.on THEN "SO" ELSE "SI">>
    [] m.kind = "single" -> <<"ESC", m.final>>

Init ==
  /\ sent = <<>> /\ pty = <<>> /\ buff = <<>> /\ got = <<>>
  /\ state = "GROUND" /\ mode = "IDK"
  /\ osc_state = "NORMAL" /\ osc_pal_chr = <<>>
  /\ val = 0 /\ has_val = FALSE /\ palms = <<>>
  /\ is_private = FALSE
  /\ use_g_charset = FALSE /\ charset = [g \in {"G0", "G1"} |-> FALSE]

-----------------------------------------------------------------------------
Write(m) ==
  /\ Len(sent) < MaxSent
  /\ sent' = Append(sent, m)
  /\ pty' = pty \o Encode(m)
  /\ UNCHANGED <<buff, got, parser>>

\* A read returns what has arrived, cut anywhere.
Read ==
  /\ buff = <<>>
  /\ \E n \in 1 .. Len(pty) :
       /\ buff' = SubSeq(pty, 1, n)
       /\ pty' = SubSeq(pty, n + 1, Len(pty))
  /\ UNCHANGED <<sent, got, parser>>

-----------------------------------------------------------------------------
(* One turn of the loop, on the byte b                                     *)

Dispatch(effect) == got' = Append(got, effect)

Digits(b) == /\ val' = 10 * val + Link!digit[b]
             /\ has_val' = TRUE
             /\ UNCHANGED palms

\* Mutant: the value goes on in the next parameter.
Push_Carried == /\ palms' = IF Len(palms) < MaxPalms
                              THEN Append(palms, val) ELSE palms
                /\ has_val' = FALSE
                /\ UNCHANGED val

Push == /\ palms' = IF Len(palms) < MaxPalms
                      THEN Append(palms, IF has_val THEN val ELSE 0) ELSE palms
        /\ val' = 0
        /\ has_val' = FALSE

\* The parameters when the sequence ends.
Collected ==
  IF has_val THEN IF Len(palms) < MaxPalms THEN Append(palms, val) ELSE palms
  ELSE IF palms = <<>> THEN <<0>> ELSE palms

Reset == /\ val' = 0 /\ has_val' = FALSE /\ palms' = <<>>
         /\ state' = "GROUND" /\ mode' = "IDK"

\* check_esc_mode
Introduce(b) ==
  /\ state = "SQE_START" /\ mode = "IDK"
  /\ \/ /\ b \in {"[", "]", "(", ")"}
        /\ mode' = CASE b = "[" -> "CSI" [] b = "]" -> "OSC"
                     [] b = "(" -> "G0_SP" [] b = ")" -> "G1_SP"
        /\ UNCHANGED <<state, got>>
     \/ /\ b \notin {"[", "]", "(", ")"}
        /\ Dispatch([kind |-> "single", final |-> b])
        /\ state' = "GROUND"
        /\ UNCHANGED mode
  /\ UNCHANGED <<osc, args, is_private, sets>>

OscText(b) ==
  /\ osc_pal_chr' = IF b \in Printable /\ Len(osc_pal_chr) < MaxText
                      THEN Append(osc_pal_chr, b) ELSE osc_pal_chr
  /\ osc_state' = "NORMAL"

OscEnd(b) ==
  /\ b = "BEL" \/ (osc_state = "EXPECT_ST" /\ b = "\\")
  /\ Dispatch([kind |-> "osc", number |-> Collected[1], text |-> osc_pal_chr])
  /\ Reset
  /\ osc_pal_chr' = <<>>
  /\ osc_state' = "NORMAL"

Osc(b) ==
  /\ state = "SQE_START" /\ mode = "OSC"
  /\ \/ /\ b = "ESC"
        /\ osc_state' = "EXPECT_ST"
        /\ UNCHANGED <<osc_pal_chr, args, state, mode, got>>
     \/ OscEnd(b)
     \/ /\ b \notin {"ESC", "BEL"} /\ ~(osc_state = "EXPECT_ST" /\ b = "\\")
        /\ UNCHANGED <<state, mode, got>>
        /\ \/ /\ palms = <<>> /\ b \in Digit
              /\ Digits(b)
              /\ osc_state' = "NORMAL"
              /\ UNCHANGED osc_pal_chr
           \/ /\ palms = <<>> /\ b = ";"
              /\ Push
              /\ OscText(b)
           \/ /\ ~(palms = <<>> /\ b \in Digit \cup {";"})
              /\ OscText(b)
              /\ UNCHANGED args
  /\ UNCHANGED <<is_private, sets>>

CsiEnd(b) ==
  /\ b \in Final
  /\ Dispatch([kind |-> "csi", private |-> is_private, final |-> b, palms |-> Collected])
  /\ Reset
  /\ is_private' = FALSE

Csi(b) ==
  /\ state = "SQE_START" /\ mode = "CSI"
  /\ \/ /\ b \in Digit
        /\ Digits(b)
        /\ UNCHANGED <<is_private, state, mode, got>>
     \/ /\ b = ";"
        /\ Push
        /\ UNCHANGED <<is_private, state, mode, got>>
     \/ /\ b = "?"
        /\ is_private' = TRUE
        /\ UNCHANGED <<args, state, mode, got>>
     \/ CsiEnd(b)
     \/ /\ b \notin Digit \cup Final \cup {";", "?"}
        /\ UNCHANGED <<args, is_private, state, mode, got>>
  /\ UNCHANGED <<osc, sets>>

Designate(b) ==
  /\ state = "SQE_START" /\ mode \in {"G0_SP", "G1_SP"}
  /\ LET g == IF mode = "G1_SP" THEN "G1" ELSE "G0"
     IN  /\ charset' = IF b \in {"0", "B"}
                         THEN [charset EXCEPT ![g] = (b = "0")] ELSE charset
         /\ Dispatch([kind |-> "designate", g |-> g, ruled |-> (b = "0")])
  /\ state' = "GROUND" /\ mode' = "IDK"
  /\ UNCHANGED <<osc, args, is_private, use_g_charset>>

\* utf8_decode: how many bytes of the read the next character takes.
utf8_decode ==
  IF buff[1] = "lead" /\ Len(buff) > 1 /\ buff[2] = "cont" THEN 2 ELSE 1

Ground(b) ==
  /\ state = "GROUND"
  /\ mode' = "IDK"
  /\ \/ /\ b = "ESC"
        /\ state' = "SQE_START"
        /\ UNCHANGED <<got, use_g_charset>>
     \/ /\ b \in {"SO", "SI"}
        /\ use_g_charset' = (b = "SO")
        /\ Dispatch([kind |-> "shift", on |-> (b = "SO")])
        /\ UNCHANGED state
     \/ /\ b = "BEL"
        /\ UNCHANGED <<state, got, use_g_charset>>
     \/ /\ b \in Printable
        /\ Dispatch([kind |-> "text", glyph |-> b,
                     ruled |-> charset[IF use_g_charset THEN "G1" ELSE "G0"]])
        /\ UNCHANGED <<state, use_g_charset>>
     \/ /\ b \in {"lead", "cont"}
        /\ Dispatch([kind |-> "text", ruled |-> FALSE,
                     glyph |-> IF utf8_decode = 2 THEN "wide" ELSE b])
        /\ UNCHANGED <<state, use_g_charset>>
  /\ UNCHANGED <<osc, args, is_private, charset>>

Parse ==
  /\ buff # <<>>
  /\ LET b == Head(buff)
     IN  Introduce(b) \/ Osc(b) \/ Csi(b) \/ Designate(b) \/ Ground(b)
  /\ buff' = IF state = "GROUND" THEN SubSeq(buff, 1 + utf8_decode, Len(buff))
             ELSE Tail(buff)
  /\ UNCHANGED <<sent, pty>>

Next == (\E m \in Msg : Write(m)) \/ Read \/ Parse

\* The main loop of the terminal polls the pty as long as it runs.
Spec == Init /\ [][Next]_vars /\ WF_vars(Read) /\ WF_vars(Parse)

-----------------------------------------------------------------------------
(* Properties                                                              *)

TypeOK ==
  /\ state \in {"GROUND", "SQE_START"}
  /\ mode \in {"IDK", "CSI", "OSC", "G0_SP", "G1_SP"}
  /\ osc_state \in {"NORMAL", "EXPECT_ST"}
  /\ val \in Nat /\ has_val \in BOOLEAN /\ is_private \in BOOLEAN
  /\ palms \in Seq(Nat) /\ Len(palms) <= MaxPalms
  /\ osc_pal_chr \in Seq(Printable) /\ Len(osc_pal_chr) <= MaxText
  /\ use_g_charset \in BOOLEAN
  /\ charset \in [{"G0", "G1"} -> BOOLEAN]

\* Between two sequences nothing is left of the one before, whatever ended it
\* and wherever the reads were cut (escape_sequence_parser.c:193-200, 252-257).
GroundIsClean ==
  state = "GROUND" =>
    /\ mode = "IDK" /\ osc_state = "NORMAL" /\ osc_pal_chr = <<>>
    /\ val = 0 /\ ~has_val /\ palms = <<>> /\ ~is_private

\* The terminal keeps the promise of TermLink: every message takes effect once,
\* in order, however the bytes are cut into reads.  With two-byte characters
\* this is what the comment at escape_sequence_parser.c:326 says of utf8_decode.
KeepsLink == Link!Spec
=============================================================================
