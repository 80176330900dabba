---------------------------- MODULE TermLoopProofs ----------------------------
(***************************************************************************)
(* What holds of the terminal's loop for every size of window, pty and     *)
(* batch of reads: it takes no hang-up for the end of the shell before all *)
(* output is read, and what the user types and pastes reaches the pty in   *)
(* order, a paste whole.                                                   *)
(***************************************************************************)
EXTENDS TermLoop, FiniteSetTheorems, TLAPS

-----------------------------------------------------------------------------
(* Bytes and sequences of them                                               *)

Bytewise == [src : {"char", "arrow", "paste"}, key : Nat, i : Nat, of : Nat]
InOrder(bytes) == \A i, j \in DOMAIN bytes : i < j => Before(bytes[i], bytes[j])

LEMMA PrintableIsNat ==
  ASSUME NEW t \in Seq(1 .. 255)
  PROVE  Printable(t) \in Nat
<1> DEFINE I == {i \in DOMAIN t : t[i] \in 32 .. 126 \cup {9, 10, 13}}
<1>1. IsFiniteSet(1 .. Len(t))
  BY FS_Interval
<1>2. I \subseteq 1 .. Len(t)
  OBVIOUS
<1>3. IsFiniteSet(I)
  BY <1>1, <1>2, FS_Subset
<1>4. Cardinality(I) \in Nat
  BY <1>3, FS_CardinalityType
<1> QED BY <1>4 DEF Printable

LEMMA ByteType ==
  ASSUME NEW src \in {"char", "arrow", "paste"}, NEW k \in Nat, NEW i \in Nat, NEW n \in Nat
  PROVE  /\ Byte(src, k, i, n) \in Bytewise
         /\ Byte(src, k, i, n).src = src /\ Byte(src, k, i, n).key = k
         /\ Byte(src, k, i, n).i = i /\ Byte(src, k, i, n).of = n
         /\ \A v : [Byte(src, k, i, n) EXCEPT !.i = v] = Byte(src, k, v, n)
BY DEF Byte, Bytewise

\* A byte of a paste is told by its number in it.
LEMMA ByteIs ==
  ASSUME NEW b \in Bytewise
  PROVE  /\ b.key \in Nat /\ b.i \in Nat /\ b.of \in Nat
         /\ b = Byte(b.src, b.key, b.i, b.of)
         /\ \A v : [b EXCEPT !.i = v] = Byte(b.src, b.key, v, b.of)
BY DEF Byte, Bytewise

LEMMA BytesAre ==
  ASSUME NEW src \in {"char", "arrow", "paste"}, NEW k \in Nat, NEW n \in Nat
  PROVE  /\ Bytes(src, k, n) \in Seq(Bytewise) /\ Len(Bytes(src, k, n)) = n
         /\ \A i \in 1 .. n : Bytes(src, k, n)[i] = Byte(src, k, i, n)
         /\ InOrder(Bytes(src, k, n))
<1>1. \A i \in 1 .. n : Byte(src, k, i, n) \in Bytewise
  BY ByteType
<1>2. Bytes(src, k, n) = [i \in 1 .. n |-> Byte(src, k, i, n)]
  BY DEF Bytes
<1> HIDE DEF Bytes
<1>3. Bytes(src, k, n) \in Seq(Bytewise) /\ Len(Bytes(src, k, n)) = n
  BY <1>1, <1>2
<1>4. ASSUME NEW i \in 1 .. n, NEW j \in 1 .. n, i < j
      PROVE  Before(Byte(src, k, i, n), Byte(src, k, j, n))
  BY <1>4, ByteType DEF Before
<1>5. DOMAIN Bytes(src, k, n) = 1 .. n
  BY <1>2
<1>6. \A i \in 1 .. n : Bytes(src, k, n)[i] = Byte(src, k, i, n)
  BY <1>2
<1>7. InOrder(Bytes(src, k, n))
  BY <1>4, <1>5, <1>6 DEF InOrder
<1> QED BY <1>3, <1>6, <1>7

\* The first f bytes of some are appended to others.
Wrote(old, bytes, f) == old \o Taken(bytes, f)
First(bytes, f)      == {bytes[i] : i \in 1 .. f}
Adds(new, old, bytes, f) == Came(new) = Came(old) \cup First(bytes, f)

LEMMA Appended ==
  ASSUME NEW old \in Seq(Bytewise), NEW bytes \in Seq(Bytewise), NEW f \in 0 .. Len(bytes),
         NEW new, new = Wrote(old, bytes, f)
  PROVE  /\ new \in Seq(Bytewise)
         /\ Came(new) = Came(old) \cup First(bytes, f)
         /\ InOrder(old) /\ InOrder(bytes)
              /\ (\A b \in Came(old) : \A i \in 1 .. f : Before(b, bytes[i])) => InOrder(new)
<1> DEFINE part == SubSeq(bytes, 1, f)
<1>1. part \in Seq(Bytewise) /\ Len(part) = f /\ \A i \in 1 .. f : part[i] = bytes[i]
  OBVIOUS
<1> HIDE DEF part
<1>2. new = old \o part
  BY DEF part, Wrote, Taken
<1>3. new \in Seq(Bytewise) /\ Len(new) = Len(old) + f
  <2>1. old \o part \in Seq(Bytewise)
    BY <1>1
  <2>2. Len(old \o part) = Len(old) + Len(part)
    BY <1>1
  <2> QED BY <1>1, <1>2, <2>1, <2>2
<1>4. \A i \in 1 .. Len(new) : new[i] = IF i <= Len(old) THEN old[i] ELSE bytes[i - Len(old)]
  <2> SUFFICES ASSUME NEW i \in 1 .. Len(new)
               PROVE  new[i] = IF i <= Len(old) THEN old[i] ELSE bytes[i - Len(old)]
    OBVIOUS
  <2>1. Len(old) \in Nat /\ f \in Nat /\ i \in 1 .. Len(old) + f
    BY <1>3
  <2>2. CASE i <= Len(old)
    BY <1>1, <1>2, <2>1, <2>2
  <2>3. CASE ~ (i <= Len(old))
    <3>1. i - Len(old) \in 1 .. f
      BY <2>1, <2>3
    <3>2. new[i] = part[i - Len(old)]
      BY <1>1, <1>2, <2>1, <2>3
    <3> QED BY <1>1, <2>3, <3>1, <3>2
  <2> QED BY <2>2, <2>3
<1>5. DOMAIN new = 1 .. Len(old) + f /\ DOMAIN old = 1 .. Len(old) /\ DOMAIN bytes = 1 .. Len(bytes)
  <2>1. DOMAIN new = 1 .. Len(new)
    BY <1>3
  <2> QED BY <1>3, <2>1
<1>6. Came(new) = Came(old) \cup {bytes[i] : i \in 1 .. f}
  <2>1. \A b \in Came(new) : b \in Came(old) \/ b \in {bytes[i] : i \in 1 .. f}
    <3>1. ASSUME NEW i \in 1 .. Len(old) + f
          PROVE  new[i] \in Came(old) \/ new[i] \in {bytes[j] : j \in 1 .. f}
      <4>1. CASE i <= Len(old)
        <5>1. i \in DOMAIN old /\ new[i] = old[i]
          BY <1>3, <1>4, <1>5, <4>1
        <5> QED BY <5>1 DEF Came
      <4>2. CASE ~ (i <= Len(old))
        <5>1. i - Len(old) \in 1 .. f /\ new[i] = bytes[i - Len(old)]
          BY <1>3, <1>4, <4>2
        <5> QED BY <5>1
      <4> QED BY <4>1, <4>2
    <3> QED BY <1>5, <3>1 DEF Came
  <2>2. \A i \in 1 .. Len(old) : new[i] = old[i] /\ i \in DOMAIN new
    <3> SUFFICES ASSUME NEW i \in 1 .. Len(old) PROVE new[i] = old[i] /\ i \in DOMAIN new
      OBVIOUS
    <3>1. i \in 1 .. Len(new) /\ i <= Len(old)
      BY <1>3
    <3> QED BY <1>3, <1>4, <1>5, <3>1
  <2>3. ASSUME NEW i \in 1 .. f
        PROVE  new[Len(old) + i] = bytes[i] /\ Len(old) + i \in DOMAIN new
    <3>1. Len(old) \in Nat /\ Len(new) = Len(old) + f
      BY <1>3
    <3>2. Len(old) + i \in 1 .. Len(new) /\ ~ (Len(old) + i <= Len(old)) /\ Len(old) + i - Len(old) = i
      BY <3>1
    <3> QED BY <1>3, <1>4, <1>5, <3>2
  <2>4. \A b \in Came(old) : b \in Came(new)
    BY <2>2, <1>5 DEF Came
  <2>5. \A b \in {bytes[i] : i \in 1 .. f} : b \in Came(new)
    BY <2>3 DEF Came
  <2> QED BY <2>1, <2>4, <2>5
<1>7. ASSUME InOrder(old), InOrder(bytes),
             \A b \in Came(old) : \A i \in 1 .. f : Before(b, bytes[i])
      PROVE  InOrder(new)
  <2> SUFFICES ASSUME NEW i \in DOMAIN new, NEW j \in DOMAIN new, i < j
               PROVE  Before(new[i], new[j])
    BY DEF InOrder
  <2>1. CASE j <= Len(old)
    BY <2>1, <1>4, <1>5, <1>7, <1>3 DEF InOrder
  <2>2. CASE i <= Len(old) /\ j > Len(old)
    <3>1. old[i] \in Came(old) /\ j - Len(old) \in 1 .. f
      BY <2>2, <1>5 DEF Came
    <3>2. new[i] = old[i] /\ new[j] = bytes[j - Len(old)]
      BY <2>2, <1>3, <1>4, <1>5
    <3> QED BY <3>1, <3>2, <1>7
  <2>3. CASE i > Len(old)
    <3>1. i - Len(old) \in DOMAIN bytes /\ j - Len(old) \in DOMAIN bytes
          /\ i - Len(old) < j - Len(old)
      BY <2>3, <1>5
    <3>2. new[i] = bytes[i - Len(old)] /\ new[j] = bytes[j - Len(old)]
      BY <2>3, <1>3, <1>4, <1>5
    <3> QED BY <3>1, <3>2, <1>7 DEF InOrder
  <2> QED BY <2>1, <2>2, <2>3, <1>5
<1> QED BY <1>3, <1>6, <1>7 DEF First

LEMMA AppendedHas ==
  ASSUME NEW old \in Seq(Bytewise), NEW bytes \in Seq(Bytewise), NEW f \in 0 .. Len(bytes),
         NEW new, new = Wrote(old, bytes, f)
  PROVE  new \in Seq(Bytewise) /\ Came(new) = Came(old) \cup First(bytes, f)
BY Appended

\* The order of what was written and what is goes over to both.
LEMMA AppendedInOrder ==
  ASSUME NEW old \in Seq(Bytewise), NEW bytes \in Seq(Bytewise), NEW f \in 0 .. Len(bytes),
         NEW new, new = Wrote(old, bytes, f), InOrder(old), InOrder(bytes),
         \A b \in Came(old) : \A i \in 1 .. f : Before(b, bytes[i])
  PROVE  InOrder(new)
BY Appended

-----------------------------------------------------------------------------
(* Input in order                                                            *)

Keys == [kind : {"char", "arrow", "right", "paste", "close", "window"}, n : Nat]

\* Two queues, of what is being handled and of what comes next, in the order of
\* the keys.
Queued(first, next, last) ==
  /\ first \in Seq(Keys) /\ next \in Seq(Keys)
  /\ \A q \in {first, next} :
       /\ \A i \in DOMAIN q : q[i].n <= last
       /\ \A i, j \in DOMAIN q : i < j => q[i].n < q[j].n
  /\ \A i \in DOMAIN first : \A j \in DOMAIN next : first[i].n < next[j].n

\* Key number n comes before all that are still in the queues.
Handled(n, first, next, last) ==
  /\ n <= last
  /\ \A i \in DOMAIN first : n < first[i].n
  /\ \A i \in DOMAIN next : n < next[i].n

\* Paste k of n bytes when the first m have been written.
EndOf(k, n, m) == [i \in 1 .. n - m |-> Byte("paste", k, m + i, n)]

InputType ==
  /\ held \in 0 .. Room /\ keys \in Nat
  /\ sent \in Seq(Bytewise)
  /\ Queued(chars, typed, keys) /\ Queued(named, pressed, keys)
  /\ now \in {"waiting", "reading", "resizing"} => chars = <<>> /\ named = <<>>

\* What was sent came before what is queued, and in order.
SentInOrder ==
  /\ InOrder(sent)
  /\ \A b \in Came(sent) : IF b.src = "char" THEN Handled(b.key, chars, typed, keys)
                                             ELSE Handled(b.key, named, pressed, keys)
  /\ \A b \in Came(sent) :
       b.src = "paste" /\ b.i # 1 => Byte("paste", b.key, b.i - 1, b.of) \in Came(sent)

\* What is left of a paste is its end, and comes behind what was sent of it.
PasteGoesOn ==
  \/ paste = <<>>
  \/ \E k, n, m \in Nat :
       /\ m < n /\ paste = EndOf(k, n, m)
       /\ Handled(k, named, pressed, keys)
       /\ m # 0 => Byte("paste", k, m, n) \in Came(sent)
       /\ \A b \in Came(sent) : b.src = "paste" => b.key < k \/ (b.key = k /\ b.i <= m)

\* Nothing that was begun is given up while the pty is open.
NoneCut ==
  InUse /\ IsOpen =>
    \A b \in Came(sent) :
      b.src = "paste" /\ b.i # b.of => Byte("paste", b.key, b.i + 1, b.of) \in Came(sent) \cup Came(paste)

InputInv == InputType /\ SentInOrder /\ PasteGoesOn /\ NoneCut

\* Steps that neither press nor handle a key.
LEMMA Untouched ==
  ASSUME InputInv, held' \in 0 .. Room,
         UNCHANGED <<keys, sent, paste, chars, named, typed, pressed>>,
         now' \in {"waiting", "reading", "resizing"} => chars = <<>> /\ named = <<>>,
         InUse' /\ IsOpen' => InUse /\ IsOpen
  PROVE  InputInv'
<1>1. InputType'
  BY DEF InputInv, InputType, Queued
<1>2. SentInOrder'
  BY DEF InputInv, SentInOrder, Handled
<1>3. PasteGoesOn'
  BY DEF InputInv, PasteGoesOn, Handled
<1>4. NoneCut'
  BY DEF InputInv, NoneCut
<1> QED BY <1>1, <1>2, <1>3, <1>4 DEF InputInv

LEMMA Fits ==
  ASSUME LoopAssumption, held \in 0 .. Room, NEW n \in Nat
  PROVE  Fitting(n) \in 0 .. n /\ held + Fitting(n) \in 0 .. Room
BY DEF LoopAssumption, Fitting

\* The first of a queue is handled.
LEMMA QueueGoesOn ==
  ASSUME NEW q, NEW next, NEW last \in Nat, Queued(q, next, last), q # <<>>
  PROVE  /\ Head(q) \in Keys /\ Head(q).n \in Nat
         /\ Tail(q) \in Seq(Keys)
         /\ Queued(Tail(q), next, last)
         /\ Handled(Head(q).n, Tail(q), next, last)
         /\ \A n \in Nat : Handled(n, q, next, last) => n < Head(q).n /\ Handled(n, Tail(q), next, last)
<1>1. q \in Seq(Keys) /\ Len(q) > 0 /\ next \in Seq(Keys)
  <2>1. q \in Seq(Keys) /\ next \in Seq(Keys)
    BY DEF Queued
  <2> QED BY <2>1
<1>2. Head(q) = q[1] /\ q[1] \in Keys /\ q[1].n \in Nat /\ 1 \in DOMAIN q
  <2>1. Head(q) = q[1] /\ q[1] \in Keys /\ 1 \in DOMAIN q
    BY <1>1
  <2> QED BY <2>1 DEF Keys
<1>3. Tail(q) \in Seq(Keys) /\ \A i \in DOMAIN Tail(q) : Tail(q)[i] = q[i + 1] /\ i + 1 \in DOMAIN q /\ 1 < i + 1
  BY <1>1
<1>4. \A i, j \in DOMAIN Tail(q) : i \in Nat /\ j \in Nat /\ (i < j => i + 1 < j + 1)
  BY <1>3
<1> DEFINE t == Tail(q)
<1>5. t \in Seq(Keys) /\ \A i \in DOMAIN t : t[i] = q[i + 1] /\ i + 1 \in DOMAIN q
  BY <1>3
<1>6. \A i, j \in DOMAIN t : i < j => i + 1 < j + 1
  BY <1>4
<1>7. \A i \in DOMAIN t : q[1].n < t[i].n
  BY <1>2, <1>3 DEF Queued
<1> HIDE DEF t
<1>8. Queued(t, next, last)
  <2>1. \A i \in DOMAIN t : t[i].n <= last
    BY <1>5 DEF Queued
  <2>2. \A i, j \in DOMAIN t : i < j => t[i].n < t[j].n
    BY <1>5, <1>6 DEF Queued
  <2>3. \A i \in DOMAIN t : \A j \in DOMAIN next : t[i].n < next[j].n
    BY <1>5 DEF Queued
  <2>4. \A i \in DOMAIN next : next[i].n <= last
    BY DEF Queued
  <2>5. \A i, j \in DOMAIN next : i < j => next[i].n < next[j].n
    BY DEF Queued
  <2> QED BY <1>1, <1>5, <2>1, <2>2, <2>3, <2>4, <2>5 DEF Queued
<1>9. q[1].n <= last /\ \A j \in DOMAIN next : q[1].n < next[j].n
  BY <1>2 DEF Queued
<1>10. Handled(q[1].n, t, next, last)
  BY <1>7, <1>9 DEF Handled
<1>11. ASSUME NEW n \in Nat, Handled(n, q, next, last)
       PROVE  n < q[1].n /\ Handled(n, t, next, last)
  BY <1>2, <1>5, <1>11 DEF Handled
<1> QED BY <1>2, <1>3, <1>8, <1>10, <1>11 DEF t

LEMMA HowMany ==
  ASSUME NEW src \in {"char", "arrow", "paste"}, NEW k \in Nat, NEW n \in Nat
  PROVE  Len(Bytes(src, k, n)) = n
BY BytesAre

\* Bytes of a key are written behind those of earlier ones.
Earlier(bytes, src, k) == \A b \in Came(bytes) : b.src = src => b.key < k

LEMMA KeySent ==
  ASSUME NEW old \in Seq(Bytewise), NEW src \in {"char", "arrow"}, NEW k \in Nat, NEW n \in Nat,
         NEW f \in 0 .. n, InOrder(old), Earlier(old, src, k)
  PROVE  /\ Wrote(old, Bytes(src, k, n), f) \in Seq(Bytewise)
         /\ InOrder(Wrote(old, Bytes(src, k, n), f))
         /\ Adds(Wrote(old, Bytes(src, k, n), f), old, Bytes(src, k, n), f)
<1> DEFINE bytes == Bytes(src, k, n)
           new == Wrote(old, bytes, f)
<1>1. bytes \in Seq(Bytewise) /\ Len(bytes) = n /\ InOrder(bytes)
      /\ \A i \in 1 .. n : bytes[i] = Byte(src, k, i, n)
  BY BytesAre
<1> HIDE DEF bytes
<1>2. ASSUME NEW b \in Came(old), NEW i \in 1 .. f
      PROVE  Before(b, bytes[i])
  <2>1. bytes[i] = Byte(src, k, i, n)
    BY <1>1
  <2>2. bytes[i].src = src /\ bytes[i].key = k
    BY <2>1 DEF Byte
  <2> QED BY <2>2 DEF Before, Earlier
<1>4. f \in 0 .. Len(bytes) /\ new = Wrote(old, bytes, f)
  BY <1>1
<1> HIDE DEF new
<1>5. /\ new \in Seq(Bytewise)
      /\ Came(new) = Came(old) \cup First(bytes, f)
  BY <1>1, <1>4, Appended
<1>6. InOrder(new)
  BY <1>1, <1>2, <1>4, Appended
<1> QED BY <1>5, <1>6 DEF new, bytes, Adds

LEMMA WakeInput ==
  ASSUME InputInv, Wake
  PROVE  InputInv'
<1> USE DEF InputInv
<1>1. chars = <<>> /\ named = <<>>
  BY DEF Wake, InputType
<1>2. /\ chars' = typed /\ named' = pressed /\ typed' = <<>> /\ pressed' = <<>>
      /\ UNCHANGED <<keys, held, sent, paste, shell, job>>
      /\ now' \in {"ending", "keys"} /\ now = "waiting"
  BY DEF Wake, other
<1>3. Queued(typed, <<>>, keys) /\ Queued(pressed, <<>>, keys)
  BY DEF InputType, Queued
<1>4. InputType'
  BY <1>2, <1>3 DEF InputType, Queued
<1>5. \A n : Handled(n, chars', typed', keys') <=> Handled(n, chars, typed, keys)
  BY <1>1, <1>2 DEF Handled
<1>6. \A n : Handled(n, named', pressed', keys') <=> Handled(n, named, pressed, keys)
  BY <1>1, <1>2 DEF Handled
<1>7. SentInOrder'
  BY <1>2, <1>5, <1>6 DEF SentInOrder
<1>8. PasteGoesOn'
  BY <1>2, <1>6 DEF PasteGoesOn
<1>9. NoneCut'
  BY <1>2 DEF NoneCut, InUse, IsOpen
<1> QED BY <1>4, <1>7, <1>8, <1>9

\* The next key is pressed.
LEMMA QueueGrows ==
  ASSUME NEW first, NEW next, NEW last \in Nat, NEW k \in Keys, k.n = last + 1,
         Queued(first, next, last)
  PROVE  /\ Queued(first, next, last + 1)
         /\ Queued(first, Append(next, k), last + 1)
         /\ \A n \in Nat : Handled(n, first, next, last) =>
              Handled(n, first, next, last + 1) /\ Handled(n, first, Append(next, k), last + 1)
<1>1. first \in Seq(Keys) /\ next \in Seq(Keys)
  BY DEF Queued
<1>2. ASSUME NEW q \in Seq(Keys), NEW i \in DOMAIN q
      PROVE  q[i].n \in Nat
  <2>1. q[i] \in Keys
    OBVIOUS
  <2> QED BY <2>1 DEF Keys
<1>3. Queued(first, next, last + 1)
  <2>1. ASSUME NEW q \in {first, next}, NEW i \in DOMAIN q
        PROVE  q[i].n <= last + 1
    <3>1. q[i].n <= last /\ q[i].n \in Nat
      BY <1>1, <1>2, <2>1 DEF Queued
    <3> QED BY <3>1
  <2> QED BY <2>1 DEF Queued
<1> DEFINE more == Append(next, k)
<1>4. /\ more \in Seq(Keys) /\ DOMAIN more = 1 .. Len(next) + 1
      /\ \A i \in 1 .. Len(next) : more[i] = next[i] /\ i \in DOMAIN next
      /\ more[Len(next) + 1] = k /\ Len(next) \in Nat
  BY <1>1
<1> HIDE DEF more
<1>5. \A i \in DOMAIN more :
        \/ i \in DOMAIN next /\ more[i] = next[i]
        \/ i = Len(next) + 1 /\ more[i] = k
  BY <1>4
<1>6. \A i \in DOMAIN next : next[i].n <= last /\ next[i].n \in Nat /\ i \in 1 .. Len(next)
  BY <1>1, <1>2 DEF Queued
<1>7. \A i \in DOMAIN first : first[i].n <= last /\ first[i].n \in Nat
  BY <1>1, <1>2 DEF Queued
<1>8. Queued(first, more, last + 1)
  <2>1. \A i \in DOMAIN more : more[i].n <= last + 1
    BY <1>5, <1>6
  <2>2. ASSUME NEW i \in DOMAIN more, NEW j \in DOMAIN more, i < j
        PROVE  more[i].n < more[j].n
    <3>1. i \in DOMAIN next /\ more[i] = next[i]
      BY <2>2, <1>4, <1>5
    <3>2. CASE j \in DOMAIN next /\ more[j] = next[j]
      BY <3>1, <3>2, <2>2 DEF Queued
    <3>3. CASE more[j] = k
      BY <3>1, <3>3, <1>6
    <3> QED BY <3>2, <3>3, <1>5
  <2>3. ASSUME NEW i \in DOMAIN first, NEW j \in DOMAIN more
        PROVE  first[i].n < more[j].n
    <3>1. CASE j \in DOMAIN next /\ more[j] = next[j]
      BY <3>1 DEF Queued
    <3>2. CASE more[j] = k
      BY <3>2, <1>7
    <3> QED BY <3>1, <3>2, <1>5
  <2>4. \A i \in DOMAIN first : first[i].n <= last + 1
    BY <1>7
  <2>5. \A i, j \in DOMAIN first : i < j => first[i].n < first[j].n
    BY DEF Queued
  <2> QED BY <1>1, <1>4, <2>1, <2>2, <2>3, <2>4, <2>5 DEF Queued
<1>9. ASSUME NEW n \in Nat, Handled(n, first, next, last)
      PROVE  Handled(n, first, next, last + 1) /\ Handled(n, first, more, last + 1)
  <2>1. n <= last /\ n <= last + 1 /\ n < k.n
    BY <1>9 DEF Handled
  <2>2. \A i \in DOMAIN more : n < more[i].n
    BY <1>5, <1>9, <2>1 DEF Handled
  <2> QED BY <1>9, <2>1, <2>2 DEF Handled
<1> QED BY <1>3, <1>8, <1>9 DEF more

LEMMA PressInput ==
  ASSUME InputInv, NEW kind \in Key, Press(kind), LoopAssumption
  PROVE  InputInv'
<1> USE DEF InputInv
<1> DEFINE k == [kind |-> kind, n |-> keys + 1]
<1>1. /\ keys \in Nat /\ keys' = keys + 1 /\ now' = now
      /\ UNCHANGED <<chars, named, held, sent, paste, shell, job>>
      /\ \/ typed' = Append(typed, k) /\ pressed' = pressed
         \/ pressed' = Append(pressed, k) /\ typed' = typed
  BY DEF Press, InputType, input, other
<1>2. k \in Keys
  BY <1>1 DEF LoopAssumption, Keys
<1>3. k.n = keys + 1
  OBVIOUS
<1> HIDE DEF k
<1>4. Queued(chars, typed, keys) /\ Queued(named, pressed, keys)
  BY DEF InputType
<1>5. Queued(chars', typed', keys')
  BY <1>1, <1>2, <1>3, <1>4, QueueGrows
<1>6. Queued(named', pressed', keys')
  BY <1>1, <1>2, <1>3, <1>4, QueueGrows
<1>7. \A n \in Nat : Handled(n, chars, typed, keys) => Handled(n, chars', typed', keys')
  BY <1>1, <1>2, <1>3, <1>4, QueueGrows
<1>8. \A n \in Nat : Handled(n, named, pressed, keys) => Handled(n, named', pressed', keys')
  BY <1>1, <1>2, <1>3, <1>4, QueueGrows
<1>9. InputType'
  BY <1>1, <1>5, <1>6 DEF InputType
<1>10. ASSUME NEW b \in Came(sent)
       PROVE  b.key \in Nat
  <2>1. b \in Bytewise
    BY DEF InputType, Came
  <2> QED BY <2>1, ByteIs
<1>11. SentInOrder'
  BY <1>1, <1>7, <1>8, <1>10 DEF SentInOrder
<1>12. PasteGoesOn'
  BY <1>1, <1>8 DEF PasteGoesOn
<1>13. NoneCut'
  BY <1>1 DEF NoneCut, InUse, IsOpen
<1> QED BY <1>9, <1>11, <1>12, <1>13

\* A paste is left as it is while a key is handled and its bytes are written.
LEMMA CharacterInput ==
  ASSUME InputInv, character_callback, LoopAssumption
  PROVE  InputInv'
<1> USE DEF InputInv
<1> DEFINE k == Head(chars).n
           f == Fitting(1)
<1>1. /\ chars # <<>> /\ chars' = Tail(chars) /\ now = "keys" /\ now' = now
      /\ UNCHANGED <<keys, named, typed, pressed, paste, shell, job>>
      /\ sent' = sent \o Taken(Bytes("char", k, 1), Fitting(Len(Bytes("char", k, 1))))
      /\ held' = held + Fitting(Len(Bytes("char", k, 1)))
  BY DEF character_callback, Write, window, other
<1>2. /\ keys \in Nat /\ held \in 0 .. Room /\ sent \in Seq(Bytewise)
      /\ Queued(chars, typed, keys) /\ Queued(named, pressed, keys)
  BY DEF InputType
<1>3. /\ k \in Nat /\ Queued(Tail(chars), typed, keys)
      /\ Handled(k, Tail(chars), typed, keys)
      /\ \A n \in Nat : Handled(n, chars, typed, keys) => n < k /\ Handled(n, Tail(chars), typed, keys)
  BY <1>1, <1>2, QueueGoesOn
<1> HIDE DEF k
<1>4. Len(Bytes("char", k, 1)) = 1
  <2>1. k \in Nat /\ 1 \in Nat
    BY <1>3
  <2> HIDE DEF k
  <2> QED BY <2>1, HowMany
<1>5. f \in 0 .. 1 /\ held + f \in 0 .. Room
  BY <1>2, Fits
<1> HIDE DEF f
<1>6. sent' = sent \o Taken(Bytes("char", k, 1), f) /\ held' = held + f
  BY <1>1, <1>4 DEF f
<1>7. \A b \in Came(sent) : b \in Bytewise /\ b.key \in Nat
  BY <1>2, ByteIs DEF Came
<1>8. \A b \in Came(sent) : b.src = "char" => b.key < k
  BY <1>3, <1>7 DEF SentInOrder
<1>9. InOrder(sent)
  BY DEF SentInOrder
<1>10. /\ sent' \in Seq(Bytewise) /\ InOrder(sent')
       /\ Came(sent') = Came(sent) \cup First(Bytes("char", k, 1), f)
  <2> DEFINE src == "char"
             n == 1
  <2>1. src \in {"char", "arrow"} /\ n \in Nat /\ f \in 0 .. n
    BY <1>5
  <2>2. Earlier(sent, src, k)
    BY <1>8 DEF Earlier
  <2>3. sent' = Wrote(sent, Bytes(src, k, n), f)
    BY <1>6 DEF Wrote
  <2> HIDE DEF src, n
  <2>4. /\ sent' \in Seq(Bytewise) /\ InOrder(sent')
        /\ Came(sent') = Came(sent) \cup First(Bytes(src, k, n), f)
    <3>1. sent \in Seq(Bytewise) /\ k \in Nat
      BY <1>2, <1>3
    <3>2. /\ InOrder(sent) /\ Earlier(sent, src, k) /\ sent \in Seq(Bytewise) /\ k \in Nat
          /\ src \in {"char", "arrow"} /\ n \in Nat /\ f \in 0 .. n
      BY <1>9, <2>1, <2>2, <3>1
    <3>3. Wrote(sent, Bytes(src, k, n), f) \in Seq(Bytewise)
      BY KeySent, <3>2
    <3>4. InOrder(Wrote(sent, Bytes(src, k, n), f))
      BY KeySent, <3>2
    <3>5. Adds(Wrote(sent, Bytes(src, k, n), f), sent, Bytes(src, k, n), f)
      BY KeySent, <3>2
    <3> QED BY <2>3, <3>3, <3>4, <3>5 DEF Adds
  <2> QED BY <2>4 DEF src, n
<1>11. \A b \in Came(sent') : b \in Came(sent) \/ (b.src = "char" /\ b.key = k)
  <2>1. ASSUME NEW i \in 1 .. f
        PROVE  Bytes("char", k, 1)[i].src = "char" /\ Bytes("char", k, 1)[i].key = k
    BY <1>5 DEF Byte, Bytes
  <2> QED BY <1>10, <2>1 DEF First
<1>12. Came(sent) \subseteq Came(sent')
  BY <1>10
<1>13. InputType'
  BY <1>1, <1>2, <1>3, <1>5, <1>6, <1>10 DEF InputType
<1>14. SentInOrder'
  <2>1. ASSUME NEW b \in Came(sent')
        PROVE  IF b.src = "char" THEN Handled(b.key, chars', typed', keys')
                                 ELSE Handled(b.key, named', pressed', keys')
    <3>1. CASE b \in Came(sent) /\ b.src = "char"
      BY <3>1, <1>1, <1>3, <1>7 DEF SentInOrder
    <3>2. CASE b \in Came(sent) /\ b.src # "char"
      BY <3>2, <1>1 DEF SentInOrder
    <3>3. CASE b.src = "char" /\ b.key = k
      BY <3>3, <1>1, <1>3
    <3> QED BY <3>1, <3>2, <3>3, <1>11
  <2>2. ASSUME NEW b \in Came(sent'), b.src = "paste", b.i # 1
        PROVE  Byte("paste", b.key, b.i - 1, b.of) \in Came(sent')
    BY <2>2, <1>11, <1>12 DEF SentInOrder
  <2> QED BY <1>10, <2>1, <2>2 DEF SentInOrder
<1>15. \A b \in Came(sent') : b.src = "paste" => b \in Came(sent)
  BY <1>11
<1>16. PasteGoesOn'
  BY <1>1, <1>12, <1>15 DEF PasteGoesOn
<1>17. NoneCut'
  BY <1>1, <1>12, <1>15 DEF NoneCut, InUse, IsOpen
<1> QED BY <1>13, <1>14, <1>16, <1>17

\* A key that sends nothing, or two bytes, or begins a paste.
LEMMA NamedInput ==
  ASSUME InputInv, key_callback, LoopAssumption
  PROVE  InputInv'
<1> USE DEF InputInv
<1> DEFINE h == Head(named)
           k == Head(named).n
           f == Fitting(2)
<1>1. /\ named # <<>> /\ named' = Tail(named) /\ now = "keys" /\ now' = now
      /\ UNCHANGED <<keys, chars, typed, pressed, shell, job>>
  BY DEF key_callback, window, other
<1>2. \/ UNCHANGED <<paste, held, sent>>
      \/ /\ paste = <<>> /\ UNCHANGED <<held, sent>>
         /\ \E t \in Clip : paste' = Bytes("paste", k, Printable(t))
      \/ Write(Bytes("arrow", k, 2)) /\ UNCHANGED paste
  BY DEF key_callback
<1>3. /\ keys \in Nat /\ held \in 0 .. Room /\ sent \in Seq(Bytewise)
      /\ Queued(chars, typed, keys) /\ Queued(named, pressed, keys)
  BY DEF InputType
<1>4. /\ k \in Nat /\ Queued(Tail(named), pressed, keys)
      /\ Handled(k, Tail(named), pressed, keys)
      /\ \A n \in Nat : Handled(n, named, pressed, keys) => n < k /\ Handled(n, Tail(named), pressed, keys)
  BY <1>1, <1>3, QueueGoesOn
<1> HIDE DEF k
<1>5. \A b \in Came(sent) : b \in Bytewise /\ b.key \in Nat
  BY <1>3, ByteIs DEF Came
<1>6. \A b \in Came(sent) : b.src # "char" => b.key < k /\ Handled(b.key, Tail(named), pressed, keys)
  BY <1>4, <1>5 DEF SentInOrder
<1>7. CASE UNCHANGED <<held, sent>>
  <2>1. InputType'
    BY <1>1, <1>3, <1>4, <1>7 DEF InputType
  <2>2. SentInOrder'
    BY <1>1, <1>6, <1>7 DEF SentInOrder
  <2>3. CASE UNCHANGED paste
    <3>1. PasteGoesOn'
      BY <1>1, <1>4, <1>7, <2>3 DEF PasteGoesOn
    <3>2. NoneCut'
      BY <1>1, <1>7, <2>3 DEF NoneCut, InUse, IsOpen
    <3> QED BY <2>1, <2>2, <3>1, <3>2
  <2>4. ASSUME paste = <<>>, NEW t \in Clip, paste' = Bytes("paste", k, Printable(t))
        PROVE  InputInv'
    <3> DEFINE n == Printable(t)
    <3>1. n \in Nat
      BY PrintableIsNat DEF LoopAssumption
    <3>2. paste' = Bytes("paste", k, n)
      BY <2>4
    <3> HIDE DEF n
    <3>3. PasteGoesOn'
      <4>1. CASE n = 0
        BY <3>2, <4>1 DEF PasteGoesOn, Bytes
      <4>2. CASE n # 0
        <5>1. paste' = EndOf(k, n, 0) /\ 0 < n /\ 0 \in Nat
          BY <3>1, <3>2, <4>2 DEF EndOf, Bytes
        <5>2. Handled(k, named', pressed', keys')
          BY <1>1, <1>4
        <5>3. \A b \in Came(sent') : b.src = "paste" => b.key < k
          BY <1>6, <1>7
        <5> QED BY <1>4, <3>1, <5>1, <5>2, <5>3 DEF PasteGoesOn
      <4> QED BY <4>1, <4>2
    <3>4. Came(paste) = {}
      BY <2>4 DEF Came
    <3>5. NoneCut'
      BY <1>1, <1>7, <3>4 DEF NoneCut, InUse, IsOpen
    <3> QED BY <2>1, <2>2, <3>3, <3>5
  <2> QED BY <1>2, <1>7, <2>3, <2>4
<1>8. CASE Write(Bytes("arrow", k, 2)) /\ UNCHANGED paste
  <2>1. f \in 0 .. 2 /\ held + f \in 0 .. Room
    BY <1>3, Fits
  <2>2. Len(Bytes("arrow", k, 2)) = 2
    BY <1>4, BytesAre
  <2> HIDE DEF f
  <2>3. sent' = sent \o Taken(Bytes("arrow", k, 2), f) /\ held' = held + f /\ paste' = paste
    BY <1>8, <2>2 DEF Write, f
  <2>4. InOrder(sent)
    BY DEF SentInOrder
  <2>5. /\ sent' \in Seq(Bytewise) /\ InOrder(sent')
        /\ Came(sent') = Came(sent) \cup First(Bytes("arrow", k, 2), f)
    <3> DEFINE src == "arrow"
               n == 2
    <3>1. src \in {"char", "arrow"} /\ n \in Nat /\ f \in 0 .. n
      BY <2>1
    <3>2. Earlier(sent, src, k)
      BY <1>6 DEF Earlier
    <3>3. sent' = Wrote(sent, Bytes(src, k, n), f)
      BY <2>3 DEF Wrote
    <3> HIDE DEF src, n
    <3>4. /\ sent' \in Seq(Bytewise) /\ InOrder(sent')
          /\ Came(sent') = Came(sent) \cup First(Bytes(src, k, n), f)
      <4>1. sent \in Seq(Bytewise) /\ k \in Nat
        BY <1>3, <1>4
      <4>2. /\ InOrder(sent) /\ Earlier(sent, src, k) /\ sent \in Seq(Bytewise) /\ k \in Nat
            /\ src \in {"char", "arrow"} /\ n \in Nat /\ f \in 0 .. n
        BY <2>4, <3>1, <3>2, <4>1
      <4>3. Wrote(sent, Bytes(src, k, n), f) \in Seq(Bytewise)
        BY KeySent, <4>2
      <4>4. InOrder(Wrote(sent, Bytes(src, k, n), f))
        BY KeySent, <4>2
      <4>5. Adds(Wrote(sent, Bytes(src, k, n), f), sent, Bytes(src, k, n), f)
        BY KeySent, <4>2
      <4> QED BY <3>3, <4>3, <4>4, <4>5 DEF Adds
    <3> QED BY <3>4 DEF src, n
  <2>6. \A b \in Came(sent') : b \in Came(sent) \/ (b.src = "arrow" /\ b.key = k)
    <3>1. ASSUME NEW i \in 1 .. f
          PROVE  Bytes("arrow", k, 2)[i].src = "arrow" /\ Bytes("arrow", k, 2)[i].key = k
      BY <2>1 DEF Byte, Bytes
    <3> QED BY <2>5, <3>1 DEF First
  <2>7. Came(sent) \subseteq Came(sent')
    BY <2>5
  <2>8. InputType'
    BY <1>1, <1>3, <1>4, <2>1, <2>3, <2>5 DEF InputType
  <2>9. SentInOrder'
    <3>1. ASSUME NEW b \in Came(sent')
          PROVE  IF b.src = "char" THEN Handled(b.key, chars', typed', keys')
                                   ELSE Handled(b.key, named', pressed', keys')
      <4>1. CASE b \in Came(sent) /\ b.src = "char"
        BY <4>1, <1>1 DEF SentInOrder
      <4>2. CASE b \in Came(sent) /\ b.src # "char"
        BY <4>2, <1>1, <1>6
      <4>3. CASE b.src = "arrow" /\ b.key = k
        BY <4>3, <1>1, <1>4
      <4> QED BY <4>1, <4>2, <4>3, <2>6
    <3>2. ASSUME NEW b \in Came(sent'), b.src = "paste", b.i # 1
          PROVE  Byte("paste", b.key, b.i - 1, b.of) \in Came(sent')
      BY <3>2, <2>6, <2>7 DEF SentInOrder
    <3> QED BY <2>5, <3>1, <3>2 DEF SentInOrder
  <2>10. \A b \in Came(sent') : b.src = "paste" => b \in Came(sent)
    BY <2>6
  <2>11. PasteGoesOn'
    BY <1>1, <1>4, <2>3, <2>7, <2>10 DEF PasteGoesOn
  <2>12. NoneCut'
    BY <1>1, <2>3, <2>7, <2>10 DEF NoneCut, InUse, IsOpen
  <2> QED BY <2>8, <2>9, <2>11, <2>12
<1> QED BY <1>2, <1>7, <1>8

\* Bytes i to j of paste k.
Pasted(k, n, i, j) == {Byte("paste", k, l, n) : l \in i .. j}

\* What is left of a paste when m bytes of it have been written.
LEMMA EndIs ==
  ASSUME NEW k \in Nat, NEW n \in Nat, NEW m \in Nat, m < n
  PROVE  /\ EndOf(k, n, m) \in Seq(Bytewise) /\ Len(EndOf(k, n, m)) = n - m
         /\ \A i \in 1 .. n - m : EndOf(k, n, m)[i] = Byte("paste", k, m + i, n)
         /\ InOrder(EndOf(k, n, m))
         /\ Came(EndOf(k, n, m)) = Pasted(k, n, m + 1, n)
<1> DEFINE q == EndOf(k, n, m)
<1>1. /\ DOMAIN q = 1 .. n - m
      /\ \A i \in 1 .. n - m : q[i] = Byte("paste", k, m + i, n)
  BY DEF EndOf
<1>2. ASSUME NEW i \in 1 .. n - m
      PROVE  Byte("paste", k, m + i, n) \in Bytewise
  BY DEF Byte, Bytewise
<1>3. q \in Seq(Bytewise) /\ Len(q) = n - m
  <2>1. q = [i \in 1 .. n - m |-> Byte("paste", k, m + i, n)]
    BY DEF EndOf
  <2>2. n - m \in Nat
    OBVIOUS
  <2> HIDE DEF q
  <2> QED BY <1>2, <2>1, <2>2
<1>4. \A i, j \in Nat : i < j => Before(Byte("paste", k, i, n), Byte("paste", k, j, n))
  BY DEF Before, Byte
<1>5. InOrder(q)
  <2>1. ASSUME NEW i \in DOMAIN q, NEW j \in DOMAIN q, i < j
        PROVE  Before(q[i], q[j])
    <3>1. m + i < m + j /\ m + i \in Nat /\ m + j \in Nat
      BY <1>1, <2>1
    <3> QED BY <1>1, <1>4, <3>1
  <2> QED BY <2>1 DEF InOrder
<1>6. Came(q) = {Byte("paste", k, i, n) : i \in m + 1 .. n}
  <2>1. ASSUME NEW b \in Came(q)
        PROVE  b \in {Byte("paste", k, i, n) : i \in m + 1 .. n}
    <3>1. PICK i \in 1 .. n - m : b = Byte("paste", k, m + i, n)
      BY <1>1 DEF Came
    <3>2. m + i \in m + 1 .. n
      OBVIOUS
    <3> QED BY <3>1, <3>2
  <2>2. ASSUME NEW i \in m + 1 .. n
        PROVE  Byte("paste", k, i, n) \in Came(q)
    <3>1. i - m \in 1 .. n - m /\ m + (i - m) = i
      OBVIOUS
    <3>2. q[i - m] = Byte("paste", k, i, n)
      BY <1>1, <3>1
    <3> QED BY <1>1, <3>1, <3>2 DEF Came
  <2> QED BY <2>1, <2>2
<1> QED BY <1>1, <1>3, <1>5, <1>6 DEF Pasted

\* f bytes more of it are written.
Without(bytes, f, n) == SubSeq(bytes, f + 1, n)

LEMMA EndGoesOn ==
  ASSUME NEW k \in Nat, NEW n \in Nat, NEW m \in Nat, m < n, NEW f \in 0 .. n - m,
         NEW l, l = m + f
  PROVE  Without(EndOf(k, n, m), f, n - m) = EndOf(k, n, l)
<1> DEFINE q == EndOf(k, n, m)
           r == SubSeq(q, f + 1, n - m)
           g == n - l
<1>1. \A i \in 1 .. n - m : q[i] = Byte("paste", k, m + i, n)
  BY EndIs
<1>2. q \in Seq(Bytewise) /\ Len(q) = n - m
  BY EndIs
<1>3. g \in Nat /\ g = n - m - f
  OBVIOUS
<1> HIDE DEF q
<1>4. r = [i \in 1 .. g |-> q[i + f]]
  BY <1>2, <1>3
<1>5. \A i \in 1 .. g : q[i + f] = Byte("paste", k, l + i, n)
  <2>1. \A i \in 1 .. g : i + f \in 1 .. n - m /\ m + (i + f) = l + i
    OBVIOUS
  <2> QED BY <1>1, <2>1
<1>6. r = [i \in 1 .. g |-> Byte("paste", k, l + i, n)]
  <2> HIDE DEF r
  <2> QED BY <1>4, <1>5
<1> QED BY <1>6 DEF EndOf, Without, q

LEMMA NothingLeft ==
  ASSUME NEW k \in Nat, NEW n \in Nat
  PROVE  EndOf(k, n, n) = <<>>
<1>1. 1 .. n - n = {}
  OBVIOUS
<1> QED BY <1>1 DEF EndOf

\* What was sent of the keys and pastes so far comes before what is left.
LEMMA PasteIs ==
  ASSUME InputInv
  PROVE  /\ paste \in Seq(Bytewise) /\ InOrder(paste)
         /\ \A b \in Came(sent) : \A i \in 1 .. Len(paste) : Before(b, paste[i])
<1>1. CASE paste = <<>>
  <2>1. paste \in Seq(Bytewise) /\ DOMAIN paste = {} /\ 1 .. Len(paste) = {}
    BY <1>1
  <2> QED BY <2>1 DEF InOrder
<1>2. CASE paste # <<>>
  <2>1. PICK k, n, m \in Nat :
           /\ m < n /\ paste = EndOf(k, n, m)
           /\ \A b \in Came(sent) : b.src = "paste" => b.key < k \/ (b.key = k /\ b.i <= m)
    BY <1>2 DEF InputInv, PasteGoesOn
  <2>2. k \in Nat /\ n \in Nat /\ m \in Nat /\ m < n
    BY <2>1
  <2>3. /\ paste \in Seq(Bytewise) /\ InOrder(paste) /\ Len(paste) = n - m
        /\ \A i \in 1 .. n - m : paste[i] = Byte("paste", k, m + i, n)
    BY <2>1, <2>2, EndIs
  <2>4. ASSUME NEW b \in Came(sent), NEW i \in 1 .. Len(paste)
        PROVE  Before(b, paste[i])
    <3>1. paste[i] = Byte("paste", k, m + i, n)
      BY <2>3
    <3>2. paste[i].src = "paste" /\ paste[i].key = k /\ paste[i].i = m + i
      BY <3>1 DEF Byte
    <3>3. b.src = "paste" => b.key < k \/ (b.key = k /\ b.i <= m)
      BY <2>1
    <3>4. b \in Bytewise
      BY DEF InputInv, InputType, Came
    <3>5. b.i \in Nat
      BY <3>4, ByteIs
    <3>6. b.i <= m => b.i < m + i
      BY <3>5, <2>3
    <3> QED BY <3>2, <3>3, <3>6 DEF Before
  <2> QED BY <2>3, <2>4
<1> QED BY <1>1, <1>2

\* The rest of a paste is written as far as it fits.
LEMMA PasteInput ==
  ASSUME InputInv, process_keyboard, LoopAssumption
  PROVE  InputInv'
<1> DEFINE f == Fitting(Len(paste))
<1>1. /\ chars = <<>> /\ named = <<>>
      /\ UNCHANGED <<chars, named, keys, typed, pressed, shell, job>>
      /\ now = "keys" /\ now' \in {"ending", "reading"}
  BY DEF process_keyboard, window, other
<1>2. /\ held \in 0 .. Room /\ sent \in Seq(Bytewise)
  BY DEF InputInv, InputType
<1>3. paste \in Seq(Bytewise) /\ InOrder(paste) /\ Len(paste) \in Nat
  BY PasteIs
<1>4. f \in 0 .. Len(paste) /\ held + f \in 0 .. Room
  BY <1>2, <1>3, Fits
<1>5. sent' = Wrote(sent, paste, f) /\ held' = held + f
  BY DEF process_keyboard, Write, Wrote
<1>6. paste' = IF InUse THEN SubSeq(paste, held' - held + 1, Len(paste)) ELSE <<>>
  BY DEF process_keyboard
<1> HIDE DEF f
<1>7. held' - held + 1 = f + 1 /\ held' \in 0 .. Room
  BY <1>2, <1>4, <1>5
<1>8. paste' = IF InUse THEN SubSeq(paste, f + 1, Len(paste)) ELSE <<>>
  BY <1>6, <1>7
<1>9. CASE paste = <<>>
  <2>1. Len(paste) = 0 /\ f = 0
    BY <1>4, <1>9
  <2>2. sent' = sent
    <3>1. SubSeq(paste, 1, 0) = <<>> /\ sent \o <<>> = sent
      BY <1>2, <1>9
    <3> QED BY <1>5, <2>1, <3>1 DEF Wrote, Taken
  <2>3. paste' = <<>>
    <3>1. SubSeq(paste, 1, 0) = <<>>
      BY <1>9
    <3> QED BY <1>8, <2>1, <3>1
  <2> QED BY <1>1, <1>7, <1>9, <2>2, <2>3, Untouched DEF InUse, IsOpen
<1>10. CASE paste # <<>>
  <2>1. PICK k, n, m \in Nat :
           /\ m < n /\ paste = EndOf(k, n, m)
           /\ Handled(k, named, pressed, keys)
           /\ m # 0 => Byte("paste", k, m, n) \in Came(sent)
           /\ \A b \in Came(sent) : b.src = "paste" => b.key < k \/ (b.key = k /\ b.i <= m)
    BY <1>10 DEF InputInv, PasteGoesOn
  <2>2. /\ Len(paste) = n - m
        /\ \A i \in 1 .. n - m : paste[i] = Byte("paste", k, m + i, n)
        /\ Came(paste) = Pasted(k, n, m + 1, n)
    <3>1. /\ Len(EndOf(k, n, m)) = n - m
          /\ \A i \in 1 .. n - m : EndOf(k, n, m)[i] = Byte("paste", k, m + i, n)
          /\ Came(EndOf(k, n, m)) = Pasted(k, n, m + 1, n)
      <4>1. k \in Nat /\ n \in Nat /\ m \in Nat /\ m < n
        BY <2>1
      <4> QED BY <4>1, EndIs
    <3>2. paste = EndOf(k, n, m)
      BY <2>1
    <3> QED BY <3>1, <3>2
  <2>3. f \in 0 .. n - m /\ f \in Nat
    BY <1>4, <2>2
  <2>4. SubSeq(paste, f + 1, n - m) = IF m + f = n THEN <<>> ELSE EndOf(k, n, m + f)
    <3>1. SubSeq(EndOf(k, n, m), f + 1, n - m) = IF m + f = n THEN <<>> ELSE EndOf(k, n, m + f)
      <4>1. k \in Nat /\ n \in Nat /\ m \in Nat /\ m < n
        BY <2>1
      <4> DEFINE rest == Without(EndOf(k, n, m), f, n - m)
                 l == m + f
      <4> HIDE DEF l
      <4>2. l = m + f
        BY DEF l
      <4>3. rest = EndOf(k, n, l)
        BY <2>3, <4>1, <4>2, EndGoesOn
      <4>4. l = n => EndOf(k, n, l) = <<>>
        BY <4>1, NothingLeft
      <4> HIDE DEF rest
      <4> QED BY <4>3, <4>4 DEF rest, l, Without
    <3>2. paste = EndOf(k, n, m)
      BY <2>1
    <3> QED BY <3>1, <3>2
  <2>5. paste' = IF InUse /\ m + f # n THEN EndOf(k, n, m + f) ELSE <<>>
    BY <1>8, <2>2, <2>4
  <2>6. /\ sent' \in Seq(Bytewise)
        /\ Came(sent') = Came(sent) \cup First(paste, f)
    <3>1. sent \in Seq(Bytewise) /\ paste \in Seq(Bytewise) /\ f \in 0 .. Len(paste)
      BY <1>2, <1>3, <1>4
    <3>2. sent' = Wrote(sent, paste, f)
      BY <1>5
    <3> QED BY <3>1, <3>2, AppendedHas
  <2>7. InOrder(sent')
    <3>1. InOrder(sent)
      BY DEF InputInv, SentInOrder
    <3>2. \A b \in Came(sent) : \A i \in 1 .. f : Before(b, paste[i])
      BY <1>4, <1>3, PasteIs
    <3> QED BY <1>2, <1>3, <1>4, <1>5, <3>1, <3>2, AppendedInOrder
  <2>8. First(paste, f) = Pasted(k, n, m + 1, m + f)
    <3>1. ASSUME NEW i \in 1 .. f
          PROVE  paste[i] \in Pasted(k, n, m + 1, m + f)
      <4>1. i \in 1 .. n - m /\ m + i \in m + 1 .. m + f
        BY <2>3
      <4> QED BY <2>2, <4>1 DEF Pasted
    <3>2. ASSUME NEW j \in m + 1 .. m + f
          PROVE  Byte("paste", k, j, n) \in First(paste, f)
      <4>1. j - m \in 1 .. f /\ j - m \in 1 .. n - m /\ m + (j - m) = j
        BY <2>3
      <4>2. paste[j - m] = Byte("paste", k, j, n)
        BY <2>2, <4>1
      <4> QED BY <4>1, <4>2 DEF First
    <3> QED BY <3>1, <3>2 DEF First, Pasted
  <2>9. \A i : i \in m + 1 .. m + f => Byte("paste", k, i, n) \in Came(sent')
    BY <2>6, <2>8 DEF Pasted
  <2>10. ASSUME NEW b \in Came(sent'), b \notin Came(sent)
         PROVE  /\ b.src = "paste" /\ b.key = k /\ b.of = n /\ b.i \in m + 1 .. m + f
    <3>1. PICK i \in m + 1 .. m + f : b = Byte("paste", k, i, n)
      BY <2>6, <2>8, <2>10 DEF Pasted
    <3> QED BY <3>1 DEF Byte
  <2>11. Came(sent) \subseteq Came(sent')
    BY <2>6
  <2>12. InputType'
    BY <1>1, <1>7, <2>6 DEF InputInv, InputType
  <2>13. SentInOrder'
    <3>1. ASSUME NEW b \in Came(sent')
          PROVE  IF b.src = "char" THEN Handled(b.key, chars', typed', keys')
                                   ELSE Handled(b.key, named', pressed', keys')
      <4>1. CASE b \in Came(sent)
        BY <4>1, <1>1 DEF InputInv, SentInOrder
      <4>2. CASE b \notin Came(sent)
        BY <4>2, <1>1, <2>1, <2>10
      <4> QED BY <4>1, <4>2
    <3>2. ASSUME NEW b \in Came(sent'), b.src = "paste", b.i # 1
          PROVE  Byte("paste", b.key, b.i - 1, b.of) \in Came(sent')
      <4>1. CASE b \in Came(sent)
        BY <3>2, <4>1, <2>11 DEF InputInv, SentInOrder
      <4>2. CASE b \notin Came(sent)
        <5>1. b.key = k /\ b.of = n /\ b.i \in m + 1 .. m + f
          BY <4>2, <2>10
        <5>2. CASE b.i = m + 1
          <6>1. m # 0 /\ b.i - 1 = m
            BY <5>1, <5>2, <3>2
          <6> QED BY <5>1, <6>1, <2>1, <2>11
        <5>3. CASE b.i # m + 1
          <6>1. b.i - 1 \in m + 1 .. m + f
            BY <5>1, <5>3, <2>3
          <6> QED BY <5>1, <6>1, <2>9
        <5> QED BY <5>2, <5>3
      <4> QED BY <4>1, <4>2
    <3> QED BY <2>7, <3>1, <3>2 DEF SentInOrder
  <2>14. PasteGoesOn'
    <3>1. CASE InUse /\ m + f # n
      <4> DEFINE l == m + f
      <4>1. l \in Nat /\ l < n
        BY <3>1, <2>1, <2>3
      <4>2. paste' = EndOf(k, n, l) /\ Handled(k, named', pressed', keys')
        BY <1>1, <2>1, <2>5, <3>1
      <4>3. l # 0 => Byte("paste", k, l, n) \in Came(sent')
        <5>1. CASE f = 0
          BY <5>1, <2>1, <2>11
        <5>2. CASE f # 0
          <6>1. l \in m + 1 .. m + f
            BY <5>2, <2>3
          <6> QED BY <6>1, <2>9
        <5> QED BY <5>1, <5>2
      <4>4. ASSUME NEW b \in Came(sent'), b.src = "paste"
            PROVE  b.key < k \/ (b.key = k /\ b.i <= l)
        <5>1. CASE b \in Came(sent)
          <6>1. b \in Bytewise
            BY <5>1, <1>2 DEF Came
          <6>2. b.i \in Nat
            BY <6>1, ByteIs
          <6>3. b.i <= m => b.i <= l
            BY <6>2, <2>3
          <6> QED BY <5>1, <6>3, <2>1, <4>4
        <5>2. CASE b \notin Came(sent)
          <6>1. b.key = k /\ b.i \in m + 1 .. m + f
            BY <5>2, <2>10
          <6> QED BY <6>1, <2>3
        <5> QED BY <5>1, <5>2
      <4> HIDE DEF l
      <4> QED BY <4>1, <4>2, <4>3, <4>4 DEF PasteGoesOn
    <3>2. CASE ~ (InUse /\ m + f # n)
      BY <3>2, <2>5 DEF PasteGoesOn
    <3> QED BY <3>1, <3>2
  <2>15. NoneCut'
    <3> SUFFICES ASSUME InUse, NEW b \in Came(sent'), b.src = "paste", b.i # b.of
                 PROVE  Byte("paste", b.key, b.i + 1, b.of) \in Came(sent') \cup Came(paste')
      BY <1>1 DEF NoneCut, InUse, IsOpen
    <3>1. Came(paste) \subseteq Came(sent') \cup Came(paste')
      <4> SUFFICES ASSUME NEW i \in m + 1 .. n
                   PROVE  Byte("paste", k, i, n) \in Came(sent') \cup Came(paste')
        BY <2>2 DEF Pasted
      <4>1. CASE i <= m + f
        <5>1. i \in m + 1 .. m + f
          BY <4>1, <2>3
        <5> QED BY <5>1, <2>9
      <4>2. CASE i > m + f
        <5> DEFINE l == m + f
        <5>1. l \in Nat /\ l < n /\ i \in l + 1 .. n /\ m + f # n
          BY <4>2, <2>3
        <5>2. paste' = EndOf(k, n, l)
          BY <5>1, <2>5
        <5> HIDE DEF l
        <5>3. Came(paste') = Pasted(k, n, l + 1, n)
          BY <5>1, <5>2, EndIs
        <5> QED BY <5>1, <5>3 DEF Pasted
      <4> QED BY <4>1, <4>2, <2>3
    <3>2. CASE b \in Came(sent)
      <4>1. IsOpen
        BY <1>1 DEF IsOpen
      <4>2. Byte("paste", b.key, b.i + 1, b.of) \in Came(sent) \cup Came(paste)
        BY <3>2, <4>1 DEF InputInv, NoneCut
      <4> QED BY <4>2, <3>1, <2>11
    <3>3. CASE b \notin Came(sent)
      <4>1. b.key = k /\ b.of = n /\ b.i \in m + 1 .. m + f
        BY <3>3, <2>10
      <4>2. b.i + 1 \in m + 1 .. n
        BY <4>1, <2>3
      <4>3. Byte("paste", b.key, b.i + 1, b.of) \in Came(paste)
        BY <4>1, <4>2, <2>2 DEF Pasted
      <4> QED BY <4>3, <3>1
    <3> QED BY <3>2, <3>3
  <2> QED BY <2>12, <2>13, <2>14, <2>15 DEF InputInv
<1> QED BY <1>9, <1>10

LEMMA InputStep ==
  ASSUME InputInv, [Next]_vars, LoopAssumption
  PROVE  InputInv'
<1> DEFINE kept == <<keys, sent, paste, chars, named, typed, pressed>>
<1>0. /\ held \in 0 .. Room /\ Room \in Nat
      /\ now \in {"waiting", "reading", "resizing"} => chars = <<>> /\ named = <<>>
  BY DEF InputInv, InputType, LoopAssumption
<1>1. CASE Wake
  BY <1>1, WakeInput
<1>2. CASE character_callback
  BY <1>2, CharacterInput
<1>3. CASE key_callback
  BY <1>3, NamedInput
<1>4. CASE process_keyboard
  BY <1>4, PasteInput
<1>5. CASE Read
  <2>1. UNCHANGED kept /\ UNCHANGED <<shell, job>>
        /\ now = "reading" /\ now' \in {"reading", "resizing"}
    BY <1>5 DEF Read, AfterRead, window, other
  <2>2. held' \in 0 .. Room
    <3>1. held' = held \/ (held < Room /\ held' = held + 1)
      BY <1>5 DEF Read, Parse
    <3> QED BY <1>0, <3>1
  <2> QED BY <1>0, <2>1, <2>2, Untouched DEF InUse, IsOpen
<1>6. CASE Resize
  <2>1. UNCHANGED kept /\ UNCHANGED <<held, shell, job>> /\ now = "resizing" /\ now' \in {"waiting", "ending"}
    BY <1>6 DEF Resize, input, window, other
  <2> QED BY <1>0, <2>1, Untouched DEF InUse, IsOpen
<1>7. CASE Cleanup
  <2>1. UNCHANGED kept /\ held' = 0 /\ now' = "reaping"
    BY <1>7 DEF Cleanup, input, window
  <2> QED BY <1>0, <2>1, Untouched DEF IsOpen
<1>8. CASE Reap
  <2>1. UNCHANGED kept /\ held' = held /\ now' = "closed"
    BY <1>8 DEF Reap, input, window
  <2> QED BY <1>0, <2>1, Untouched DEF IsOpen
<1>9. ASSUME NEW kind \in Key, Press(kind)
      PROVE  InputInv'
  BY <1>9, PressInput
<1>10. CASE WindowEvent \/ Rest
  <2>1. UNCHANGED kept /\ UNCHANGED <<now, held, shell, job>>
    BY <1>10 DEF WindowEvent, Rest, input, window, other
  <2> QED BY <1>0, <2>1, Untouched DEF InUse, IsOpen
<1>11. CASE ShellReads
  <2>1. UNCHANGED kept /\ UNCHANGED <<now, shell, job>> /\ held > 0 /\ held' = held - 1
    BY <1>11 DEF ShellReads, input, window, other
  <2>2. held' \in 0 .. Room
    BY <1>0, <2>1
  <2> QED BY <1>0, <2>1, <2>2, Untouched DEF InUse, IsOpen
<1>12. CASE ShellWrites
  <2>1. UNCHANGED kept /\ UNCHANGED <<now, held, shell, job>>
    BY <1>12 DEF ShellWrites, input, window
  <2> QED BY <1>0, <2>1, Untouched DEF InUse, IsOpen
<1>13. CASE Others \/ HangUp
  <2>1. UNCHANGED kept /\ UNCHANGED <<now, held>> /\ (InUse' => InUse)
    BY <1>13 DEF Others, HangUp, input, window, InUse
  <2> QED BY <1>0, <2>1, Untouched DEF IsOpen
<1>14. CASE UNCHANGED vars
  <2>1. UNCHANGED kept /\ UNCHANGED <<now, held, shell, job>>
    BY <1>14 DEF vars, input, window, other
  <2> QED BY <1>0, <2>1, Untouched DEF InUse, IsOpen
<1> QED BY <1>1, <1>2, <1>3, <1>4, <1>5, <1>6, <1>7, <1>8, <1>9, <1>10, <1>11, <1>12, <1>13, <1>14
        DEF Next, Loop

-----------------------------------------------------------------------------
(* Types                                                                     *)

\* The output in the pty is a sequence; what the pty holds is bounded by InputInv.
Output  == [kind : {"text", "query"}]
TypeInv == TypeOK /\ to_term \in Seq(Output)

LEMMA CellsType ==
  ASSUME LoopAssumption, NEW w \in Size
  PROVE  Cells(w) \in Nat \ {0}
<1>1. w \in Nat /\ CellSize \in Nat \ {0}
  BY DEF LoopAssumption
<1>2. w \div CellSize \in Int
  BY <1>1
<1> QED BY <1>2 DEF Cells

LEMMA TypeStep ==
  ASSUME TypeInv, InputInv', [Next]_vars, LoopAssumption
  PROVE  TypeInv'
<1> USE DEF TypeInv, TypeOK
<1>0. /\ held' \in 0 .. Room /\ RoomOut \in Nat /\ Batch \in Nat \ {0}
  BY DEF LoopAssumption, InputInv, InputType
<1>1. CASE Wake
  BY <1>0, <1>1 DEF Wake, sizes, other
<1>2. CASE character_callback
  BY <1>0, <1>2 DEF character_callback, sizes, window, other
<1>3. CASE key_callback
  BY <1>0, <1>3 DEF key_callback, sizes, window, other
<1>4. CASE process_keyboard
  BY <1>0, <1>4 DEF process_keyboard, sizes, window, other
<1>5. CASE Read
  <2>1. UNCHANGED <<sizes, quiet, window, other>>
    BY <1>5 DEF Read
  <2>2. now' \in {"reading", "resizing"} /\ should_close' \in {should_close, "shell", "error"}
    BY <1>5 DEF Read, AfterRead
  <2>3. batch' \in 0 .. Batch
    <3>1. batch' = 0 \/ batch' = (batch + 1) % Batch
      BY <1>5 DEF Read
    <3>2. (batch + 1) % Batch \in 0 .. Batch - 1
      BY <1>0
    <3> QED BY <1>0, <3>1, <3>2
  <2>4. to_term' \in Seq(Output) /\ Len(to_term') <= RoomOut
    <3>1. to_term' = to_term \/ (to_term # <<>> /\ to_term' = Tail(to_term))
      BY <1>5 DEF Read
    <3>2. to_term # <<>> => Tail(to_term) \in Seq(Output) /\ Len(Tail(to_term)) <= Len(to_term)
      OBVIOUS
    <3> QED BY <1>0, <3>1, <3>2
  <2> QED BY <1>0, <2>1, <2>2, <2>3, <2>4 DEF sizes, window, other
<1>6. CASE Resize
  <2>1. UNCHANGED <<batch, should_close, event, win, to_term, shell, job>>
    BY <1>6 DEF Resize, input, window, other
  <2>2. now' \in {"waiting", "ending"} /\ screen_pixel' = win /\ quiet' \in BOOLEAN
        /\ resize_pending' \in BOOLEAN
    BY <1>6 DEF Resize
  <2>3. term_size' \in Nat \ {0} /\ winsize' = term_size'
    <3>1. \/ term_size' = Cells(win) /\ winsize' = Cells(win)
          \/ UNCHANGED <<term_size, winsize>>
      BY <1>6 DEF Resize
    <3>2. Cells(win) \in Nat \ {0}
      BY CellsType
    <3> QED BY <3>1, <3>2
  <2> QED BY <1>0, <2>1, <2>2, <2>3
<1>7. CASE Cleanup
  BY <1>0, <1>7 DEF Cleanup, input, sizes, window, other
<1>8. CASE Reap
  BY <1>0, <1>8 DEF Reap, input, sizes, window, other
<1>9. CASE \E kind \in Key : Press(kind)
  BY <1>0, <1>9 DEF Press, input, sizes, other
<1>10. CASE WindowEvent \/ Rest \/ ShellReads
  <2>1. UNCHANGED <<now, batch, input, sizes, to_term, other>>
    BY <1>10 DEF WindowEvent, Rest, ShellReads
  <2>2. win' \in Size /\ event' \in BOOLEAN /\ quiet' \in BOOLEAN
    BY <1>10 DEF WindowEvent, Rest, ShellReads, window
  <2> QED BY <1>0, <2>1, <2>2 DEF input, sizes, other
<1>11. CASE ShellWrites
  <2>1. /\ Len(to_term) < RoomOut
        /\ \E out \in Output : to_term' = Append(to_term, out)
        /\ UNCHANGED <<now, batch, input, sizes, quiet, window, shell, job>>
    BY <1>11 DEF ShellWrites, Output
  <2>2. to_term' \in Seq(Output) /\ Len(to_term') = Len(to_term) + 1
    BY <2>1
  <2>3. Len(to_term') <= RoomOut
    BY <1>0, <2>1, <2>2
  <2> QED BY <1>0, <2>1, <2>2, <2>3 DEF input, sizes, window
<1>12. CASE Others \/ HangUp
  <2>1. UNCHANGED <<now, batch, input, sizes, quiet, window, to_term>>
    BY <1>12 DEF Others, HangUp
  <2>2. shell' \in BOOLEAN /\ job' \in BOOLEAN
    BY <1>12 DEF Others, HangUp
  <2> QED BY <1>0, <2>1, <2>2 DEF input, sizes, window
<1>13. CASE UNCHANGED vars
  BY <1>0, <1>13 DEF vars, input, sizes, window, other
<1> QED BY <1>1, <1>2, <1>3, <1>4, <1>5, <1>6, <1>7, <1>8, <1>9, <1>10, <1>11, <1>12, <1>13
        DEF Next, Loop

-----------------------------------------------------------------------------
(* The theorems                                                              *)

LEMMA InputStarts ==
  ASSUME LoopAssumption, Init
  PROVE  InputInv
<1>1. /\ held = 0 /\ keys = 0 /\ Room \in Nat /\ sent = <<>> /\ paste = <<>>
      /\ chars = <<>> /\ named = <<>> /\ typed = <<>> /\ pressed = <<>>
  BY DEF Init, LoopAssumption
<1>2. <<>> \in Seq(Keys) /\ <<>> \in Seq(Bytewise) /\ DOMAIN <<>> = {}
  OBVIOUS
<1>3. Came(<<>>) = {}
  BY <1>2 DEF Came
<1>4. InputType
  BY <1>1, <1>2 DEF InputType, Queued
<1>5. SentInOrder
  BY <1>1, <1>2, <1>3 DEF SentInOrder, InOrder
<1>6. PasteGoesOn /\ NoneCut
  BY <1>1, <1>3 DEF PasteGoesOn, NoneCut
<1> QED BY <1>4, <1>5, <1>6 DEF InputInv

LEMMA InputFollows ==
  ASSUME InputInv
  PROVE  InputInOrder
<1> DEFINE all == sent \o paste
           pastes == {b \in Came(all) : b.src = "paste"}
<1>1. sent \in Seq(Bytewise) /\ InOrder(sent) /\ paste \in Seq(Bytewise) /\ InOrder(paste)
  BY PasteIs DEF InputInv, InputType, SentInOrder
<1>2. all = Wrote(sent, paste, Len(paste)) /\ Len(paste) \in 0 .. Len(paste)
  <2>1. SubSeq(paste, 1, Len(paste)) = paste /\ Len(paste) \in Nat
    BY <1>1
  <2> QED BY <2>1 DEF Wrote, Taken
<1> HIDE DEF all
<1>3. all \in Seq(Bytewise) /\ Came(all) = Came(sent) \cup First(paste, Len(paste))
  <2> DEFINE f == Len(paste)
  <2>1. all = Wrote(sent, paste, f) /\ f \in 0 .. Len(paste)
    BY <1>2
  <2> HIDE DEF f
  <2>2. all \in Seq(Bytewise) /\ Came(all) = Came(sent) \cup First(paste, f)
    BY <1>1, <2>1, Appended
  <2> QED BY <2>2 DEF f
<1>4. InOrder(all)
  <2> DEFINE f == Len(paste)
  <2>1. all = Wrote(sent, paste, f) /\ f \in 0 .. Len(paste)
    BY <1>2
  <2>2. \A b \in Came(sent) : \A i \in 1 .. f : Before(b, paste[i])
    BY PasteIs
  <2> HIDE DEF f
  <2> QED BY <1>1, <2>1, <2>2, AppendedInOrder
<1>5. First(paste, Len(paste)) = Came(paste)
  <2>1. DOMAIN paste = 1 .. Len(paste)
    BY <1>1
  <2> QED BY <2>1 DEF First, Came
<1>6. \A b \in Came(all) : b \in Bytewise
  BY <1>3 DEF Came
<1>7. ASSUME NEW b \in pastes
      PROVE  \A v : Byte("paste", b.key, v, b.of) \in Came(all) => [b EXCEPT !.i = v] \in pastes
  <2>1. b \in Bytewise /\ b.src = "paste"
    BY <1>6
  <2>2. \A v : [b EXCEPT !.i = v] = Byte("paste", b.key, v, b.of)
    BY <2>1, ByteIs
  <2>3. \A v : Byte("paste", b.key, v, b.of).src = "paste"
    BY DEF Byte
  <2> QED BY <2>2, <2>3
<1>8. ASSUME NEW b \in pastes, b.i # 1
      PROVE  Byte("paste", b.key, b.i - 1, b.of) \in Came(all)
  <2>1. CASE b \in Came(sent)
    BY <1>3, <1>8, <2>1 DEF InputInv, SentInOrder
  <2>2. CASE b \in Came(paste)
    <3>1. paste # <<>>
      <4>1. DOMAIN <<>> = {}
        OBVIOUS
      <4> QED BY <2>2, <4>1 DEF Came
    <3>2. PICK k, n, m \in Nat :
             /\ m < n /\ paste = EndOf(k, n, m)
             /\ m # 0 => Byte("paste", k, m, n) \in Came(sent)
      BY <3>1 DEF InputInv, PasteGoesOn
    <3>3. Came(EndOf(k, n, m)) = Pasted(k, n, m + 1, n)
      <4>1. k \in Nat /\ n \in Nat /\ m \in Nat /\ m < n
        BY <3>2
      <4> QED BY <4>1, EndIs
    <3>4. Came(paste) = Pasted(k, n, m + 1, n)
      BY <3>2, <3>3
    <3>5. PICK i \in m + 1 .. n : b = Byte("paste", k, i, n)
      BY <2>2, <3>4 DEF Pasted
    <3>6. b.key = k /\ b.i = i /\ b.of = n
      BY <3>5 DEF Byte
    <3>7. CASE i = m + 1
      <4>1. m # 0 /\ b.i - 1 = m
        BY <1>8, <3>6, <3>7
      <4> QED BY <1>3, <3>2, <3>6, <4>1
    <3>8. CASE i # m + 1
      <4>1. b.i - 1 \in m + 1 .. n
        BY <3>5, <3>6, <3>8
      <4>2. Byte("paste", b.key, b.i - 1, b.of) \in Came(paste)
        BY <3>4, <3>6, <4>1 DEF Pasted
      <4> QED BY <1>3, <1>5, <4>2
    <3> QED BY <3>7, <3>8
  <2> QED BY <1>3, <1>5, <2>1, <2>2
<1>9. ASSUME InUse, IsOpen, NEW b \in pastes, b.i # b.of
      PROVE  Byte("paste", b.key, b.i + 1, b.of) \in Came(all)
  <2>1. CASE b \in Came(sent)
    BY <1>3, <1>5, <1>9, <2>1 DEF InputInv, NoneCut
  <2>2. CASE b \in Came(paste)
    <3>1. paste # <<>>
      <4>1. DOMAIN <<>> = {}
        OBVIOUS
      <4> QED BY <2>2, <4>1 DEF Came
    <3>2. PICK k, n, m \in Nat : m < n /\ paste = EndOf(k, n, m)
      BY <3>1 DEF InputInv, PasteGoesOn
    <3>3. Came(EndOf(k, n, m)) = Pasted(k, n, m + 1, n)
      BY <3>2, EndIs
    <3>4. Came(paste) = Pasted(k, n, m + 1, n)
      BY <3>2, <3>3
    <3>5. PICK i \in m + 1 .. n : b = Byte("paste", k, i, n)
      BY <2>2, <3>4 DEF Pasted
    <3>6. b.key = k /\ b.i = i /\ b.of = n
      BY <3>5 DEF Byte
    <3>7. b.i + 1 \in m + 1 .. n
      BY <1>9, <3>2, <3>5, <3>6
    <3>8. Byte("paste", b.key, b.i + 1, b.of) \in Came(paste)
      BY <3>4, <3>6, <3>7 DEF Pasted
    <3> QED BY <1>3, <1>5, <3>8
  <2> QED BY <1>3, <1>5, <2>1, <2>2
<1>10. \A b \in pastes : b.i # 1 => [b EXCEPT !.i = b.i - 1] \in pastes
  BY <1>7, <1>8
<1>11. InUse /\ IsOpen => \A b \in pastes : b.i # b.of => [b EXCEPT !.i = b.i + 1] \in pastes
  BY <1>7, <1>9
<1>12. \A i, j \in DOMAIN all : i < j => Before(all[i], all[j])
  BY <1>4 DEF InOrder
<1> QED BY <1>10, <1>11, <1>12 DEF InputInOrder, all

\* However little the pty takes at a time, whatever is typed while a paste goes
\* on and whatever of a key is lost: what the shell gets of a paste is the whole of
\* it, byte for byte, and all keys are in order (kbd_io.c:10-41).
THEOREM InputInOrderAlways == Spec => []InputInOrder
<1>1. Init => InputInv
  BY InputStarts, LoopAssumption
<1>2. InputInv /\ [Next]_vars => InputInv'
  BY InputStep, LoopAssumption
<1>3. InputInv => InputInOrder
  BY InputFollows
<1> QED BY <1>1, <1>2, <1>3, PTL DEF Spec

LEMMA TypeStarts ==
  ASSUME LoopAssumption, Init
  PROVE  TypeInv
<1>1. InitWindow \in Size /\ Batch \in Nat \ {0} /\ Room \in Nat /\ RoomOut \in Nat
  BY DEF LoopAssumption
<1>2. Cells(InitWindow) \in Nat \ {0}
  BY <1>1, CellsType
<1>3. to_term \in Seq(Output) /\ Len(to_term) = 0
  BY DEF Init
<1>4. /\ batch \in 0 .. Batch /\ held \in 0 .. Room /\ Len(to_term) <= RoomOut
  BY <1>1, <1>3 DEF Init
<1>5. /\ {win, screen_pixel} \subseteq Size
      /\ term_size \in Nat \ {0} /\ winsize = term_size
  BY <1>1, <1>2 DEF Init
<1>6. /\ now = "keys" /\ should_close = "no"
      /\ {resize_pending, quiet, event, shell, job} \subseteq BOOLEAN
  BY DEF Init
<1> QED BY <1>3, <1>4, <1>5, <1>6 DEF TypeInv, TypeOK

\* The pty never holds more than it has room for, the counters of a round stay in
\* theirs, and the screen and the pty have the same size of at least one cell
\* (pty_make_v1.c:29-60 and 361-420).
THEOREM TypeCorrect == Spec => []TypeOK
<1>1. Init => TypeInv /\ InputInv
  BY TypeStarts, InputStarts, LoopAssumption
<1>2. TypeInv /\ InputInv /\ [Next]_vars => (TypeInv /\ InputInv)'
  BY TypeStep, InputStep, LoopAssumption
<1>3. TypeInv => TypeOK
  BY DEF TypeInv
<1> QED BY <1>1, <1>2, <1>3, PTL DEF Spec

\* Nobody writes any more once the hang-up was seen: a shell that has ended does
\* not come back, and only a shell leaves a job behind.
NobodyLeft == should_close = "shell" => ~shell /\ ~job /\ to_term = <<>>

LEMMA NobodyLeftStep == NobodyLeft /\ [Next]_vars => NobodyLeft'
<1> SUFFICES ASSUME NobodyLeft, [Next]_vars
             PROVE  NobodyLeft'
  OBVIOUS
<1> USE DEF NobodyLeft
<1>1. CASE Wake
  BY <1>1 DEF Wake, other
<1>2. CASE character_callback
  BY <1>2 DEF character_callback, other
<1>3. CASE key_callback
  <2>1. should_close' = should_close \/ should_close' = "key"
    BY <1>3 DEF key_callback
  <2>2. UNCHANGED <<shell, job, to_term>>
    BY <1>3 DEF key_callback, other
  <2> QED BY <2>1, <2>2
<1>4. CASE process_keyboard
  BY <1>4 DEF process_keyboard, other
<1>5. CASE Read
  <2>1. UNCHANGED <<shell, job>>
    BY <1>5 DEF Read, other
  <2>2. CASE HungUp
    <3>1. ~shell /\ ~job /\ to_term = <<>>
      BY <2>2 DEF HungUp, InUse
    <3>2. to_term' = to_term
      BY <1>5, <2>2 DEF Read
    <3> QED BY <2>1, <3>1, <3>2
  <2>3. CASE ~HungUp
    <3>1. should_close' = should_close \/ should_close' = "error"
      BY <1>5, <2>3 DEF Read
    <3>2. to_term = <<>> => to_term' = to_term
      BY <1>5, <2>3 DEF Read
    <3> QED BY <2>1, <3>1, <3>2
  <2> QED BY <2>2, <2>3
<1>6. CASE Resize
  BY <1>6 DEF Resize, input, other
<1>7. CASE Cleanup
  BY <1>7 DEF Cleanup, input, other
<1>8. CASE Reap
  BY <1>8 DEF Reap, input, other
<1>9. CASE \E kind \in Key : Press(kind)
  BY <1>9 DEF Press, input, other
<1>10. CASE WindowEvent \/ Rest \/ ShellReads
  BY <1>10 DEF WindowEvent, Rest, ShellReads, input, other
<1>11. CASE ShellWrites
  BY <1>11 DEF ShellWrites, InUse, input
<1>12. CASE Others \/ HangUp
  BY <1>12 DEF Others, HangUp, input
<1>13. CASE UNCHANGED vars
  BY <1>13 DEF vars, input, other
<1> QED BY <1>1, <1>2, <1>3, <1>4, <1>5, <1>6, <1>7, <1>8, <1>9, <1>10, <1>11, <1>12, <1>13
        DEF Next, Loop

\* However much the pty holds and however many reads make a round: when the
\* shell's end closes the terminal, all that was written has been read
\* (pty_make_v1.c:366-368).
THEOREM OutputBeforeEndAlways == Spec => []OutputBeforeEnd
<1>1. Init => NobodyLeft
  BY DEF Init, NobodyLeft
<1>2. NobodyLeft => OutputBeforeEnd
  BY DEF NobodyLeft, OutputBeforeEnd
<1> QED BY <1>1, <1>2, NobodyLeftStep, PTL DEF Spec
=============================================================================
