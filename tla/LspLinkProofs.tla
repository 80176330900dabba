---------------------------- MODULE LspLinkProofs ----------------------------
(***************************************************************************)
(* What holds of editor and language server for every number of files, and *)
(* every size of the pipes and of the messages: the server sees each       *)
(* document opened first and then changed one version at a time, and has   *)
(* the editor's version once it has read all there is.                     *)
(*                                                                         *)
(* The proof follows the messages on their way: those in the pipe and the  *)
(* one that is being written are one sequence of parts, which a write does *)
(* not change, a notification makes longer and the server makes shorter.   *)
(***************************************************************************)
EXTENDS LspLink, SequenceTheorems, TLAPS

-----------------------------------------------------------------------------
(* Messages on their way                                                   *)

OnItsWay == to_server \o out

\* The part completes a message about document f; the message opens it.
Carries(part, f) ==
  part.last /\ part.of.kind \in {"didOpen", "didChange"} /\ part.of.file = f
Opens(part) == part.of.version = 1 /\ part.of.text = 0

Silent(q, lo, hi, f) == \A k \in lo .. hi : ~Carries(q[k], f)

\* Each message about f opens it or is one version behind the message before it,
\* or behind what the server has.
Ordered(q, d) ==
  \A f \in File : \A j \in 1 .. Len(q) :
    Carries(q[j], f) =>
      \/ Opens(q[j])
      \/ \E i \in 1 .. j - 1 : /\ Carries(q[i], f) /\ Silent(q, i + 1, j - 1, f)
                               /\ q[j].of.version = q[i].of.version + 1
      \/ /\ Silent(q, 1, j - 1, f)
         /\ d[f].version # 0 /\ q[j].of.version = d[f].version + 1

\* Once all of q is read, the server has version v of f.
Ends(q, d, f, v) ==
  \/ \E i \in 1 .. Len(q) : /\ Carries(q[i], f) /\ Silent(q, i + 1, Len(q), f)
                            /\ q[i].of.version = v
  \/ Silent(q, 1, Len(q), f) /\ d[f].version = v

\* The parts of a message: the last one completes it.
LEMMA PartedParts ==
  ASSUME NEW M, NEW m \in M
  PROVE  /\ Parted(m) \in Seq(Part(M)) /\ Len(Parted(m)) = Parts
         /\ \A i \in 1 .. Parts : Parted(m)[i].of = m /\ (Parted(m)[i].last <=> i = Parts)
<1>1. Parts \in Nat /\ Parts >= 1
  BY PipeAssumption
<1>2. \A i \in 1 .. Parts : [of |-> m, first |-> i = 1, last |-> i = Parts] \in Part(M)
  BY <1>1 DEF Part
<1>3. Parted(m) \in [1 .. Parts -> Part(M)]
  BY <1>2 DEF Parted
<1>4. Parted(m) \in Seq(Part(M))
  BY <1>1, <1>3, SeqDef
<1>5. Len(Parted(m)) = Parts
  BY <1>1, <1>3, <1>4, LenProperties
<1>6. \A i \in 1 .. Parts : Parted(m)[i].of = m /\ (Parted(m)[i].last <=> i = Parts)
  BY DEF Parted
<1> QED BY <1>4, <1>5, <1>6

\* A message that is added behind the others: a change that is one version
\* further than the end, an opening, or one about no document.
LEMMA Added ==
  ASSUME NEW q \in Seq(Part(Message)), NEW d, NEW m \in Message, Ordered(q, d),
         NEW v, 
         \/ m.kind \notin {"didOpen", "didChange"}
         \/ m.kind \in {"didOpen", "didChange"} /\ m.version = 1 /\ m.text = 0
         \/ /\ m.kind \in {"didOpen", "didChange"}
            /\ Ends(q, d, m.file, v) /\ v # 0 /\ m.version = v + 1
  PROVE  LET r == q \o Parted(m)
         IN  /\ r \in Seq(Part(Message))
             /\ Ordered(r, d)
             /\ m.kind \in {"didOpen", "didChange"} => Ends(r, d, m.file, m.version)
             /\ m.kind \notin {"didOpen", "didChange"} =>
                  \A f, w : Ends(q, d, f, w) => Ends(r, d, f, w)
<1> DEFINE r == q \o Parted(m)
           n == Len(q) + Parts
<1>1. /\ Parts \in Nat /\ Parts >= 1 /\ Len(q) \in Nat
      /\ Parted(m) \in Seq(Part(Message)) /\ Len(Parted(m)) = Parts
  BY PipeAssumption, PartedParts, LenProperties
<1>2. /\ r \in Seq(Part(Message)) /\ Len(r) = n
      /\ \A i \in 1 .. n : r[i] = IF i <= Len(q) THEN q[i] ELSE Parted(m)[i - Len(q)]
  BY <1>1, ConcatProperties
<1>3. \A i \in 1 .. Len(q) : r[i] = q[i]
  BY <1>1, <1>2
<1>4. \A i \in Len(q) + 1 .. n : r[i].of = m /\ (r[i].last <=> i = n)
  <2>1. ASSUME NEW i \in Len(q) + 1 .. n
        PROVE  r[i].of = m /\ (r[i].last <=> i = n)
    <3>1. r[i] = Parted(m)[i - Len(q)] /\ i - Len(q) \in 1 .. Parts
      BY <1>1, <1>2
    <3> QED BY <1>1, <3>1, PartedParts
  <2> QED BY <2>1
<1>5. \A f : \A i \in Len(q) + 1 .. n - 1 : ~Carries(r[i], f)
  BY <1>1, <1>4 DEF Carries
<1> HIDE DEF r, n
<1>6. n \in Nat /\ n >= Len(q) + 1
  BY <1>1 DEF n
<1>7. r[n].of = m /\ r[n].last
  BY <1>1, <1>4, <1>6
<1>8. ASSUME NEW f, Silent(q, 1, Len(q), f)
      PROVE  Silent(r, 1, n - 1, f)
  <2>1. ASSUME NEW k \in 1 .. n - 1
        PROVE  ~Carries(r[k], f)
    <3>1. CASE k <= Len(q)
      <4>1. k \in 1 .. Len(q) /\ r[k] = q[k]
        BY <1>1, <1>3, <3>1
      <4> QED BY <4>1, <1>8 DEF Silent
    <3>2. CASE k > Len(q)
      <4>1. k \in Len(q) + 1 .. n - 1
        BY <1>1, <1>6, <3>2
      <4> QED BY <4>1, <1>5
    <3> QED BY <1>1, <1>6, <3>1, <3>2
  <2> QED BY <2>1 DEF Silent
<1>9. ASSUME NEW f, NEW i \in 1 .. Len(q), Silent(q, i + 1, Len(q), f)
      PROVE  Silent(r, i + 1, n - 1, f)
  <2>1. ASSUME NEW k \in i + 1 .. n - 1
        PROVE  ~Carries(r[k], f)
    <3>1. CASE k <= Len(q)
      <4>1. k \in i + 1 .. Len(q) /\ k \in 1 .. Len(q) /\ r[k] = q[k]
        BY <1>1, <1>3, <3>1
      <4> QED BY <4>1, <1>9 DEF Silent
    <3>2. CASE k > Len(q)
      <4>1. k \in Len(q) + 1 .. n - 1
        BY <1>1, <1>6, <3>2
      <4> QED BY <4>1, <1>5
    <3> QED BY <1>1, <1>6, <3>1, <3>2
  <2> QED BY <2>1 DEF Silent
<1>10. Ordered(r, d)
  <2> SUFFICES ASSUME NEW f \in File, NEW j \in 1 .. n, Carries(r[j], f), ~Opens(r[j])
               PROVE  \/ \E i \in 1 .. j - 1 :
                           /\ Carries(r[i], f) /\ Silent(r, i + 1, j - 1, f)
                           /\ r[j].of.version = r[i].of.version + 1
                      \/ /\ Silent(r, 1, j - 1, f)
                         /\ d[f].version # 0 /\ r[j].of.version = d[f].version + 1
    BY <1>2 DEF Ordered
  <2>1. CASE j <= Len(q)
    <3>1. j \in 1 .. Len(q) /\ Carries(q[j], f) /\ ~Opens(q[j]) /\ r[j] = q[j]
      BY <1>1, <1>3, <2>1
    <3>2. \A i \in 1 .. j - 1 : r[i] = q[i]
      BY <1>1, <1>3, <2>1
    <3>3. \/ \E i \in 1 .. j - 1 : /\ Carries(q[i], f) /\ Silent(q, i + 1, j - 1, f)
                                   /\ q[j].of.version = q[i].of.version + 1
          \/ /\ Silent(q, 1, j - 1, f)
             /\ d[f].version # 0 /\ q[j].of.version = d[f].version + 1
      BY <3>1 DEF Ordered
    <3> QED BY <1>1, <2>1, <3>1, <3>2, <3>3 DEF Silent
  <2>2. CASE j > Len(q)
    <3>1. j = n /\ m.kind \in {"didOpen", "didChange"} /\ m.file = f
      <4>1. j \notin Len(q) + 1 .. n - 1
        BY <1>5
      <4>2. j = n
        BY <1>1, <1>6, <2>2, <4>1
      <4> QED BY <1>7, <4>2 DEF Carries
    <3>2. Ends(q, d, f, v) /\ v # 0 /\ r[n].of.version = v + 1
      BY <1>7, <3>1 DEF Opens
    <3>3. CASE \E i \in 1 .. Len(q) : /\ Carries(q[i], f) /\ Silent(q, i + 1, Len(q), f)
                                      /\ q[i].of.version = v
      <4>1. PICK i \in 1 .. Len(q) : /\ Carries(q[i], f) /\ Silent(q, i + 1, Len(q), f)
                                     /\ q[i].of.version = v
        BY <3>3
      <4>2. i \in 1 .. n - 1 /\ r[i] = q[i]
        BY <1>1, <1>3, <1>6
      <4>3. Silent(r, i + 1, n - 1, f)
        BY <1>9, <4>1
      <4>4. Carries(r[i], f) /\ r[n].of.version = r[i].of.version + 1
        BY <3>2, <4>1, <4>2
      <4> QED BY <3>1, <4>2, <4>3, <4>4
    <3>4. CASE Silent(q, 1, Len(q), f) /\ d[f].version = v
      BY <1>8, <3>1, <3>2, <3>4
    <3> QED BY <3>2, <3>3, <3>4 DEF Ends
  <2> QED BY <1>1, <1>6, <2>1, <2>2
<1>11. ASSUME m.kind \in {"didOpen", "didChange"}
       PROVE  Ends(r, d, m.file, m.version)
  <2>1. Carries(r[n], m.file) /\ r[n].of.version = m.version /\ n \in 1 .. n
    BY <1>6, <1>7, <1>11 DEF Carries
  <2>2. Silent(r, n + 1, n, m.file)
    BY <1>6 DEF Silent
  <2> QED BY <1>2, <2>1, <2>2 DEF Ends, n
<1>12. ASSUME m.kind \notin {"didOpen", "didChange"}, NEW f, NEW w, Ends(q, d, f, w)
       PROVE  Ends(r, d, f, w)
  <2>1. ~Carries(r[n], f) /\ Len(r) = n
    BY <1>2, <1>7, <1>12 DEF Carries, n
  <2>2. CASE \E i \in 1 .. Len(q) : /\ Carries(q[i], f) /\ Silent(q, i + 1, Len(q), f)
                                    /\ q[i].of.version = w
    <3>1. PICK i \in 1 .. Len(q) : /\ Carries(q[i], f) /\ Silent(q, i + 1, Len(q), f)
                                   /\ q[i].of.version = w
      BY <2>2
    <3>2. Silent(r, i + 1, n - 1, f)
      BY <1>9, <3>1
    <3>3. Silent(r, i + 1, n, f)
      BY <1>1, <1>6, <2>1, <3>2 DEF Silent
    <3> QED BY <1>1, <1>3, <1>6, <2>1, <3>1, <3>3 DEF Ends
  <2>3. CASE Silent(q, 1, Len(q), f) /\ d[f].version = w
    <3>1. Silent(r, 1, n - 1, f)
      BY <1>8, <2>3
    <3>2. Silent(r, 1, n, f)
      BY <1>1, <1>6, <2>1, <3>1 DEF Silent
    <3> QED BY <2>1, <2>3, <3>2 DEF Ends
  <2> QED BY <1>12, <2>2, <2>3 DEF Ends
<1> QED BY <1>2, <1>10, <1>11, <1>12 DEF r

\* A message the server has read to its end: all others are as far from the
\* server's version as before.
LEMMA Shortened ==
  ASSUME NEW q \in Seq(Part(Message)), q # <<>>,
         NEW d \in [File -> [version : Nat, text : Nat]], Ordered(q, d),
         NEW e \in [File -> [version : Nat, text : Nat]],
         \A f \in File :
           e[f] = IF Carries(q[1], f) THEN [version |-> q[1].of.version, text |-> q[1].of.text]
                                      ELSE d[f]
  PROVE  /\ Ordered(Tail(q), e)
         /\ \A f \in File : \A w : Ends(q, d, f, w) => Ends(Tail(q), e, f, w)
         /\ \A f \in File :
              e[f] # d[f] =>
                \/ e[f] = [version |-> 1, text |-> 0]
                \/ d[f].version # 0 /\ e[f].version = d[f].version + 1
<1> DEFINE t == Tail(q)
           n == Len(q) - 1
<1>1. /\ Len(q) \in Nat \ {0} /\ n \in Nat /\ t \in Seq(Part(Message)) /\ Len(t) = n
      /\ \A i \in 1 .. n : t[i] = q[i + 1]
  BY HeadTailProperties, EmptySeq
<1>2. Len(q) = n + 1
  BY <1>1
<1> HIDE DEF t, n
<1>3. ASSUME NEW f \in File, NEW lo \in Nat \ {0}, NEW hi \in Nat, hi <= n,
             NEW first, NEW last, first = lo + 1, last = hi + 1, Silent(q, first, last, f)
      PROVE  Silent(t, lo, hi, f)
  <2>1. ASSUME NEW k \in lo .. hi
        PROVE  ~Carries(t[k], f)
    <3>1. k \in 1 .. n /\ k + 1 \in lo + 1 .. hi + 1
      BY <1>1, <1>3
    <3>2. t[k] = q[k + 1]
      BY <1>1, <3>1
    <3> QED BY <1>3, <3>1, <3>2 DEF Silent
  <2> QED BY <2>1 DEF Silent
\* What the first part makes of a document is ordered.
<1>4. ASSUME NEW f \in File, Carries(q[1], f)
      PROVE  \/ Opens(q[1])
             \/ d[f].version # 0 /\ q[1].of.version = d[f].version + 1
  <2>1. 1 \in 1 .. Len(q) /\ 1 .. 1 - 1 = {}
    BY <1>1
  <2> QED BY <1>4, <2>1 DEF Ordered
<1>5. ASSUME NEW f \in File, Carries(q[1], f)
      PROVE  e[f].version = q[1].of.version /\ e[f].version # 0
  <2>1. e[f].version = q[1].of.version
    BY <1>5
  <2>2. d[f].version \in Nat
    OBVIOUS
  <2> QED BY <1>4, <1>5, <2>1, <2>2 DEF Opens
<1>6. Ordered(t, e)
  <2> SUFFICES ASSUME NEW f \in File, NEW j \in 1 .. n, Carries(t[j], f), ~Opens(t[j])
               PROVE  \/ \E i \in 1 .. j - 1 :
                           /\ Carries(t[i], f) /\ Silent(t, i + 1, j - 1, f)
                           /\ t[j].of.version = t[i].of.version + 1
                      \/ /\ Silent(t, 1, j - 1, f)
                         /\ e[f].version # 0 /\ t[j].of.version = e[f].version + 1
    BY <1>1 DEF Ordered
  <2>1. j + 1 \in 1 .. Len(q) /\ t[j] = q[j + 1] /\ (j + 1) - 1 = j /\ j \in Nat \ {0}
    BY <1>1, <1>2
  <2>2. \/ \E i \in 1 .. j : /\ Carries(q[i], f) /\ Silent(q, i + 1, j, f)
                            /\ t[j].of.version = q[i].of.version + 1
        \/ /\ Silent(q, 1, j, f)
           /\ d[f].version # 0 /\ t[j].of.version = d[f].version + 1
    BY <2>1 DEF Ordered
  <2>3. ASSUME NEW i \in 1 .. j, i > 1, Carries(q[i], f), Silent(q, i + 1, j, f),
               t[j].of.version = q[i].of.version + 1
        PROVE  \E k \in 1 .. j - 1 :
                 /\ Carries(t[k], f) /\ Silent(t, k + 1, j - 1, f)
                 /\ t[j].of.version = t[k].of.version + 1
    <3>1. i - 1 \in 1 .. j - 1 /\ i - 1 \in 1 .. n /\ (i - 1) + 1 = i /\ i \in Nat \ {0}
          /\ j - 1 \in Nat /\ j - 1 <= n /\ (j - 1) + 1 = j
      BY <1>1, <2>1, <2>3
    <3>2. t[i - 1] = q[i]
      BY <1>1, <3>1
    <3>3. Silent(t, i, j - 1, f)
      BY <1>3, <2>3, <3>1
    <3> QED BY <2>3, <3>1, <3>2, <3>3
  <2>4. ASSUME Carries(q[1], f), Silent(q, 2, j, f), t[j].of.version = q[1].of.version + 1
        PROVE  /\ Silent(t, 1, j - 1, f)
               /\ e[f].version # 0 /\ t[j].of.version = e[f].version + 1
    <3>1. j - 1 \in Nat /\ j - 1 <= n /\ (j - 1) + 1 = j /\ 1 + 1 = 2
      BY <1>1, <2>1
    <3>2. Silent(t, 1, j - 1, f)
      BY <1>3, <2>4, <3>1
    <3> QED BY <1>5, <2>4, <3>2
  <2>5. ASSUME Silent(q, 1, j, f), d[f].version # 0, t[j].of.version = d[f].version + 1
        PROVE  /\ Silent(t, 1, j - 1, f)
               /\ e[f].version # 0 /\ t[j].of.version = e[f].version + 1
    <3>1. j - 1 \in Nat /\ j - 1 <= n /\ (j - 1) + 1 = j /\ 1 + 1 = 2
      BY <1>1, <2>1
    <3>2. ~Carries(q[1], f) /\ Silent(q, 2, j, f)
      BY <2>1, <2>5 DEF Silent
    <3>3. Silent(t, 1, j - 1, f)
      BY <1>3, <3>1, <3>2
    <3>4. e[f] = d[f]
      BY <3>2
    <3> QED BY <2>5, <3>3, <3>4
  <2>6. \A i \in 1 .. j : i > 1 \/ i = 1
    BY <2>1
  <2>7. CASE \E i \in 1 .. j : /\ Carries(q[i], f) /\ Silent(q, i + 1, j, f)
                              /\ t[j].of.version = q[i].of.version + 1
    <3>1. PICK i \in 1 .. j : /\ Carries(q[i], f) /\ Silent(q, i + 1, j, f)
                              /\ t[j].of.version = q[i].of.version + 1
      BY <2>7
    <3>2. CASE i > 1
      BY <2>3, <3>1, <3>2
    <3>3. CASE i = 1
      <4>1. Silent(q, 2, j, f)
        BY <3>1, <3>3
      <4> QED BY <2>4, <3>1, <3>3, <4>1
    <3> QED BY <2>6, <3>2, <3>3
  <2> QED BY <2>2, <2>5, <2>7
<1>7. ASSUME NEW f \in File, NEW w, Ends(q, d, f, w)
      PROVE  Ends(t, e, f, w)
  <2>1. CASE \E i \in 1 .. Len(q) : /\ Carries(q[i], f) /\ Silent(q, i + 1, Len(q), f)
                                    /\ q[i].of.version = w
    <3>1. PICK i \in 1 .. Len(q) : /\ Carries(q[i], f) /\ Silent(q, i + 1, Len(q), f)
                                   /\ q[i].of.version = w
      BY <2>1
    <3>2. CASE i > 1
      <4>1. i - 1 \in 1 .. n /\ (i - 1) + 1 = i /\ i \in Nat \ {0} /\ n <= n
        BY <1>1, <1>2, <3>2
      <4>2. t[i - 1] = q[i]
        BY <1>1, <4>1
      <4>3. Silent(t, i, n, f)
        BY <1>1, <1>2, <1>3, <3>1, <4>1
      <4> QED BY <1>1, <3>1, <4>1, <4>2, <4>3 DEF Ends
    <3>3. CASE i = 1
      <4>1. Silent(q, 2, Len(q), f) /\ n <= n /\ 2 = 1 + 1
        BY <1>1, <1>2, <3>1, <3>3
      <4>2. Silent(t, 1, n, f)
        BY <1>1, <1>2, <1>3, <4>1
      <4>3. e[f].version = w
        BY <1>5, <3>1, <3>3
      <4> QED BY <1>1, <4>2, <4>3 DEF Ends
    <3> QED BY <1>1, <3>2, <3>3
  <2>2. CASE Silent(q, 1, Len(q), f) /\ d[f].version = w
    <3>1. n <= n /\ 2 = 1 + 1
      BY <1>1
    <3>2. ~Carries(q[1], f) /\ Silent(q, 2, Len(q), f)
      BY <1>1, <2>2 DEF Silent
    <3>3. Silent(t, 1, n, f)
      BY <1>1, <1>2, <1>3, <3>1, <3>2
    <3>4. e[f] = d[f]
      BY <3>2
    <3> QED BY <1>1, <2>2, <3>3, <3>4 DEF Ends
  <2> QED BY <1>7, <2>1, <2>2 DEF Ends
<1>8. ASSUME NEW f \in File, e[f] # d[f]
      PROVE  \/ e[f] = [version |-> 1, text |-> 0]
             \/ d[f].version # 0 /\ e[f].version = d[f].version + 1
  <2>1. Carries(q[1], f) /\ e[f] = [version |-> q[1].of.version, text |-> q[1].of.text]
    BY <1>8
  <2> QED BY <1>4, <1>5, <2>1 DEF Opens
<1> QED BY <1>6, <1>7, <1>8 DEF t

\* A write moves one part from what is being written into the pipe.
LEMMA Passed ==
  ASSUME NEW S, NEW a \in Seq(S), NEW b \in Seq(S), b # <<>>
  PROVE  Append(a, Head(b)) \o Tail(b) = a \o b
<1>1. /\ Head(b) \in S /\ Tail(b) \in Seq(S) /\ Head(b) = b[1]
      /\ Len(b) \in Nat \ {0} /\ Len(a) \in Nat /\ Len(Tail(b)) = Len(b) - 1
      /\ \A i \in 1 .. Len(b) - 1 : Tail(b)[i] = b[i + 1]
  BY HeadTailProperties, EmptySeq
<1> DEFINE c == Append(a, Head(b))
           l == c \o Tail(b)
           r == a \o b
<1>2. /\ c \in Seq(S) /\ Len(c) = Len(a) + 1 /\ c[Len(a) + 1] = b[1]
      /\ \A i \in 1 .. Len(a) : c[i] = a[i]
  BY <1>1, AppendProperties
<1>3. /\ l \in Seq(S) /\ Len(l) = Len(a) + Len(b)
      /\ \A i \in 1 .. Len(l) :
           l[i] = IF i <= Len(a) + 1 THEN c[i] ELSE Tail(b)[i - (Len(a) + 1)]
  <2> HIDE DEF c
  <2>1. /\ l \in Seq(S) /\ Len(l) = Len(c) + Len(Tail(b))
        /\ \A i \in 1 .. Len(c) + Len(Tail(b)) :
             l[i] = IF i <= Len(c) THEN c[i] ELSE Tail(b)[i - Len(c)]
    BY <1>1, <1>2, ConcatProperties
  <2>2. Len(c) + Len(Tail(b)) = Len(a) + Len(b)
    BY <1>1, <1>2
  <2> HIDE DEF l
  <2> QED BY <1>2, <2>1, <2>2
<1>4. /\ r \in Seq(S) /\ Len(r) = Len(a) + Len(b)
      /\ \A i \in 1 .. Len(r) : r[i] = IF i <= Len(a) THEN a[i] ELSE b[i - Len(a)]
  BY <1>1, ConcatProperties
<1> HIDE DEF c, l, r
<1>5. ASSUME NEW i \in 1 .. Len(l)
      PROVE  l[i] = r[i]
  <2>1. CASE i <= Len(a)
    <3>1. i \in 1 .. Len(a) /\ i \in 1 .. Len(r) /\ i <= Len(a) + 1
      BY <1>1, <1>3, <1>4, <2>1
    <3> QED BY <1>2, <1>3, <1>4, <2>1, <3>1
  <2>2. CASE i = Len(a) + 1
    <3>1. i \in 1 .. Len(r) /\ ~(i <= Len(a)) /\ i <= Len(a) + 1 /\ i - Len(a) = 1
      BY <1>1, <1>3, <1>4, <2>2
    <3> QED BY <1>2, <1>3, <1>4, <2>2, <3>1
  <2>3. CASE i > Len(a) + 1
    <3>1. i - (Len(a) + 1) \in 1 .. Len(b) - 1 /\ (i - (Len(a) + 1)) + 1 = i - Len(a)
      BY <1>1, <1>3, <2>3
    <3>2. l[i] = b[i - Len(a)]
      BY <1>1, <1>3, <2>3, <3>1
    <3>3. r[i] = b[i - Len(a)]
      BY <1>1, <1>3, <1>4, <2>3
    <3> QED BY <3>2, <3>3
  <2> QED BY <1>1, <1>3, <2>1, <2>2, <2>3
<1> QED BY <1>3, <1>4, <1>5, SeqEqual DEF l, r, c

-----------------------------------------------------------------------------
(* The inductive invariant                                                 *)

WayTypes ==
  /\ now \in {"starting", "round", "reading", "confirming", "waiting",
              "opening", "changing", "asking", "ended", "killed"}
  /\ path_name \in File \cup {NoFile} /\ now_open_path_name \in File \cup {NoFile}
  /\ file_update_counter \in Nat /\ text \in Nat
  /\ to_server \in Seq(Part(Message)) /\ out \in Seq(Part(Message))
  /\ doc \in [File -> [version : Nat, text : Nat]]

\* The thread writes one message and then does something else.
Written == now \in {"round", "reading", "waiting", "ended"} => out = <<>>

\* A file that is counted has been opened at the server.
Counted == path_name = NoFile <=> file_update_counter = 0

\* What the server will have once it has read all that is on its way.
OneVersion ==
  /\ now \in {"starting", "round", "reading", "confirming", "waiting", "asking", "ended"}
          /\ path_name # NoFile
       => Ends(OnItsWay, doc, path_name, file_update_counter)
  /\ now = "changing" =>
       /\ path_name = now_open_path_name /\ path_name # NoFile
       /\ Ends(OnItsWay, doc, path_name, file_update_counter + 1)
  /\ now = "opening" =>
       /\ now_open_path_name # NoFile
       /\ Ends(OnItsWay, doc, now_open_path_name, 1)

IInv == WayTypes /\ Written /\ Counted /\ OneVersion /\ Ordered(OnItsWay, doc)

LEMMA IInvInit == Init => IInv
<1> SUFFICES ASSUME Init PROVE IInv
  OBVIOUS
<1> DEFINE m == lsp_send_initialize
<1>1. m \in Message
  BY DEF lsp_send_initialize, Message
<1>2. /\ out \in Seq(Part(Message)) /\ to_server = <<>> /\ OnItsWay = <<>> \o Parted(m)
      /\ <<>> \in Seq(Part(Message)) /\ Len(<<>>) = 0
  BY <1>1, PartedParts, EmptySeq DEF Init, OnItsWay
<1>3. Ordered(<<>>, doc)
  BY <1>2 DEF Ordered
<1>4. m.kind \notin {"didOpen", "didChange"}
  BY DEF lsp_send_initialize
<1>5. Ordered(OnItsWay, doc)
  <2> HIDE DEF m
  <2> QED BY <1>1, <1>2, <1>3, <1>4, Added
<1>6. WayTypes
  BY <1>2 DEF Init, WayTypes, Absent
<1> QED BY <1>5, <1>6, PipeAssumption DEF Init, IInv, Written, Counted, OneVersion

\* A step after which the same is on its way and the thread is done with a message.
LEMMA SameWay ==
  ASSUME IInv, OnItsWay' = OnItsWay, UNCHANGED doc
  PROVE  /\ Ordered(OnItsWay, doc)'
         /\ \A f, w : Ends(OnItsWay, doc, f, w) => Ends(OnItsWay', doc', f, w)
BY DEF IInv

\* The thread begins to write m: what was on its way has m behind it.
LEMMA NewWay ==
  ASSUME IInv, out = <<>>, NEW m \in Message, UNCHANGED <<to_server, doc>>,
         out' = Parted(m), NEW v,
         \/ m.kind \notin {"didOpen", "didChange"}
         \/ m.kind \in {"didOpen", "didChange"} /\ m.version = 1 /\ m.text = 0
         \/ /\ m.kind \in {"didOpen", "didChange"}
            /\ Ends(OnItsWay, doc, m.file, v) /\ v # 0 /\ m.version = v + 1
  PROVE  /\ out' \in Seq(Part(Message))
         /\ Ordered(OnItsWay', doc')
         /\ m.kind \in {"didOpen", "didChange"} => Ends(OnItsWay', doc', m.file, m.version)
         /\ m.kind \notin {"didOpen", "didChange"} =>
              \A f, w : Ends(OnItsWay, doc, f, w) => Ends(OnItsWay', doc', f, w)
<1>1. to_server \in Seq(Part(Message)) /\ Ordered(OnItsWay, doc)
  BY DEF IInv, WayTypes
<1>2. OnItsWay = to_server
  BY <1>1, ConcatEmptySeq DEF OnItsWay
<1>3. OnItsWay' = OnItsWay \o Parted(m)
  BY <1>2 DEF OnItsWay
<1>4. out' \in Seq(Part(Message))
  BY PartedParts
<1>5. OnItsWay \in Seq(Part(Message)) /\ doc' = doc
  BY <1>1, <1>2
<1> QED BY <1>1, <1>3, <1>4, <1>5, Added

\* The server reads one part.
LEMMA ReadWay ==
  ASSUME IInv, ServerReads
  PROVE  /\ to_server' \in Seq(Part(Message)) /\ out' = out
         /\ doc' \in [File -> [version : Nat, text : Nat]]
         /\ Ordered(OnItsWay, doc)'
         /\ \A f \in File : \A w : Ends(OnItsWay, doc, f, w) => Ends(OnItsWay', doc', f, w)
         /\ \A f \in File :
              doc'[f] # doc[f] =>
                \/ doc'[f] = [version |-> 1, text |-> 0]
                \/ doc[f].version # 0 /\ doc'[f].version = doc[f].version + 1
<1> DEFINE part == Head(to_server)
<1>1. /\ to_server \in Seq(Part(Message)) /\ to_server # <<>> /\ out \in Seq(Part(Message))
      /\ to_server' = Tail(to_server) /\ out' = out
      /\ doc \in [File -> [version : Nat, text : Nat]]
      /\ Ordered(OnItsWay, doc)
  BY DEF IInv, WayTypes, ServerReads
<1>2. /\ part \in Part(Message) /\ Tail(to_server) \in Seq(Part(Message))
      /\ Len(to_server) \in Nat \ {0} /\ Len(out) \in Nat
      /\ part = to_server[1]
  BY <1>1, HeadTailProperties, EmptySeq
<1>3. /\ OnItsWay \in Seq(Part(Message)) /\ Len(OnItsWay) = Len(to_server) + Len(out)
      /\ OnItsWay[1] = part
  <2>1. \A i \in 1 .. Len(to_server) + Len(out) :
          OnItsWay[i] = IF i <= Len(to_server) THEN to_server[i] ELSE out[i - Len(to_server)]
    BY <1>1, ConcatProperties DEF OnItsWay
  <2>2. OnItsWay \in Seq(Part(Message)) /\ Len(OnItsWay) = Len(to_server) + Len(out)
    BY <1>1, ConcatProperties DEF OnItsWay
  <2>3. 1 \in 1 .. Len(to_server) + Len(out) /\ 1 <= Len(to_server)
    BY <1>2
  <2> QED BY <1>2, <2>1, <2>2, <2>3
<1>4. OnItsWay # <<>>
  <2>1. Len(OnItsWay) # 0
    BY <1>2, <1>3
  <2> QED BY <2>1, EmptySeq
<1>5. OnItsWay' = Tail(OnItsWay)
  <2> DEFINE a == Tail(to_server) \o out
  <2>1. /\ Len(Tail(to_server)) = Len(to_server) - 1
        /\ \A i \in 1 .. Len(to_server) - 1 : Tail(to_server)[i] = to_server[i + 1]
    BY <1>1, HeadTailProperties
  <2>2. /\ a \in Seq(Part(Message)) /\ Len(a) = Len(to_server) - 1 + Len(out)
        /\ \A i \in 1 .. Len(a) :
             a[i] = IF i <= Len(to_server) - 1 THEN Tail(to_server)[i]
                                               ELSE out[i - (Len(to_server) - 1)]
    BY <1>1, <1>2, <2>1, ConcatProperties
  <2>3. /\ Tail(OnItsWay) \in Seq(Part(Message)) /\ Len(Tail(OnItsWay)) = Len(OnItsWay) - 1
        /\ \A i \in 1 .. Len(OnItsWay) - 1 : Tail(OnItsWay)[i] = OnItsWay[i + 1]
    BY <1>3, <1>4, HeadTailProperties
  <2>4. \A i \in 1 .. Len(to_server) + Len(out) :
          OnItsWay[i] = IF i <= Len(to_server) THEN to_server[i] ELSE out[i - Len(to_server)]
    BY <1>1, ConcatProperties DEF OnItsWay
  <2> HIDE DEF a
  <2>5. ASSUME NEW i \in 1 .. Len(a)
        PROVE  a[i] = Tail(OnItsWay)[i]
    <3>1. i + 1 \in 1 .. Len(to_server) + Len(out) /\ i \in 1 .. Len(OnItsWay) - 1
      BY <1>2, <1>3, <2>2
    <3>2. Tail(OnItsWay)[i] = OnItsWay[i + 1]
      BY <2>3, <3>1
    <3>3. CASE i <= Len(to_server) - 1
      BY <1>2, <2>1, <2>2, <2>4, <3>1, <3>2, <3>3
    <3>4. CASE i > Len(to_server) - 1
      <4>1. i - (Len(to_server) - 1) = (i + 1) - Len(to_server)
        BY <1>2, <3>1
      <4> QED BY <1>2, <2>2, <2>4, <3>1, <3>2, <3>4, <4>1
    <3> QED BY <1>2, <3>1, <3>3, <3>4
  <2>6. a = Tail(OnItsWay)
    BY <1>2, <1>3, <2>2, <2>3, <2>5, SeqEqual
  <2> QED BY <1>1, <2>6 DEF OnItsWay, a
<1>6. part.of \in Message /\ part.last \in BOOLEAN
  BY <1>2 DEF Part
<1>7. /\ doc' \in [File -> [version : Nat, text : Nat]]
      /\ \A f \in File :
           doc'[f] = IF Carries(part, f)
                       THEN [version |-> part.of.version, text |-> part.of.text]
                       ELSE doc[f]
  <2>1. CASE part.last /\ part.of.kind \in {"didOpen", "didChange"}
    <3>1. doc' = [doc EXCEPT ![part.of.file] =
                    [version |-> part.of.version, text |-> part.of.text]]
      BY <2>1 DEF ServerReads, Understood
    <3>2. part.of.file \in File /\ part.of.version \in Nat /\ part.of.text \in Nat
      BY <1>6, <2>1 DEF Message
    <3> HIDE DEF part
    <3> QED BY <1>1, <2>1, <3>1, <3>2 DEF Carries
  <2>2. CASE ~(part.last /\ part.of.kind \in {"didOpen", "didChange"})
    <3>1. doc' = doc
      BY <1>6, <2>2 DEF ServerReads, Understood
    <3> HIDE DEF part
    <3> QED BY <1>1, <2>2, <3>1 DEF Carries
  <2> QED BY <2>1, <2>2
<1> HIDE DEF part
<1>8. /\ Ordered(Tail(OnItsWay), doc')
      /\ \A f \in File : \A w : Ends(OnItsWay, doc, f, w) => Ends(Tail(OnItsWay), doc', f, w)
      /\ \A f \in File :
           doc'[f] # doc[f] =>
             \/ doc'[f] = [version |-> 1, text |-> 0]
             \/ doc[f].version # 0 /\ doc'[f].version = doc[f].version + 1
  BY <1>1, <1>3, <1>4, <1>7, Shortened
<1> QED BY <1>1, <1>2, <1>5, <1>7, <1>8

-----------------------------------------------------------------------------
(* Every step                                                              *)

LEMMA IInvStep == IInv /\ [Next]_vars => IInv'
<1> SUFFICES ASSUME IInv, [Next]_vars PROVE IInv'
  OBVIOUS
<1> USE DEF IInv
<1>1. CASE lsp_write_all
  <2>1. CASE alive
    <3>1. /\ out # <<>> /\ out' = Tail(out) /\ to_server' = Append(to_server, Head(out))
          /\ UNCHANGED <<now, editor, doc>>
      BY <1>1, <2>1 DEF lsp_write_all, server
    <3>2. OnItsWay' = OnItsWay
      BY <3>1, Passed DEF OnItsWay, WayTypes
    <3>3. to_server' \in Seq(Part(Message)) /\ out' \in Seq(Part(Message))
      BY <3>1, HeadTailProperties, AppendProperties DEF WayTypes
    <3>4. Ordered(OnItsWay, doc)' /\ OneVersion'
      BY <3>1, <3>2, SameWay DEF OneVersion, editor
    <3>5. WayTypes' /\ Counted' /\ Written'
      BY <3>1, <3>3 DEF WayTypes, Counted, Written, editor
    <3> QED BY <3>4, <3>5
  <2>2. CASE ~alive
    <3>1. now' = "killed" /\ UNCHANGED <<to_server, out, editor, doc>>
      BY <1>1, <2>2 DEF lsp_write_all, server
    <3>2. Ordered(OnItsWay, doc)'
      BY <3>1 DEF OnItsWay
    <3> QED BY <3>1, <3>2 DEF WayTypes, Counted, Written, OneVersion, editor
  <2> QED BY <2>1, <2>2
<1>2. CASE Sent
  <2>1. out = <<>> /\ UNCHANGED <<now_open_path_name, text, to_server, out, doc>>
    BY <1>2 DEF Sent, pipes, server
  <2>2. OnItsWay' = OnItsWay
    BY <2>1 DEF OnItsWay
  <2>3. Ordered(OnItsWay, doc)'
    BY <2>1, <2>2, SameWay
  <2>4. CASE now = "opening"
    <3>1. path_name' = now_open_path_name /\ file_update_counter' = 1 /\ now' = "round"
      BY <1>2, <2>4 DEF Sent
    <3> QED BY <2>1, <2>2, <2>3, <2>4, <3>1 DEF WayTypes, Written, Counted, OneVersion
  <2>5. CASE now = "changing"
    <3>1. file_update_counter' = file_update_counter + 1 /\ now' = "round"
          /\ path_name' = path_name
      BY <1>2, <2>5 DEF Sent
    <3> QED BY <2>1, <2>2, <2>3, <2>5, <3>1 DEF WayTypes, Written, Counted, OneVersion
  <2>6. CASE now \in {"starting", "confirming", "asking"}
    <3>1. /\ UNCHANGED <<path_name, file_update_counter>>
          /\ now' \in {"round", "waiting"}
      BY <1>2, <2>6 DEF Sent
    <3> QED BY <2>1, <2>2, <2>3, <2>6, <3>1 DEF WayTypes, Written, Counted, OneVersion
  <2> QED BY <1>2, <2>4, <2>5, <2>6 DEF Sent
<1>3. CASE lsp_poll_events \/ Quit
  <2>1. /\ now \in {"round", "waiting"} /\ now' \in {"waiting", "reading", "ended"}
        /\ UNCHANGED <<path_name, file_update_counter, now_open_path_name, text,
                       to_server, out, doc>>
    BY <1>3 DEF lsp_poll_events, Quit, editor, pipes, server
  <2>2. OnItsWay' = OnItsWay
    BY <2>1 DEF OnItsWay
  <2> QED BY <2>1, <2>2, SameWay DEF WayTypes, Written, Counted, OneVersion
<1>4. CASE lsp_read_message
  <2>1. /\ now = "reading" /\ out = <<>>
        /\ UNCHANGED <<path_name, file_update_counter, now_open_path_name, text,
                       to_server, doc>>
    BY <1>4 DEF lsp_read_message, editor, server, Written
  <2>2. CASE out' = out /\ now' \in {"reading", "waiting"}
    <3>1. OnItsWay' = OnItsWay
      BY <2>1, <2>2 DEF OnItsWay
    <3> QED BY <2>1, <2>2, <3>1, SameWay DEF WayTypes, Written, Counted, OneVersion
  <2>3. CASE out' = Parted([kind |-> "initialized"]) /\ now' = "confirming"
    <3> DEFINE m == [kind |-> "initialized"]
    <3>1. m \in Message /\ m.kind \notin {"didOpen", "didChange"}
      BY DEF Message
    <3>2. out' = Parted(m)
      BY <2>3
    <3> HIDE DEF m
    <3>3. /\ out' \in Seq(Part(Message)) /\ Ordered(OnItsWay', doc')
          /\ \A f, w : Ends(OnItsWay, doc, f, w) => Ends(OnItsWay', doc', f, w)
      BY <2>1, <3>1, <3>2, NewWay
    <3> QED BY <2>1, <2>3, <3>3 DEF WayTypes, Written, Counted, OneVersion
  <2> QED BY <1>4, <2>1, <2>2, <2>3 DEF lsp_read_message, Received, Refused
<1>5. ASSUME NEW f \in File, NEW typed \in BOOLEAN, handle_file_browse_screen_input(f, typed)
      PROVE  IInv'
  <2>1. /\ now = "waiting" /\ out = <<>> /\ now_open_path_name' = f /\ text' = 0
        /\ UNCHANGED <<path_name, file_update_counter, to_server, doc>>
        /\ \/ out' = Parted(lsp_send_did_open(f)) /\ now' = "opening"
           \/ out' = out /\ now' = "round"
    BY <1>5 DEF handle_file_browse_screen_input, server, Written
  <2>2. CASE out' = out /\ now' = "round"
    <3>1. OnItsWay' = OnItsWay
      BY <2>1, <2>2 DEF OnItsWay
    <3> QED BY <2>1, <2>2, <3>1, SameWay DEF WayTypes, Written, Counted, OneVersion
  <2>3. CASE out' = Parted(lsp_send_did_open(f)) /\ now' = "opening"
    <3> DEFINE m == lsp_send_did_open(f)
    <3>1. /\ m \in Message /\ m.kind \in {"didOpen", "didChange"}
          /\ m.version = 1 /\ m.text = 0 /\ m.file = f
      BY DEF Message, lsp_send_did_open
    <3>2. out' = Parted(m)
      BY <2>3
    <3> HIDE DEF m
    <3>3. /\ out' \in Seq(Part(Message)) /\ Ordered(OnItsWay', doc')
          /\ Ends(OnItsWay', doc', f, 1)
      BY <2>1, <3>1, <3>2, NewWay
    <3>4. f # NoFile
      BY PipeAssumption
    <3> QED BY <2>1, <2>3, <3>3, <3>4 DEF WayTypes, Written, Counted, OneVersion
  <2> QED BY <2>1, <2>2, <2>3
<1>6. ASSUME NEW notifies \in BOOLEAN, handle_edit_screen_input(notifies)
      PROVE  IInv'
  <2>1. /\ now = "waiting" /\ out = <<>> /\ text' = text + 1
        /\ UNCHANGED <<path_name, file_update_counter, now_open_path_name, to_server, doc>>
        /\ \/ /\ Notified /\ now' = "changing"
              /\ out' = Parted(lsp_send_did_change(now_open_path_name,
                                                   file_update_counter + 1, text'))
           \/ out' = out /\ now' = "round"
    BY <1>6 DEF handle_edit_screen_input, send_lsp_did_change, server, Written
  <2>2. CASE out' = out /\ now' = "round"
    <3>1. OnItsWay' = OnItsWay
      BY <2>1, <2>2 DEF OnItsWay
    <3> QED BY <2>1, <2>2, <3>1, SameWay DEF WayTypes, Written, Counted, OneVersion
  <2>3. CASE /\ Notified /\ now' = "changing"
             /\ out' = Parted(lsp_send_did_change(now_open_path_name,
                                                  file_update_counter + 1, text'))
    <3> DEFINE m == lsp_send_did_change(now_open_path_name, file_update_counter + 1, text')
    <3>1. /\ path_name = now_open_path_name /\ file_update_counter # 0 /\ path_name \in File
          /\ file_update_counter \in Nat /\ text' \in Nat
      BY <2>1, <2>3 DEF Notified, Counted, WayTypes
    <3>2. /\ m \in Message /\ m.kind \in {"didOpen", "didChange"}
          /\ m.version = file_update_counter + 1 /\ m.file = path_name
      <4>1. m = [kind |-> "didChange", file |-> path_name,
                 version |-> file_update_counter + 1, text |-> text']
        BY <3>1 DEF lsp_send_did_change
      <4>2. file_update_counter + 1 \in Nat
        BY <3>1
      <4> HIDE DEF m
      <4> QED BY <3>1, <4>1, <4>2 DEF Message
    <3>3. Ends(OnItsWay, doc, path_name, file_update_counter)
      BY <2>1, <3>1, PipeAssumption DEF OneVersion
    <3>4. out' = Parted(m)
      BY <2>3
    <3> HIDE DEF m
    <3>5. /\ out' \in Seq(Part(Message)) /\ Ordered(OnItsWay', doc')
          /\ Ends(OnItsWay', doc', path_name, file_update_counter + 1)
      BY <2>1, <3>1, <3>2, <3>3, <3>4, NewWay
    <3> QED BY <2>1, <2>3, <3>1, <3>5, PipeAssumption
            DEF WayTypes, Written, Counted, OneVersion
  <2> QED BY <2>1, <2>2, <2>3
<1>7. CASE lsp_send_completion
  <2> DEFINE m == lsp_make_msg
  <2>1. /\ now = "waiting" /\ out = <<>> /\ now' = "asking" /\ out' = Parted(m)
        /\ UNCHANGED <<path_name, file_update_counter, now_open_path_name, text,
                       to_server, doc>>
    BY <1>7 DEF lsp_send_completion, server, Written
  <2>2. m \in Message /\ m.kind \notin {"didOpen", "didChange"}
    BY DEF Message, lsp_make_msg
  <2> HIDE DEF m
  <2>3. /\ out' \in Seq(Part(Message)) /\ Ordered(OnItsWay', doc')
        /\ \A f, w : Ends(OnItsWay, doc, f, w) => Ends(OnItsWay', doc', f, w)
    BY <2>1, <2>2, NewWay
  <2> QED BY <2>1, <2>3 DEF WayTypes, Written, Counted, OneVersion
<1>8. CASE ServerReads
  <2>1. UNCHANGED <<now, editor, out>>
    BY <1>8 DEF ServerReads
  <2>2. /\ to_server' \in Seq(Part(Message))
        /\ doc' \in [File -> [version : Nat, text : Nat]]
        /\ Ordered(OnItsWay, doc)'
        /\ \A f \in File : \A w : Ends(OnItsWay, doc, f, w) => Ends(OnItsWay', doc', f, w)
    BY <1>8, ReadWay
  <2>3. WayTypes' /\ Written' /\ Counted'
    BY <2>1, <2>2 DEF WayTypes, Written, Counted, editor
  <2>4. OneVersion'
    BY <2>1, <2>2 DEF OneVersion, WayTypes, editor
  <2> QED BY <2>2, <2>3, <2>4
<1>9. CASE ServerWrites \/ ServerDies \/ UNCHANGED vars
  <2>1. UNCHANGED <<now, path_name, file_update_counter, now_open_path_name, text,
                    to_server, out, doc>>
    BY <1>9 DEF ServerWrites, ServerDies, vars, editor, pipes, server
  <2>2. OnItsWay' = OnItsWay
    BY <2>1 DEF OnItsWay
  <2> QED BY <2>1, <2>2, SameWay DEF WayTypes, Written, Counted, OneVersion
<1> QED BY <1>1, <1>2, <1>3, <1>4, <1>5, <1>6, <1>7, <1>8, <1>9 DEF Next

\* Whatever files, pipes and messages: with all of it read, the server's version is
\* the one the editor counts (file_update_counter).
THEOREM VersionsAgreeAlways == Spec => []VersionsAgree
<1>1. IInv => VersionsAgree
  <2> SUFFICES ASSUME IInv, now \in {"round", "reading", "waiting"}, to_server = <<>>,
                      path_name # NoFile
               PROVE  doc[path_name].version = file_update_counter
    BY DEF VersionsAgree
  <2>1. OnItsWay = <<>>
    BY EmptySeq, ConcatEmptySeq DEF IInv, Written, OnItsWay
  <2>2. Ends(<<>>, doc, path_name, file_update_counter)
    BY <2>1 DEF IInv, OneVersion
  <2> QED BY <2>2 DEF Ends
<1> QED BY <1>1, IInvInit, IInvStep, PTL DEF Spec

\* Whatever files, pipes and messages: the server sees a document opened first and
\* then changed one version at a time (lsp_send_did_open, lsp_send_did_change).
THEOREM ChangesFollowAlways == Spec => ChangesFollow
<1> DEFINE Follows == \A f \in File :
             doc'[f] # doc[f] =>
               \/ doc'[f] = [version |-> 1, text |-> 0]
               \/ doc[f].version # 0 /\ doc'[f].version = doc[f].version + 1
<1>1. IInv /\ [Next]_vars => [Follows]_vars
  <2> SUFFICES ASSUME IInv, Next PROVE Follows
    OBVIOUS
  <2>1. CASE ServerReads
    BY <2>1, ReadWay
  <2>2. CASE ~ServerReads
    <3>1. doc' = doc
      BY <2>2 DEF Next, lsp_write_all, Sent, lsp_poll_events, lsp_read_message,
                  handle_file_browse_screen_input, handle_edit_screen_input,
                  lsp_send_completion, Quit, ServerWrites, ServerDies, server
    <3> QED BY <3>1
  <2> QED BY <2>1, <2>2
<1> QED BY <1>1, IInvInit, IInvStep, PTL DEF Spec, ChangesFollow

=============================================================================
