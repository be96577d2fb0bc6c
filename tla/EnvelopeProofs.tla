---------------------------- MODULE EnvelopeProofs ----------------------------
(***************************************************************************)
(* Theorems of module Envelope: whatever is written into a buffer or the   *)
(* network is read as it was written.  First where the bytes of a          *)
(* concatenation lie, then what each pair of a writer and a reader does,   *)
(* in the order of the module, then the invariant of its actions.          *)
(***************************************************************************)
EXTENDS Envelope, DataLemmas, SequenceTheorems

\* A sequence, whatever its entries are
IsSeq(s) == s \in Seq(ToSet(s))

\* Its length, its domain and its entries
LEMMA SeqFacts ==
  ASSUME NEW s, IsSeq(s)
  PROVE  /\ Len(s) \in Nat
         /\ DOMAIN s = 1 .. Len(s)
         /\ s = [k \in 1 .. Len(s) |-> s[k]]
  BY DEF IsSeq

\* Every sequence is a sequence of its entries.
LEMMA SeqWith ==
  ASSUME NEW S, NEW s \in Seq(S)
  PROVE  IsSeq(s)
<1>1. Len(s) \in Nat /\ DOMAIN s = 1 .. Len(s) /\ s = [k \in 1 .. Len(s) |-> s[k]]
  OBVIOUS
<1> QED
  BY <1>1, ListIsSeq DEF IsSeq

\* Two sequences have a common set of entries.
LEMMA SeqsIn ==
  ASSUME NEW s, NEW t, IsSeq(s), IsSeq(t)
  PROVE  s \in Seq(ToSet(s) \cup ToSet(t)) /\ t \in Seq(ToSet(s) \cup ToSet(t))
<1>1. ToSet(s) \subseteq ToSet(s) \cup ToSet(t) /\ ToSet(t) \subseteq ToSet(s) \cup ToSet(t)
  OBVIOUS
<1> QED
  BY <1>1, SeqMonotonic DEF IsSeq

\* Sequences with the same entries are equal.
LEMMA SeqsEqual ==
  ASSUME NEW s, NEW t, IsSeq(s), IsSeq(t), Len(s) = Len(t), \A k \in 1 .. Len(s) : s[k] = t[k]
  PROVE  s = t
  BY SeqsIn, SeqEqual

\* The entries of a concatenation
LEMMA Concat ==
  ASSUME NEW s, NEW t, IsSeq(s), IsSeq(t)
  PROVE  /\ IsSeq(s \o t)
         /\ Len(s \o t) = Len(s) + Len(t)
         /\ \A k \in 1 .. Len(s) : (s \o t)[k] = s[k]
         /\ \A k \in 1 .. Len(t) : (s \o t)[Len(s) + k] = t[k]
<1> DEFINE S == ToSet(s) \cup ToSet(t)
<1>1. s \in Seq(S) /\ t \in Seq(S)
  BY SeqsIn
<1> HIDE DEF S
<1>2. s \o t \in Seq(S) /\ Len(s) \in Nat /\ Len(t) \in Nat
  BY <1>1, ConcatProperties
<1>3. /\ Len(s \o t) = Len(s) + Len(t)
      /\ \A i \in 1 .. Len(s) + Len(t) : (s \o t)[i] = IF i <= Len(s) THEN s[i] ELSE t[i - Len(s)]
  BY <1>1, ConcatProperties
<1>4. IsSeq(s \o t)
  BY <1>2, SeqWith
<1>5. ASSUME NEW k \in 1 .. Len(t)
      PROVE  (s \o t)[Len(s) + k] = t[k]
  <2>1. Len(s) + k \in 1 .. Len(s) + Len(t) /\ ~ (Len(s) + k <= Len(s)) /\ (Len(s) + k) - Len(s) = k
    BY <1>2
  <2> QED
    BY <1>3, <2>1
<1>6. \A k \in 1 .. Len(s) : (s \o t)[k] = s[k]
  BY <1>2, <1>3
<1> QED
  BY <1>3, <1>4, <1>5, <1>6

\* The entries of a part of a sequence
LEMMA Segment ==
  ASSUME NEW s, IsSeq(s), NEW m \in Nat, NEW n \in Nat, m >= 1, n >= m - 1, n <= Len(s)
  PROVE  /\ IsSeq(SubSeq(s, m, n))
         /\ Len(SubSeq(s, m, n)) = n - m + 1
         /\ \A k \in 1 .. (n - m + 1) : SubSeq(s, m, n)[k] = s[m + k - 1]
<1>1. Len(s) \in Nat /\ \A i \in m .. n : s[i] \in ToSet(s)
  BY SeqFacts DEF ToSet
<1>2. SubSeq(s, m, n) \in Seq(ToSet(s))
  BY <1>1, SubSeqProperties
<1>3. /\ Len(SubSeq(s, m, n)) = n - m + 1
      /\ \A k \in 1 .. (n - m + 1) : SubSeq(s, m, n)[k] = s[m + k - 1]
  BY <1>1, SubSeqProperties
<1> QED
  BY <1>2, <1>3, SeqWith

-----------------------------------------------------------------------------
(* A buffer holds a sequence at a place. *)

At(buffer, cur, s) ==
  /\ cur \in Nat \ {0}
  /\ IsSeq(buffer) /\ IsSeq(s)
  /\ cur + Len(s) - 1 <= Len(buffer)
  /\ \A k \in 1 .. Len(s) : buffer[cur + k - 1] = s[k]

\* A buffer lies at its own beginning.
LEMMA WholeAt ==
  ASSUME NEW s, IsSeq(s)
  PROVE  At(s, 1, s)
  BY SeqFacts DEF At

\* The parts of a concatenation lie one after the other.
LEMMA ConcatAt ==
  ASSUME NEW buffer, NEW cur, NEW s, NEW t, IsSeq(s), IsSeq(t), At(buffer, cur, s \o t)
  PROVE  /\ At(buffer, cur, s) /\ Len(s) \in Nat /\ Len(t) \in Nat
         /\ At(buffer, cur + Len(s), t)
         /\ cur + Len(s \o t) = (cur + Len(s)) + Len(t)
<1>1. /\ Len(s) \in Nat /\ Len(t) \in Nat /\ cur \in Nat \ {0}
      /\ Len(s \o t) = Len(s) + Len(t) /\ Len(buffer) \in Nat
  BY Concat, SeqFacts DEF At
<1>2. ASSUME NEW k \in 1 .. Len(s)
      PROVE  buffer[cur + k - 1] = s[k]
  <2>1. k \in 1 .. Len(s \o t)
    BY <1>1
  <2>2. (s \o t)[k] = s[k]
    BY Concat
  <2> QED
    BY <2>1, <2>2 DEF At
<1>3. ASSUME NEW k \in 1 .. Len(t)
      PROVE  buffer[(cur + Len(s)) + k - 1] = t[k]
  <2>1. Len(s) + k \in 1 .. Len(s \o t) /\ cur + (Len(s) + k) - 1 = (cur + Len(s)) + k - 1
    BY <1>1
  <2>2. (s \o t)[Len(s) + k] = t[k]
    BY Concat
  <2>3. buffer[cur + (Len(s) + k) - 1] = (s \o t)[Len(s) + k]
    BY <2>1 DEF At
  <2> QED
    BY <2>1, <2>2, <2>3
<1>4. At(buffer, cur, s)
  BY <1>1, <1>2 DEF At
<1>5. At(buffer, cur + Len(s), t)
  BY <1>1, <1>3 DEF At
<1> QED
  BY <1>1, <1>4, <1>5

\* What lies in a buffer can be cut out of it.
LEMMA SegmentAt ==
  ASSUME NEW buffer, NEW cur, NEW s, At(buffer, cur, s)
  PROVE  SubSeq(buffer, cur, cur + Len(s) - 1) = s
<1>1. /\ Len(s) \in Nat /\ Len(buffer) \in Nat /\ cur \in Nat /\ cur >= 1
      /\ cur + Len(s) - 1 \in Nat /\ cur + Len(s) - 1 >= cur - 1 /\ cur + Len(s) - 1 <= Len(buffer)
  BY SeqFacts DEF At
<1> DEFINE sub == SubSeq(buffer, cur, cur + Len(s) - 1)
<1>2. /\ IsSeq(sub) /\ Len(sub) = (cur + Len(s) - 1) - cur + 1
      /\ \A k \in 1 .. ((cur + Len(s) - 1) - cur + 1) : sub[k] = buffer[cur + k - 1]
  BY <1>1, Segment DEF At
<1> HIDE DEF sub
<1>3. (cur + Len(s) - 1) - cur + 1 = Len(s)
  BY <1>1
<1>4. \A k \in 1 .. Len(sub) : sub[k] = s[k]
  BY <1>2, <1>3 DEF At
<1>5. IsSeq(s)
  BY DEF At
<1> QED
  BY <1>2, <1>3, <1>4, <1>5, SeqsEqual DEF sub

-----------------------------------------------------------------------------
(* Numbers *)

\* The bytes of a number
LEMMA NumberSeq ==
  ASSUME NEW width \in Nat, NEW n
  PROVE  /\ IsSeq(Number(width, n)) /\ Len(Number(width, n)) = width
         /\ \A k \in 1 .. width : Number(width, n)[k][1] = "number" /\ Number(width, n)[k][2] = n
<1> DEFINE s == Number(width, n)
<1>1. DOMAIN s = 1 .. width /\ s = [k \in 1 .. width |-> s[k]]
  BY DEF Number
<1>2. \A k \in 1 .. width : s[k][1] = "number" /\ s[k][2] = n
  BY DEF Number
<1> HIDE DEF s
<1>3. s \in Seq(ToSet(s)) /\ Len(s) = width
  BY <1>1, ListIsSeq
<1> QED
  BY <1>2, <1>3 DEF IsSeq, s

\* A number is read where its bytes lie.
LEMMA ReadNumber ==
  ASSUME NEW buffer, NEW cur, NEW width \in Nat \ {0}, NEW n, At(buffer, cur, Number(width, n))
  PROVE  Read(buffer, cur, width) = n
<1> DEFINE s == Number(width, n)
<1>1. Len(s) = width /\ s[1][1] = "number" /\ s[1][2] = n
  BY NumberSeq
<1>2. SubSeq(buffer, cur, cur + width - 1) = s
  BY <1>1, SegmentAt
<1>3. buffer[cur] = s[1] /\ cur + width - 1 <= Len(buffer)
  <2>1. 1 \in 1 .. Len(s) /\ cur + 1 - 1 = cur
    BY <1>1 DEF At
  <2> HIDE DEF s
  <2> QED
    BY <1>1, <2>1 DEF At, s
<1> HIDE DEF s
<1> QED
  BY <1>1, <1>2, <1>3 DEF Read, s

\* So is a count.
LEMMA ReadCount ==
  ASSUME NEW buffer, NEW cur, NEW n \in Nat, At(buffer, cur, Number(8, n))
  PROVE  Count(buffer, cur) = n
  BY ReadNumber DEF Count

\* A loop's bound is a natural number whatever it is read from.
LEMMA CountIsNat ==
  ASSUME NEW buffer, NEW cur
  PROVE  Count(buffer, cur) \in Nat
  BY DEF Count

-----------------------------------------------------------------------------
(* Loops *)

\* A cursor moves as its loop says.
LEMMA CursorsMove ==
  ASSUME NEW first \in Nat, NEW next \in [Nat -> Nat]
  PROVE  /\ \A k \in Nat : Cursors(first, next)[k] \in Nat
         /\ Cursors(first, next)[0] = first
         /\ \A k \in Nat : Cursors(first, next)[k + 1] = next[Cursors(first, next)[k]]
<1> DEFINE S == Nat
<1> HIDE DEF S
<1>0. first \in S /\ next \in [S -> S]
  BY DEF S
<1> DEFINE body(f) == [k \in Nat |-> IF k = 0 THEN first ELSE next[f[k - 1]]]
           F == CHOOSE f : f = body(f)
           step == [p \in Nat \X S |-> next[p[2]]]
<1>1. step \in [Nat \X S -> S] /\ \A k \in Nat, x \in S : step[<<k, x>>] = next[x]
  BY <1>0
<1> HIDE DEF step
<1>2. PICK h : Follows(h, S, first, step)
  BY <1>0, <1>1, Recursion, Zenon
<1>3. h = body(h)
  <2>1. h \in [Nat -> S] /\ h[0] = first /\ \A n \in Nat : h[n + 1] = next[h[n]]
    BY <1>1, <1>2 DEF Follows
  <2>2. ASSUME NEW k \in Nat
        PROVE  h[k] = IF k = 0 THEN first ELSE next[h[k - 1]]
    <3>1. CASE k = 0
      BY <3>1, <2>1
    <3>2. CASE k # 0
      <4>1. k - 1 \in Nat /\ (k - 1) + 1 = k
        BY <3>2
      <4>2. h[(k - 1) + 1] = next[h[k - 1]]
        BY <2>1, <4>1, Zenon
      <4> QED
        BY <3>2, <4>1, <4>2
    <3> QED
      BY <3>1, <3>2
  <2> QED
    BY <2>1, <2>2
<1> HIDE DEF body
<1>4. F = body(F)
  BY <1>3
<1> HIDE DEF F
<1>5. F[0] = first /\ \A k \in Nat : F[k + 1] = next[F[k]]
  BY <1>4 DEF body
<1>6. \A k \in Nat : F[k] \in S
  <2> DEFINE T == {k \in Nat : F[k] \in S}
  <2>1. 0 \in T /\ \A k \in Nat : k \in T => k + 1 \in T
    <3>1. \A x \in S : next[x] \in S
      BY <1>0
    <3>2. ASSUME NEW k \in Nat, F[k] \in S
          PROVE  F[k + 1] \in S /\ k + 1 \in Nat
      BY <1>5, <3>1, <3>2
    <3> QED
      BY <1>0, <1>5, <3>2
  <2> HIDE DEF T
  <2>2. Nat \subseteq T
    BY <2>1, Induction
  <2> QED
    BY <2>2 DEF T
<1>7. Cursors(first, next) = F
  BY Zenon DEF Cursors, F, body
<1> QED
  BY <1>5, <1>6, <1>7 DEF S

\* The entries of a concatenation lie one behind the other.
LEMMA FlattenAt ==
  ASSUME NEW n \in Nat, NEW seqs, seqs = [k \in 1 .. n |-> seqs[k]], \A k \in 1 .. n : IsSeq(seqs[k])
  PROVE  /\ IsSeq(FlattenSeq(seqs))
         /\ \E off \in [0 .. n -> Nat] :
              /\ off[0] = 0 /\ off[n] = Len(FlattenSeq(seqs))
              /\ \A k \in 1 .. n : off[k] = off[k - 1] + Len(seqs[k])
              /\ \A buffer, cur : At(buffer, cur, FlattenSeq(seqs)) =>
                   \A k \in 1 .. n : At(buffer, cur + off[k - 1], seqs[k])
<1>1. CASE n = 0
  <2>1. seqs = <<>> /\ FlattenSeq(seqs) = <<>>
    <3>1. seqs = <<>> /\ Len(seqs) = 0
      BY <1>1
    <3> QED
      BY <3>1, Zenon DEF FlattenSeq
  <2>2. IsSeq(<<>>) /\ Len(<<>>) = 0
    BY DEF IsSeq
  <2> DEFINE off == [k \in 0 .. n |-> 0]
  <2>3. off \in [0 .. n -> Nat] /\ off[0] = 0 /\ off[n] = Len(FlattenSeq(seqs))
    BY <1>1, <2>1, <2>2
  <2>4. 1 .. n = {}
    BY <1>1
  <2> QED
    BY <2>1, <2>2, <2>3, <2>4
<1>2. CASE n # 0
  <2> DEFINE S == UNION {ToSet(seqs[k]) : k \in 1 .. n}
  <2>1. \A k \in 1 .. n : seqs[k] \in Seq(S)
    <3> TAKE k \in 1 .. n
    <3>1. ToSet(seqs[k]) \subseteq S
      OBVIOUS
    <3> HIDE DEF S
    <3> QED
      BY <3>1, SeqMonotonic DEF IsSeq
  <2> HIDE DEF S
  <2>2. seqs \in Seq(Seq(S)) /\ Len(seqs) = n
    BY <2>1
  <2>3. PICK F : /\ F[1] = seqs[1]
                 /\ \A i \in 2 .. n : F[i] = F[i - 1] \o seqs[i]
                 /\ FlattenSeq(seqs) = F[n]
    BY <1>2, <2>2, FlattenSteps
  <2> DEFINE T == {k \in Nat : k + 1 <= n => IsSeq(F[k + 1])}
  <2>4. 0 \in T
    BY <1>2, <2>3
  <2>5. ASSUME NEW k \in Nat, k \in T, k + 2 <= n
        PROVE  IsSeq(F[k + 2])
    <3>1. k + 2 \in 2 .. n /\ (k + 2) - 1 = k + 1 /\ k + 2 \in 1 .. n /\ k + 1 <= n
      BY <2>5
    <3>2. F[k + 2] = F[k + 1] \o seqs[k + 2] /\ IsSeq(F[k + 1])
      BY <2>3, <2>5, <3>1
    <3> QED
      BY <3>1, <3>2, Concat
  <2>6. \A k \in Nat : k \in T => k + 1 \in T
    BY <2>5
  <2>7. Nat \subseteq T
    <3> HIDE DEF T
    <3> QED
      BY <2>4, <2>6, Induction
  <2>8. ASSUME NEW k \in 1 .. n
        PROVE  IsSeq(F[k]) /\ Len(F[k]) \in Nat
    <3>1. k - 1 \in T /\ (k - 1) + 1 = k /\ k <= n
      BY <2>7
    <3>2. IsSeq(F[k])
      BY <3>1
    <3> QED
      BY <3>2, SeqFacts
  <2> HIDE DEF T
  <2> DEFINE off == [k \in 0 .. n |-> IF k = 0 THEN 0 ELSE Len(F[k])]
  <2>9. off \in [0 .. n -> Nat] /\ off[0] = 0 /\ off[n] = Len(FlattenSeq(seqs))
    BY <1>2, <2>3, <2>8
  <2>10. ASSUME NEW k \in 1 .. n
         PROVE  /\ off[k] = off[k - 1] + Len(seqs[k])
                /\ k # 1 => F[k] = F[k - 1] \o seqs[k] /\ k - 1 \in 1 .. n /\ off[k - 1] = Len(F[k - 1])
    <3>1. CASE k = 1
      <4>1. off[k] = Len(seqs[k]) /\ off[k - 1] = 0 /\ Len(seqs[k]) \in Nat
        BY <2>3, <3>1, SeqFacts
      <4> QED
        BY <3>1, <4>1
    <3>2. CASE k # 1
      <4>1. k \in 2 .. n /\ k - 1 \in 1 .. n /\ k - 1 # 0 /\ k # 0 /\ k - 1 \in 0 .. n /\ k \in 0 .. n
        BY <3>2
      <4>2. F[k] = F[k - 1] \o seqs[k]
        BY <2>3, <4>1
      <4>3. Len(F[k]) = Len(F[k - 1]) + Len(seqs[k])
        BY <2>8, <4>1, <4>2, Concat
      <4> QED
        BY <4>1, <4>2, <4>3
    <3> QED
      BY <3>1, <3>2
  <2> HIDE DEF off
  <2>11. ASSUME NEW buffer, NEW cur, At(buffer, cur, FlattenSeq(seqs)), NEW k \in 1 .. n
         PROVE  At(buffer, cur + off[k - 1], seqs[k])
    <3> DEFINE B == {j \in Nat : j < n => At(buffer, cur, F[n - j])}
    <3>1. 0 \in B
      BY <2>3, <2>11
    <3>2. ASSUME NEW j \in Nat, j \in B, j + 1 < n
          PROVE  At(buffer, cur, F[n - (j + 1)])
      <4>1. n - j \in 1 .. n /\ n - j # 1 /\ (n - j) - 1 = n - (j + 1) /\ j < n
        BY <3>2
      <4>2. F[n - j] = F[(n - j) - 1] \o seqs[n - j] /\ (n - j) - 1 \in 1 .. n
        BY <2>10, <4>1
      <4>3. IsSeq(F[(n - j) - 1]) /\ IsSeq(seqs[n - j])
        BY <2>8, <4>1, <4>2
      <4>4. At(buffer, cur, F[n - j])
        BY <3>2, <4>1
      <4> QED
        BY <4>1, <4>2, <4>3, <4>4, ConcatAt
    <3>3. \A j \in Nat : j \in B => j + 1 \in B
      BY <3>2
    <3>4. Nat \subseteq B
      <4> HIDE DEF B
      <4> QED
        BY <3>1, <3>3, Induction
    <3>5. n - k \in B /\ n - k < n /\ n - (n - k) = k
      BY <3>4
    <3>6. At(buffer, cur, F[k])
      BY <3>5
    <3> HIDE DEF B
    <3>7. CASE k = 1
      <4>1. F[k] = seqs[k] /\ off[k - 1] = 0 /\ cur \in Nat
        BY <2>3, <2>9, <2>11, <3>7 DEF At
      <4> QED
        BY <3>6, <4>1
    <3>8. CASE k # 1
      <4>1. F[k] = F[k - 1] \o seqs[k] /\ k - 1 \in 1 .. n /\ off[k - 1] = Len(F[k - 1])
        BY <2>10, <3>8
      <4> QED
        BY <2>8, <3>6, <4>1, ConcatAt
    <3> QED
      BY <3>7, <3>8
  <2>12. IsSeq(FlattenSeq(seqs))
    BY <1>2, <2>3, <2>8
  <2> QED
    BY <2>9, <2>10, <2>11, <2>12
<1> QED
  BY <1>1, <1>2

\* Entries of the same length
LEMMA EvenlyAt ==
  ASSUME NEW n \in Nat, NEW seqs, seqs = [k \in 1 .. n |-> seqs[k]], NEW w \in Nat,
         \A k \in 1 .. n : IsSeq(seqs[k]) /\ Len(seqs[k]) = w
  PROVE  /\ IsSeq(FlattenSeq(seqs)) /\ Len(FlattenSeq(seqs)) = n * w
         /\ \A buffer, cur : At(buffer, cur, FlattenSeq(seqs)) =>
              \A k \in 1 .. n : At(buffer, cur + (k - 1) * w, seqs[k])
<1>1. IsSeq(FlattenSeq(seqs))
  BY FlattenAt
<1>2. PICK off \in [0 .. n -> Nat] :
        /\ off[0] = 0 /\ off[n] = Len(FlattenSeq(seqs))
        /\ \A k \in 1 .. n : off[k] = off[k - 1] + Len(seqs[k])
        /\ \A buffer, cur : At(buffer, cur, FlattenSeq(seqs)) =>
             \A k \in 1 .. n : At(buffer, cur + off[k - 1], seqs[k])
  BY FlattenAt, Zenon
<1> DEFINE T == {k \in Nat : k <= n => off[k] = k * w}
<1>3. 0 \in T
  BY <1>2
<1>4. ASSUME NEW k \in Nat, k \in T, k + 1 <= n
      PROVE  off[k + 1] = (k + 1) * w
  <2>1. k + 1 \in 1 .. n /\ (k + 1) - 1 = k /\ off[k] = k * w
    BY <1>4
  <2>2. off[k + 1] = off[k] + w
    BY <1>2, <2>1
  <2>3. k * w + w = (k + 1) * w
    OBVIOUS
  <2> QED
    BY <2>1, <2>2, <2>3
<1>5. \A k \in Nat : k \in T => k + 1 \in T
  BY <1>4
<1>6. Nat \subseteq T
  <2> HIDE DEF T
  <2> QED
    BY <1>3, <1>5, Induction
<1>7. \A k \in 0 .. n : off[k] = k * w
  BY <1>6
<1> HIDE DEF T
<1>8. ASSUME NEW buffer, NEW cur, At(buffer, cur, FlattenSeq(seqs)), NEW k \in 1 .. n
      PROVE  At(buffer, cur + (k - 1) * w, seqs[k])
  <2>1. k - 1 \in 0 .. n /\ off[k - 1] = (k - 1) * w
    BY <1>7
  <2> QED
    BY <1>2, <1>8, <2>1
<1>9. Len(FlattenSeq(seqs)) = n * w
  <2>1. n \in 0 .. n
    OBVIOUS
  <2> QED
    BY <1>2, <1>7, <2>1
<1> QED
  BY <1>1, <1>8, <1>9, Zenon

-----------------------------------------------------------------------------
(* Peers *)

\* Three fields, one behind the other
LEMMA ThreeFields ==
  ASSUME NEW a, NEW b, NEW c, IsSeq(a), IsSeq(b), IsSeq(c)
  PROVE  /\ IsSeq(a \o b \o c) /\ Len(a \o b \o c) = Len(a) + Len(b) + Len(c)
         /\ {Len(a), Len(b), Len(c)} \subseteq Nat
         /\ \A buffer, cur : At(buffer, cur, a \o b \o c) =>
              /\ At(buffer, cur, a)
              /\ At(buffer, cur + Len(a), b)
              /\ At(buffer, cur + Len(a) + Len(b), c)
<1>1. IsSeq(a \o b) /\ Len(a \o b) = Len(a) + Len(b)
  BY Concat
<1>2. IsSeq(a \o b \o c) /\ Len(a \o b \o c) = Len(a) + Len(b) + Len(c)
  BY <1>1, Concat
<1>3. Len(a) \in Nat /\ Len(b) \in Nat /\ Len(c) \in Nat
  BY SeqFacts
<1>4. ASSUME NEW buffer, NEW cur, At(buffer, cur, a \o b \o c)
      PROVE  /\ At(buffer, cur, a) /\ At(buffer, cur + Len(a), b)
             /\ At(buffer, cur + Len(a) + Len(b), c)
  <2>1. At(buffer, cur, a \o b) /\ At(buffer, cur + Len(a \o b), c)
    BY <1>1, <1>4, ConcatAt
  <2>2. At(buffer, cur, a) /\ At(buffer, cur + Len(a), b)
    BY <2>1, ConcatAt
  <2>3. cur + Len(a \o b) = cur + Len(a) + Len(b)
    BY <1>1, <1>3, <2>2 DEF At
  <2> QED
    BY <2>1, <2>2, <2>3
<1> QED
  BY <1>2, <1>3, <1>4

\* Two and five fields
LEMMA TwoFields ==
  ASSUME NEW a, NEW b, IsSeq(a), IsSeq(b)
  PROVE  /\ IsSeq(a \o b) /\ Len(a \o b) = Len(a) + Len(b)
         /\ Len(a) \in Nat /\ Len(b) \in Nat
         /\ \A buffer, cur : At(buffer, cur, a \o b) =>
              cur \in Nat \ {0} /\ At(buffer, cur, a) /\ At(buffer, cur + Len(a), b)
<1>1. IsSeq(a \o b) /\ Len(a \o b) = Len(a) + Len(b) /\ Len(a) \in Nat /\ Len(b) \in Nat
  BY Concat, SeqFacts
<1>2. ASSUME NEW buffer, NEW cur, At(buffer, cur, a \o b)
      PROVE  cur \in Nat \ {0} /\ At(buffer, cur, a) /\ At(buffer, cur + Len(a), b)
  <2>1. At(buffer, cur, a) /\ At(buffer, cur + Len(a), b)
    BY <1>2, ConcatAt
  <2> QED
    BY <2>1 DEF At
<1> QED
  BY <1>1, <1>2

FiveAt(buffer, cur, a, b, c, d, e) ==
  /\ cur \in Nat \ {0}
  /\ At(buffer, cur, a)
  /\ At(buffer, cur + Len(a), b)
  /\ At(buffer, cur + Len(a) + Len(b), c)
  /\ At(buffer, cur + Len(a) + Len(b) + Len(c), d)
  /\ At(buffer, cur + Len(a) + Len(b) + Len(c) + Len(d), e)

\* Five fields of a record lie one after the other.
LEMMA FiveFields ==
  ASSUME NEW a, NEW b, NEW c, NEW d, NEW e,
         IsSeq(a), IsSeq(b), IsSeq(c), IsSeq(d), IsSeq(e)
  PROVE  /\ IsSeq(a \o b \o c \o d \o e)
         /\ Len(a \o b \o c \o d \o e) = Len(a) + Len(b) + Len(c) + Len(d) + Len(e)
         /\ \A buffer, cur : At(buffer, cur, a \o b \o c \o d \o e) =>
                             FiveAt(buffer, cur, a, b, c, d, e)
<1> DEFINE t == a \o b \o c
           u == t \o d
<1>1. IsSeq(t) /\ Len(t) = Len(a) + Len(b) + Len(c)
  BY ThreeFields
<1>2. Len(a) \in Nat /\ Len(b) \in Nat /\ Len(c) \in Nat /\ Len(d) \in Nat
  BY SeqFacts
<1>3. \A buffer, cur : At(buffer, cur, t) =>
        /\ At(buffer, cur, a) /\ At(buffer, cur + Len(a), b)
        /\ At(buffer, cur + Len(a) + Len(b), c)
  BY ThreeFields, Zenon
<1> HIDE DEF t
<1>4. /\ IsSeq(u) /\ Len(u) = Len(t) + Len(d)
      /\ \A buffer, cur : At(buffer, cur, u) => At(buffer, cur, t) /\ At(buffer, cur + Len(t), d)
  BY <1>1, TwoFields, Zenon
<1> HIDE DEF u
<1>5. /\ IsSeq(u \o e) /\ Len(u \o e) = Len(u) + Len(e)
      /\ \A buffer, cur : At(buffer, cur, u \o e) =>
           cur \in Nat \ {0} /\ At(buffer, cur, u) /\ At(buffer, cur + Len(u), e)
  BY <1>4, TwoFields, Zenon
<1>6. ASSUME NEW buffer, NEW cur, At(buffer, cur, u \o e)
      PROVE  FiveAt(buffer, cur, a, b, c, d, e)
  <2>1. cur \in Nat \ {0} /\ At(buffer, cur, u) /\ At(buffer, cur + Len(u), e)
    BY <1>5, <1>6, Zenon
  <2>2. At(buffer, cur, t) /\ At(buffer, cur + Len(t), d)
    BY <1>4, <2>1, Zenon
  <2>3. /\ At(buffer, cur, a) /\ At(buffer, cur + Len(a), b)
        /\ At(buffer, cur + Len(a) + Len(b), c)
    BY <1>3, <2>2, Zenon
  <2>4. /\ cur + Len(t) = cur + Len(a) + Len(b) + Len(c)
        /\ cur + Len(u) = cur + Len(a) + Len(b) + Len(c) + Len(d)
    BY <1>1, <1>2, <1>4, <2>1
  <2> QED
    BY <2>1, <2>2, <2>3, <2>4 DEF FiveAt
<1>7. u \o e = a \o b \o c \o d \o e
  BY DEF t, u
<1>8. Len(u \o e) = Len(a) + Len(b) + Len(c) + Len(d) + Len(e)
  BY <1>1, <1>2, <1>4, <1>5
<1> QED
  BY <1>5, <1>6, <1>7, <1>8, Zenon

\* The bytes of an ip
LEMMA SmallNumbers ==
  ASSUME NEW f, NEW n \in Nat
  PROVE  LET s == FlattenSeq([k \in 1 .. n |-> Number(1, f[k])])
         IN  /\ IsSeq(s) /\ Len(s) = n
             /\ \A buffer, cur : At(buffer, cur, s) =>
                  \A k \in 1 .. n : Read(buffer, cur + k - 1, 1) = f[k]
<1> DEFINE seqs == [k \in 1 .. n |-> Number(1, f[k])]
<1>1. seqs = [k \in 1 .. n |-> seqs[k]] /\ \A k \in 1 .. n : seqs[k] = Number(1, f[k])
  OBVIOUS
<1>2. \A k \in 1 .. n : IsSeq(seqs[k]) /\ Len(seqs[k]) = 1
  BY <1>1, NumberSeq
<1> HIDE DEF seqs
<1>3. /\ IsSeq(FlattenSeq(seqs)) /\ Len(FlattenSeq(seqs)) = n * 1
      /\ \A buffer, cur : At(buffer, cur, FlattenSeq(seqs)) =>
           \A k \in 1 .. n : At(buffer, cur + (k - 1) * 1, seqs[k])
  BY <1>1, <1>2, EvenlyAt
<1>4. ASSUME NEW buffer, NEW cur, At(buffer, cur, FlattenSeq(seqs)), NEW k \in 1 .. n
      PROVE  Read(buffer, cur + k - 1, 1) = f[k]
  <2>1. cur + (k - 1) * 1 = cur + k - 1 /\ cur + k - 1 \in Nat
    BY <1>4 DEF At
  <2>2. At(buffer, cur + k - 1, Number(1, f[k]))
    BY <1>1, <1>3, <1>4, <2>1
  <2> QED
    BY <2>2, ReadNumber
<1>5. n * 1 = n
  OBVIOUS
<1> QED
  BY <1>3, <1>4, <1>5 DEF seqs

\* The numbers of messages are natural numbers.
LEMMA KeptAreNumbers == KeptNumbers \subseteq Nat
  BY DEF KeptNumbers

\* A PeerInformation is the record of its fields.
LEMMA PeerParts ==
  ASSUME NEW i \in PeerInformation
  PROVE  i = [id |-> i.id, uri |-> [ip |-> [k \in 1 .. 4 |-> i.uri.ip[k]], port |-> i.uri.port]]
<1>1. i.uri \in [ip : [1 .. 4 -> 0 .. 255], port : KeptNumbers]
  BY DEF PeerInformation
<1>2. i.uri.ip \in [1 .. 4 -> 0 .. 255]
  BY ONLY <1>1
<1>3. i.uri.ip = [k \in 1 .. 4 |-> i.uri.ip[k]]
  BY ONLY <1>2
<1>4. i.uri = [ip |-> i.uri.ip, port |-> i.uri.port]
  BY ONLY <1>1
<1>5. i = [id |-> i.id, uri |-> i.uri]
  BY DEF PeerInformation
<1> QED
  BY ONLY <1>3, <1>4, <1>5

\* A PeerInformation is read as it was written.
LEMMA PeerRead ==
  ASSUME NEW i \in PeerInformation
  PROVE  /\ IsSeq(serialize_peer(i)) /\ Len(serialize_peer(i)) = PeerBytes
         /\ \A buffer, cur : At(buffer, cur, serialize_peer(i)) => deserialize_peer(buffer, cur) = i
<1> DEFINE a == Number(8, i.id)
           b == FlattenSeq([k \in 1 .. 4 |-> Number(1, i.uri.ip[k])])
           c == Number(8, i.uri.port)
<1>0. /\ IsSeq(b) /\ Len(b) = 4
      /\ \A buffer, cur : At(buffer, cur, b) =>
           \A k \in 1 .. 4 : Read(buffer, cur + k - 1, 1) = i.uri.ip[k]
  <2>1. 4 \in Nat
    OBVIOUS
  <2> QED
    BY <2>1, SmallNumbers, Zenon
<1>1. IsSeq(a) /\ IsSeq(b) /\ IsSeq(c) /\ Len(a) = 8 /\ Len(b) = 4 /\ Len(c) = 8
  <2>1. 8 \in Nat
    OBVIOUS
  <2> QED
    BY <1>0, <2>1, NumberSeq, Zenon
<1>2. serialize_peer(i) = a \o b \o c
  BY DEF serialize_peer
<1>3. i = [id |-> i.id, uri |-> [ip |-> [k \in 1 .. 4 |-> i.uri.ip[k]], port |-> i.uri.port]]
  BY PeerParts, Zenon
<1>4. ASSUME NEW buffer, NEW cur, At(buffer, cur, a \o b \o c)
      PROVE  deserialize_peer(buffer, cur) = i
  <2>1. /\ cur \in Nat /\ At(buffer, cur, a) /\ At(buffer, cur + 8, b)
        /\ At(buffer, cur + 8 + 4, c)
    <3> HIDE DEF a, b, c
    <3>1. /\ At(buffer, cur, a) /\ At(buffer, cur + Len(a), b)
          /\ At(buffer, cur + Len(a) + Len(b), c)
      BY <1>1, <1>4, ThreeFields, Zenon
    <3> QED
      BY <1>1, <3>1 DEF At
  <2>2. Read(buffer, cur, 8) = i.id
    BY <2>1, ReadNumber
  <2>3. cur + 8 + 4 = cur + 12
    BY <2>1
  <2>4. Read(buffer, cur + 12, 8) = i.uri.port
    BY <2>1, <2>3, ReadNumber
  <2>5. \A k \in 1 .. 4 : Read(buffer, (cur + 8) + k - 1, 1) = i.uri.ip[k]
    <3> HIDE DEF b
    <3> QED
      BY <1>0, <2>1, Zenon
  <2>6. \A k \in 1 .. 4 : cur + 8 + k - 1 = cur + 7 + k
    BY <2>1
  <2>7. [k \in 1 .. 4 |-> Read(buffer, cur + 7 + k, 1)] = [k \in 1 .. 4 |-> i.uri.ip[k]]
    BY <2>5, <2>6
  <2> QED
    BY <1>3, <2>2, <2>4, <2>7, Zenon DEF deserialize_peer
<1>5. IsSeq(a \o b \o c) /\ Len(a \o b \o c) = PeerBytes
  <2> HIDE DEF a, b, c
  <2>1. IsSeq(a \o b) /\ Len(a \o b) = Len(a) + Len(b)
    BY <1>1, Concat, Zenon
  <2>2. IsSeq(a \o b \o c) /\ Len(a \o b \o c) = Len(a \o b) + Len(c)
    BY <1>1, <2>1, Concat, Zenon
  <2> QED
    BY <1>1, <2>1, <2>2 DEF PeerBytes
<1> QED
  BY <1>2, <1>4, <1>5

\* A vector of them is read as it was written, and the cursor is behind it.
LEMMA PeersRead ==
  ASSUME NEW vec \in Seq(PeerInformation)
  PROVE  /\ IsSeq(serialize_peers(vec)) /\ Len(serialize_peers(vec)) = 8 + Len(vec) * PeerBytes
         /\ \A buffer, cur : At(buffer, cur, serialize_peers(vec)) =>
              /\ deserialize_peers(buffer, cur) = vec
              /\ AfterPeers(buffer, cur) = cur + Len(serialize_peers(vec))
<1> DEFINE n == Len(vec)
           seqs == [k \in DOMAIN vec |-> serialize_peer(vec[k])]
           a == Number(8, n)
           b == FlattenSeq(seqs)
<1>1. n \in Nat /\ DOMAIN vec = 1 .. n /\ vec = [k \in 1 .. n |-> vec[k]]
      /\ \A k \in 1 .. n : vec[k] \in PeerInformation
  OBVIOUS
<1> HIDE DEF n
<1>2. seqs = [k \in 1 .. n |-> seqs[k]] /\ \A k \in 1 .. n : seqs[k] = serialize_peer(vec[k])
  BY <1>1
<1> HIDE DEF seqs
<1>3. \A k \in 1 .. n : IsSeq(seqs[k]) /\ Len(seqs[k]) = PeerBytes
  BY <1>1, <1>2, PeerRead
<1>4. PeerBytes \in Nat
  BY DEF PeerBytes
<1>5. /\ IsSeq(b) /\ Len(b) = n * PeerBytes
      /\ \A buffer, cur : At(buffer, cur, b) =>
           \A k \in 1 .. n : At(buffer, cur + (k - 1) * PeerBytes, seqs[k])
  BY <1>1, <1>2, <1>3, <1>4, EvenlyAt
<1>6. IsSeq(a) /\ Len(a) = 8
  BY NumberSeq
<1>7. serialize_peers(vec) = a \o b
  BY DEF serialize_peers, seqs, n
<1> HIDE DEF a, b
<1>8. IsSeq(a \o b) /\ Len(a \o b) = 8 + n * PeerBytes
  <2>1. IsSeq(a \o b) /\ Len(a \o b) = Len(a) + Len(b)
    BY <1>5, <1>6, Concat, Zenon
  <2> QED
    BY <1>5, <1>6, <2>1
<1>9. ASSUME NEW buffer, NEW cur, At(buffer, cur, a \o b)
      PROVE  /\ deserialize_peers(buffer, cur) = vec
             /\ AfterPeers(buffer, cur) = cur + Len(a \o b)
  <2>1. cur \in Nat /\ At(buffer, cur, a) /\ At(buffer, cur + 8, b)
    <3>1. At(buffer, cur, a) /\ At(buffer, cur + Len(a), b)
      BY <1>5, <1>6, <1>9, ConcatAt, Zenon
    <3> QED
      BY <1>6, <3>1 DEF At
  <2>2. Count(buffer, cur) = n
    BY <1>1, <2>1, ReadCount DEF a
  <2>3. ASSUME NEW k \in 1 .. n
        PROVE  deserialize_peer(buffer, cur + 8 + (k - 1) * PeerBytes) = vec[k]
    <3>1. At(buffer, cur + 8 + (k - 1) * PeerBytes, serialize_peer(vec[k]))
      BY <1>2, <1>5, <2>1
    <3> QED
      BY <1>1, <3>1, PeerRead
  <2>4. deserialize_peers(buffer, cur) = vec
    BY <1>1, <2>2, <2>3 DEF deserialize_peers
  <2>5. n * PeerBytes \in Nat
    BY <1>1, <1>4
  <2> HIDE DEF n
  <2>6. AfterPeers(buffer, cur) = cur + 8 + n * PeerBytes
    BY <2>2 DEF AfterPeers
  <2> QED
    BY <1>8, <2>1, <2>4, <2>5, <2>6
<1> QED
  BY <1>7, <1>8, <1>9 DEF n

-----------------------------------------------------------------------------
(* Maps *)

\* Every key of a map is listed, and listed once.
LEMMA KeysInOrder ==
  ASSUME NEW map, DOMAIN map \subseteq Nat, IsFiniteSet(DOMAIN map)
  PROVE  LET keys == KeysOf(map)
         IN  /\ Len(keys) = Cardinality(DOMAIN map) /\ Len(keys) \in Nat
             /\ DOMAIN keys = 1 .. Len(keys) /\ keys = [k \in 1 .. Len(keys) |-> keys[k]]
             /\ \A k \in 1 .. Len(keys) : keys[k] \in DOMAIN map
             /\ \A k, l \in 1 .. Len(keys) : keys[k] = keys[l] => k = l
             /\ \A o \in DOMAIN map : \E k \in 1 .. Len(keys) : keys[k] = o
<1> DEFINE D == DOMAIN map
           n == Cardinality(D)
           keys == [k \in 1 .. n |-> Place(D, k)]
<1>1. D \in SUBSET Int /\ IsFiniteSet(D)
  OBVIOUS
<1> HIDE DEF D
<1>2. n \in Nat
  BY <1>1, FS_CardinalityType
<1>3. /\ \A k \in 1 .. n : /\ Place(D, k) \in D
                           /\ Cardinality({j \in D : j <= Place(D, k)}) = k
      /\ \A i \in D : \E k \in 1 .. n : Place(D, k) = i
  BY <1>1, PlacesInOrder
<1> HIDE DEF n
<1>4. \A k, l \in 1 .. n : Place(D, k) = Place(D, l) => k = l
  BY <1>3
<1>5. Len(keys) = n /\ DOMAIN keys = 1 .. n /\ \A k \in 1 .. n : keys[k] = Place(D, k)
  BY <1>2
<1>6. KeysOf(map) = keys
  BY DEF KeysOf, D, n
<1>7. keys = [k \in 1 .. n |-> keys[k]]
  OBVIOUS
<1> HIDE DEF keys
<1>8. /\ Len(keys) = n /\ Len(keys) \in Nat
      /\ DOMAIN keys = 1 .. Len(keys) /\ keys = [k \in 1 .. Len(keys) |-> keys[k]]
  BY <1>2, <1>5, <1>7
<1>9. /\ \A k \in 1 .. Len(keys) : keys[k] \in D
      /\ \A k, l \in 1 .. Len(keys) : keys[k] = keys[l] => k = l
      /\ \A o \in D : \E k \in 1 .. Len(keys) : keys[k] = o
  <2>1. Len(keys) = n /\ \A k \in 1 .. n : keys[k] = Place(D, k)
    BY <1>5
  <2>2. \A k \in 1 .. n : keys[k] \in D
    BY <1>3, <2>1, Zenon
  <2>3. ASSUME NEW k \in 1 .. n, NEW l \in 1 .. n, keys[k] = keys[l]
        PROVE  k = l
    <3>1. Place(D, k) = Place(D, l)
      BY <2>1, <2>3
    <3> QED
      BY <1>4, <3>1
  <2>4. \A o \in D : \E k \in 1 .. n : keys[k] = o
    BY <1>3, <2>1, Zenon
  <2> QED
    BY <2>1, <2>2, <2>3, <2>4, Zenon
<1> QED
  BY <1>6, <1>8, <1>9, Zenon DEF D, n

\* A map is known by its keys and their values.
LEMMA MapRead ==
  ASSUME NEW map, DOMAIN map \subseteq Nat, IsFiniteSet(DOMAIN map),
         map = [o \in DOMAIN map |-> map[o]],
         NEW values, \A k \in 1 .. Len(KeysOf(map)) : values[k] = map[KeysOf(map)[k]]
  PROVE  MapOf(KeysOf(map), values) = map
<1> DEFINE keys == KeysOf(map)
           n == Len(keys)
<1>1. /\ DOMAIN keys = 1 .. n
      /\ \A k \in 1 .. n : keys[k] \in DOMAIN map
      /\ \A k, l \in 1 .. n : keys[k] = keys[l] => k = l
      /\ \A o \in DOMAIN map : \E k \in 1 .. n : keys[k] = o
  BY KeysInOrder, Zenon
<1> HIDE DEF keys, n
<1>2. ToSet(keys) = DOMAIN map
  <2>1. ASSUME NEW o \in ToSet(keys) PROVE o \in DOMAIN map
    BY <1>1 DEF ToSet
  <2>2. ASSUME NEW o \in DOMAIN map PROVE o \in ToSet(keys)
    BY <1>1 DEF ToSet
  <2> QED
    BY <2>1, <2>2
<1>3. ASSUME NEW o \in DOMAIN map
      PROVE  values[CHOOSE k \in DOMAIN keys : keys[k] = o] = map[o]
  <2> DEFINE k == CHOOSE k \in DOMAIN keys : keys[k] = o
  <2>1. k \in 1 .. n /\ keys[k] = o
    BY <1>1
  <2> HIDE DEF k
  <2>2. values[k] = map[keys[k]]
    BY <2>1 DEF keys, n
  <2> QED
    BY <2>1, <2>2 DEF k
<1> DEFINE value(o) == values[CHOOSE k \in DOMAIN keys : keys[k] = o]
<1>4. MapOf(keys, values) = [o \in DOMAIN map |-> map[o]]
  <2>1. MapOf(keys, values) = [o \in DOMAIN map |-> value(o)]
    BY <1>2, Zenon DEF MapOf
  <2>2. \A o \in DOMAIN map : value(o) = map[o]
    BY <1>3
  <2> HIDE DEF value
  <2> QED
    BY <2>1, <2>2
<1> QED
  BY <1>4 DEF keys

\* A loop whose steps are as long as the entries it reads
LEMMA LoopMeetsEntries ==
  ASSUME NEW n \in Nat, NEW off \in [0 .. n -> Nat], off[0] = 0,
         NEW first \in Nat, NEW next \in [Nat -> Nat],
         \A k \in 1 .. n : next[first + off[k - 1]] = first + off[k]
  PROVE  \A k \in 0 .. n : Cursors(first, next)[k] = first + off[k]
<1> DEFINE at == Cursors(first, next)
<1>1. at[0] = first /\ \A k \in Nat : at[k + 1] = next[at[k]]
  BY CursorsMove, Zenon
<1> HIDE DEF at
<1> DEFINE T == {k \in Nat : k <= n => at[k] = first + off[k]}
<1>2. 0 \in T
  <2>1. first + off[0] = first
    OBVIOUS
  <2> QED
    BY <1>1, <2>1
<1>3. ASSUME NEW k \in Nat, k \in T, k + 1 <= n
      PROVE  at[k + 1] = first + off[k + 1]
  <2>1. k + 1 \in 1 .. n /\ (k + 1) - 1 = k /\ at[k] = first + off[k]
    BY <1>3
  <2>2. at[k + 1] = next[at[k]] /\ next[first + off[k]] = first + off[k + 1]
    BY <1>1, <2>1
  <2> QED
    BY <2>1, <2>2
<1>4. \A k \in Nat : k \in T => k + 1 \in T
  BY <1>3
<1>5. Nat \subseteq T
  <2> HIDE DEF T
  <2> QED
    BY <1>2, <1>4, Induction
<1> QED
  BY <1>5 DEF at

\* Places before the entries of a vector
LEMMA Before ==
  ASSUME NEW n \in Nat
  PROVE  /\ \A k \in 1 .. n : k - 1 \in 0 .. n /\ k \in 0 .. n
         /\ n \in 0 .. n
  OBVIOUS

\* Sums are associative.
LEMMA Sums ==
  ASSUME NEW x \in Nat, NEW y \in Nat, NEW z \in Nat
  PROVE  x + y \in Nat /\ (x + y) + z = x + (y + z)
  OBVIOUS

\* The entries of a vector are read where they have been written.
Entries(seqs, n) ==
  n \in Nat /\ seqs = [k \in 1 .. n |-> seqs[k]] /\ \A k \in 1 .. n : IsSeq(seqs[k])

Strides(buffer, next, seqs, n) ==
  /\ next \in [Nat -> Nat]
  /\ \A k \in 1 .. n : \A c \in Nat : At(buffer, c, seqs[k]) => next[c] = c + Len(seqs[k])

\* A loop whose cursor strides over entries meets each of them.
LEMMA EntriesMet ==
  ASSUME NEW n, NEW seqs, Entries(seqs, n),
         NEW buffer, NEW first, At(buffer, first, FlattenSeq(seqs)),
         NEW next, Strides(buffer, next, seqs, n)
  PROVE  /\ \A k \in 1 .. n : At(buffer, Cursors(first, next)[k - 1], seqs[k])
         /\ Cursors(first, next)[n] = first + Len(FlattenSeq(seqs))
<1>0. /\ n \in Nat /\ seqs = [k \in 1 .. n |-> seqs[k]] /\ \A k \in 1 .. n : IsSeq(seqs[k])
      /\ next \in [Nat -> Nat]
      /\ \A k \in 1 .. n : \A c \in Nat : At(buffer, c, seqs[k]) => next[c] = c + Len(seqs[k])
  BY DEF Entries, Strides
<1>1. PICK off \in [0 .. n -> Nat] :
        /\ off[0] = 0 /\ off[n] = Len(FlattenSeq(seqs))
        /\ \A k \in 1 .. n : off[k] = off[k - 1] + Len(seqs[k])
        /\ \A b, c : At(b, c, FlattenSeq(seqs)) =>
             \A k \in 1 .. n : At(b, c + off[k - 1], seqs[k])
  BY <1>0, FlattenAt, Zenon
<1>2. \A k \in 1 .. n : At(buffer, first + off[k - 1], seqs[k])
  BY <1>1
<1>3. first \in Nat
  BY DEF At
<1>4. ASSUME NEW k \in 1 .. n
      PROVE  next[first + off[k - 1]] = first + off[k]
  <2>1. k - 1 \in 0 .. n /\ k \in 0 .. n
    BY <1>0, Before, Zenon
  <2>2. off[k - 1] \in Nat /\ first + off[k - 1] \in Nat /\ Len(seqs[k]) \in Nat
    <3>1. off[k - 1] \in Nat
      BY <1>1, <2>1, Zenon
    <3>2. Len(seqs[k]) \in Nat
      BY <1>0, SeqFacts, Zenon
    <3> QED
      BY <1>3, <3>1, <3>2, Sums, Zenon
  <2>3. next[first + off[k - 1]] = (first + off[k - 1]) + Len(seqs[k])
    BY <1>0, <1>2, <2>2
  <2>4. off[k] = off[k - 1] + Len(seqs[k])
    BY <1>1
  <2>5. (first + off[k - 1]) + Len(seqs[k]) = first + (off[k - 1] + Len(seqs[k]))
    BY <1>3, <2>2, Sums, Zenon
  <2> QED
    BY ONLY <2>3, <2>4, <2>5
<1>5. \A k \in 0 .. n : Cursors(first, next)[k] = first + off[k]
  BY <1>0, <1>1, <1>3, <1>4, LoopMeetsEntries
<1>6. ASSUME NEW k \in 1 .. n
      PROVE  At(buffer, Cursors(first, next)[k - 1], seqs[k])
  <2>1. k - 1 \in 0 .. n
    BY <1>0, Before, Zenon
  <2>2. Cursors(first, next)[k - 1] = first + off[k - 1]
    BY <1>5, <2>1, Zenon
  <2> QED
    BY <1>2, <2>2, Zenon
<1>7. n \in 0 .. n
  BY <1>0, Before, Zenon
<1> QED
  BY <1>1, <1>5, <1>6, <1>7

\* What the assumption says of a table
IsTable(map) ==
  /\ DOMAIN map \subseteq Nat /\ IsFiniteSet(DOMAIN map)
  /\ map = [o \in DOMAIN map |-> map[o]]
  /\ \A o \in DOMAIN map : map[o] \in Seq(PeerInformation)

\* The maps of messages are such tables.
LEMMA RoutesAreTables ==
  ASSUME NEW map \in Routes
  PROVE  IsTable(map)
<1>1. DOMAIN map \subseteq KeptNumbers
  BY EnvelopeAssumption, Zenon
<1>2. DOMAIN map \subseteq Nat
  BY <1>1, KeptAreNumbers
<1> QED
  BY <1>2, EnvelopeAssumption, Zenon DEF IsTable

\* A map of vectors is read as it was written, and the cursor is behind it.
LEMMA RouteRead ==
  ASSUME NEW map, IsTable(map)
  PROVE  /\ IsSeq(serialize_route(map))
         /\ \A buffer, cur : At(buffer, cur, serialize_route(map)) =>
              /\ deserialize_route(buffer, cur) = map
              /\ AfterRoute(buffer, cur) = cur + Len(serialize_route(map))
<1> DEFINE keys == KeysOf(map)
           n == Len(keys)
           seqs == [k \in DOMAIN keys |-> Number(8, keys[k]) \o serialize_peers(map[keys[k]])]
           a == Number(8, n)
           b == FlattenSeq(seqs)
<1>1. /\ n \in Nat /\ DOMAIN keys = 1 .. n /\ keys = [k \in 1 .. n |-> keys[k]]
      /\ \A k \in 1 .. n : keys[k] \in DOMAIN map
  BY KeysInOrder, Zenon DEF IsTable
<1>2. serialize_route(map) = a \o b
  BY Zenon DEF serialize_route
<1>3. /\ seqs = [k \in 1 .. n |-> seqs[k]]
      /\ \A k \in 1 .. n : seqs[k] = Number(8, keys[k]) \o serialize_peers(map[keys[k]])
  <2> HIDE DEF n, keys
  <2> QED
    BY <1>1
<1> HIDE DEF seqs
<1>4. ASSUME NEW k \in 1 .. n
      PROVE  /\ map[keys[k]] \in Seq(PeerInformation)
             /\ IsSeq(Number(8, keys[k])) /\ IsSeq(serialize_peers(map[keys[k]]))
             /\ Len(Number(8, keys[k])) = 8
  <2>1. map[keys[k]] \in Seq(PeerInformation)
    BY <1>1 DEF IsTable
  <2>2. IsSeq(serialize_peers(map[keys[k]]))
    BY <2>1, PeersRead
  <2> QED
    BY <2>1, <2>2, NumberSeq
<1>5. \A k \in 1 .. n : IsSeq(seqs[k])
  <2> TAKE k \in 1 .. n
  <2> HIDE DEF n, keys
  <2>1. IsSeq(Number(8, keys[k]) \o serialize_peers(map[keys[k]]))
    BY <1>4, Concat, Zenon
  <2> QED
    BY <1>3, <2>1, Zenon
<1>6. IsSeq(a) /\ Len(a) = 8
  BY NumberSeq
<1>7. IsSeq(b)
  <2> HIDE DEF n
  <2> QED
    BY <1>1, <1>3, <1>5, FlattenAt
<1> HIDE DEF n, keys
<1>8. IsSeq(a \o b) /\ Len(a \o b) = 8 + Len(b) /\ Len(b) \in Nat
  <2> HIDE DEF a, b
  <2>1. IsSeq(a \o b) /\ Len(a \o b) = Len(a) + Len(b) /\ Len(b) \in Nat
    BY <1>6, <1>7, TwoFields, Zenon
  <2> QED
    BY ONLY <1>6, <2>1
<1>9. ASSUME NEW buffer, NEW cur, At(buffer, cur, a \o b)
      PROVE  /\ deserialize_route(buffer, cur) = map
             /\ AfterRoute(buffer, cur) = cur + Len(a \o b)
  <2>1. cur \in Nat \ {0} /\ At(buffer, cur, a) /\ At(buffer, cur + 8, b)
    <3> HIDE DEF a, b
    <3>1. cur \in Nat \ {0} /\ At(buffer, cur, a) /\ At(buffer, cur + Len(a), b)
      BY <1>6, <1>7, <1>9, TwoFields
    <3> QED
      BY <1>6, <3>1
  <2>2. Count(buffer, cur) = n
    BY <1>1, <2>1, ReadCount
  <2> DEFINE next == [c \in Nat |-> AfterPeers(buffer, c + 8)]
             at == Cursors(cur + 8, next)
  <2>3. next \in [Nat -> Nat] /\ \A c \in Nat : next[c] = AfterPeers(buffer, c + 8)
    <3>1. \A c \in Nat : AfterPeers(buffer, c + 8) \in Nat
      BY CountIsNat DEF AfterPeers, PeerBytes
    <3> QED
      BY <3>1
  <2> HIDE DEF next
  <2>4. ASSUME NEW k \in 1 .. n, NEW c, At(buffer, c, seqs[k])
        PROVE  /\ c \in Nat
               /\ Read(buffer, c, 8) = keys[k]
               /\ deserialize_peers(buffer, c + 8) = map[keys[k]]
               /\ next[c] = c + Len(seqs[k])
    <3> DEFINE d == Number(8, keys[k])
               e == serialize_peers(map[keys[k]])
    <3>1. seqs[k] = d \o e /\ IsSeq(d) /\ IsSeq(e) /\ Len(d) = 8 /\ map[keys[k]] \in Seq(PeerInformation)
      BY <1>3, <1>4
    <3> HIDE DEF d, e
    <3>2. /\ Len(seqs[k]) = 8 + Len(e) /\ Len(e) \in Nat
          /\ c \in Nat /\ At(buffer, c, d) /\ At(buffer, c + 8, e)
      <4>1. /\ Len(d \o e) = Len(d) + Len(e) /\ Len(e) \in Nat
            /\ c \in Nat /\ At(buffer, c, d) /\ At(buffer, c + Len(d), e)
        <5>1. At(buffer, c, d \o e)
          BY ONLY <2>4, <3>1, Zenon
        <5> QED
          BY <3>1, <5>1, TwoFields, Zenon
      <4> QED
        BY <3>1, <4>1
    <3>3. Read(buffer, c, 8) = keys[k]
      BY <3>2, ReadNumber DEF d
    <3>4. deserialize_peers(buffer, c + 8) = map[keys[k]] /\ AfterPeers(buffer, c + 8) = (c + 8) + Len(e)
      BY <3>1, <3>2, PeersRead DEF e
    <3> QED
      BY <2>3, <3>2, <3>3, <3>4
  <2>5. /\ \A k \in 1 .. n : At(buffer, at[k - 1], seqs[k])
        /\ at[n] = (cur + 8) + Len(b)
    <3>1. \A k \in 1 .. n : \A c \in Nat : At(buffer, c, seqs[k]) => next[c] = c + Len(seqs[k])
      BY <2>4
    <3> QED
      <4> DEFINE first == cur + 8
      <4>1. At(buffer, first, FlattenSeq(seqs))
        BY <2>1
      <4> HIDE DEF first
      <4>2. /\ \A k \in 1 .. n : At(buffer, Cursors(first, next)[k - 1], seqs[k])
            /\ Cursors(first, next)[n] = first + Len(FlattenSeq(seqs))
        <5>1. Entries(seqs, n) /\ Strides(buffer, next, seqs, n)
          BY <1>1, <1>3, <1>5, <2>3, <3>1, Zenon DEF Entries, Strides
        <5> QED
          BY <4>1, <5>1, EntriesMet, Zenon
      <4> QED
        BY <4>2, Zenon DEF first
  <2>6. EntriesAt(buffer, cur) = at
    BY DEF EntriesAt, next
  <2> HIDE DEF at
  <2>7. AfterRoute(buffer, cur) = cur + Len(a \o b)
    BY <1>8, <2>1, <2>2, <2>5, <2>6 DEF AfterRoute
  <2> DEFINE values == [k \in 1 .. n |-> deserialize_peers(buffer, at[k - 1] + 8)]
             read == [k \in 1 .. n |-> Read(buffer, at[k - 1], 8)]
  <2>8. read = keys
    <3>1. \A k \in 1 .. n : Read(buffer, at[k - 1], 8) = keys[k]
      BY <2>4, <2>5
    <3> QED
      BY <1>1, <3>1
  <2>9. \A k \in 1 .. n : values[k] = map[keys[k]]
    BY <2>4, <2>5
  <2>10. deserialize_route(buffer, cur) = MapOf(read, values)
    BY <2>2, <2>6 DEF deserialize_route
  <2> HIDE DEF values, read
  <2>11. MapOf(KeysOf(map), values) = map
    <3>1. \A k \in 1 .. Len(KeysOf(map)) : values[k] = map[KeysOf(map)[k]]
      BY <2>9 DEF n, keys
    <3> QED
      BY <3>1, MapRead DEF IsTable
  <2> QED
    BY <2>7, <2>8, <2>10, <2>11 DEF keys
<1> QED
  BY <1>2, <1>8, <1>9

\* Cursors stay numbers in any buffer.
LEMMA PlacesAreNumbers ==
  ASSUME NEW buffer, NEW c \in Nat
  PROVE  /\ AfterPeers(buffer, c) \in Nat
         /\ AfterRoute(buffer, c) \in Nat
         /\ AfterStructure(buffer, c) \in Nat
<1>1. \A x \in Nat : AfterPeers(buffer, x) \in Nat
  BY CountIsNat DEF AfterPeers, PeerBytes
<1>2. ASSUME NEW x \in Nat
      PROVE  AfterRoute(buffer, x) \in Nat
  <2> DEFINE next == [y \in Nat |-> AfterPeers(buffer, y + 8)]
             first == x + 8
  <2>1. next \in [Nat -> Nat] /\ first \in Nat
    <3>1. \A y \in Nat : y + 8 \in Nat
      OBVIOUS
    <3> QED
      BY <1>1, <3>1
  <2>2. EntriesAt(buffer, x) = Cursors(first, next)
    BY DEF EntriesAt
  <2> HIDE DEF next, first
  <2>3. Cursors(first, next)[Count(buffer, x)] \in Nat
    BY <2>1, CountIsNat, CursorsMove, Zenon
  <2> QED
    BY <2>2, <2>3, Zenon DEF AfterRoute
<1>3. RouteAt(c) \in Nat
  BY DEF RouteAt, PeerBytes
<1> QED
  BY <1>1, <1>2, <1>3, Zenon DEF AfterStructure

\* Fields of one, four and eight bytes
LEMMA FieldSizes ==
  ASSUME NEW n
  PROVE  /\ IsSeq(Number(1, n)) /\ Len(Number(1, n)) = 1
         /\ IsSeq(Number(4, n)) /\ Len(Number(4, n)) = 4
         /\ IsSeq(Number(8, n)) /\ Len(Number(8, n)) = 8
  BY NumberSeq

\* The four types of structure messages have different numbers.
LEMMA TypeNumbers ==
  /\ DOMAIN TypeNumber =
       {"tEmulateRequestMsg", "tEmulateRequestReceivedMsg", "tHandOverMsg", "tSelfIntroduceMsg"}
  /\ \A t, u \in DOMAIN TypeNumber : TypeNumber[t] \in {TypeNumber[u], Garbage} => t = u
BY DEF TypeNumber, Garbage

\* A structure message is read as it was written, and the cursor is behind it.
LEMMA StructureRead ==
  ASSUME NEW s \in OverlayStructureSchemeMessage
  PROVE  /\ IsSeq(serialize_structure(s))
         /\ \A buffer, cur : At(buffer, cur, serialize_structure(s)) =>
              /\ deserialize_structure(buffer, cur) = s
              /\ AfterStructure(buffer, cur) = cur + Len(serialize_structure(s))
<1> DEFINE a == Number(1, TypeNumber[s.t])
           b == Number(8, s.onid)
           c == serialize_peer(s.peer)
           d == serialize_route(s.gamma_route)
           e == serialize_peers(s.gamma_receive)
<1>1. /\ s.t \in DOMAIN TypeNumber /\ s.peer \in PeerInformation
      /\ s.gamma_route \in Routes /\ s.gamma_receive \in Seq(PeerInformation)
      /\ s = [t |-> s.t, onid |-> s.onid, peer |-> s.peer, gamma_route |-> s.gamma_route,
              gamma_receive |-> s.gamma_receive]
  BY DEF OverlayStructureSchemeMessage
<1>2. IsTable(s.gamma_route)
  BY <1>1, RoutesAreTables, Zenon
<1>3. IsSeq(a) /\ Len(a) = 1 /\ IsSeq(b) /\ Len(b) = 8
  BY FieldSizes, Zenon
<1>4. IsSeq(c) /\ Len(c) = PeerBytes /\ IsSeq(d) /\ IsSeq(e)
  BY <1>1, <1>2, PeerRead, RouteRead, PeersRead, Zenon
<1>5. serialize_structure(s) = a \o b \o c \o d \o e
  BY Zenon DEF serialize_structure
<1>6. /\ \A buffer, cur : At(buffer, cur, c) => deserialize_peer(buffer, cur) = s.peer
      /\ \A buffer, cur : At(buffer, cur, d) =>
           deserialize_route(buffer, cur) = s.gamma_route /\ AfterRoute(buffer, cur) = cur + Len(d)
      /\ \A buffer, cur : At(buffer, cur, e) =>
           deserialize_peers(buffer, cur) = s.gamma_receive /\ AfterPeers(buffer, cur) = cur + Len(e)
  BY <1>1, <1>2, PeerRead, RouteRead, PeersRead, Zenon
<1>7. /\ \A buffer, cur : At(buffer, cur, a) => Read(buffer, cur, 1) = TypeNumber[s.t]
      /\ \A buffer, cur : At(buffer, cur, b) => Read(buffer, cur, 8) = s.onid
  BY ReadNumber
<1> HIDE DEF a, b, c, d, e
<1> DEFINE all == a \o b \o c \o d \o e
<1>8. /\ IsSeq(all) /\ Len(all) = Len(a) + Len(b) + Len(c) + Len(d) + Len(e)
      /\ \A buffer, cur : At(buffer, cur, all) => FiveAt(buffer, cur, a, b, c, d, e)
  <2>1. IsSeq(a) /\ IsSeq(b) /\ IsSeq(c) /\ IsSeq(d) /\ IsSeq(e)
    BY <1>3, <1>4, Zenon
  <2>2. /\ IsSeq(a \o b \o c \o d \o e)
        /\ Len(a \o b \o c \o d \o e) = Len(a) + Len(b) + Len(c) + Len(d) + Len(e)
    BY ONLY <2>1, FiveFields
  <2>3. \A buffer, cur : At(buffer, cur, a \o b \o c \o d \o e) =>
                          FiveAt(buffer, cur, a, b, c, d, e)
    BY ONLY <2>1, FiveFields, Zenon
  <2> QED
    BY <2>2, <2>3
<1>9. Len(d) \in Nat /\ Len(e) \in Nat
  BY <1>4, SeqFacts
<1> HIDE DEF all
<1>10. ASSUME NEW buffer, NEW cur, At(buffer, cur, all)
       PROVE  /\ deserialize_structure(buffer, cur) = s
              /\ AfterStructure(buffer, cur) = cur + Len(all)
  <2>1. /\ cur \in Nat \ {0} /\ At(buffer, cur, a) /\ At(buffer, cur + Len(a), b)
        /\ At(buffer, cur + Len(a) + Len(b), c)
        /\ At(buffer, cur + Len(a) + Len(b) + Len(c), d)
        /\ At(buffer, cur + Len(a) + Len(b) + Len(c) + Len(d), e)
    BY <1>8, <1>10, Zenon DEF FiveAt
  <2>2. /\ cur + Len(a) = cur + 1
        /\ cur + Len(a) + Len(b) = cur + 9
        /\ cur + Len(a) + Len(b) + Len(c) = RouteAt(cur)
        /\ RouteAt(cur) \in Nat
    BY ONLY <1>3, <1>4, <2>1 DEF RouteAt, PeerBytes
  <2>3. /\ At(buffer, cur + 1, b) /\ At(buffer, cur + 9, c) /\ At(buffer, RouteAt(cur), d)
        /\ At(buffer, RouteAt(cur) + Len(d), e)
    BY ONLY <2>1, <2>2
  <2>4. AfterRoute(buffer, RouteAt(cur)) = RouteAt(cur) + Len(d)
    BY <1>6, <2>3, Zenon
  <2>5. (CHOOSE t \in DOMAIN TypeNumber : Read(buffer, cur, 1) \in {TypeNumber[t], Garbage}) = s.t
    <3>1. Read(buffer, cur, 1) = TypeNumber[s.t]
      BY <1>7, <2>1, Zenon
    <3>2. \A t \in DOMAIN TypeNumber : Read(buffer, cur, 1) \in {TypeNumber[t], Garbage} <=> t = s.t
      BY <1>1, <3>1, TypeNumbers, Zenon
    <3> QED
      BY <1>1, <3>2
  <2>6. /\ Read(buffer, cur + 1, 8) = s.onid
        /\ deserialize_peer(buffer, cur + 9) = s.peer
        /\ deserialize_route(buffer, RouteAt(cur)) = s.gamma_route
        /\ deserialize_peers(buffer, AfterRoute(buffer, RouteAt(cur))) = s.gamma_receive
        /\ AfterPeers(buffer, AfterRoute(buffer, RouteAt(cur))) = (RouteAt(cur) + Len(d)) + Len(e)
    BY <1>6, <1>7, <2>3, <2>4, Zenon
  <2>7. deserialize_structure(buffer, cur) = s
    BY <1>1, <2>5, <2>6, Zenon DEF deserialize_structure
  <2>8. (RouteAt(cur) + Len(d)) + Len(e) = cur + Len(all)
    BY ONLY <1>3, <1>4, <1>8, <1>9, <2>1 DEF RouteAt, PeerBytes
  <2> QED
    BY <2>6, <2>7, <2>8, Zenon DEF AfterStructure
<1> QED
  BY <1>5, <1>8, <1>10, Zenon DEF all

-----------------------------------------------------------------------------
(* Packets *)

\* Associated data are read as they were written.
LEMMA AadRead ==
  ASSUME NEW sender \in PeerInformation, NEW receiver \in PeerInformation, NEW out,
         out.receiver = receiver, NEW S \in Seq(OverlayStructureSchemeMessage), out.p_structure = S
  PROVE  /\ IsSeq(serialize_aad(sender, out))
         /\ deserialize_aad(serialize_aad(sender, out)) =
              [sender |-> sender, receiver |-> receiver, round |-> out.round, p_structure |-> S]
<1> DEFINE n == Len(S)
           seqs == [k \in DOMAIN S |-> serialize_structure(S[k])]
           a == serialize_peer(sender)
           b == serialize_peer(receiver)
           c == Number(8, out.round)
           d == Number(8, n)
           e == FlattenSeq(seqs)
           all == a \o b \o c \o d \o e
           count == 1 + PeerBytes + PeerBytes + 8
           first == count + 8
<1>1. /\ n \in Nat /\ S = [k \in 1 .. n |-> S[k]] /\ DOMAIN S = 1 .. n
      /\ \A k \in 1 .. n : S[k] \in OverlayStructureSchemeMessage
  BY LenProperties, ElementOfSeq
<1> HIDE DEF n
<1>2. seqs = [k \in 1 .. n |-> seqs[k]] /\ \A k \in 1 .. n : seqs[k] = serialize_structure(S[k])
  BY <1>1
<1>3. serialize_aad(sender, out) = all
  BY Zenon DEF serialize_aad, n
<1> HIDE DEF seqs
<1>4. \A k \in 1 .. n : IsSeq(seqs[k])
  BY <1>1, <1>2, StructureRead, Zenon
<1>5. Entries(seqs, n)
  BY <1>1, <1>2, <1>4, Zenon DEF Entries
<1>6. IsSeq(e)
  BY <1>1, <1>2, <1>4, FlattenAt, Zenon
<1>7. /\ IsSeq(a) /\ Len(a) = PeerBytes /\ IsSeq(b) /\ Len(b) = PeerBytes
      /\ IsSeq(c) /\ Len(c) = 8 /\ IsSeq(d) /\ Len(d) = 8
  BY PeerRead, FieldSizes, Zenon
<1>8. /\ \A buffer, cur : At(buffer, cur, a) => deserialize_peer(buffer, cur) = sender
      /\ \A buffer, cur : At(buffer, cur, b) => deserialize_peer(buffer, cur) = receiver
  BY PeerRead, Zenon
<1>9. /\ \A buffer, cur : At(buffer, cur, c) => Read(buffer, cur, 8) = out.round
      /\ \A buffer, cur : At(buffer, cur, d) => Count(buffer, cur) = n
  <2>1. ASSUME NEW buffer, NEW cur, At(buffer, cur, Number(8, out.round))
        PROVE  Read(buffer, cur, 8) = out.round
    BY ONLY <2>1, ReadNumber
  <2>2. ASSUME NEW buffer, NEW cur, At(buffer, cur, Number(8, n))
        PROVE  Count(buffer, cur) = n
    BY <1>1, <2>2, ReadCount, Zenon
  <2> QED
    BY <2>1, <2>2, Zenon
<1> HIDE DEF a, b, c, d, e
<1>10. IsSeq(all) /\ \A buffer, cur : At(buffer, cur, all) => FiveAt(buffer, cur, a, b, c, d, e)
  <2>1. IsSeq(a \o b \o c \o d \o e)
    BY ONLY <1>6, <1>7, FiveFields
  <2>2. \A buffer, cur : At(buffer, cur, a \o b \o c \o d \o e) =>
                          FiveAt(buffer, cur, a, b, c, d, e)
    BY ONLY <1>6, <1>7, FiveFields, Zenon
  <2> QED
    BY <2>1, <2>2
<1> HIDE DEF all
<1>11. FiveAt(all, 1, a, b, c, d, e)
  BY <1>10, WholeAt, Zenon
<1>12. /\ At(all, 1, a) /\ At(all, 1 + PeerBytes, b) /\ At(all, 1 + PeerBytes + PeerBytes, c)
       /\ At(all, count, d) /\ At(all, first, e)
  BY ONLY <1>7, <1>11 DEF FiveAt
<1>13. first \in Nat
  BY DEF PeerBytes
<1> DEFINE next == [x \in Nat |-> AfterStructure(all, x)]
           at == Cursors(first, next)
<1>14. Strides(all, next, seqs, n)
  <2>1. next \in [Nat -> Nat]
    BY PlacesAreNumbers
  <2>2. ASSUME NEW k \in 1 .. n, NEW x \in Nat, At(all, x, seqs[k])
        PROVE  next[x] = x + Len(seqs[k])
    <3>1. AfterStructure(all, x) = x + Len(seqs[k])
      <4>1. S[k] \in OverlayStructureSchemeMessage /\ seqs[k] = serialize_structure(S[k])
        BY <1>1, <1>2, Zenon
      <4>2. At(all, x, serialize_structure(S[k]))
        BY ONLY <2>2, <4>1, Zenon
      <4>3. AfterStructure(all, x) = x + Len(serialize_structure(S[k]))
        BY <4>1, <4>2, StructureRead, Zenon
      <4> QED
        BY ONLY <4>1, <4>3, Zenon
    <3> QED
      BY <3>1
  <2> HIDE DEF next
  <2> QED
    BY <2>1, <2>2, Zenon DEF Strides
<1> HIDE DEF first
<1>15. \A k \in 1 .. n : At(all, at[k - 1], seqs[k])
  <2> HIDE DEF next
  <2>1. At(all, first, FlattenSeq(seqs))
    BY <1>12, Zenon DEF e
  <2> QED
    BY <1>5, <1>14, <2>1, EntriesMet, Zenon
<1> HIDE DEF at, next
<1>16. ASSUME NEW k \in 1 .. n
       PROVE  deserialize_structure(all, at[k - 1]) = S[k]
  BY <1>1, <1>2, <1>15, StructureRead, Zenon
<1>17. Count(all, count) = n
  BY <1>9, <1>12, Zenon
<1>18. deserialize_aad(all) =
         [sender |-> deserialize_peer(all, 1), receiver |-> deserialize_peer(all, 1 + PeerBytes),
          round |-> Read(all, 1 + PeerBytes + PeerBytes, 8),
          p_structure |-> [k \in 1 .. n |-> deserialize_structure(all, at[k - 1])]]
  BY <1>17, Zenon DEF deserialize_aad, at, next, first
<1>19. [k \in 1 .. n |-> deserialize_structure(all, at[k - 1])] = S
  BY <1>1, <1>16
<1>20. /\ deserialize_peer(all, 1) = sender /\ deserialize_peer(all, 1 + PeerBytes) = receiver
       /\ Read(all, 1 + PeerBytes + PeerBytes, 8) = out.round
  BY <1>8, <1>9, <1>12, Zenon
<1> QED
  BY <1>3, <1>10, <1>18, <1>19, <1>20, Zenon

\* The bytes of something opaque
LEMMA OpaqueSeq ==
  ASSUME NEW width \in Nat, NEW name
  PROVE  /\ IsSeq(Opaque(width, name)) /\ Len(Opaque(width, name)) = width
         /\ \A k \in 1 .. width : Opaque(width, name)[k][2] = name
<1> DEFINE s == Opaque(width, name)
<1>1. DOMAIN s = 1 .. width /\ s = [k \in 1 .. width |-> s[k]] /\ \A k \in 1 .. width : s[k][2] = name
  BY DEF Opaque
<1> HIDE DEF s
<1>2. s \in Seq(ToSet(s)) /\ Len(s) = width
  BY <1>1, ListIsSeq
<1> QED
  BY <1>1, <1>2 DEF IsSeq, s

\* The bytes of a tag
LEMMA MacSeq ==
  ASSUME NEW key, NEW head, NEW p
  PROVE  IsSeq(Mac(key, head, p)) /\ Len(Mac(key, head, p)) = 16
<1> DEFINE s == Mac(key, head, p)
<1>1. DOMAIN s = 1 .. 16 /\ s = [k \in 1 .. 16 |-> s[k]]
  BY DEF Mac
<1> HIDE DEF s
<1>2. s \in Seq(ToSet(s)) /\ Len(s) = 16
  BY <1>1, ListIsSeq
<1> QED
  BY <1>1, <1>2 DEF IsSeq, s

\* A ciphertext has a byte per byte of its plaintext.
LEMMA CipherSeq ==
  ASSUME NEW key, NEW p, IsSeq(p)
  PROVE  /\ IsSeq(Cipher(key, p)) /\ Len(Cipher(key, p)) = Len(p)
         /\ DOMAIN Cipher(key, p) = 1 .. Len(p)
         /\ \A k \in 1 .. Len(p) : Cipher(key, p)[k][1] = "cipher" /\ Cipher(key, p)[k][2][2] = p[k]
<1> DEFINE s == Cipher(key, p)
           n == Len(p)
<1>1. n \in Nat /\ DOMAIN p = 1 .. n
  BY SeqFacts
<1> HIDE DEF n
<1>2. DOMAIN s = 1 .. n /\ s = [k \in 1 .. n |-> s[k]]
  BY <1>1 DEF Cipher
<1>3. \A k \in 1 .. n : s[k] = <<"cipher", <<key, p[k]>>, 1, 1>>
  BY <1>1 DEF Cipher
<1>4. \A k \in 1 .. n : s[k][1] = "cipher" /\ s[k][2][2] = p[k]
  BY <1>3
<1> HIDE DEF s
<1>5. s \in Seq(ToSet(s)) /\ Len(s) = n
  BY <1>1, <1>2, ListIsSeq
<1> QED
  BY <1>2, <1>4, <1>5, Zenon DEF IsSeq, s, n

\* What is encrypted is decrypted with the same key, and has the size of its parts.
LEMMA DecryptEncrypt ==
  ASSUME NEW key, NEW p, IsSeq(p), NEW aad, IsSeq(aad)
  PROVE  /\ IsSeq(encrypt(key, p, aad))
         /\ Len(encrypt(key, p, aad)) = 4 + 4 + 12 + Len(aad) + 16 + Len(p)
         /\ At(encrypt(key, p, aad), 1, Number(4, Len(p)))
         /\ At(encrypt(key, p, aad), 5, Number(4, Len(aad)))
         /\ decrypt(key, encrypt(key, p, aad)) = [fails |-> FALSE, p |-> p, aad |-> aad]
<1> DEFINE lct == Len(p)
           laad == Len(aad)
           f1 == Number(4, lct)
           f2 == Number(4, laad)
           f3 == Opaque(12, "iv")
           head == f1 \o f2 \o f3 \o aad
           mac == Mac(key, head, p)
           ct == Cipher(key, p)
           c == head \o mac \o ct
<1>1. lct \in Nat /\ laad \in Nat
  BY SeqFacts
<1>2. IsSeq(f1) /\ Len(f1) = 4 /\ IsSeq(f2) /\ Len(f2) = 4
  BY FieldSizes, Zenon
<1>3. IsSeq(f3) /\ Len(f3) = 12
  BY OpaqueSeq
<1>4. IsSeq(mac) /\ Len(mac) = 16
  BY MacSeq, Zenon
<1>5. /\ IsSeq(ct) /\ Len(ct) = lct /\ DOMAIN ct = 1 .. lct
      /\ \A k \in 1 .. lct : ct[k][1] = "cipher" /\ ct[k][2][2] = p[k]
  <2>1. IsSeq(p)
    OBVIOUS
  <2> QED
    BY ONLY <2>1, CipherSeq
<1>6. /\ \A b, cur : At(b, cur, f1) => Read(b, cur, 4) = lct
      /\ \A b, cur : At(b, cur, f2) => Read(b, cur, 4) = laad
  <2>1. \A n, b, cur : At(b, cur, Number(4, n)) => Read(b, cur, 4) = n
    <3>1. 4 \in Nat \ {0}
      OBVIOUS
    <3> QED
      BY <3>1, ReadNumber, Zenon
  <2> QED
    BY <2>1, Zenon
<1>7. encrypt(key, p, aad) = c
  BY Zenon DEF encrypt
<1>8. p = [k \in 1 .. lct |-> p[k]]
  BY SeqFacts
<1> HIDE DEF f1, f2, f3, lct, laad
<1> DEFINE two == f1 \o f2
           three == two \o f3
<1>9. IsSeq(two) /\ Len(two) = 8 /\ \A b, cur : At(b, cur, two) => At(b, cur, f1) /\ At(b, cur + 4, f2)
  <2>1. /\ IsSeq(two) /\ Len(two) = Len(f1) + Len(f2)
        /\ \A b, cur : At(b, cur, two) => At(b, cur, f1) /\ At(b, cur + Len(f1), f2)
    BY <1>2, TwoFields, Zenon
  <2> QED
    BY ONLY <1>2, <2>1
<1> HIDE DEF two
<1>10. IsSeq(three) /\ Len(three) = 20 /\ \A b, cur : At(b, cur, three) => At(b, cur, two)
  <2>1. /\ IsSeq(three) /\ Len(three) = Len(two) + Len(f3)
        /\ \A b, cur : At(b, cur, three) => At(b, cur, two)
    BY <1>3, <1>9, TwoFields, Zenon
  <2> QED
    BY ONLY <1>3, <1>9, <2>1
<1>11. head = three \o aad
  BY DEF two
<1> HIDE DEF three, head
<1>12. /\ IsSeq(head) /\ Len(head) = 20 + laad
       /\ \A b, cur : At(b, cur, head) => At(b, cur, three) /\ At(b, cur + 20, aad)
  <2>1. /\ IsSeq(three \o aad) /\ Len(three \o aad) = Len(three) + Len(aad)
        /\ \A b, cur : At(b, cur, three \o aad) => At(b, cur, three) /\ At(b, cur + Len(three), aad)
    BY <1>10, TwoFields, Zenon
  <2> QED
    BY <1>10, <1>11, <2>1 DEF laad
<1> HIDE DEF mac, ct
<1>13. /\ IsSeq(c) /\ Len(c) = Len(head) + Len(mac) + Len(ct)
       /\ \A b, cur : At(b, cur, c) =>
            /\ At(b, cur, head)
            /\ At(b, cur + Len(head), mac)
            /\ At(b, cur + Len(head) + Len(mac), ct)
  <2>1. IsSeq(head) /\ IsSeq(mac) /\ IsSeq(ct)
    BY <1>4, <1>5, <1>12
  <2>2. IsSeq(head \o mac \o ct) /\ Len(head \o mac \o ct) = Len(head) + Len(mac) + Len(ct)
    BY ONLY <2>1, ThreeFields
  <2>3. \A b, cur : At(b, cur, head \o mac \o ct) =>
            /\ At(b, cur, head)
            /\ At(b, cur + Len(head), mac)
            /\ At(b, cur + Len(head) + Len(mac), ct)
    BY ONLY <2>1, ThreeFields, Zenon
  <2> QED
    BY <2>2, <2>3
<1> HIDE DEF c
<1>14. /\ At(c, 1, head) /\ At(c, 21 + laad, mac) /\ At(c, 37 + laad, ct)
       /\ Len(c) = 4 + 4 + 12 + laad + 16 + lct
  <2>1. At(c, 1, head) /\ At(c, 1 + Len(head), mac) /\ At(c, 1 + Len(head) + Len(mac), ct)
    BY <1>13, WholeAt, Zenon
  <2> QED
    BY ONLY <1>1, <1>4, <1>5, <1>12, <1>13, <2>1
<1>15. At(c, 1, f1) /\ At(c, 5, f2) /\ At(c, 21, aad)
  <2>1. At(c, 1, three) /\ At(c, 1 + 20, aad) /\ At(c, 1, two) /\ At(c, 1, f1) /\ At(c, 1 + 4, f2)
    BY <1>9, <1>10, <1>12, <1>14, Zenon
  <2> QED
    BY ONLY <2>1
<1>16. Read(c, 1, 4) = lct /\ Read(c, 5, 4) = laad
  BY <1>6, <1>15, Zenon
<1>17. /\ SubSeq(c, 37 + laad, 36 + laad + lct) = ct
       /\ SubSeq(c, 1, 20 + laad) = head
       /\ SubSeq(c, 21, 20 + laad) = aad
       /\ SubSeq(c, 21 + laad, 36 + laad) = mac
  <2>1. /\ SubSeq(c, 37 + laad, (37 + laad) + Len(ct) - 1) = ct
        /\ SubSeq(c, 1, 1 + Len(head) - 1) = head
        /\ SubSeq(c, 21, 21 + Len(aad) - 1) = aad
        /\ SubSeq(c, 21 + laad, (21 + laad) + Len(mac) - 1) = mac
    BY <1>14, <1>15, SegmentAt, Zenon
  <2>2. Len(aad) = laad
    BY DEF laad
  <2>3. /\ (37 + laad) + Len(ct) - 1 = 36 + laad + lct
        /\ 1 + Len(head) - 1 = 20 + laad
        /\ 21 + Len(aad) - 1 = 20 + laad
        /\ (21 + laad) + Len(mac) - 1 = 36 + laad
    BY ONLY <1>1, <1>4, <1>5, <1>12, <2>2
  <2> QED
    BY ONLY <2>1, <2>3
<1>18. [k \in DOMAIN ct |-> ct[k][2][2]] = p
  BY <1>5, <1>8
<1>19. Garbage \notin {lct, laad}
  BY <1>1 DEF Garbage
<1>20. decrypt(key, c) =
         IF Garbage \in {lct, laad} \/ Len(c) # 4 + 4 + 12 + laad + 16 + lct THEN Failed
         ELSE IF (\A k \in DOMAIN ct : ct[k][1] = "cipher")
                 /\ mac = Mac(key, head, [k \in DOMAIN ct |-> ct[k][2][2]])
              THEN [fails |-> FALSE, p |-> [k \in DOMAIN ct |-> ct[k][2][2]], aad |-> aad]
              ELSE Failed
  BY <1>16, <1>17, Zenon DEF decrypt
<1>21. decrypt(key, c) = [fails |-> FALSE, p |-> p, aad |-> aad]
  <2>1. mac = Mac(key, head, p)
    BY DEF mac
  <2>2. \A k \in DOMAIN ct : ct[k][1] = "cipher"
    BY <1>5, Zenon
  <2> QED
    BY <1>14, <1>18, <1>19, <1>20, <2>1, <2>2, Zenon
<1> QED
  BY <1>7, <1>13, <1>14, <1>15, <1>21, Zenon DEF laad, lct, f1, f2

\* The fields of what a peer has for another one
LEMMA OutputFields ==
  ASSUME NEW out \in Output
  PROVE  /\ out.receiver \in Peers /\ out.receiver \in PeerInformation
         /\ IsSeq(out.p) /\ out.p_structure \in Seq(OverlayStructureSchemeMessage)
<1>1. /\ out.receiver \in Peers /\ out.p \in Plaintexts
      /\ out.p_structure \in Seq(OverlayStructureSchemeMessage)
  BY DEF Output
<1>2. Peers \subseteq PeerInformation /\ \A p \in Plaintexts : p \in Seq(ToSet(p))
  BY EnvelopeAssumption, Zenon
<1> QED
  BY <1>1, <1>2, Zenon DEF IsSeq

\* A packet is a sequence of bytes.
LEMMA PacketSeq ==
  ASSUME NEW sender \in PeerInformation, NEW out \in Output
  PROVE  IsSeq(encrypted_packet(sender, out))
<1>1. IsSeq(out.p) /\ IsSeq(serialize_aad(sender, out))
  BY OutputFields, AadRead, Zenon
<1> QED
  BY <1>1, DecryptEncrypt, Zenon DEF encrypted_packet

\* What traffic_in makes of a packet for this peer
LEMMA PacketRead ==
  ASSUME NEW sender \in PeerInformation, NEW out \in Output
  PROVE  traffic_in(out.receiver, encrypted_packet(sender, out)) = <<Received(sender, out)>>
<1> DEFINE own == out.receiver
           S == out.p_structure
           aad == serialize_aad(sender, out)
           c == encrypted_packet(sender, out)
<1>1. own \in PeerInformation /\ IsSeq(out.p) /\ S \in Seq(OverlayStructureSchemeMessage)
  BY OutputFields, Zenon
<1>2. /\ IsSeq(aad)
      /\ deserialize_aad(aad) =
           [sender |-> sender, receiver |-> own, round |-> out.round, p_structure |-> S]
  BY <1>1, AadRead, Zenon
<1>3. decrypt("sk_enc", c) = [fails |-> FALSE, p |-> out.p, aad |-> aad]
  <2> HIDE DEF aad
  <2>1. decrypt("sk_enc", encrypt("sk_enc", out.p, aad)) = [fails |-> FALSE, p |-> out.p, aad |-> aad]
    BY <1>1, <1>2, DecryptEncrypt, Zenon
  <2> QED
    BY <2>1, Zenon DEF encrypted_packet, aad
<1> DEFINE d == decrypt("sk_enc", c)
           read == deserialize_aad(d.aad)
<1> HIDE DEF c, aad
<1>4. ~ d.fails /\ d.p = out.p /\ d.aad = aad
  BY <1>3
<1> HIDE DEF d
<1>5. read.receiver = own /\ read.sender = sender /\ read.round = out.round /\ read.p_structure = S
  BY <1>2, <1>4
<1> HIDE DEF read
<1>6. traffic_in(own, c) =
        IF d.fails \/ read.receiver # own THEN <<>>
        ELSE <<[sender |-> read.sender, receiver |-> own, round |-> read.round, p |-> d.p,
                p_structure |-> read.p_structure]>>
  BY Zenon DEF traffic_in, d, read
<1> QED
  BY <1>4, <1>5, <1>6, Zenon DEF Received, c

PairAt(buffer, cur, i, c) ==
  /\ cur \in Nat
  /\ deserialize_peer(buffer, cur) = i
  /\ SizeAt(buffer, cur) = Len(c)
  /\ SubSeq(buffer, cur + PeerBytes + 8, cur + PeerBytes + 8 + Len(c) - 1) = c
  /\ cur + PeerBytes + 8 + Len(c) = cur + Len(serialize_pair(i, c))

\* A pair is read as it was written, its payload byte by byte.
LEMMA PairRead ==
  ASSUME NEW i \in PeerInformation, NEW c, IsSeq(c)
  PROVE  /\ IsSeq(serialize_pair(i, c))
         /\ \A buffer, cur : At(buffer, cur, serialize_pair(i, c)) => PairAt(buffer, cur, i, c)
<1> DEFINE a == serialize_peer(i)
           n == Len(c)
           b == Number(8, n)
           all == a \o b \o c
<1>1. IsSeq(a) /\ Len(a) = PeerBytes /\ IsSeq(b) /\ Len(b) = 8 /\ n \in Nat
  BY PeerRead, FieldSizes, SeqFacts, Zenon
<1>2. /\ \A buffer, cur : At(buffer, cur, a) => deserialize_peer(buffer, cur) = i
      /\ \A buffer, cur : At(buffer, cur, b) => Count(buffer, cur) = n
  BY <1>1, PeerRead, ReadCount, Zenon
<1>3. serialize_pair(i, c) = all
  BY Zenon DEF serialize_pair
<1>4. IsSeq(c)
  OBVIOUS
<1> HIDE DEF a, b
<1>5. IsSeq(all) /\ Len(all) = Len(a) + Len(b) + n
  <2>1. IsSeq(a) /\ IsSeq(b) /\ IsSeq(c)
    BY <1>1, <1>4
  <2>2. IsSeq(a \o b \o c) /\ Len(a \o b \o c) = Len(a) + Len(b) + Len(c)
    BY ONLY <2>1, ThreeFields
  <2> QED
    BY <2>2
<1>6. \A buffer, cur : At(buffer, cur, all) =>
          At(buffer, cur, a) /\ At(buffer, cur + Len(a), b) /\ At(buffer, cur + Len(a) + Len(b), c)
  BY ONLY <1>1, <1>4, ThreeFields, Zenon
<1> HIDE DEF all
<1>7. ASSUME NEW buffer, NEW cur, At(buffer, cur, all)
      PROVE  /\ cur \in Nat
             /\ deserialize_peer(buffer, cur) = i
             /\ SizeAt(buffer, cur) = n
             /\ SubSeq(buffer, cur + PeerBytes + 8, cur + PeerBytes + 8 + n - 1) = c
             /\ cur + PeerBytes + 8 + n = cur + Len(all)
  <2>1. cur \in Nat
    BY <1>7, Zenon DEF At
  <2>2. At(buffer, cur, a) /\ At(buffer, cur + PeerBytes, b) /\ At(buffer, cur + PeerBytes + 8, c)
    BY <1>1, <1>6, <1>7, Zenon
  <2>3. SizeAt(buffer, cur) = n
    BY <1>2, <2>2, Zenon DEF SizeAt
  <2>4. SubSeq(buffer, cur + PeerBytes + 8, cur + PeerBytes + 8 + n - 1) = c
    BY <2>2, SegmentAt, Zenon
  <2>5. cur + PeerBytes + 8 + n = cur + Len(all)
    <3> HIDE DEF n
    <3> QED
      BY ONLY <1>1, <1>5, <2>1 DEF PeerBytes
  <2> QED
    BY <1>2, <2>1, <2>2, <2>3, <2>4, <2>5, Zenon
<1> QED
  BY <1>3, <1>5, <1>7, Zenon DEF n, PairAt

\* The host reads the pairs that traffic_out has returned.
LEMMA PairsRead ==
  ASSUME NEW sender \in PeerInformation, NEW outs \in Seq(Output)
  PROVE  /\ serialize_pairs(sender, outs) # <<>>
         /\ deserialize_pairs(serialize_pairs(sender, outs)) =
              [k \in 1 .. Len(outs) |->
                 [i |-> outs[k].receiver, payload |-> encrypted_packet(sender, outs[k])]]
<1> DEFINE n == Len(outs)
           i(k) == outs[k].receiver
           c(k) == encrypted_packet(sender, outs[k])
           seqs == [k \in DOMAIN outs |-> serialize_pair(outs[k].receiver, encrypted_packet(sender, outs[k]))]
           a == Number(8, n)
           b == FlattenSeq(seqs)
           all == a \o b
<1>1. n \in Nat /\ DOMAIN outs = 1 .. n /\ \A k \in 1 .. n : outs[k] \in Output
  BY LenProperties, ElementOfSeq
<1>2. \A k \in 1 .. n : i(k) \in PeerInformation /\ IsSeq(c(k))
  BY <1>1, OutputFields, PacketSeq, Zenon
<1>3. serialize_pairs(sender, outs) = all
  BY Zenon DEF serialize_pairs
<1> HIDE DEF n
<1>4. seqs = [k \in 1 .. n |-> seqs[k]] /\ \A k \in 1 .. n : seqs[k] = serialize_pair(i(k), c(k))
  BY <1>1
<1> HIDE DEF seqs, i, c
<1>5. \A k \in 1 .. n : IsSeq(seqs[k])
  BY <1>2, <1>4, PairRead, Zenon
<1>6. Entries(seqs, n)
  BY <1>1, <1>4, <1>5, Zenon DEF Entries
<1>7. IsSeq(b) /\ IsSeq(a) /\ Len(a) = 8
  BY <1>1, <1>4, <1>5, FlattenAt, FieldSizes, Zenon
<1>8. \A buffer, cur : At(buffer, cur, a) => Count(buffer, cur) = n
  BY <1>1, ReadCount, Zenon
<1> HIDE DEF a, b
<1>9. /\ IsSeq(all) /\ Len(all) = 8 + Len(b) /\ Len(b) \in Nat
      /\ At(all, 1, a) /\ At(all, 9, b)
  <2>1. /\ IsSeq(all) /\ Len(all) = Len(a) + Len(b) /\ Len(b) \in Nat
        /\ At(all, 1, all) => At(all, 1, a) /\ At(all, 1 + Len(a), b)
    BY <1>7, TwoFields, Zenon
  <2> HIDE DEF all
  <2>2. At(all, 1, all)
    BY <2>1, WholeAt, Zenon
  <2>3. 1 + Len(a) = 9
    BY ONLY <1>7
  <2> QED
    BY <1>7, <2>1, <2>2, <2>3, Zenon
<1> HIDE DEF all
<1>10. all # <<>>
  BY ONLY <1>9
<1> DEFINE next == [x \in Nat |-> x + PeerBytes + 8 + SizeAt(all, x)]
           at == Cursors(9, next)
<1>11. Strides(all, next, seqs, n)
  <2>1. next \in [Nat -> Nat]
    <3>1. \A x \in Nat : SizeAt(all, x) \in Nat
      BY CountIsNat DEF SizeAt
    <3> QED
      BY <3>1 DEF PeerBytes
  <2>2. ASSUME NEW k \in 1 .. n, NEW x \in Nat, At(all, x, seqs[k])
        PROVE  next[x] = x + Len(seqs[k])
    <3>1. seqs[k] = serialize_pair(i(k), c(k)) /\ i(k) \in PeerInformation /\ IsSeq(c(k))
      BY <1>2, <1>4, Zenon
    <3>2. At(all, x, serialize_pair(i(k), c(k)))
      BY ONLY <2>2, <3>1, Zenon
    <3>3. /\ SizeAt(all, x) = Len(c(k))
          /\ x + PeerBytes + 8 + Len(c(k)) = x + Len(serialize_pair(i(k), c(k)))
      <4>1. PairAt(all, x, i(k), c(k))
        BY <3>1, <3>2, PairRead, Zenon
      <4> QED
        BY <4>1, Zenon DEF PairAt
    <3>4. next[x] = x + PeerBytes + 8 + SizeAt(all, x)
      OBVIOUS
    <3> HIDE DEF next
    <3> QED
      BY ONLY <3>1, <3>3, <3>4, Zenon
  <2> HIDE DEF next
  <2> QED
    BY <2>1, <2>2, Zenon DEF Strides
<1>12. \A k \in 1 .. n : At(all, at[k - 1], seqs[k])
  <2> HIDE DEF next
  <2>1. At(all, 9, FlattenSeq(seqs))
    BY <1>9, Zenon DEF b
  <2> QED
    BY <1>6, <1>11, <2>1, EntriesMet, Zenon
<1> HIDE DEF at, next
<1> DEFINE first(k) == at[k - 1] + PeerBytes + 8
           read(k) == [i |-> deserialize_peer(all, at[k - 1]),
                       payload |-> SubSeq(all, first(k), first(k) + SizeAt(all, at[k - 1]) - 1)]
<1>13. ASSUME NEW k \in 1 .. n
       PROVE  read(k) = [i |-> i(k), payload |-> c(k)]
  <2>1. seqs[k] = serialize_pair(i(k), c(k)) /\ i(k) \in PeerInformation /\ IsSeq(c(k))
    BY <1>2, <1>4, Zenon
  <2>2. At(all, at[k - 1], serialize_pair(i(k), c(k)))
    BY <1>12, <2>1, Zenon
  <2>3. /\ deserialize_peer(all, at[k - 1]) = i(k)
        /\ SizeAt(all, at[k - 1]) = Len(c(k))
        /\ SubSeq(all, at[k - 1] + PeerBytes + 8, at[k - 1] + PeerBytes + 8 + Len(c(k)) - 1) = c(k)
    <3>1. PairAt(all, at[k - 1], i(k), c(k))
      BY <2>1, <2>2, PairRead, Zenon
    <3> QED
      BY <3>1, Zenon DEF PairAt
  <2> QED
    BY <2>3, Zenon
<1>14. deserialize_pairs(all) = [k \in 1 .. n |-> read(k)]
  <2>1. Count(all, 1) = n
    BY <1>8, <1>9, Zenon
  <2> QED
    BY <2>1, Zenon DEF deserialize_pairs, at, next
<1> HIDE DEF read
<1>15. [k \in 1 .. n |-> read(k)] = [k \in 1 .. n |-> [i |-> i(k), payload |-> c(k)]]
  BY <1>13
<1> QED
  BY <1>3, <1>10, <1>14, <1>15, Zenon DEF n, i, c

-----------------------------------------------------------------------------
(* Concatenations *)

\* A concatenation of sequences with one element each
LEMMA FlattenOnes ==
  ASSUME NEW n \in Nat, NEW f
  PROVE  FlattenSeq([k \in 1 .. n |-> <<f[k]>>]) = [k \in 1 .. n |-> f[k]]
<1> DEFINE seqs == [k \in 1 .. n |-> <<f[k]>>]
           one == [k \in 1 .. n |-> f[k]]
<1>1. seqs = [k \in 1 .. n |-> seqs[k]] /\ \A k \in 1 .. n : seqs[k] = <<f[k]>>
  OBVIOUS
<1>2. \A k \in 1 .. n : IsSeq(seqs[k]) /\ Len(seqs[k]) = 1
  <2> TAKE k \in 1 .. n
  <2>1. <<f[k]>> \in Seq({f[k]}) /\ Len(<<f[k]>>) = 1
    OBVIOUS
  <2>2. IsSeq(<<f[k]>>)
    BY <2>1, SeqWith
  <2> QED
    BY <1>1, <2>1, <2>2
<1>3. one \in Seq({f[k] : k \in 1 .. n}) /\ Len(one) = n
  OBVIOUS
<1>4. IsSeq(one)
  BY <1>3, SeqWith
<1> HIDE DEF seqs
<1>5. 1 \in Nat /\ n * 1 = n
  OBVIOUS
<1>6. /\ IsSeq(FlattenSeq(seqs)) /\ Len(FlattenSeq(seqs)) = n
      /\ \A buffer, cur : At(buffer, cur, FlattenSeq(seqs)) =>
           \A k \in 1 .. n : At(buffer, cur + (k - 1) * 1, seqs[k])
  BY <1>1, <1>2, <1>5, EvenlyAt
<1>7. At(FlattenSeq(seqs), 1, FlattenSeq(seqs))
  BY <1>6, WholeAt
<1>8. ASSUME NEW k \in 1 .. n
      PROVE  FlattenSeq(seqs)[k] = one[k]
  <2>1. At(FlattenSeq(seqs), 1 + (k - 1) * 1, <<f[k]>>)
    BY <1>1, <1>6, <1>7
  <2>2. 1 + (k - 1) * 1 = k /\ k + 1 - 1 = k /\ 1 \in 1 .. Len(<<f[k]>>) /\ <<f[k]>>[1] = f[k]
    OBVIOUS
  <2>3. At(FlattenSeq(seqs), k, <<f[k]>>)
    BY <2>1, <2>2
  <2>4. FlattenSeq(seqs)[k + 1 - 1] = <<f[k]>>[1]
    BY <2>2, <2>3 DEF At
  <2> QED
    BY <2>2, <2>4
<1> HIDE DEF one
<1> QED
  BY <1>3, <1>4, <1>6, <1>8, SeqsEqual DEF seqs, one

\* A function on 1 .. n is a sequence of length n.
LEMMA ListOf ==
  ASSUME NEW U, NEW n \in Nat, NEW s, s = [k \in 1 .. n |-> s[k]], \A k \in 1 .. n : s[k] \in U
  PROVE  s \in Seq(U) /\ Len(s) = n
  OBVIOUS

\* No sequences have an empty concatenation.
LEMMA FlattenNone == FlattenSeq(<<>>) = <<>>
<1>1. Len(<<>>) = 0
  OBVIOUS
<1> QED
  BY <1>1, Zenon DEF FlattenSeq

\* The last of several sequences is the end of their concatenation.
LEMMA FlattenAppend ==
  ASSUME NEW S, NEW seqs \in Seq(Seq(S)), NEW s \in Seq(S)
  PROVE  FlattenSeq(Append(seqs, s)) = FlattenSeq(seqs) \o s
<1> DEFINE n == Len(seqs)
           more == Append(seqs, s)
<1>1. /\ n \in Nat /\ more \in Seq(Seq(S)) /\ Len(more) = n + 1
      /\ \A k \in 1 .. n : more[k] = seqs[k]
      /\ more[n + 1] = s
  BY AppendProperties
<1>2. PICK G : /\ G[1] = more[1]
               /\ \A i \in 2 .. Len(more) : G[i] = G[i - 1] \o more[i]
               /\ FlattenSeq(more) = G[Len(more)]
  <2>1. Len(more) # 0
    BY <1>1
  <2> HIDE DEF more
  <2> QED
    BY <1>1, <2>1, FlattenSteps, Zenon
<1> HIDE DEF more
<1>3. CASE n = 0
  <2>1. FlattenSeq(more) = s
    BY <1>1, <1>2, <1>3
  <2>2. seqs = <<>>
    BY <1>3
  <2>3. FlattenSeq(seqs) = <<>>
    BY <2>2, FlattenNone
  <2>4. <<>> \o s = s
    OBVIOUS
  <2> QED
    BY <2>1, <2>3, <2>4 DEF more
<1>4. CASE n # 0
  <2>1. PICK F : /\ F[1] = seqs[1]
                 /\ \A i \in 2 .. Len(seqs) : F[i] = F[i - 1] \o seqs[i]
                 /\ FlattenSeq(seqs) = F[Len(seqs)]
    BY <1>4, FlattenSteps, Zenon
  <2> HIDE DEF n
  <2> DEFINE T == {k \in Nat : k + 1 <= n => G[k + 1] = F[k + 1]}
  <2>2. 0 \in T
    <3>1. 1 \in 1 .. n
      BY <1>1, <1>4
    <3> QED
      BY <1>1, <1>2, <2>1, <3>1
  <2>3. ASSUME NEW k \in Nat, k \in T, k + 2 <= n
        PROVE  G[k + 2] = F[k + 2]
    <3>1. k + 2 \in 2 .. n /\ k + 2 \in 2 .. n + 1 /\ k + 2 \in 1 .. n /\ (k + 2) - 1 = k + 1 /\ k + 1 <= n
      BY <1>1, <2>3
    <3>2. G[k + 2] = G[k + 1] \o more[k + 2] /\ F[k + 2] = F[k + 1] \o seqs[k + 2]
      BY <1>1, <1>2, <2>1, <3>1 DEF n
    <3>3. more[k + 2] = seqs[k + 2]
      BY <1>1, <3>1
    <3>4. G[k + 1] = F[k + 1]
      BY <2>3, <3>1
    <3> QED
      BY <3>2, <3>3, <3>4
  <2>4. \A k \in Nat : k \in T => k + 1 \in T
    BY <2>3
  <2>5. Nat \subseteq T
    <3> HIDE DEF T
    <3> QED
      BY <2>2, <2>4, Induction
  <2>6. G[n] = F[n]
    <3>1. n - 1 \in Nat /\ (n - 1) + 1 = n /\ n <= n
      BY <1>1, <1>4
    <3>2. n - 1 \in T
      BY <2>5, <3>1, Zenon
    <3> QED
      BY <3>1, <3>2
  <2>7. G[n + 1] = G[n] \o s
    <3>1. n + 1 \in 2 .. n + 1 /\ (n + 1) - 1 = n
      BY <1>1, <1>4
    <3> QED
      BY <1>1, <1>2, <3>1
  <2> QED
    BY <1>1, <1>2, <2>1, <2>6, <2>7 DEF more, n
<1> QED
  BY <1>3, <1>4

\* A map over a sequence
LEMMA MapConcat ==
  ASSUME NEW S, NEW f, NEW s \in Seq(S), NEW t \in Seq(S)
  PROVE  [k \in 1 .. Len(s \o t) |-> f[(s \o t)[k]]] =
           [k \in 1 .. Len(s) |-> f[s[k]]] \o [k \in 1 .. Len(t) |-> f[t[k]]]
<1> DEFINE map(q) == [k \in 1 .. Len(q) |-> f[q[k]]]
           R == {f[x] : x \in S}
<1>0. ASSUME NEW q \in Seq(S)
      PROVE  /\ map(q) \in Seq(R) /\ Len(map(q)) = Len(q) /\ DOMAIN q = 1 .. Len(q)
             /\ \A k \in 1 .. Len(q) : map(q)[k] = f[q[k]]
  OBVIOUS
<1>1. s \o t \in Seq(S) /\ Len(s \o t) = Len(s) + Len(t) /\ Len(s) \in Nat /\ Len(t) \in Nat
  BY ConcatProperties, LenProperties
<1>2. /\ IsSeq(map(s)) /\ IsSeq(map(t)) /\ IsSeq(map(s \o t))
      /\ IsSeq(s) /\ IsSeq(t)
      /\ Len(map(s)) = Len(s) /\ Len(map(t)) = Len(t) /\ Len(map(s \o t)) = Len(s) + Len(t)
      /\ \A k \in 1 .. Len(s) + Len(t) : map(s \o t)[k] = f[(s \o t)[k]]
      /\ \A k \in 1 .. Len(s) : map(s)[k] = f[s[k]]
      /\ \A k \in 1 .. Len(t) : map(t)[k] = f[t[k]]
  <2> HIDE DEF map, R
  <2> QED
    BY <1>0, <1>1, SeqWith
<1> HIDE DEF map
<1>3. /\ \A k \in 1 .. Len(s) : (s \o t)[k] = s[k]
      /\ \A k \in 1 .. Len(t) : (s \o t)[Len(s) + k] = t[k]
  <2>1. IsSeq(s) /\ IsSeq(t)
    BY <1>2, Zenon
  <2> QED
    BY ONLY <2>1, Concat
<1>4. /\ IsSeq(map(s) \o map(t)) /\ Len(map(s) \o map(t)) = Len(map(s)) + Len(map(t))
      /\ \A k \in 1 .. Len(map(s)) : (map(s) \o map(t))[k] = map(s)[k]
      /\ \A k \in 1 .. Len(map(t)) : (map(s) \o map(t))[Len(map(s)) + k] = map(t)[k]
  <2>1. IsSeq(map(s)) /\ IsSeq(map(t))
    BY <1>2, Zenon
  <2> QED
    BY ONLY <2>1, Concat
<1>5. ASSUME NEW k \in 1 .. Len(s) + Len(t)
      PROVE  map(s \o t)[k] = (map(s) \o map(t))[k]
  <2>1. CASE k \in 1 .. Len(s)
    BY ONLY <1>1, <1>2, <1>3, <1>4, <2>1
  <2>2. CASE k \notin 1 .. Len(s)
    <3> DEFINE l == k - Len(s)
    <3>1. l \in 1 .. Len(t) /\ k = Len(s) + l
      BY <1>1, <2>2
    <3> HIDE DEF l
    <3>2. (s \o t)[k] = t[l] /\ (map(s) \o map(t))[k] = map(t)[l] /\ map(t)[l] = f[t[l]]
      BY ONLY <1>2, <1>3, <1>4, <3>1
    <3> QED
      BY <1>2, <3>2
  <2> QED
    BY <2>1, <2>2
<1>6. Len(map(s \o t)) = Len(map(s) \o map(t)) /\ IsSeq(map(s \o t)) /\ IsSeq(map(s) \o map(t))
  BY ONLY <1>2, <1>4
<1>7. \A k \in 1 .. Len(map(s \o t)) : map(s \o t)[k] = (map(s) \o map(t))[k]
  BY <1>2, <1>5, Zenon
<1> QED
  BY ONLY <1>6, <1>7, SeqsEqual DEF map

\* Every entry of a concatenation replaced by a value of a function
LEMMA FlattenMap ==
  ASSUME NEW S, NEW seqs \in Seq(Seq(S)), NEW f
  PROVE  FlattenSeq([c \in DOMAIN seqs |-> [k \in DOMAIN seqs[c] |-> f[seqs[c][k]]]])
           = [k \in 1 .. Len(FlattenSeq(seqs)) |-> f[FlattenSeq(seqs)[k]]]
<1> DEFINE n == Len(seqs)
           map(s) == [k \in 1 .. Len(s) |-> f[s[k]]]
           maps == [c \in DOMAIN seqs |-> [k \in DOMAIN seqs[c] |-> f[seqs[c][k]]]]
           R == {f[x] : x \in S}
<1>1. n \in Nat /\ DOMAIN seqs = 1 .. n /\ \A c \in 1 .. n : seqs[c] \in Seq(S)
  BY LenProperties, ElementOfSeq
<1>2. ASSUME NEW s \in Seq(S)
      PROVE  /\ map(s) \in Seq(R) /\ Len(map(s)) = Len(s) /\ DOMAIN s = 1 .. Len(s)
             /\ \A k \in 1 .. Len(s) : map(s)[k] = f[s[k]]
  OBVIOUS
<1>3. ASSUME NEW s \in Seq(S), NEW t \in Seq(S)
      PROVE  map(s \o t) = map(s) \o map(t)
  BY MapConcat
<1>4. /\ maps \in Seq(Seq(R)) /\ Len(maps) = n
      /\ \A c \in 1 .. n : maps[c] = map(seqs[c])
  <2>1. \A c \in 1 .. n : maps[c] = map(seqs[c]) /\ map(seqs[c]) \in Seq(R)
    BY <1>1, <1>2
  <2>2. DOMAIN maps = 1 .. n /\ maps = [c \in 1 .. n |-> maps[c]]
    BY <1>1
  <2> HIDE DEF maps, map, n, R
  <2>3. \A c \in 1 .. n : maps[c] \in Seq(R)
    BY <2>1
  <2>4. n \in Nat
    BY <1>1
  <2> DEFINE U == Seq(R)
  <2>5. \A c \in 1 .. n : maps[c] \in U
    BY <2>3
  <2> HIDE DEF U
  <2>6. maps \in Seq(U) /\ Len(maps) = n
    BY ONLY <2>2, <2>4, <2>5, ListOf
  <2> QED
    BY <2>1, <2>6 DEF U
<1> HIDE DEF maps, map
<1>5. CASE n = 0
  <2>1. seqs = <<>> /\ maps = <<>>
    BY <1>4, <1>5
  <2>2. map(<<>>) = <<>>
    BY DEF map
  <2> QED
    BY <2>1, <2>2, FlattenNone DEF map, maps
<1>6. CASE n # 0
  <2>1. PICK F : /\ F[1] = seqs[1]
                 /\ \A i \in 2 .. Len(seqs) : F[i] = F[i - 1] \o seqs[i]
                 /\ FlattenSeq(seqs) = F[Len(seqs)]
    BY <1>6, FlattenSteps, Zenon
  <2>2. PICK G : /\ G[1] = maps[1]
                 /\ \A i \in 2 .. Len(maps) : G[i] = G[i - 1] \o maps[i]
                 /\ FlattenSeq(maps) = G[Len(maps)]
    <3>1. Len(maps) # 0
      BY <1>4, <1>6
    <3> QED
      BY <1>4, <3>1, FlattenSteps, Zenon
  <2> HIDE DEF n, R
  <2> DEFINE T == {k \in Nat : k + 1 <= n => F[k + 1] \in Seq(S) /\ G[k + 1] = map(F[k + 1])}
  <2>3. 0 \in T
    <3>1. 1 \in 1 .. n
      BY <1>1, <1>6
    <3> QED
      BY <1>1, <1>4, <2>1, <2>2, <3>1
  <2>4. ASSUME NEW k \in Nat, k \in T, k + 2 <= n
        PROVE  F[k + 2] \in Seq(S) /\ G[k + 2] = map(F[k + 2])
    <3>1. k + 2 \in 2 .. n /\ k + 2 \in 1 .. n /\ (k + 2) - 1 = k + 1 /\ k + 1 <= n
      BY <1>1, <2>4
    <3>2. F[k + 2] = F[k + 1] \o seqs[k + 2] /\ G[k + 2] = G[k + 1] \o maps[k + 2]
      BY <1>4, <2>1, <2>2, <3>1 DEF n
    <3>3. F[k + 1] \in Seq(S) /\ G[k + 1] = map(F[k + 1])
      BY <2>4, <3>1
    <3>4. seqs[k + 2] \in Seq(S) /\ maps[k + 2] = map(seqs[k + 2])
      BY <1>1, <1>4, <3>1
    <3>5. F[k + 2] \in Seq(S)
      BY <3>2, <3>3, <3>4, ConcatProperties
    <3>6. map(F[k + 1] \o seqs[k + 2]) = map(F[k + 1]) \o map(seqs[k + 2])
      BY <1>3, <3>3, <3>4
    <3> QED
      BY <3>2, <3>3, <3>4, <3>5, <3>6
  <2>5. \A k \in Nat : k \in T => k + 1 \in T
    BY <2>4
  <2>6. Nat \subseteq T
    <3> HIDE DEF T
    <3> QED
      BY <2>3, <2>5, Induction
  <2>7. G[n] = map(F[n])
    <3>1. n - 1 \in Nat /\ (n - 1) + 1 = n /\ n <= n
      BY <1>1, <1>6
    <3>2. n - 1 \in T
      BY <2>6, <3>1, Zenon
    <3> QED
      BY <3>1, <3>2
  <2>8. FlattenSeq(maps) = map(FlattenSeq(seqs))
    BY <1>4, <2>1, <2>2, <2>7 DEF n
  <2> QED
    BY <2>8 DEF map, maps
<1> QED
  BY <1>5, <1>6

-----------------------------------------------------------------------------
(* Join and init messages *)

\* A PeerInformation in memory is read as it was copied.
LEMMA MemoryRead ==
  ASSUME NEW i \in PeerInformation
  PROVE  /\ IsSeq(memory_of(i)) /\ Len(memory_of(i)) = SizeOfPeer
         /\ \A buffer, cur : At(buffer, cur, memory_of(i)) => peer_at(buffer, cur) = i
<1> DEFINE a == Unread(8)
           b == Number(8, i.id)
           c == Unread(8)
           d == FlattenSeq([k \in 1 .. 4 |-> Number(1, i.uri.ip[k])])
           e == Unread(4)
           f == Number(8, i.uri.port)
           five == a \o b \o c \o d \o e
<1>1. IsSeq(a) /\ Len(a) = 8 /\ IsSeq(c) /\ Len(c) = 8 /\ IsSeq(e) /\ Len(e) = 4
  <2>1. 8 \in Nat /\ 4 \in Nat
    OBVIOUS
  <2> QED
    BY <2>1, OpaqueSeq, Zenon DEF Unread
<1>2. IsSeq(b) /\ Len(b) = 8 /\ IsSeq(f) /\ Len(f) = 8
  BY FieldSizes, Zenon
<1>3. /\ IsSeq(d) /\ Len(d) = 4
      /\ \A buffer, cur : At(buffer, cur, d) =>
           \A k \in 1 .. 4 : Read(buffer, cur + k - 1, 1) = i.uri.ip[k]
  <2>1. 4 \in Nat
    OBVIOUS
  <2> QED
    BY <2>1, SmallNumbers, Zenon
<1>4. memory_of(i) = five \o f
  BY Zenon DEF memory_of
<1>5. i = [id |-> i.id, uri |-> [ip |-> [k \in 1 .. 4 |-> i.uri.ip[k]], port |-> i.uri.port]]
  BY PeerParts, Zenon
<1>6. \A n, buffer, cur : At(buffer, cur, Number(8, n)) => Read(buffer, cur, 8) = n
  <2>1. 8 \in Nat \ {0}
    OBVIOUS
  <2> QED
    BY <2>1, ReadNumber, Zenon
<1>7. /\ \A buffer, cur : At(buffer, cur, b) => Read(buffer, cur, 8) = i.id
      /\ \A buffer, cur : At(buffer, cur, f) => Read(buffer, cur, 8) = i.uri.port
  BY <1>6, Zenon
<1> HIDE DEF a, b, c, d, e, f
<1>8. IsSeq(a) /\ IsSeq(b) /\ IsSeq(c) /\ IsSeq(d) /\ IsSeq(e) /\ IsSeq(f)
  BY <1>1, <1>2, <1>3
<1>9. /\ IsSeq(five) /\ Len(five) = Len(a) + Len(b) + Len(c) + Len(d) + Len(e)
  BY ONLY <1>8, FiveFields
<1>10. \A buffer, cur : At(buffer, cur, five) => FiveAt(buffer, cur, a, b, c, d, e)
  BY ONLY <1>8, FiveFields, Zenon
<1> HIDE DEF five
<1>11. IsSeq(five \o f) /\ Len(five \o f) = Len(five) + Len(f)
  BY <1>8, <1>9, Concat, Zenon
<1>12. Len(five) = 32 /\ Len(five \o f) = 40
  BY ONLY <1>1, <1>2, <1>3, <1>9, <1>11
<1>13. ASSUME NEW buffer, NEW cur, At(buffer, cur, five \o f)
       PROVE  peer_at(buffer, cur) = i
  <2>1. At(buffer, cur, five) /\ At(buffer, cur + 32, f)
    BY <1>8, <1>9, <1>12, <1>13, ConcatAt, Zenon
  <2>2. /\ cur \in Nat \ {0} /\ At(buffer, cur + Len(a), b)
        /\ At(buffer, cur + Len(a) + Len(b) + Len(c), d)
    BY <1>10, <2>1, Zenon DEF FiveAt
  <2>3. cur + Len(a) = cur + 8 /\ cur + Len(a) + Len(b) + Len(c) = cur + 24
    BY ONLY <1>1, <1>2, <2>2
  <2>4. Read(buffer, cur + 8, 8) = i.id /\ Read(buffer, cur + 32, 8) = i.uri.port
    BY <1>7, <2>1, <2>2, <2>3, Zenon
  <2>5. \A k \in 1 .. 4 : Read(buffer, (cur + 24) + k - 1, 1) = i.uri.ip[k]
    BY <1>3, <2>2, <2>3, Zenon
  <2>6. \A k \in 1 .. 4 : (cur + 24) + k - 1 = cur + 23 + k
    BY ONLY <2>2
  <2>7. [k \in 1 .. 4 |-> Read(buffer, cur + 23 + k, 1)] = [k \in 1 .. 4 |-> i.uri.ip[k]]
    BY ONLY <2>5, <2>6
  <2> QED
    BY <1>5, <2>4, <2>7, Zenon DEF peer_at
<1> QED
  BY <1>4, <1>11, <1>12, <1>13, Zenon DEF SizeOfPeer

\* A vector in memory is obtained as it was copied.
LEMMA VectorRead ==
  ASSUME NEW vec \in Seq(PeerInformation)
  PROVE  /\ IsSeq(copy_vector(vec)) /\ Len(copy_vector(vec)) = Len(vec) * SizeOfPeer
         /\ Len(vec) \in Nat
         /\ \A buffer, cur : At(buffer, cur, copy_vector(vec)) =>
                             obtain_vector(buffer, cur, Len(vec)) = vec
<1> DEFINE n == Len(vec)
           seqs == [k \in DOMAIN vec |-> memory_of(vec[k])]
<1>1. n \in Nat /\ DOMAIN vec = 1 .. n /\ vec = [k \in 1 .. n |-> vec[k]]
      /\ \A k \in 1 .. n : vec[k] \in PeerInformation
  OBVIOUS
<1>2. copy_vector(vec) = FlattenSeq(seqs)
  BY Zenon DEF copy_vector
<1> HIDE DEF n
<1>3. seqs = [k \in 1 .. n |-> seqs[k]] /\ \A k \in 1 .. n : seqs[k] = memory_of(vec[k])
  BY <1>1
<1> HIDE DEF seqs
<1>4. \A k \in 1 .. n : IsSeq(seqs[k]) /\ Len(seqs[k]) = SizeOfPeer
  BY <1>1, <1>3, MemoryRead
<1>5. SizeOfPeer \in Nat
  BY DEF SizeOfPeer
<1>6. /\ IsSeq(FlattenSeq(seqs)) /\ Len(FlattenSeq(seqs)) = n * SizeOfPeer
      /\ \A buffer, cur : At(buffer, cur, FlattenSeq(seqs)) =>
           \A k \in 1 .. n : At(buffer, cur + (k - 1) * SizeOfPeer, seqs[k])
  BY <1>1, <1>3, <1>4, <1>5, EvenlyAt
<1>7. ASSUME NEW buffer, NEW cur, At(buffer, cur, FlattenSeq(seqs))
      PROVE  obtain_vector(buffer, cur, n) = vec
  <2>1. ASSUME NEW k \in 1 .. n
        PROVE  peer_at(buffer, cur + (k - 1) * SizeOfPeer) = vec[k]
    <3>1. At(buffer, cur + (k - 1) * SizeOfPeer, memory_of(vec[k]))
      BY <1>3, <1>6, <1>7
    <3> QED
      BY <1>1, <3>1, MemoryRead
  <2> QED
    BY <1>1, <2>1 DEF obtain_vector
<1> QED
  BY <1>1, <1>2, <1>6, <1>7, Zenon DEF n

EntryAt(buffer, cur, o, vec) ==
  /\ Read(buffer, cur, 8) = o
  /\ Count(buffer, cur + 8) = Len(vec)
  /\ obtain_vector(buffer, cur + 16, Len(vec)) = vec

\* An entry of gamma_route is read where it lies.
LEMMA EntryRead ==
  ASSUME NEW o, NEW vec \in Seq(PeerInformation)
  PROVE  /\ IsSeq(copy_entry(o, vec)) /\ Len(copy_entry(o, vec)) = 16 + SizeOfPeer * Len(vec)
         /\ \A buffer, cur : At(buffer, cur, copy_entry(o, vec)) => EntryAt(buffer, cur, o, vec)
<1> DEFINE n == Len(vec)
           a == Number(8, o)
           b == Number(8, n)
           c == copy_vector(vec)
<1>1. /\ n \in Nat /\ IsSeq(c) /\ Len(c) = n * SizeOfPeer
      /\ \A buffer, cur : At(buffer, cur, c) => obtain_vector(buffer, cur, n) = vec
  BY VectorRead, Zenon
<1>2. IsSeq(a) /\ Len(a) = 8 /\ IsSeq(b) /\ Len(b) = 8
  BY FieldSizes, Zenon
<1>3. /\ \A buffer, cur : At(buffer, cur, a) => Read(buffer, cur, 8) = o
      /\ \A buffer, cur : At(buffer, cur, b) => Count(buffer, cur) = n
  <2>1. 8 \in Nat \ {0}
    OBVIOUS
  <2>2. \A buffer, cur : At(buffer, cur, a) => Read(buffer, cur, 8) = o
    BY <2>1, ReadNumber, Zenon
  <2>3. \A buffer, cur : At(buffer, cur, b) => Count(buffer, cur) = n
    BY <1>1, ReadCount, Zenon
  <2> QED
    BY <2>2, <2>3
<1>4. copy_entry(o, vec) = a \o b \o c
  BY Zenon DEF copy_entry
<1> HIDE DEF n, a, b, c
<1>5. IsSeq(a \o b \o c) /\ Len(a \o b \o c) = Len(a) + Len(b) + Len(c)
  <2>1. IsSeq(a) /\ IsSeq(b) /\ IsSeq(c)
    BY <1>1, <1>2, Zenon
  <2> QED
    BY ONLY <2>1, ThreeFields
<1>6. \A buffer, cur : At(buffer, cur, a \o b \o c) =>
          At(buffer, cur, a) /\ At(buffer, cur + Len(a), b) /\ At(buffer, cur + Len(a) + Len(b), c)
  BY ONLY <1>1, <1>2, ThreeFields, Zenon
<1>7. Len(a) + Len(b) + Len(c) = 16 + SizeOfPeer * n
  BY ONLY <1>1, <1>2 DEF SizeOfPeer
<1>8. ASSUME NEW buffer, NEW cur, At(buffer, cur, a \o b \o c)
      PROVE  /\ Read(buffer, cur, 8) = o /\ Count(buffer, cur + 8) = n
             /\ obtain_vector(buffer, cur + 16, n) = vec
  <2>1. At(buffer, cur, a) /\ At(buffer, cur + 8, b) /\ At(buffer, cur + 8 + 8, c)
    BY <1>2, <1>6, <1>8, Zenon
  <2>2. cur \in Nat
    BY <2>1, Zenon DEF At
  <2>3. cur + 8 + 8 = cur + 16
    BY ONLY <2>2
  <2> QED
    BY <1>1, <1>3, <2>1, <2>3, Zenon
<1> QED
  BY <1>4, <1>5, <1>7, <1>8, Zenon DEF n, EntryAt

\* Vectors of numbers and of keys
LEMMA NumbersRead ==
  ASSUME NEW n \in Nat, NEW f
  PROVE  LET s == FlattenSeq([k \in 1 .. n |-> Number(8, f[k])])
         IN  /\ IsSeq(s) /\ Len(s) = n * 8
             /\ \A buffer, cur : At(buffer, cur, s) =>
                  \A k \in 1 .. n : At(buffer, cur + (k - 1) * 8, Number(8, f[k]))
<1> DEFINE seqs == [k \in 1 .. n |-> Number(8, f[k])]
<1>1. seqs = [k \in 1 .. n |-> seqs[k]] /\ \A k \in 1 .. n : seqs[k] = Number(8, f[k])
  OBVIOUS
<1>2. \A k \in 1 .. n : IsSeq(seqs[k]) /\ Len(seqs[k]) = 8
  BY <1>1, FieldSizes
<1> HIDE DEF seqs
<1>3. /\ IsSeq(FlattenSeq(seqs)) /\ Len(FlattenSeq(seqs)) = n * 8
      /\ \A buffer, cur : At(buffer, cur, FlattenSeq(seqs)) =>
           \A k \in 1 .. n : At(buffer, cur + (k - 1) * 8, seqs[k])
  BY <1>1, <1>2, EvenlyAt
<1> QED
  BY <1>1, <1>3 DEF seqs

\* Keys of 16 bytes are read where they lie.
LEMMA KeysRead ==
  ASSUME NEW n \in Nat, NEW f
  PROVE  LET s == FlattenSeq([k \in 1 .. n |-> Opaque(16, f[k])])
         IN  /\ IsSeq(s) /\ Len(s) = n * 16
             /\ \A buffer, cur : At(buffer, cur, s) =>
                  \A k \in 1 .. n : buffer[cur + (k - 1) * 16][2] = f[k]
<1> DEFINE seqs == [k \in 1 .. n |-> Opaque(16, f[k])]
<1>1. seqs = [k \in 1 .. n |-> seqs[k]] /\ \A k \in 1 .. n : seqs[k] = Opaque(16, f[k])
  OBVIOUS
<1>2. \A k \in 1 .. n : IsSeq(seqs[k]) /\ Len(seqs[k]) = 16 /\ seqs[k][1][2] = f[k]
  <2>1. 16 \in Nat /\ 1 \in 1 .. 16
    OBVIOUS
  <2>2. \A name : /\ IsSeq(Opaque(16, name)) /\ Len(Opaque(16, name)) = 16
                  /\ Opaque(16, name)[1][2] = name
    BY <2>1, OpaqueSeq, Zenon
  <2> HIDE DEF seqs
  <2> TAKE k \in 1 .. n
  <2>3. seqs[k] = Opaque(16, f[k])
    BY <1>1, Zenon
  <2>4. /\ IsSeq(Opaque(16, f[k])) /\ Len(Opaque(16, f[k])) = 16
        /\ Opaque(16, f[k])[1][2] = f[k]
    BY <2>2, Zenon
  <2> QED
    BY ONLY <2>3, <2>4
<1> HIDE DEF seqs
<1>3. /\ IsSeq(FlattenSeq(seqs)) /\ Len(FlattenSeq(seqs)) = n * 16
      /\ \A buffer, cur : At(buffer, cur, FlattenSeq(seqs)) =>
           \A k \in 1 .. n : At(buffer, cur + (k - 1) * 16, seqs[k])
  BY <1>1, <1>2, EvenlyAt
<1>4. ASSUME NEW buffer, NEW cur, At(buffer, cur, FlattenSeq(seqs)), NEW k \in 1 .. n
      PROVE  buffer[cur + (k - 1) * 16][2] = f[k]
  <2> DEFINE c == cur + (k - 1) * 16
  <2>1. At(buffer, c, seqs[k]) /\ Len(seqs[k]) = 16 /\ seqs[k][1][2] = f[k]
    BY <1>2, <1>3, <1>4
  <2> HIDE DEF c
  <2>2. c \in Nat /\ buffer[c + 1 - 1] = seqs[k][1]
    BY ONLY <2>1 DEF At
  <2>3. c + 1 - 1 = c
    BY ONLY <2>2
  <2> QED
    BY <2>1, <2>2, <2>3 DEF c
<1> QED
  BY <1>3, <1>4, Zenon DEF seqs

\* A total is summed step by step.
LEMMA TotalSteps ==
  ASSUME NEW n \in Nat, NEW numbers, Len(numbers) = n, \A k \in 1 .. n : numbers[k] \in Nat
  PROVE  \E g \in [0 .. n -> Nat] :
           /\ g[0] = 0 /\ \A k \in 1 .. n : g[k] = g[k - 1] + numbers[k]
           /\ Total(numbers) = g[n]
<1> DEFINE body(f) == [k \in 0 .. n |-> IF k = 0 THEN 0 ELSE f[k - 1] + numbers[k]]
           F == CHOOSE f : f = body(f)
           step == [p \in Nat \X Nat |-> IF p[1] + 1 <= n THEN p[2] + numbers[p[1] + 1] ELSE p[2]]
<1>1. step \in [Nat \X Nat -> Nat]
  <2>1. ASSUME NEW k \in Nat, NEW x \in Nat, k + 1 <= n
        PROVE  x + numbers[k + 1] \in Nat
    <3>1. k + 1 \in 1 .. n
      BY <2>1
    <3> QED
      BY <3>1
  <2> QED
    BY <2>1
<1>2. \A k \in Nat, x \in Nat : k + 1 <= n => step[<<k, x>>] = x + numbers[k + 1]
  OBVIOUS
<1> HIDE DEF step
<1>3. PICK h : Follows(h, Nat, 0, step)
  <2>1. 0 \in Nat
    OBVIOUS
  <2> QED
    BY <1>1, <2>1, Recursion, Zenon
<1>4. h \in [Nat -> Nat] /\ h[0] = 0 /\ \A k \in Nat : h[k + 1] = step[<<k, h[k]>>]
  BY <1>3 DEF Follows
<1> DEFINE g == [k \in 0 .. n |-> h[k]]
<1>5. ASSUME NEW k \in 1 .. n
      PROVE  h[k] = h[k - 1] + numbers[k]
  <2>1. k - 1 \in Nat /\ (k - 1) + 1 = k /\ (k - 1) + 1 <= n
    OBVIOUS
  <2>2. h[(k - 1) + 1] = step[<<k - 1, h[k - 1]>>] /\ h[k - 1] \in Nat
    BY <1>4, <2>1
  <2>3. step[<<k - 1, h[k - 1]>>] = h[k - 1] + numbers[(k - 1) + 1]
    BY <1>2, <2>1, <2>2
  <2> QED
    BY <2>1, <2>2, <2>3
<1>6. g = body(g)
  <2>1. ASSUME NEW k \in 0 .. n
        PROVE  g[k] = IF k = 0 THEN 0 ELSE g[k - 1] + numbers[k]
    <3>1. CASE k = 0
      BY <1>4, <3>1
    <3>2. CASE k # 0
      <4>1. k \in 1 .. n /\ k - 1 \in 0 .. n
        BY <3>2
      <4> QED
        BY <1>5, <3>2, <4>1
    <3> QED
      BY <3>1, <3>2
  <2> QED
    BY <2>1
<1> HIDE DEF body, g
<1>7. F = body(F)
  BY <1>6
<1>8. Total(numbers) = F[n]
  <2>1. Total(numbers) = (CHOOSE f : f = [k \in 0 .. Len(numbers) |->
                                           IF k = 0 THEN 0 ELSE f[k - 1] + numbers[k]])[Len(numbers)]
    BY Zenon DEF Total
  <2> QED
    BY <2>1 DEF F, body
<1> HIDE DEF F
<1>9. F[0] = 0 /\ \A k \in 1 .. n : F[k] = F[k - 1] + numbers[k]
  BY <1>7 DEF body
<1>10. F = [k \in 0 .. n |-> F[k]]
  BY <1>7 DEF body
<1>11. \A k \in 0 .. n : F[k] \in Nat
  <2> DEFINE T == {k \in Nat : k <= n => F[k] \in Nat}
  <2>1. 0 \in T
    BY <1>9
  <2>2. ASSUME NEW k \in Nat, k \in T, k + 1 <= n
        PROVE  F[k + 1] \in Nat
    <3>1. k + 1 \in 1 .. n /\ (k + 1) - 1 = k /\ F[k] \in Nat
      BY <2>2
    <3> QED
      BY <1>9, <3>1
  <2>3. \A k \in Nat : k \in T => k + 1 \in T
    BY <2>2
  <2>4. Nat \subseteq T
    <3> HIDE DEF T
    <3> QED
      BY <2>1, <2>3, Induction
  <2> QED
    BY <2>4
<1>12. F \in [0 .. n -> Nat]
  BY <1>10, <1>11
<1> QED
  BY <1>8, <1>9, <1>12

\* Entries are as long as their sizes and a key each.
LEMMA EntriesLength ==
  ASSUME NEW n \in Nat, NEW seqs, seqs = [k \in 1 .. n |-> seqs[k]],
         NEW numbers, Len(numbers) = n,
         \A k \in 1 .. n : numbers[k] \in Nat /\ IsSeq(seqs[k]) /\ Len(seqs[k]) = 8 + numbers[k]
  PROVE  Len(FlattenSeq(seqs)) = 8 * n + Total(numbers) /\ Total(numbers) \in Nat
<1>1. PICK off \in [0 .. n -> Nat] :
        /\ off[0] = 0 /\ off[n] = Len(FlattenSeq(seqs))
        /\ \A k \in 1 .. n : off[k] = off[k - 1] + Len(seqs[k])
  <2>1. \A k \in 1 .. n : IsSeq(seqs[k])
    OBVIOUS
  <2> QED
    BY <2>1, FlattenAt, Zenon
<1>2. PICK g \in [0 .. n -> Nat] :
        /\ g[0] = 0 /\ \A k \in 1 .. n : g[k] = g[k - 1] + numbers[k]
        /\ Total(numbers) = g[n]
  <2>1. \A k \in 1 .. n : numbers[k] \in Nat
    OBVIOUS
  <2> QED
    BY <2>1, TotalSteps, Zenon
<1> DEFINE T == {k \in Nat : k <= n => off[k] = 8 * k + g[k]}
<1>3. 0 \in T
  BY <1>1, <1>2
<1>4. ASSUME NEW k \in Nat, k \in T, k + 1 <= n
      PROVE  off[k + 1] = 8 * (k + 1) + g[k + 1]
  <2>1. /\ k \in Nat /\ k + 1 \in 1 .. n /\ (k + 1) - 1 = k /\ k \in 0 .. n
        /\ off[k] = 8 * k + g[k]
    BY <1>4
  <2>2. off[k + 1] = off[k] + Len(seqs[k + 1]) /\ g[k + 1] = g[k] + numbers[k + 1]
    BY <1>1, <1>2, <2>1
  <2>3. Len(seqs[k + 1]) = 8 + numbers[k + 1] /\ numbers[k + 1] \in Nat
    BY <2>1
  <2>4. g[k] \in Nat
    BY <1>2, <2>1
  <2> DEFINE x == numbers[k + 1]
             y == g[k]
             z == g[k + 1]
  <2>5. off[k + 1] = (8 * k + y) + (8 + x) /\ z = y + x /\ x \in Nat /\ y \in Nat /\ k \in Nat
    BY <2>1, <2>2, <2>3, <2>4, Zenon
  <2> HIDE DEF x, y, z
  <2>6. off[k + 1] = 8 * (k + 1) + z
    BY ONLY <2>5
  <2> QED
    BY <2>6 DEF z
<1>5. \A k \in Nat : k \in T => k + 1 \in T
  BY <1>4
<1>6. Nat \subseteq T
  <2> HIDE DEF T
  <2> QED
    BY <1>3, <1>5, Induction
<1>7. n \in T /\ n <= n /\ n \in 0 .. n
  BY <1>6
<1>8. off[n] = 8 * n + g[n] /\ g[n] \in Nat
  BY <1>2, <1>7
<1> QED
  BY <1>1, <1>2, <1>8

\* The entries of gamma_route in an init message
RouteEntries(map) ==
  FlattenSeq([k \in DOMAIN KeysOf(map) |-> copy_entry(KeysOf(map)[k], map[KeysOf(map)[k]])])

EntrySizes(map) ==
  [k \in DOMAIN VectorsOf(map) |-> 8 + SizeOfPeer * Len(VectorsOf(map)[k])]

\* gamma_route is read from an init message as it was written, and has the reserved size.
LEMMA RouteEntriesRead ==
  ASSUME NEW map, IsTable(map)
  PROVE  LET n == Len(KeysOf(map))
         IN  /\ n \in Nat /\ Len(VectorsOf(map)) = n
             /\ IsSeq(RouteEntries(map))
             /\ Len(RouteEntries(map)) = 8 * n + Total(EntrySizes(map)) /\ Total(EntrySizes(map)) \in Nat
             /\ \A buffer, first : At(buffer, first, RouteEntries(map)) =>
                  LET at == Cursors(first, [c \in Nat |-> c + 16 + SizeOfPeer * Count(buffer, c + 8)])
                  IN  MapOf([k \in 1 .. n |-> Read(buffer, at[k - 1], 8)],
                            [k \in 1 .. n |-> obtain_vector(buffer, at[k - 1] + 16, Count(buffer, at[k - 1] + 8))])
                        = map
<1> DEFINE keys == KeysOf(map)
           n == Len(keys)
           vec(k) == map[keys[k]]
           seqs == [k \in DOMAIN keys |-> copy_entry(keys[k], map[keys[k]])]
           vectors == VectorsOf(map)
           sizes == EntrySizes(map)
<1>1. /\ n \in Nat /\ DOMAIN keys = 1 .. n /\ keys = [k \in 1 .. n |-> keys[k]]
      /\ \A k \in 1 .. n : keys[k] \in DOMAIN map
  BY KeysInOrder, Zenon DEF IsTable
<1>2. RouteEntries(map) = FlattenSeq(seqs)
  BY Zenon DEF RouteEntries
<1>3. vectors = [k \in 1 .. n |-> vec(k)]
  BY <1>1, Zenon DEF VectorsOf
<1>4. \A k \in 1 .. n : vec(k) \in Seq(PeerInformation)
  BY <1>1, Zenon DEF IsTable
<1> HIDE DEF n, keys, vec
<1>5. Len(vectors) = n /\ DOMAIN vectors = 1 .. n /\ \A k \in 1 .. n : vectors[k] = vec(k)
  BY <1>1, <1>3
<1> HIDE DEF vectors
<1>6. Len(sizes) = n /\ \A k \in 1 .. n : sizes[k] = 8 + SizeOfPeer * Len(vec(k))
  BY <1>1, <1>5 DEF EntrySizes, vectors
<1> HIDE DEF sizes
<1>7. seqs = [k \in 1 .. n |-> seqs[k]] /\ \A k \in 1 .. n : seqs[k] = copy_entry(keys[k], vec(k))
  BY <1>1 DEF vec
<1> HIDE DEF seqs
<1>8. ASSUME NEW k \in 1 .. n
      PROVE  /\ IsSeq(seqs[k]) /\ Len(seqs[k]) = 16 + SizeOfPeer * Len(vec(k)) /\ Len(vec(k)) \in Nat
             /\ \A b, c : At(b, c, seqs[k]) => EntryAt(b, c, keys[k], vec(k))
  <2>1. vec(k) \in Seq(PeerInformation) /\ seqs[k] = copy_entry(keys[k], vec(k))
    BY <1>4, <1>7, Zenon
  <2>2. /\ IsSeq(copy_entry(keys[k], vec(k)))
        /\ Len(copy_entry(keys[k], vec(k))) = 16 + SizeOfPeer * Len(vec(k))
        /\ \A b, c : At(b, c, copy_entry(keys[k], vec(k))) => EntryAt(b, c, keys[k], vec(k))
    BY <2>1, EntryRead, Zenon
  <2>3. Len(vec(k)) \in Nat
    BY <2>1, LenProperties, Zenon
  <2> QED
    BY ONLY <2>1, <2>2, <2>3
<1>9. Len(FlattenSeq(seqs)) = 8 * n + Total(sizes) /\ Total(sizes) \in Nat
  <2>1. ASSUME NEW k \in 1 .. n
        PROVE  sizes[k] \in Nat /\ IsSeq(seqs[k]) /\ Len(seqs[k]) = 8 + sizes[k]
    <3>1. /\ sizes[k] = 8 + SizeOfPeer * Len(vec(k)) /\ Len(vec(k)) \in Nat /\ IsSeq(seqs[k])
          /\ Len(seqs[k]) = 16 + SizeOfPeer * Len(vec(k))
      BY <1>6, <1>8, Zenon
    <3> QED
      BY ONLY <3>1 DEF SizeOfPeer
  <2> QED
    BY <1>1, <1>6, <1>7, <2>1, EntriesLength, Zenon
<1>10. Entries(seqs, n)
  BY <1>1, <1>7, <1>8, Zenon DEF Entries
<1>11. IsSeq(FlattenSeq(seqs))
  BY <1>1, <1>7, <1>8, FlattenAt, Zenon
<1>12. ASSUME NEW buffer, NEW first, At(buffer, first, FlattenSeq(seqs))
       PROVE  LET at == Cursors(first, [c \in Nat |-> c + 16 + SizeOfPeer * Count(buffer, c + 8)])
              IN  MapOf([k \in 1 .. n |-> Read(buffer, at[k - 1], 8)],
                        [k \in 1 .. n |-> obtain_vector(buffer, at[k - 1] + 16, Count(buffer, at[k - 1] + 8))])
                    = map
  <2> DEFINE next == [c \in Nat |-> c + 16 + SizeOfPeer * Count(buffer, c + 8)]
             at == Cursors(first, next)
             read == [k \in 1 .. n |-> Read(buffer, at[k - 1], 8)]
             values == [k \in 1 .. n |-> obtain_vector(buffer, at[k - 1] + 16, Count(buffer, at[k - 1] + 8))]
  <2>1. Strides(buffer, next, seqs, n)
    <3>1. next \in [Nat -> Nat]
      <4>1. \A c \in Nat : c + 16 + SizeOfPeer * Count(buffer, c + 8) \in Nat
        BY CountIsNat DEF SizeOfPeer
      <4> QED
        BY <4>1
    <3>2. ASSUME NEW k \in 1 .. n, NEW x \in Nat, At(buffer, x, seqs[k])
          PROVE  next[x] = x + Len(seqs[k])
      <4>1. Len(seqs[k]) = 16 + SizeOfPeer * Len(vec(k)) /\ Len(vec(k)) \in Nat
        BY <1>8, Zenon
      <4>2. Count(buffer, x + 8) = Len(vec(k))
        BY <1>8, <3>2, Zenon DEF EntryAt
      <4>3. next[x] = x + 16 + SizeOfPeer * Count(buffer, x + 8) /\ x \in Nat
        OBVIOUS
      <4> HIDE DEF next
      <4> QED
        BY ONLY <4>1, <4>2, <4>3 DEF SizeOfPeer
    <3> HIDE DEF next
    <3> QED
      BY <3>1, <3>2, Zenon DEF Strides
  <2>2. \A k \in 1 .. n : At(buffer, at[k - 1], seqs[k])
    <3> HIDE DEF next
    <3> QED
      BY <1>10, <1>12, <2>1, EntriesMet, Zenon
  <2> HIDE DEF at, next
  <2>3. ASSUME NEW k \in 1 .. n
        PROVE  /\ Read(buffer, at[k - 1], 8) = keys[k]
               /\ obtain_vector(buffer, at[k - 1] + 16, Count(buffer, at[k - 1] + 8)) = vec(k)
    <3>1. EntryAt(buffer, at[k - 1], keys[k], vec(k))
      BY <1>8, <2>2, Zenon
    <3> QED
      BY <3>1, Zenon DEF EntryAt
  <2>4. read = keys
    BY <1>1, <2>3
  <2>5. \A k \in 1 .. n : values[k] = map[keys[k]]
    BY <2>3 DEF vec
  <2> HIDE DEF read, values
  <2>6. MapOf(KeysOf(map), values) = map
    <3>1. \A k \in 1 .. Len(KeysOf(map)) : values[k] = map[KeysOf(map)[k]]
      BY <2>5, Zenon DEF n, keys
    <3> QED
      BY <3>1, MapRead, Zenon DEF IsTable
  <2>7. MapOf(read, values) = map
    BY <2>4, <2>6, Zenon DEF keys
  <2> QED
    BY <2>7, Zenon DEF read, values, at, next
<1> QED
  BY <1>1, <1>2, <1>5, <1>9, <1>11, <1>12, Zenon DEF n, keys, vectors, sizes

\* An init message has the size computed for it and is read as it was written.
LEMMA InitMessageRead ==
  ASSUME NEW m \in InitMessage, IsTable(m.gamma_route)
  PROVE  /\ IsSeq(init_fields(m)) /\ Len(init_fields(m)) = init_size(m) /\ init_size(m) \in Nat
         /\ init_size(m) >= 120
         /\ get_message_type(init_fields(m)) = kTypeInitMessage
         /\ read_init(init_fields(m)) = m
<1> DEFINE map == m.gamma_route
           n1 == Len(m.gamma_send)
           n2 == Len(m.gamma_receive)
           n3 == Len(KeysOf(map))
           a == Number(8, kTypeInitMessage)
           b == FlattenSeq([k \in 1 .. 5 |-> Number(8, Header(m)[k])])
           c == FlattenSeq([k \in 1 .. 3 |-> Number(8, EntryCounts(m)[k])])
           d == FlattenSeq([k \in 1 .. 3 |-> Opaque(16, KeysIn(m)[k])])
           e == copy_vector(m.gamma_send)
           f == copy_vector(m.gamma_receive)
           g == RouteEntries(map)
           five == a \o b \o c \o d \o e
           all == five \o f \o g
           total == Total(EntrySizes(map))
           readroute(first, n) ==
             LET at == Cursors(first, [x \in Nat |-> x + 16 + SizeOfPeer * Count(all, x + 8)])
             IN  MapOf([k \in 1 .. n |-> Read(all, at[k - 1], 8)],
                       [k \in 1 .. n |-> obtain_vector(all, at[k - 1] + 16, Count(all, at[k - 1] + 8))])
<1>1. /\ m.gamma_send \in Seq(PeerInformation) /\ m.gamma_receive \in Seq(PeerInformation)
      /\ m = [receiver_id |-> m.receiver_id, num_total_nodes |-> m.num_total_nodes,
              overlay_dimension |-> m.overlay_dimension, onid_assoc |-> m.onid_assoc,
              onid_emul |-> m.onid_emul, gamma_send |-> m.gamma_send,
              gamma_receive |-> m.gamma_receive, gamma_route |-> m.gamma_route,
              sk_pseud |-> m.sk_pseud, sk_enc |-> m.sk_enc, sk_routing |-> m.sk_routing]
  BY DEF InitMessage
<1>2. /\ n1 \in Nat /\ IsSeq(e) /\ Len(e) = n1 * SizeOfPeer
      /\ \A buffer, cur : At(buffer, cur, e) => obtain_vector(buffer, cur, n1) = m.gamma_send
  BY <1>1, VectorRead, Zenon
<1>3. /\ n2 \in Nat /\ IsSeq(f) /\ Len(f) = n2 * SizeOfPeer
      /\ \A buffer, cur : At(buffer, cur, f) => obtain_vector(buffer, cur, n2) = m.gamma_receive
  BY <1>1, VectorRead, Zenon
<1>4. /\ n3 \in Nat /\ Len(VectorsOf(map)) = n3
      /\ IsSeq(g) /\ Len(g) = 8 * n3 + total /\ total \in Nat
      /\ \A first : At(all, first, g) => readroute(first, n3) = map
  BY RouteEntriesRead, Zenon
<1>5. IsSeq(a) /\ Len(a) = 8 /\ \A buffer, cur : At(buffer, cur, a) => Read(buffer, cur, 8) = kTypeInitMessage
  <2>1. 8 \in Nat \ {0}
    OBVIOUS
  <2> QED
    BY <2>1, FieldSizes, ReadNumber, Zenon
<1>6. 3 \in Nat /\ 5 \in Nat /\ 8 \in Nat \ {0}
  OBVIOUS
<1>7. /\ IsSeq(b) /\ Len(b) = 5 * 8
      /\ \A buffer, cur : At(buffer, cur, b) =>
           \A k \in 1 .. 5 : At(buffer, cur + (k - 1) * 8, Number(8, Header(m)[k]))
  BY <1>6, NumbersRead, Zenon
<1>8. /\ IsSeq(c) /\ Len(c) = 3 * 8
      /\ \A buffer, cur : At(buffer, cur, c) =>
           \A k \in 1 .. 3 : At(buffer, cur + (k - 1) * 8, Number(8, EntryCounts(m)[k]))
  BY <1>6, NumbersRead, Zenon
<1>9. /\ IsSeq(d) /\ Len(d) = 3 * 16
      /\ \A buffer, cur : At(buffer, cur, d) =>
           \A k \in 1 .. 3 : buffer[cur + (k - 1) * 16][2] = KeysIn(m)[k]
  BY <1>6, KeysRead, Zenon
<1>10. init_fields(m) = all
  BY Zenon DEF init_fields, RouteEntries
<1>11. init_size(m) = 9 * 8 + 16 * 2 + 16 + SizeOfPeer * (n1 + n2) + 8 * n3 + total
  <2>1. init_size(m) = 9 * 8 + 16 * 2 + 16 + SizeOfPeer * (n1 + n2) + 8 * Len(VectorsOf(map)) + total
    BY Zenon DEF init_size, FixedSize, EntrySizes
  <2> QED
    BY <1>4, <2>1, Zenon
<1>12. /\ EntryCounts(m)[1] = n1 /\ EntryCounts(m)[2] = n2 /\ EntryCounts(m)[3] = n3
       /\ KeysIn(m)[1] = m.sk_pseud /\ KeysIn(m)[2] = m.sk_enc /\ KeysIn(m)[3] = m.sk_routing
       /\ Header(m)[1] = m.receiver_id /\ Header(m)[2] = m.num_total_nodes
       /\ Header(m)[3] = m.overlay_dimension /\ Header(m)[4] = m.onid_assoc
       /\ Header(m)[5] = m.onid_emul
  BY DEF EntryCounts, KeysIn, Header
<1> HIDE DEF n1, n2, n3, a, b, c, d, e, f, g, total
<1>13. IsSeq(five) /\ Len(five) = Len(a) + Len(b) + Len(c) + Len(d) + Len(e)
  <2>1. IsSeq(a) /\ IsSeq(b) /\ IsSeq(c) /\ IsSeq(d) /\ IsSeq(e)
    BY <1>2, <1>5, <1>7, <1>8, <1>9, Zenon
  <2> QED
    BY ONLY <2>1, FiveFields
<1>14. \A buffer, cur : At(buffer, cur, five) => FiveAt(buffer, cur, a, b, c, d, e)
  <2>1. IsSeq(a) /\ IsSeq(b) /\ IsSeq(c) /\ IsSeq(d) /\ IsSeq(e)
    BY <1>2, <1>5, <1>7, <1>8, <1>9, Zenon
  <2> QED
    BY ONLY <2>1, FiveFields, Zenon
<1> HIDE DEF five
<1>15. /\ IsSeq(all) /\ Len(all) = Len(five) + Len(f) + Len(g)
       /\ At(all, 1, five) /\ At(all, 1 + Len(five), f) /\ At(all, 1 + Len(five) + Len(f), g)
  <2>1. IsSeq(five) /\ IsSeq(f) /\ IsSeq(g)
    BY <1>3, <1>4, <1>13, Zenon
  <2>2. IsSeq(five \o f \o g) /\ Len(five \o f \o g) = Len(five) + Len(f) + Len(g)
    BY ONLY <2>1, ThreeFields
  <2>3. \A buffer, cur : At(buffer, cur, five \o f \o g) =>
          At(buffer, cur, five) /\ At(buffer, cur + Len(five), f)
            /\ At(buffer, cur + Len(five) + Len(f), g)
    BY ONLY <2>1, ThreeFields, Zenon
  <2>4. At(five \o f \o g, 1, five \o f \o g)
    BY ONLY <2>2, WholeAt, Zenon
  <2> QED
    BY <2>2, <2>3, <2>4, Zenon
<1>16. FiveAt(all, 1, a, b, c, d, e)
  BY <1>14, <1>15, Zenon
<1> HIDE DEF all
<1> DEFINE receive == 121 + SizeOfPeer * n1
           entries == receive + SizeOfPeer * n2
<1>17. /\ At(all, 1, a) /\ At(all, 9, b) /\ At(all, 49, c) /\ At(all, 73, d) /\ At(all, 121, e)
       /\ At(all, receive, f) /\ At(all, entries, g)
       /\ Len(all) = init_size(m) /\ init_size(m) \in Nat /\ init_size(m) >= 120
  <2>1. /\ Len(a) = 8 /\ Len(b) = 40 /\ Len(c) = 24 /\ Len(d) = 48 /\ Len(e) = 40 * n1
        /\ Len(f) = 40 * n2 /\ Len(g) = 8 * n3 + total
        /\ n1 \in Nat /\ n2 \in Nat /\ n3 \in Nat /\ total \in Nat
    <3>1. /\ Len(b) = 5 * 8 /\ Len(c) = 3 * 8 /\ Len(d) = 3 * 16
          /\ Len(e) = n1 * 40 /\ Len(f) = n2 * 40 /\ n1 \in Nat /\ n2 \in Nat
      BY <1>2, <1>3, <1>7, <1>8, <1>9, Zenon DEF SizeOfPeer
    <3>2. Len(a) = 8 /\ Len(g) = 8 * n3 + total /\ n3 \in Nat /\ total \in Nat
      BY <1>4, <1>5, Zenon
    <3> QED
      BY ONLY <3>1, <3>2
  <2>2. /\ 1 + Len(a) = 9 /\ 1 + Len(a) + Len(b) = 49 /\ 1 + Len(a) + Len(b) + Len(c) = 73
        /\ 1 + Len(a) + Len(b) + Len(c) + Len(d) = 121
        /\ 1 + Len(five) = receive /\ 1 + Len(five) + Len(f) = entries
    BY ONLY <1>13, <2>1 DEF SizeOfPeer
  <2>3. Len(all) = init_size(m) /\ init_size(m) \in Nat /\ init_size(m) >= 120
    BY ONLY <1>11, <1>13, <1>15, <2>1 DEF SizeOfPeer
  <2>4. /\ At(all, 1, a) /\ At(all, 1 + Len(a), b) /\ At(all, 1 + Len(a) + Len(b), c)
        /\ At(all, 1 + Len(a) + Len(b) + Len(c), d)
        /\ At(all, 1 + Len(a) + Len(b) + Len(c) + Len(d), e)
    BY <1>16, Zenon DEF FiveAt
  <2> HIDE DEF receive, entries
  <2> QED
    BY <1>15, <2>2, <2>3, <2>4, Zenon
<1>18. get_message_type(all) = kTypeInitMessage
  BY <1>5, <1>17, Zenon DEF get_message_type
<1>19. ASSUME NEW k \in 1 .. 5
       PROVE  Read(all, 1 + 8 * k, 8) = Header(m)[k]
  <2>1. At(all, 9 + (k - 1) * 8, Number(8, Header(m)[k]))
    BY <1>7, <1>17, Zenon
  <2>2. 9 + (k - 1) * 8 = 1 + 8 * k
    OBVIOUS
  <2>3. At(all, 1 + 8 * k, Number(8, Header(m)[k]))
    BY ONLY <2>1, <2>2, Zenon
  <2> QED
    BY <1>6, <2>3, ReadNumber, Zenon
<1>20. ASSUME NEW k \in 1 .. 3, EntryCounts(m)[k] \in Nat
       PROVE  Count(all, 49 + 8 * (k - 1)) = EntryCounts(m)[k]
  <2>1. At(all, 49 + (k - 1) * 8, Number(8, EntryCounts(m)[k]))
    BY <1>8, <1>17, Zenon
  <2>2. 49 + (k - 1) * 8 = 49 + 8 * (k - 1)
    OBVIOUS
  <2>3. At(all, 49 + 8 * (k - 1), Number(8, EntryCounts(m)[k]))
    BY ONLY <2>1, <2>2, Zenon
  <2> QED
    BY <1>20, <2>3, ReadCount, Zenon
<1>21. ASSUME NEW k \in 1 .. 3
       PROVE  all[73 + 16 * (k - 1)][2] = KeysIn(m)[k]
  <2>1. all[73 + (k - 1) * 16][2] = KeysIn(m)[k]
    <3>1. At(all, 73, d)
      BY <1>17, Zenon
    <3>2. \A l \in 1 .. 3 : all[73 + (l - 1) * 16][2] = KeysIn(m)[l]
      BY ONLY <1>9, <3>1
    <3> QED
      BY <3>2, Zenon
  <2>2. 73 + (k - 1) * 16 = 73 + 16 * (k - 1)
    OBVIOUS
  <2> QED
    BY ONLY <2>1, <2>2, Zenon
<1>22. /\ obtain_vector(all, 121, n1) = m.gamma_send
       /\ obtain_vector(all, receive, n2) = m.gamma_receive
       /\ readroute(entries, n3) = map
  <2> HIDE DEF readroute
  <2> QED
    BY <1>2, <1>3, <1>4, <1>17, Zenon
<1> DEFINE header(k) == Read(all, 1 + 8 * k, 8)
           count(k) == Count(all, 49 + 8 * (k - 1))
           key(k) == all[73 + 16 * (k - 1)][2]
           place == 121 + SizeOfPeer * count(1)
<1>23. /\ header(1) = m.receiver_id /\ header(2) = m.num_total_nodes
       /\ header(3) = m.overlay_dimension /\ header(4) = m.onid_assoc /\ header(5) = m.onid_emul
       /\ count(1) = n1 /\ count(2) = n2 /\ count(3) = n3
       /\ key(1) = m.sk_pseud /\ key(2) = m.sk_enc /\ key(3) = m.sk_routing
  <2> HIDE DEF header, count, key
  <2>1. /\ \A k \in 1 .. 5 : header(k) = Header(m)[k]
        /\ \A k \in 1 .. 3 : EntryCounts(m)[k] \in Nat => count(k) = EntryCounts(m)[k]
        /\ \A k \in 1 .. 3 : key(k) = KeysIn(m)[k]
    BY <1>19, <1>20, <1>21, Zenon DEF header, count, key
  <2>2. {1, 2, 3, 4, 5} \subseteq 1 .. 5 /\ {1, 2, 3} \subseteq 1 .. 3
    OBVIOUS
  <2>3. n1 \in Nat /\ n2 \in Nat /\ n3 \in Nat
    BY <1>2, <1>3, <1>4, Zenon
  <2> QED
    BY ONLY <1>12, <2>1, <2>2, <2>3
<1>24. read_init(all) =
         [receiver_id |-> header(1), num_total_nodes |-> header(2), overlay_dimension |-> header(3),
          onid_assoc |-> header(4), onid_emul |-> header(5),
          gamma_send |-> obtain_vector(all, 121, count(1)),
          gamma_receive |-> obtain_vector(all, place, count(2)),
          gamma_route |-> readroute(place + SizeOfPeer * count(2), count(3)),
          sk_pseud |-> key(1), sk_enc |-> key(2), sk_routing |-> key(3)]
  BY Zenon DEF read_init
<1> HIDE DEF header, count, key, readroute
<1>25. read_init(all) = m
  BY <1>1, <1>22, <1>23, <1>24, Zenon
<1> QED
  BY <1>10, <1>15, <1>17, <1>18, <1>25, Zenon

\* A join message has the size the server asserts and is read as it was written.
LEMMA JoinMessageRead ==
  ASSUME NEW i \in PeerInformation
  PROVE  /\ JoinMessage(i) # <<>> /\ Len(JoinMessage(i)) = 8 + SizeOfPeer
         /\ get_message_type(JoinMessage(i)) = kTypeJoinMessage
         /\ peer_at(JoinMessage(i), 9) = i
<1> DEFINE a == Number(8, kTypeJoinMessage)
           b == memory_of(i)
           all == a \o b
<1>1. IsSeq(a) /\ Len(a) = 8 /\ \A buffer, cur : At(buffer, cur, a) => Read(buffer, cur, 8) = kTypeJoinMessage
  <2>1. 8 \in Nat \ {0}
    OBVIOUS
  <2> QED
    BY <2>1, FieldSizes, ReadNumber, Zenon
<1>2. /\ IsSeq(b) /\ Len(b) = SizeOfPeer
      /\ \A buffer, cur : At(buffer, cur, b) => peer_at(buffer, cur) = i
  BY MemoryRead, Zenon
<1>3. JoinMessage(i) = all
  BY Zenon DEF JoinMessage
<1> HIDE DEF a, b
<1>4. /\ IsSeq(all) /\ Len(all) = Len(a) + Len(b)
      /\ \A buffer, cur : At(buffer, cur, all) => At(buffer, cur, a) /\ At(buffer, cur + Len(a), b)
  BY <1>1, <1>2, TwoFields, Zenon
<1> HIDE DEF all
<1>5. At(all, 1, a) /\ At(all, 1 + Len(a), b)
  BY <1>4, WholeAt, Zenon
<1>6. 1 + Len(a) = 9 /\ Len(all) = 8 + SizeOfPeer /\ all # <<>>
  <2>1. Len(a) = 8 /\ Len(b) = SizeOfPeer /\ Len(all) = Len(a) + Len(b)
    BY <1>1, <1>2, <1>4, Zenon
  <2>2. 1 + Len(a) = 9 /\ Len(all) = 48 /\ 8 + SizeOfPeer = 48
    BY ONLY <2>1 DEF SizeOfPeer
  <2>3. Len(<<>>) # 48
    OBVIOUS
  <2> QED
    BY <2>2, <2>3, Zenon
<1> QED
  BY <1>1, <1>2, <1>3, <1>5, <1>6, Zenon DEF get_message_type

-----------------------------------------------------------------------------
(* Pseudonyms *)

\* The plaintext of a pseudonym is read as it was written.
LEMMA PseudonymRead ==
  ASSUME NEW n \in Pseudonym
  PROVE  /\ IsSeq(serialize_pseudonym(n))
         /\ deserialize_pseudonym(serialize_pseudonym(n)) = n
<1> DEFINE a == Number(8, n.onid_repr)
           b == serialize_peer(n.peer_information)
           c == Number(1, n.local_num)
           all == a \o b \o c
<1>1. /\ n.peer_information \in PeerInformation
      /\ n = [onid_repr |-> n.onid_repr, peer_information |-> n.peer_information,
              local_num |-> n.local_num]
  <2>1. Peers \subseteq PeerInformation
    BY EnvelopeAssumption, Zenon
  <2> QED
    BY <2>1 DEF Pseudonym
<1>2. /\ IsSeq(a) /\ Len(a) = 8 /\ IsSeq(b) /\ Len(b) = PeerBytes /\ IsSeq(c)
  BY <1>1, FieldSizes, PeerRead, Zenon
<1>3. /\ \A buffer, cur : At(buffer, cur, a) => Read(buffer, cur, 8) = n.onid_repr
      /\ \A buffer, cur : At(buffer, cur, b) => deserialize_peer(buffer, cur) = n.peer_information
      /\ \A buffer, cur : At(buffer, cur, c) => Read(buffer, cur, 1) = n.local_num
  <2>1. 8 \in Nat \ {0} /\ 1 \in Nat \ {0}
    OBVIOUS
  <2>2. \A buffer, cur : At(buffer, cur, a) => Read(buffer, cur, 8) = n.onid_repr
    BY <2>1, ReadNumber, Zenon
  <2>3. \A buffer, cur : At(buffer, cur, c) => Read(buffer, cur, 1) = n.local_num
    BY <2>1, ReadNumber, Zenon
  <2>4. \A buffer, cur : At(buffer, cur, b) => deserialize_peer(buffer, cur) = n.peer_information
    BY <1>1, PeerRead, Zenon
  <2> QED
    BY <2>2, <2>3, <2>4, Zenon
<1>4. serialize_pseudonym(n) = all
  BY Zenon DEF serialize_pseudonym
<1> HIDE DEF a, b, c
<1>5. /\ IsSeq(all) /\ At(all, 1, a) /\ At(all, 9, b) /\ At(all, 9 + PeerBytes, c)
  <2>1. IsSeq(a \o b \o c)
    BY ONLY <1>2, ThreeFields
  <2>2. At(a \o b \o c, 1, a \o b \o c)
    BY ONLY <2>1, WholeAt, Zenon
  <2>3. At(a \o b \o c, 1 + Len(a), b) /\ At(a \o b \o c, 1 + Len(a) + Len(b), c)
        /\ At(a \o b \o c, 1, a)
    BY ONLY <1>2, <2>2, ThreeFields, Zenon
  <2>4. 1 + Len(a) = 9
    BY ONLY <1>2
  <2> QED
    BY <1>2, <2>1, <2>3, <2>4, Zenon
<1> HIDE DEF all
<1> QED
  BY <1>1, <1>3, <1>4, <1>5, Zenon DEF deserialize_pseudonym

\* A pseudonym has its fixed size, and as many bytes of its encryption as fit.
LEMMA ResizedSeq ==
  ASSUME NEW c, IsSeq(c), NEW size \in Nat
  PROVE  /\ IsSeq(Resized(c, size)) /\ Len(Resized(c, size)) = size
         /\ \A k \in 1 .. size : k <= Len(c) => Resized(c, size)[k] = c[k]
<1> DEFINE s == Resized(c, size)
<1>1. DOMAIN s = 1 .. size /\ s = [k \in 1 .. size |-> s[k]]
  BY DEF Resized
<1>2. \A k \in 1 .. size : k <= Len(c) => s[k] = c[k]
  BY DEF Resized
<1> HIDE DEF s
<1>3. s \in Seq(ToSet(s)) /\ Len(s) = size
  BY <1>1, ListIsSeq
<1> QED
  BY <1>2, <1>3, Zenon DEF IsSeq, s

\* A buffer that is not the encryption to the byte
LEMMA DecryptResized ==
  ASSUME NEW key, NEW p, IsSeq(p), NEW aad, IsSeq(aad), NEW size \in Nat
  PROVE  decrypt(key, Resized(encrypt(key, p, aad), size)) =
           IF size = Len(encrypt(key, p, aad)) THEN [fails |-> FALSE, p |-> p, aad |-> aad] ELSE Failed
<1> DEFINE c == encrypt(key, p, aad)
           r == Resized(c, size)
           lct == Len(p)
           laad == Len(aad)
<1>1. /\ IsSeq(c) /\ Len(c) = 4 + 4 + 12 + laad + 16 + lct
      /\ At(c, 1, Number(4, lct)) /\ At(c, 5, Number(4, laad))
      /\ decrypt(key, c) = [fails |-> FALSE, p |-> p, aad |-> aad]
  BY DecryptEncrypt, Zenon
<1>2. lct \in Nat /\ laad \in Nat
  BY SeqFacts
<1> HIDE DEF c, lct, laad
<1>3. IsSeq(r) /\ Len(r) = size /\ \A k \in 1 .. size : k <= Len(c) => r[k] = c[k]
  BY <1>1, ResizedSeq, Zenon
<1> HIDE DEF r
<1>4. CASE size = Len(c)
  <2>1. \A k \in 1 .. Len(r) : r[k] = c[k]
    <3>1. Len(c) \in Nat
      BY ONLY <1>1, <1>2
    <3> QED
      BY <1>3, <1>4, <3>1
  <2>2. r = c
    BY <1>1, <1>3, <1>4, <2>1, SeqsEqual, Zenon
  <2> QED
    BY <1>1, <1>4, <2>2, Zenon DEF c, r
<1>5. CASE size # Len(c)
  <2> DEFINE x == Read(r, 1, 4)
             y == Read(r, 5, 4)
  <2>1. Garbage \in {x, y} \/ Len(r) # 4 + 4 + 12 + y + 16 + x
    <3>1. CASE size < 8
      <4>1. ~ (5 + 4 - 1 <= Len(r))
        BY <1>3, <3>1
      <4>2. y = Garbage
        BY <4>1, Zenon DEF Read
      <4> QED
        BY <4>2
    <3>2. CASE ~ (size < 8)
      <4>1. /\ IsSeq(Number(4, lct)) /\ Len(Number(4, lct)) = 4
            /\ IsSeq(Number(4, laad)) /\ Len(Number(4, laad)) = 4
        BY FieldSizes, Zenon
      <4>2. \A k \in 1 .. 8 : r[k] = c[k]
        <5>1. Len(c) >= 8
          BY ONLY <1>1, <1>2
        <5> QED
          BY <1>2, <1>3, <3>2, <5>1
      <4>3. /\ \A k \in 1 .. 4 : c[1 + k - 1] = Number(4, lct)[k]
            /\ \A k \in 1 .. 4 : c[5 + k - 1] = Number(4, laad)[k]
        BY <1>1, <4>1, Zenon DEF At
      <4>4. /\ \A k \in 1 .. 4 : 1 + k - 1 \in 1 .. 8
            /\ \A k \in 1 .. 4 : 5 + k - 1 \in 1 .. 8
            /\ 1 \in Nat \ {0} /\ 5 \in Nat \ {0} /\ 4 \in Nat \ {0}
        OBVIOUS
      <4>5. 1 + 4 - 1 <= Len(r) /\ 5 + 4 - 1 <= Len(r)
        BY <1>3, <3>2
      <4>6. \A k \in 1 .. 4 : r[1 + k - 1] = Number(4, lct)[k] /\ r[5 + k - 1] = Number(4, laad)[k]
        BY <4>2, <4>3, <4>4, Zenon
      <4>7. At(r, 1, Number(4, lct)) /\ At(r, 5, Number(4, laad))
        BY <1>3, <4>1, <4>4, <4>5, <4>6, Zenon DEF At
      <4>8. x = lct /\ y = laad
        BY <4>4, <4>7, ReadNumber, Zenon
      <4> QED
        BY <1>1, <1>3, <1>5, <4>8
    <3> QED
      BY <3>1, <3>2
  <2> HIDE DEF x, y
  <2>2. decrypt(key, r) = Failed
    BY <2>1, Zenon DEF decrypt, x, y
  <2> QED
    BY <1>5, <2>2, Zenon DEF c, r
<1> QED
  BY <1>4, <1>5

-----------------------------------------------------------------------------
(* The host *)

\* The packets of some pairs, as the host sends them
Packets(sender, outs) ==
  [k \in 1 .. Len(outs) |-> [uri |-> outs[k].receiver.uri, c |-> encrypted_packet(sender, outs[k])]]

\* What their receivers make of them
Arrived(sender, outs) == [k \in 1 .. Len(outs) |-> Received(sender, outs[k])]

\* A socket is connected to the uri of the peer whose id it has.
SocketsOfPeers(table) ==
  /\ DOMAIN table \subseteq {i.id : i \in Peers}
  /\ \A i \in Peers : i.id \in DOMAIN table => table[i.id] = i.uri

\* The packets of two calls are those of one call with the outputs of both.
LEMMA PacketsConcat ==
  ASSUME NEW sender, NEW s \in Seq(Output), NEW t \in Seq(Output)
  PROVE  Packets(sender, s \o t) = Packets(sender, s) \o Packets(sender, t)
<1> DEFINE f == [o \in Output |-> [uri |-> o.receiver.uri, c |-> encrypted_packet(sender, o)]]
<1>1. ASSUME NEW q \in Seq(Output)
      PROVE  Packets(sender, q) = [k \in 1 .. Len(q) |-> f[q[k]]]
  <2>1. \A k \in 1 .. Len(q) : q[k] \in Output
    OBVIOUS
  <2>2. \A k \in 1 .. Len(q) :
          f[q[k]] = [uri |-> q[k].receiver.uri, c |-> encrypted_packet(sender, q[k])]
    BY <2>1
  <2> HIDE DEF f
  <2> QED
    BY <2>2 DEF Packets
<1> HIDE DEF f
<1>2. s \o t \in Seq(Output)
  BY ConcatProperties
<1>3. [k \in 1 .. Len(s \o t) |-> f[(s \o t)[k]]] =
        [k \in 1 .. Len(s) |-> f[s[k]]] \o [k \in 1 .. Len(t) |-> f[t[k]]]
  BY MapConcat
<1> QED
  BY <1>1, <1>2, <1>3, Zenon

\* What the receivers should get is what they make of all outputs in their order.
LEMMA ExpectedArrives ==
  ASSUME NEW calls \in Seq(Seq(Output)), NEW sender
  PROVE  FlattenSeq([c \in DOMAIN calls |-> [k \in DOMAIN calls[c] |-> Received(sender, calls[c][k])]])
           = Arrived(sender, FlattenSeq(calls))
<1> DEFINE f == [o \in Output |-> Received(sender, o)]
           all == FlattenSeq(calls)
<1>1. \A o \in Output : f[o] = Received(sender, o)
  OBVIOUS
<1> HIDE DEF f
<1>2. FlattenSeq([c \in DOMAIN calls |-> [k \in DOMAIN calls[c] |-> f[calls[c][k]]]])
        = [k \in 1 .. Len(all) |-> f[all[k]]]
  BY FlattenMap
<1>3. all \in Seq(Output)
  BY FlattenIsSeq
<1> HIDE DEF all
<1>4. [k \in 1 .. Len(all) |-> f[all[k]]] = Arrived(sender, all)
  <2>1. \A k \in 1 .. Len(all) : all[k] \in Output
    BY <1>3
  <2> QED
    BY <1>1, <2>1 DEF Arrived
<1>5. ASSUME NEW c \in DOMAIN calls
      PROVE  [k \in DOMAIN calls[c] |-> f[calls[c][k]]] =
               [k \in DOMAIN calls[c] |-> Received(sender, calls[c][k])]
  <2>1. calls[c] \in Seq(Output)
    OBVIOUS
  <2>2. \A k \in DOMAIN calls[c] : calls[c][k] \in Output
    BY <2>1
  <2> QED
    BY <1>1, <2>2
<1>6. [c \in DOMAIN calls |-> [k \in DOMAIN calls[c] |-> f[calls[c][k]]]] =
        [c \in DOMAIN calls |-> [k \in DOMAIN calls[c] |-> Received(sender, calls[c][k])]]
  BY <1>5
<1> QED
  BY <1>2, <1>4, <1>6 DEF all

\* The host chooses the socket of the receiver.
LEMMA SocketsChosen ==
  ASSUME NEW known, NEW outs \in Seq(Output), NEW pairs,
         SocketsOfPeers(known),
         DOMAIN pairs = 1 .. Len(outs),
         \A k \in 1 .. Len(outs) : pairs[k].i = outs[k].receiver
  PROVE  /\ SocketsOfPeers(Connected(known, pairs))
         /\ \A k \in 1 .. Len(outs) : outs[k].receiver.id \in DOMAIN Connected(known, pairs)
<1> DEFINE ids == {pairs[k].i.id : k \in DOMAIN pairs}
           Is(k, id) == /\ pairs[k].i.id = id
                        /\ \A j \in 1 .. (k - 1) : pairs[j].i.id # id
           first(id) == CHOOSE k \in DOMAIN pairs : Is(k, id)
           new == [id \in ids |-> pairs[first(id)].i.uri]
           table == Connected(known, pairs)
<1>1. table = [id \in DOMAIN known \cup ids |->
                 IF id \in DOMAIN known THEN known[id] ELSE pairs[first(id)].i.uri]
  BY Zenon DEF Connected
<1>2. /\ DOMAIN table = DOMAIN known \cup ids
      /\ \A id \in DOMAIN known \cup ids :
           table[id] = IF id \in DOMAIN known THEN known[id] ELSE new[id]
  <2> HIDE DEF table, first
  <2> QED
    BY <1>1
<1>3. \A k \in 1 .. Len(outs) : pairs[k].i \in Peers /\ pairs[k].i = outs[k].receiver
  <2>1. \A k \in 1 .. Len(outs) : outs[k] \in Output
    OBVIOUS
  <2> QED
    BY <2>1, OutputFields, Zenon
<1>4. ASSUME NEW id \in ids
      PROVE  first(id) \in DOMAIN pairs /\ pairs[first(id)].i.id = id
  <2> DEFINE T == {k \in DOMAIN pairs : pairs[k].i.id = id}
  <2>1. T \in SUBSET Nat /\ T # {} /\ \A k \in T : k \in 1 .. Len(outs)
    OBVIOUS
  <2>2. PICK k \in T : \A j \in T : k <= j
    <3> HIDE DEF T
    <3> QED
      BY <2>1, LeastNatural, Zenon
  <2>3. Is(k, id)
    <3>1. ASSUME NEW j \in 1 .. (k - 1), pairs[j].i.id = id
          PROVE  FALSE
      <4>1. k \in 1 .. Len(outs) /\ Len(outs) \in Nat
        BY <2>2, LenProperties
      <4>2. j \in 1 .. Len(outs) /\ ~ (k <= j)
        BY <4>1
      <4> QED
        BY <2>2, <3>1, <4>2
    <3> QED
      BY <2>2, <3>1
  <2>4. k \in DOMAIN pairs
    BY <2>2
  <2> HIDE DEF Is
  <2>5. first(id) \in DOMAIN pairs /\ Is(first(id), id)
    BY <2>3, <2>4
  <2> QED
    BY <2>5 DEF Is
<1>5. ASSUME NEW i \in Peers, i.id \in ids
      PROVE  new[i.id] = i.uri
  <2>1. new[i.id] = pairs[first(i.id)].i.uri
    BY <1>5
  <2> HIDE DEF first, new
  <2>2. first(i.id) \in 1 .. Len(outs) /\ pairs[first(i.id)].i.id = i.id
    BY <1>4, <1>5
  <2>3. pairs[first(i.id)].i \in Peers
    BY <1>3, <2>2
  <2>4. pairs[first(i.id)].i = i
    BY <2>2, <2>3, SocketAssumption
  <2> QED
    BY <2>1, <2>4
<1> HIDE DEF new, first
<1>6. ids \subseteq {i.id : i \in Peers}
  BY <1>3
<1>7. \A k \in 1 .. Len(outs) : outs[k].receiver.id \in ids
  BY <1>3
<1> HIDE DEF ids
<1> HIDE DEF table
<1>8. ASSUME NEW i \in Peers, i.id \in DOMAIN known \cup ids
      PROVE  table[i.id] = i.uri
  BY <1>2, <1>5, <1>8 DEF SocketsOfPeers
<1>9. DOMAIN known \subseteq {i.id : i \in Peers}
  BY Zenon DEF SocketsOfPeers
<1>10. DOMAIN table \subseteq {i.id : i \in Peers}
  BY <1>2, <1>6, <1>9
<1> QED
  BY <1>2, <1>7, <1>8, <1>10, Zenon DEF table, SocketsOfPeers

\* What the host appends to the network
LEMMA HostSends ==
  ASSUME NEW sender \in PeerInformation, NEW outs \in Seq(Output), NEW known,
         SocketsOfPeers(known),
         NEW pairs, pairs = deserialize_pairs(serialize_pairs(sender, outs)),
         NEW table, table = Connected(known, pairs)
  PROVE  /\ SocketsOfPeers(table)
         /\ [k \in DOMAIN pairs |-> [uri |-> table[pairs[k].i.id], c |-> pairs[k].payload]]
              = Packets(sender, outs)
<1>1. pairs = [k \in 1 .. Len(outs) |->
                 [i |-> outs[k].receiver, payload |-> encrypted_packet(sender, outs[k])]]
  BY PairsRead, Zenon
<1>2. /\ DOMAIN pairs = 1 .. Len(outs)
      /\ \A k \in 1 .. Len(outs) : /\ pairs[k].i = outs[k].receiver
                                   /\ pairs[k].payload = encrypted_packet(sender, outs[k])
  BY ONLY <1>1
<1>3. /\ SocketsOfPeers(table)
      /\ \A k \in 1 .. Len(outs) : outs[k].receiver.id \in DOMAIN table
  <2>1. DOMAIN pairs = 1 .. Len(outs) /\ \A k \in 1 .. Len(outs) : pairs[k].i = outs[k].receiver
    BY <1>2, Zenon
  <2>2. /\ SocketsOfPeers(Connected(known, pairs))
        /\ \A k \in 1 .. Len(outs) : outs[k].receiver.id \in DOMAIN Connected(known, pairs)
    BY <2>1, SocketsChosen, Zenon
  <2> QED
    BY <2>2, Zenon
<1>4. ASSUME NEW k \in 1 .. Len(outs)
      PROVE  /\ table[pairs[k].i.id] = outs[k].receiver.uri
             /\ pairs[k].payload = encrypted_packet(sender, outs[k])
  <2>1. outs[k] \in Output
    OBVIOUS
  <2>2. outs[k].receiver \in Peers
    BY <2>1, OutputFields, Zenon
  <2> QED
    BY <1>2, <1>3, <2>2, Zenon DEF SocketsOfPeers
<1>5. [k \in DOMAIN pairs |-> [uri |-> table[pairs[k].i.id], c |-> pairs[k].payload]]
        = Packets(sender, outs)
  BY ONLY <1>2, <1>4 DEF Packets
<1> QED
  BY <1>3, <1>5, Zenon

\* What the receivers read
LEMMA ReceiversRead ==
  ASSUME NEW sender \in PeerInformation, NEW outs \in Seq(Output), NEW sent, sent = Packets(sender, outs)
  PROVE  FlattenSeq([k \in DOMAIN sent |-> AtReceiver(sent[k])])
           = Arrived(sender, outs)
<1> DEFINE n == Len(outs)
           f == [k \in 1 .. n |-> Received(sender, outs[k])]
<1>1. n \in Nat /\ \A k \in 1 .. n : outs[k] \in Output
  BY LenProperties, ElementOfSeq
<1> HIDE DEF n
<1>2. DOMAIN sent = 1 .. n /\ \A k \in 1 .. n : /\ sent[k].uri = outs[k].receiver.uri
                                                /\ sent[k].c = encrypted_packet(sender, outs[k])
  BY DEF Packets, n
<1>3. ASSUME NEW k \in 1 .. n
      PROVE  AtReceiver(sent[k]) = <<f[k]>>
  <2>1. outs[k] \in Output /\ outs[k].receiver \in Peers
    BY <1>1, OutputFields, Zenon
  <2>2. (CHOOSE i \in Peers : i.uri = sent[k].uri) = outs[k].receiver
    <3>1. \A i \in Peers : i.uri = sent[k].uri <=> i = outs[k].receiver
      BY <1>2, <2>1, SocketAssumption, Zenon
    <3> QED
      BY <2>1, <3>1
  <2>3. traffic_in(outs[k].receiver, encrypted_packet(sender, outs[k])) = <<Received(sender, outs[k])>>
    BY <2>1, PacketRead, Zenon
  <2>4. f[k] = Received(sender, outs[k])
    OBVIOUS
  <2> HIDE DEF f
  <2> QED
    BY <1>2, <2>2, <2>3, <2>4, Zenon DEF AtReceiver
<1>4. [k \in 1 .. n |-> f[k]] = Arrived(sender, outs)
  BY DEF Arrived, n
<1> HIDE DEF f
<1>5. [k \in DOMAIN sent |-> AtReceiver(sent[k])]
        = [k \in 1 .. n |-> <<f[k]>>]
  <2>1. \A k \in DOMAIN sent : AtReceiver(sent[k]) = <<f[k]>>
    BY <1>2, <1>3, Zenon
  <2>2. DOMAIN sent = 1 .. n
    BY <1>2, Zenon
  <2>3. [k \in DOMAIN sent |-> AtReceiver(sent[k])] = [k \in DOMAIN sent |-> <<f[k]>>]
    BY ONLY <2>1
  <2> QED
    BY <2>2, <2>3, Zenon
<1>6. FlattenSeq([k \in 1 .. n |-> <<f[k]>>]) = [k \in 1 .. n |-> f[k]]
  <2> HIDE DEF f
  <2>1. n \in Nat
    BY <1>1
  <2> QED
    BY ONLY <2>1, FlattenOnes
<1> QED
  BY <1>4, <1>5, <1>6, Zenon

\* What is written first can be cut out of a longer buffer.
LEMMA FirstPart ==
  ASSUME NEW s, NEW t, IsSeq(s), IsSeq(t)
  PROVE  SubSeq(s \o t, 1, Len(s)) = s
<1>1. IsSeq(s \o t)
  BY Concat, Zenon
<1>2. At(s \o t, 1, s)
  BY <1>1, WholeAt, ConcatAt, Zenon
<1>3. SubSeq(s \o t, 1, 1 + Len(s) - 1) = s
  BY <1>2, SegmentAt, Zenon
<1>4. 1 + Len(s) - 1 = Len(s)
  BY SeqFacts
<1> QED
  BY <1>3, <1>4

\* What the login server answers can be read.
LEMMA MessagesKnown ==
  ASSUME NEW m \in InitMessages
  PROVE  m \in InitMessage /\ IsTable(m.gamma_route)
<1>1. m \in InitMessage
  BY EnvelopeAssumption
<1>2. m.gamma_route \in Routes
  BY <1>1 DEF InitMessage
<1> QED
  BY <1>1, <1>2, RoutesAreTables

-----------------------------------------------------------------------------
(* Numbers, byte by byte                                                   *)

\* Dividing twice is dividing by the product.
LEMMA NestedQuotient ==
  ASSUME NEW a \in Nat, NEW b \in Nat \ {0}, NEW c \in Nat \ {0}
  PROVE  a \div (b * c) = (a \div b) \div c
<1> DEFINE q == a \div b
           r == a % b
           p == q \div c
           t == q % c
<1>1. q \in Nat /\ r \in 0 .. (b - 1) /\ a = b * q + r
  OBVIOUS
<1> HIDE DEF q, r
<1>2. p \in Nat /\ t \in 0 .. (c - 1) /\ q = c * p + t
  BY <1>1
<1> HIDE DEF p, t
<1>3. b * c \in Nat \ {0} /\ b * t \in Nat
  BY <1>2
<1>4. b * t + r \in 0 .. (b * c - 1)
  <2>1. b * (c - 1 - t) >= 0
    BY <1>2
  <2>2. b * (c - 1 - t) = b * c - b - b * t
    BY <1>2
  <2> QED
    BY <1>1, <1>2, <1>3, <2>1, <2>2
<1>5. a = (b * c) * p + (b * t + r)
  BY <1>1, <1>2
<1>6. a \div (b * c) = p
  BY <1>2, <1>3, <1>4, <1>5, ModUnique
<1> QED
  BY <1>6 DEF p, q

\* Half the range of an int
Half == Pow2[IntBits - 1]

\* The widths fit into each other: an int is no wider than a number.
LEMMA Widths ==
  /\ NumberBits \in Nat /\ IntBits \in Nat \ {0} /\ IntBits - 1 \in 0 .. NumberBits
  /\ Half \in Nat \ {0} /\ IntSize = 2 * Half /\ NumberSize \in Nat /\ IntSize <= NumberSize
<1>1. NumberBits \in Nat /\ IntBits \in Nat /\ IntBits - 1 \in Nat /\ IntBits <= NumberBits
  BY NumbersAssumption DEF NumberBits
<1>2. Half \in Nat \ {0} /\ NumberSize \in Nat
  BY <1>1, Powers DEF Half, NumberSize
<1>3. Pow2[(IntBits - 1) + 1] = 2 * Pow2[IntBits - 1] /\ (IntBits - 1) + 1 = IntBits
  BY <1>1, Powers
<1>4. Pow2[IntBits] <= Pow2[NumberBits]
  BY <1>1, PowersGrow
<1> QED
  BY <1>1, <1>2, <1>3, <1>4, NumbersAssumption DEF IntSize, NumberSize, Half

\* The part of a number that its first i bytes make up
Top(n, i) == (n \div Pow2[Distance(i)]) * Pow2[Distance(i)]

\* A byte is what the next part has besides the last one.
LEMMA NextByte ==
  ASSUME NEW n \in 0 .. (NumberSize - 1), NEW i \in 1 .. NumberBytes
  PROVE  /\ Distance(i) \in Nat /\ serialize_number(n)[i] \in Nat
         /\ serialize_number(n)[i] * Pow2[Distance(i)] <= n
         /\ \E a \in Nat, m \in Nat :
              /\ Top(n, i - 1) = a * Pow2[m] /\ a * Pow2[m] <= n
              /\ serialize_number(n)[i] * Pow2[Distance(i)] \in 0 .. (Pow2[m] - 1)
              /\ Top(n, i) = a * Pow2[m] + serialize_number(n)[i] * Pow2[Distance(i)]
<1> DEFINE byte == serialize_number(n)[i]
           d == Distance(i)
           p == Pow2[d]
           c == Pow2[ByteBits]
           q == n \div p
           a == n \div (p * c)
<1>1. d \in Nat /\ Distance(i - 1) = d + ByteBits /\ ByteBits \in Nat
  <2>1. NumberBytes - i \in Nat /\ ByteBits \in Nat /\ NumberBytes \in Nat
    BY NumbersAssumption
  <2>2. ByteBits * (NumberBytes - i) \in Nat
    BY <2>1
  <2>3. ByteBits * (NumberBytes - (i - 1)) = ByteBits * (NumberBytes - i) + ByteBits
    BY <2>1
  <2> QED
    BY <2>1, <2>2, <2>3 DEF Distance
<1>2. n \in Nat
  BY Widths
<1>3. p \in Nat \ {0} /\ c \in Nat \ {0} /\ Pow2[d + ByteBits] = p * c
  BY <1>1, Powers, PowerOfSum
<1>4. byte = q % c
  BY DEF serialize_number
<1>5. Top(n, i) = q * p /\ Top(n, i - 1) = a * (p * c)
  <2>1. Pow2[Distance(i - 1)] = p * c
    BY <1>1, <1>3
  <2> QED
    BY <2>1 DEF Top
<1> HIDE DEF p, c, byte
<1>6. q \in Nat /\ p * q <= n
  BY <1>2, <1>3, DivBounds
<1>7. a = q \div c
  BY <1>2, <1>3, NestedQuotient
<1> HIDE DEF q, a
<1>8. a \in Nat /\ byte \in 0 .. (c - 1) /\ q = c * a + byte
  BY <1>3, <1>4, <1>6, <1>7
<1>9. q * p = a * (p * c) + byte * p
  BY <1>3, <1>6, <1>8
<1>10. byte * p \in Nat /\ a * (p * c) \in Nat /\ q * p = p * q
  BY <1>3, <1>6, <1>8
<1>11. byte * p <= n /\ a * (p * c) <= n
  BY <1>2, <1>6, <1>9, <1>10
<1>12. byte * p <= p * c - 1
  <2>1. p * (c - 1 - byte) >= 0
    BY <1>3, <1>8
  <2>2. p * (c - 1 - byte) = p * c - p - byte * p
    BY <1>3, <1>8
  <2> QED
    BY <1>3, <1>10, <2>1, <2>2
<1>13. d + ByteBits \in Nat /\ Top(n, i) = a * (p * c) + byte * p
  BY <1>1, <1>5, <1>9
<1> DEFINE m == d + ByteBits
<1>14. /\ m \in Nat /\ a \in Nat /\ Pow2[m] = p * c
       /\ Top(n, i - 1) = a * Pow2[m] /\ a * Pow2[m] <= n
       /\ byte * p \in 0 .. (Pow2[m] - 1)
       /\ Top(n, i) = a * Pow2[m] + byte * p
  BY <1>1, <1>3, <1>5, <1>8, <1>10, <1>11, <1>12, <1>13
<1> HIDE DEF m
<1> QED
  BY <1>1, <1>8, <1>11, <1>14 DEF p, byte

\* What has been read after each byte
ReadUpto(r, bytes_, wraps) ==
  /\ r[0] = 0
  /\ \A i \in 1 .. NumberBytes :
       r[i] = BitOr(r[i - 1], Shifted(bytes_[i], Distance(i), wraps), NumberBits)
  /\ deserialize_number(bytes_, wraps) = r[NumberBytes]

\* | yields natural numbers.
LEMMA OrIsNat ==
  ASSUME NEW x, NEW y, NEW width \in Nat
  PROVE  BitOr(x, y, width) \in Nat
<1>1. PICK low : OrUpto(low, x, y, width)
  BY OrSteps, Zenon
<1> QED
  BY <1>1 DEF OrUpto

\* Reading takes one byte after the other.
LEMMA ReadSteps ==
  ASSUME NEW bytes_, NEW wraps
  PROVE  \E r : ReadUpto(r, bytes_, wraps)
<1> DEFINE body(f) == [i \in 0 .. NumberBytes |->
                         IF i = 0 THEN 0
                         ELSE BitOr(f[i - 1], Shifted(bytes_[i], Distance(i), wraps), NumberBits)]
           r == CHOOSE f : f = body(f)
           step == [p \in Nat \X Nat |->
                      BitOr(p[2], Shifted(bytes_[p[1] + 1], Distance(p[1] + 1), wraps), NumberBits)]
<1>1. NumberBytes \in Nat /\ NumberBits \in Nat /\ 0 \in Nat
  BY NumbersAssumption, Widths
<1>2. /\ step \in [Nat \X Nat -> Nat]
      /\ \A k, z \in Nat : step[<<k, z>>]
                             = BitOr(z, Shifted(bytes_[k + 1], Distance(k + 1), wraps), NumberBits)
  BY <1>1, OrIsNat
<1> HIDE DEF step
<1>3. PICK g : Loops(g, Nat, 0, step, NumberBytes)
  BY <1>1, <1>2, BoundedRecursion, Zenon
<1>4. ASSUME NEW i \in 1 .. NumberBytes
      PROVE  g[i] = BitOr(g[i - 1], Shifted(bytes_[i], Distance(i), wraps), NumberBits)
  <2>1. i - 1 \in Nat /\ i - 1 \in 0 .. NumberBytes /\ (i - 1) + 1 = i
    BY <1>1
  <2>2. g[i - 1] \in Nat /\ g[i] = step[<<i - 1, g[i - 1]>>]
    BY <1>3, <2>1 DEF Loops
  <2> QED
    BY <1>2, <2>1, <2>2
<1>5. g = body(g)
  <2>1. ASSUME NEW i \in 0 .. NumberBytes
        PROVE  g[i] = IF i = 0 THEN 0
                      ELSE BitOr(g[i - 1], Shifted(bytes_[i], Distance(i), wraps), NumberBits)
    <3>1. CASE i = 0
      BY <1>3, <3>1 DEF Loops
    <3>2. CASE i # 0
      <4>1. i \in 1 .. NumberBytes
        BY <1>1, <3>2
      <4> QED
        BY <1>4, <3>2, <4>1, Zenon
    <3> QED
      BY <3>1, <3>2
  <2>2. g = [i \in 0 .. NumberBytes |-> g[i]]
    BY <1>3 DEF Loops
  <2> QED
    BY <2>1, <2>2, Zenon
<1>6. r = body(r)
  <2> HIDE DEF body
  <2> QED
    BY <1>5
<1>7. deserialize_number(bytes_, wraps) = r[NumberBytes]
  BY Zenon DEF deserialize_number
<1> HIDE DEF r
<1>8. \A i \in 0 .. NumberBytes :
        r[i] = IF i = 0 THEN 0
               ELSE BitOr(r[i - 1], Shifted(bytes_[i], Distance(i), wraps), NumberBits)
  BY <1>6, Zenon
<1>9. 0 \in 0 .. NumberBytes /\ \A i \in 1 .. NumberBytes : i \in 0 .. NumberBytes /\ i # 0
  BY <1>1
<1>10. ReadUpto(r, bytes_, wraps)
  BY <1>7, <1>8, <1>9, Zenon DEF ReadUpto
<1> QED
  BY <1>10, Zenon

\* A number below half the range of an int is read as it was written.
LEMMA SmallNumberRead ==
  ASSUME NEW n \in 0 .. (NumberSize - 1), n < Half, NEW wraps
  PROVE  deserialize_number(serialize_number(n), wraps) = n
<1> DEFINE bytes_ == serialize_number(n)
<1>1. PICK r : ReadUpto(r, bytes_, wraps)
  BY ReadSteps, Zenon
<1>2. /\ NumberBytes \in Nat /\ n \in Nat /\ NumberBits \in Nat
      /\ \A k \in Nat : Pow2[k] \in Nat \ {0}
  BY NumbersAssumption, Widths, Powers
<1>3. ASSUME NEW i \in 1 .. NumberBytes
      PROVE  Shifted(bytes_[i], Distance(i), wraps) = bytes_[i] * Pow2[Distance(i)]
  <2> DEFINE b == bytes_[i]
             d == Distance(i)
  <2>1. d \in Nat /\ b \in Nat /\ b * Pow2[d] <= n
    BY NextByte
  <2> HIDE DEF b, d, bytes_
  <2>2. CASE d < IntBits
    <3>1. d % IntBits = d
      BY <2>1, <2>2, Widths
    <3>2. b * Pow2[d] \in Nat /\ 2 * (b * Pow2[d]) < IntSize /\ b * Pow2[d] < IntSize
      BY <1>2, <2>1, Widths
    <3>3. (b * Pow2[d]) % IntSize = b * Pow2[d]
      BY <3>2, Widths
    <3> QED
      BY <2>2, <3>1, <3>2, <3>3, Zenon DEF Shifted, Converted, b, d
  <2>3. CASE ~ (d < IntBits)
    <3>1. Half <= Pow2[d]
      BY <2>1, <2>3, Widths, PowersGrow DEF Half
    <3>2. b = 0
      <4>1. b * Pow2[d] < Pow2[d] /\ Pow2[d] \in Nat \ {0}
        BY <1>2, <2>1, <3>1, Widths
      <4> QED
        BY <2>1, <4>1
    <3>3. \A k \in Nat : (0 * Pow2[k]) % IntSize = 0
      BY <1>2, Widths
    <3>4. d % IntBits \in Nat
      BY <2>1, Widths
    <3>5. Converted((0 * Pow2[d % IntBits]) % IntSize) = 0
      BY <3>3, <3>4, Widths DEF Converted
    <3>6. 0 * Pow2[d] = 0
      BY <1>2, <2>1
    <3>7. Shifted(b, d, wraps) = 0
      BY <2>3, <3>2, <3>5, Zenon DEF Shifted
    <3> QED
      BY <3>2, <3>6, <3>7 DEF b, d
  <2> QED
    BY <2>2, <2>3
<1> HIDE DEF bytes_
<1> DEFINE T == {i \in Nat : i <= NumberBytes => r[i] = Top(n, i)}
<1>4. 0 \in T
  <2>1. Distance(0) = NumberBits
    BY <1>2, NumbersAssumption DEF Distance, NumberBits
  <2>2. n \div NumberSize = 0
    <3>1. NumberSize \in Nat \ {0} /\ NumberSize * 0 <= n /\ n < NumberSize * 0 + NumberSize
      BY <1>2, Widths
    <3> QED
      BY <1>2, <3>1, DivUnique
  <2>3. Top(n, 0) = 0
    BY <1>2, <2>1, <2>2 DEF Top, NumberSize
  <2> QED
    BY <1>1, <2>3 DEF ReadUpto
<1>5. ASSUME NEW k \in Nat, k \in T, k + 1 <= NumberBytes
      PROVE  r[k + 1] = Top(n, k + 1)
  <2> DEFINE i == k + 1
             x == bytes_[i] * Pow2[Distance(i)]
  <2>1. i \in 1 .. NumberBytes /\ i - 1 = k
    BY <1>2, <1>5
  <2>2. r[i] = BitOr(Top(n, i - 1), x, NumberBits)
    <3>1. /\ r[i] = BitOr(r[i - 1], Shifted(bytes_[i], Distance(i), wraps), NumberBits)
          /\ Shifted(bytes_[i], Distance(i), wraps) = x
      BY <1>1, <1>3, <2>1, Zenon DEF ReadUpto
    <3>2. r[k] = Top(n, k)
      BY <1>2, <1>5
    <3> HIDE DEF i, x
    <3> QED
      BY <2>1, <3>1, <3>2, Zenon
  <2>3. PICK a \in Nat, m \in Nat :
          /\ Top(n, i - 1) = a * Pow2[m] /\ a * Pow2[m] <= n
          /\ x \in 0 .. (Pow2[m] - 1) /\ Top(n, i) = a * Pow2[m] + x
    BY <2>1, NextByte, Zenon DEF bytes_
  <2>4. x <= n
    BY <2>1, NextByte DEF bytes_
  <2> HIDE DEF x, i
  <2>5. a * Pow2[m] < Pow2[NumberBits] /\ x < Pow2[NumberBits]
    BY <1>2, <2>3, <2>4, Widths DEF NumberSize
  <2>6. BitOr(a * Pow2[m], x, NumberBits) = a * Pow2[m] + x
    BY <1>2, <2>3, <2>5, OrAdds
  <2> QED
    BY <2>2, <2>3, <2>6 DEF i
<1>6. \A k \in Nat : k \in T => k + 1 \in T
  BY <1>5
<1>7. Nat \subseteq T
  <2> HIDE DEF T
  <2> QED
    BY <1>4, <1>6, Induction
<1>8. r[NumberBytes] = Top(n, NumberBytes)
  BY <1>2, <1>7
<1>9. Top(n, NumberBytes) = n
  <2>1. Distance(NumberBytes) = 0
    BY <1>2, NumbersAssumption DEF Distance
  <2> QED
    BY <1>2, <2>1, Powers DEF Top
<1> QED
  BY <1>1, <1>8, <1>9 DEF ReadUpto, bytes_

\* The ints, as an uint64_t holds them: the others are never read.
Ints == 0 .. (Half - 1) \cup (NumberSize - Half) .. (NumberSize - 1)

\* Whatever is shifted, and however far: an int is the result.
LEMMA IntsOfShifts ==
  ASSUME NEW byte \in Nat, NEW distance \in Nat, NEW wraps
  PROVE  Shifted(byte, distance, wraps) \in Ints
<1> DEFINE bits == (byte * Pow2[distance % IntBits]) % IntSize
<1>1. bits \in 0 .. (IntSize - 1)
  <2>1. distance % IntBits \in Nat
    BY Widths
  <2>2. Pow2[distance % IntBits] \in Nat
    BY <2>1, Powers
  <2>3. byte * Pow2[distance % IntBits] \in Nat
    BY <2>2
  <2> QED
    BY <2>3, Widths
<1> HIDE DEF bits
<1>2. Converted(bits) \in Ints
  BY <1>1, Widths DEF Converted, Ints
<1>3. 0 \in Ints
  BY Widths DEF Ints
<1> QED
  BY <1>2, <1>3 DEF Shifted, bits

(* x | y of two of them is one of them: below Half if both are, and at     *)
(* least as large as the negative one otherwise.                           *)
LEMMA IntsOfOr ==
  ASSUME NEW x \in Ints, NEW y \in Ints
  PROVE  BitOr(x, y, NumberBits) \in Ints
<1>1. /\ NumberBits \in Nat /\ NumberBits \in 0 .. NumberBits /\ IntBits - 1 \in 0 .. NumberBits
      /\ x \in 0 .. (NumberSize - 1) /\ y \in 0 .. (NumberSize - 1)
  BY Widths DEF Ints
<1>2. /\ BitOr(x, y, NumberBits) \in 0 .. (NumberSize - 1)
      /\ x <= BitOr(x, y, NumberBits) /\ y <= BitOr(x, y, NumberBits)
  BY <1>1, OrBounds DEF NumberSize
<1>3. CASE x \in 0 .. (Half - 1) /\ y \in 0 .. (Half - 1)
  <2>1. BitOr(x, y, NumberBits) \in 0 .. (Half - 1)
    BY <1>1, <1>3, OrBounds DEF Half
  <2> QED
    BY <2>1 DEF Ints
<1>4. CASE ~ (x \in 0 .. (Half - 1) /\ y \in 0 .. (Half - 1))
  BY <1>1, <1>2, <1>4, Widths DEF Ints
<1> QED
  BY <1>3, <1>4

\* Deserialising starts with 0 and only combines shifted bytes.
LEMMA IntsAreRead ==
  ASSUME NEW n \in 0 .. (NumberSize - 1), NEW wraps
  PROVE  deserialize_number(serialize_number(n), wraps) \in Ints
<1> DEFINE bytes_ == serialize_number(n)
<1>1. PICK r : ReadUpto(r, bytes_, wraps)
  BY ReadSteps, Zenon
<1>2. NumberBytes \in Nat
  BY NumbersAssumption
<1>3. \A i \in 1 .. NumberBytes : Shifted(bytes_[i], Distance(i), wraps) \in Ints
  BY NextByte, IntsOfShifts
<1> HIDE DEF bytes_
<1> DEFINE T == {i \in Nat : i <= NumberBytes => r[i] \in Ints}
<1>4. 0 \in T
  BY <1>1, Widths DEF ReadUpto, Ints
<1>5. ASSUME NEW k \in Nat, k \in T, k + 1 <= NumberBytes
      PROVE  r[k + 1] \in Ints
  <2>1. k + 1 \in 1 .. NumberBytes /\ (k + 1) - 1 = k /\ r[k] \in Ints
    BY <1>2, <1>5
  <2>2. r[k + 1] = BitOr(r[k], Shifted(bytes_[k + 1], Distance(k + 1), wraps), NumberBits)
    BY <1>1, <2>1 DEF ReadUpto
  <2> QED
    BY <1>3, <2>1, <2>2, IntsOfOr
<1>6. \A k \in Nat : k \in T => k + 1 \in T
  BY <1>5
<1>7. Nat \subseteq T
  <2> HIDE DEF T
  <2> QED
    BY <1>4, <1>6, Induction
<1>8. r[NumberBytes] \in Ints
  BY <1>2, <1>7
<1> QED
  BY <1>1, <1>8 DEF ReadUpto, bytes_

\* What is kept of a number, and what never is
LEMMA NumberRoundTrip ==
  ASSUME NEW n \in 0 .. (NumberSize - 1), NEW wraps
  PROVE  /\ 2 * n < IntSize => deserialize_number(serialize_number(n), wraps) = n
         /\ 2 * n \in IntSize .. (2 * NumberSize - IntSize - 1) =>
              deserialize_number(serialize_number(n), wraps) # n
<1>1. n \in Nat
  BY Widths
<1>2. ASSUME 2 * n < IntSize
      PROVE  deserialize_number(serialize_number(n), wraps) = n
  <2>1. n < Half
    BY <1>1, <1>2, Widths
  <2> QED
    BY <2>1, SmallNumberRead
<1>3. ASSUME 2 * n \in IntSize .. (2 * NumberSize - IntSize - 1)
      PROVE  n \notin Ints
  BY <1>1, <1>3, Widths DEF Ints
<1> QED
  BY <1>2, <1>3, IntsAreRead

-----------------------------------------------------------------------------
(* The invariant: what the buffer and the network hold of each subject     *)

JoinInv ==
  subject.kind = "join" =>
    /\ subject.sender \in Peers
    /\ bytes \in {<<>>, JoinMessage(subject.sender)}
    /\ result # <<>> => result = <<subject.sender>>

InitInv ==
  subject.kind = "init" =>
    /\ subject.m \in InitMessages
    /\ bytes \in {<<>>, init_fields(subject.m)}
    /\ result # <<>> => result = <<subject.m>>

\* What a receiver makes of a pseudonym
ReadPseudonym(n, size) == IF size = Len(encrypted_pseudonym(n)) THEN n ELSE Refused

PseudonymInv ==
  subject.kind = "pseudonym" =>
    /\ subject.size \in PseudonymSizes /\ subject.n \in Pseudonym
    /\ bytes \in {<<>>, Resized(encrypted_pseudonym(subject.n), subject.size)}
    /\ result # <<>> => result = <<ReadPseudonym(subject.n, subject.size)>>

NumberInv ==
  subject.kind = "number" =>
    /\ subject.number \in 0 .. (NumberSize - 1)
    /\ bytes \in {<<>>, serialize_number(subject.number)}
    /\ result # <<>> =>
         \E wraps \in BOOLEAN :
           result = <<deserialize_number(serialize_number(subject.number), wraps)>>

\* Of the calls of traffic_out the host has sent the first ones, "done"; the
\* pairs of the last one may still be in the buffer.
SentBy(done) ==
  /\ network = Packets(subject.sender, FlattenSeq(done))
  /\ \/ bytes = <<>> /\ subject.calls = done
     \/ /\ result = <<>>
        /\ \E outs \in Seq(Output) :
             /\ subject.calls = Append(done, outs)
             /\ bytes = serialize_pairs(subject.sender, outs)

PacketSubject == [kind : {"packets"}, sender : Peers, calls : Seq(Seq(Output))]

PacketsInv ==
  subject.kind = "packets" =>
    /\ subject \in PacketSubject /\ Len(subject.calls) <= MaxCalls
    /\ \E done \in Seq(Seq(Output)) : SentBy(done)
    /\ result # <<>> => result = <<Arrived(subject.sender, FlattenSeq(subject.calls))>>

HostInv ==
  /\ SocketsOfPeers(peers_)
  /\ \A k \in DOMAIN network : network[k].uri \in {i.uri : i \in Peers}

EnvelopeInv ==
  /\ subject.kind \in {"join", "init", "packets", "pseudonym", "number"}
  /\ HostInv /\ JoinInv /\ InitInv /\ PseudonymInv /\ NumberInv /\ PacketsInv

\* Nothing is written, and the invariant holds.
LEMMA InitialEnvelope == Init => EnvelopeInv
<1> SUFFICES ASSUME Init
             PROVE  EnvelopeInv
  OBVIOUS
<1>1. bytes = <<>> /\ peers_ = <<>> /\ network = <<>> /\ result = <<>>
  BY DEF Init
<1>2. HostInv
  BY <1>1 DEF HostInv, SocketsOfPeers
<1>3. /\ subject.kind \in {"join", "init", "packets", "pseudonym", "number"}
      /\ subject.kind = "join" => subject.sender \in Peers
      /\ subject.kind = "init" => subject.m \in InitMessages
      /\ subject.kind = "pseudonym" => subject.size \in PseudonymSizes /\ subject.n \in Pseudonym
      /\ subject.kind = "number" => subject.number \in 0 .. (NumberSize - 1)
      /\ subject.kind = "packets" => subject \in [kind : {"packets"}, sender : Peers, calls : {<<>>}]
  <2>1. subject \in Subjects
    BY DEF Init
  <2>2. CASE subject \in [kind : {"join"}, sender : Peers]
    BY <2>2
  <2>3. CASE subject \in [kind : {"init"}, m : InitMessages]
    BY <2>3
  <2>4. CASE subject \in [kind : {"packets"}, sender : Peers, calls : {<<>>}]
    BY <2>4
  <2>5. CASE subject \in [kind : {"pseudonym"}, size : PseudonymSizes, n : Pseudonym]
    BY <2>5
  <2>6. CASE subject \in [kind : {"number"}, number : 0 .. NumberSize - 1]
    BY <2>6
  <2> QED
    BY <2>1, <2>2, <2>3, <2>4, <2>5, <2>6 DEF Subjects
<1>4. ASSUME subject.kind = "packets"
      PROVE  PacketsInv
  <2>1. /\ subject \in [kind : {"packets"}, sender : Peers, calls : {<<>>}]
        /\ subject.calls = <<>> /\ <<>> \in Seq(Seq(Output)) /\ Len(<<>>) = 0 /\ 0 <= MaxCalls
    BY <1>3, <1>4, EnvelopeAssumption
  <2>2. subject \in PacketSubject /\ Len(subject.calls) <= MaxCalls
    BY <2>1 DEF PacketSubject
  <2>3. network = Packets(subject.sender, FlattenSeq(<<>>))
    <3>1. FlattenSeq(<<>>) = <<>>
      BY FlattenNone
    <3>2. Packets(subject.sender, <<>>) = <<>>
      BY DEF Packets
    <3> QED
      BY <1>1, <3>1, <3>2
  <2>4. SentBy(<<>>)
    BY <1>1, <2>1, <2>3, Zenon DEF SentBy
  <2> QED
    BY <1>1, <2>1, <2>2, <2>4, Zenon DEF PacketsInv
<1>5. PacketsInv
  BY <1>4 DEF PacketsInv
<1> QED
  BY <1>1, <1>2, <1>3, <1>5 DEF EnvelopeInv, JoinInv, InitInv, PseudonymInv, NumberInv

\* An action on one kind of subject leaves the invariants of the others true.
LEMMA OtherKinds ==
  ASSUME subject.kind \in {"join", "init", "packets", "pseudonym", "number"}, subject'.kind = subject.kind
  PROVE  /\ subject'.kind \in {"join", "init", "packets", "pseudonym", "number"}
         /\ subject.kind # "join" => JoinInv'
         /\ subject.kind # "init" => InitInv'
         /\ subject.kind # "pseudonym" => PseudonymInv'
         /\ subject.kind # "number" => NumberInv'
         /\ subject.kind # "packets" => PacketsInv'
BY DEF JoinInv, InitInv, PseudonymInv, NumberInv, PacketsInv

\* A join message is written or read.
LEMMA JoinPreserves == EnvelopeInv /\ (JoinSent \/ JoinRead) => EnvelopeInv'
<1> SUFFICES ASSUME EnvelopeInv, JoinSent \/ JoinRead
             PROVE  EnvelopeInv'
  OBVIOUS
<1>1. /\ subject.kind = "join" /\ subject' = subject
      /\ UNCHANGED <<peers_, network>>
  BY DEF JoinSent, JoinRead, Sent, Got
<1>2. HostInv'
  BY <1>1 DEF EnvelopeInv, HostInv, SocketsOfPeers
<1>3. subject.sender \in Peers /\ subject.sender \in PeerInformation
  BY <1>1, EnvelopeAssumption DEF EnvelopeInv, JoinInv
<1>4. JoinInv'
  <2>1. CASE JoinSent
    BY <1>1, <1>3, <2>1 DEF JoinSent, Sent, EnvelopeInv, JoinInv
  <2>2. CASE JoinRead
    <3>1. bytes = JoinMessage(subject.sender) /\ bytes' = bytes
      BY <1>1, <2>2 DEF JoinRead, Got, EnvelopeInv, JoinInv
    <3>2. result' = <<IF get_message_type(bytes) = kTypeJoinMessage /\ Len(bytes) = 8 + SizeOfPeer
                      THEN peer_at(bytes, 9) ELSE Refused>>
      BY <2>2 DEF JoinRead, Got
    <3>3. /\ get_message_type(bytes) = kTypeJoinMessage /\ Len(bytes) = 8 + SizeOfPeer
          /\ peer_at(bytes, 9) = subject.sender
      BY <1>3, <3>1, JoinMessageRead
    <3>4. result' = <<subject.sender>>
      BY <3>2, <3>3, Zenon
    <3> QED
      BY <1>1, <1>3, <3>1, <3>4 DEF JoinInv
  <2> QED
    BY <2>1, <2>2
<1> QED
  BY <1>1, <1>2, <1>4, OtherKinds DEF EnvelopeInv

\* An init message is written or read.
LEMMA InitPreserves == EnvelopeInv /\ (InitSent \/ InitRead) => EnvelopeInv'
<1> SUFFICES ASSUME EnvelopeInv, InitSent \/ InitRead
             PROVE  EnvelopeInv'
  OBVIOUS
<1>1. /\ subject.kind = "init" /\ subject' = subject
      /\ UNCHANGED <<peers_, network>>
  BY DEF InitSent, InitRead, Sent, Got
<1>2. HostInv'
  BY <1>1 DEF EnvelopeInv, HostInv, SocketsOfPeers
<1>3. subject.m \in InitMessages
  BY <1>1 DEF EnvelopeInv, InitInv
<1> DEFINE m == subject.m
<1>4. m \in InitMessage /\ IsTable(m.gamma_route)
  BY <1>3, MessagesKnown
<1> HIDE DEF m
<1>5. /\ IsSeq(init_fields(m)) /\ Len(init_fields(m)) = init_size(m) /\ init_size(m) \in Nat
      /\ get_message_type(init_fields(m)) = kTypeInitMessage
      /\ read_init(init_fields(m)) = m
  BY <1>4, InitMessageRead, Zenon
<1>6. InitInv'
  <2>1. CASE InitSent
    <3>1. IsSeq(Unread(init_size(m)))
      BY <1>5, OpaqueSeq, Zenon DEF Unread
    <3>2. SubSeq(init_fields(m) \o Unread(init_size(m)), 1, init_size(m)) = init_fields(m)
      BY <1>5, <3>1, FirstPart
    <3>3. /\ bytes' = SubSeq(init_fields(m) \o Unread(init_size(m)), 1, init_size(m))
          /\ result' = result
      BY <2>1, Zenon DEF InitSent, Sent, m
    <3> QED
      BY <1>1, <1>3, <3>2, <3>3 DEF EnvelopeInv, InitInv, m
  <2>2. CASE InitRead
    <3>1. bytes = init_fields(m) /\ bytes' = bytes
      BY <1>1, <2>2 DEF InitRead, Got, EnvelopeInv, InitInv, m
    <3>2. result' = <<IF get_message_type(bytes) = kTypeInitMessage THEN read_init(bytes) ELSE Refused>>
      BY <2>2 DEF InitRead, Got
    <3>3. result' = <<m>>
      BY <1>5, <3>1, <3>2, Zenon
    <3> QED
      BY <1>1, <1>3, <3>1, <3>3 DEF InitInv, m
  <2> QED
    BY <2>1, <2>2
<1> QED
  BY <1>1, <1>2, <1>6, OtherKinds DEF EnvelopeInv

\* A pseudonym is issued or used.
LEMMA PseudonymPreserves == EnvelopeInv /\ (PseudonymIssued \/ PseudonymUsed) => EnvelopeInv'
<1> SUFFICES ASSUME EnvelopeInv, PseudonymIssued \/ PseudonymUsed
             PROVE  EnvelopeInv'
  OBVIOUS
<1>1. /\ subject.kind = "pseudonym" /\ subject' = subject
      /\ UNCHANGED <<peers_, network>>
  BY DEF PseudonymIssued, PseudonymUsed, Sent, Got
<1>2. HostInv'
  BY <1>1 DEF EnvelopeInv, HostInv, SocketsOfPeers
<1> DEFINE n == subject.n
           size == subject.size
           c == encrypted_pseudonym(n)
<1>3. n \in Pseudonym /\ size \in PseudonymSizes /\ size \in Nat
  BY <1>1, EnvelopeAssumption DEF EnvelopeInv, PseudonymInv
<1> HIDE DEF n, size, c
<1>4. PseudonymInv'
  <2>1. CASE PseudonymIssued
    <3>1. bytes' = Resized(c, size) /\ result' = result
      BY <2>1, Zenon DEF PseudonymIssued, Sent, n, size, c
    <3> QED
      BY <1>1, <1>3, <3>1 DEF EnvelopeInv, PseudonymInv, n, size, c
  <2>2. CASE PseudonymUsed
    <3> DEFINE p == serialize_pseudonym(n)
               d == decrypt("sk_pseud", bytes)
    <3>1. bytes = Resized(c, size) /\ bytes' = bytes
      BY <1>1, <2>2 DEF PseudonymUsed, Got, EnvelopeInv, PseudonymInv, n, size, c
    <3>2. result' = <<IF d.fails THEN Refused ELSE deserialize_pseudonym(d.p)>>
      BY <2>2 DEF PseudonymUsed, Got
    <3>3. IsSeq(p) /\ deserialize_pseudonym(p) = n
      BY <1>3, PseudonymRead
    <3>4. IsSeq(<<>>)
      BY DEF IsSeq
    <3>5. c = encrypt("sk_pseud", p, <<>>)
      BY DEF encrypted_pseudonym, c
    <3> HIDE DEF p, d
    <3>6. d = IF size = Len(c) THEN [fails |-> FALSE, p |-> p, aad |-> <<>>] ELSE Failed
      <4>1. decrypt("sk_pseud", Resized(encrypt("sk_pseud", p, <<>>), size)) =
              IF size = Len(encrypt("sk_pseud", p, <<>>))
              THEN [fails |-> FALSE, p |-> p, aad |-> <<>>] ELSE Failed
        BY ONLY <1>3, <3>3, <3>4, DecryptResized
      <4> QED
        BY <3>1, <3>5, <4>1, Zenon DEF d
    <3>7. result' = <<IF size = Len(c) THEN n ELSE Refused>>
      <4>1. CASE size = Len(c)
        <5>1. d = [fails |-> FALSE, p |-> p, aad |-> <<>>]
          BY <3>6, <4>1, Zenon
        <5>2. d.fails = FALSE /\ d.p = p
          BY ONLY <5>1
        <5> QED
          BY <3>2, <3>3, <4>1, <5>2, Zenon
      <4>2. CASE size # Len(c)
        <5>1. d.fails = TRUE
          BY <3>6, <4>2 DEF Failed
        <5> QED
          BY <3>2, <4>2, <5>1, Zenon
      <4> QED
        BY <4>1, <4>2
    <3> QED
      BY <1>1, <1>3, <3>1, <3>7, Zenon DEF PseudonymInv, ReadPseudonym, n, size, c
  <2> QED
    BY <2>1, <2>2
<1> QED
  BY <1>1, <1>2, <1>4, OtherKinds DEF EnvelopeInv

\* A number is written or read.
LEMMA NumberPreserves == EnvelopeInv /\ (NumberWritten \/ NumberRead) => EnvelopeInv'
<1> SUFFICES ASSUME EnvelopeInv, NumberWritten \/ NumberRead
             PROVE  EnvelopeInv'
  OBVIOUS
<1>1. /\ subject.kind = "number" /\ subject' = subject
      /\ UNCHANGED <<peers_, network>>
  BY DEF NumberWritten, NumberRead, Sent, Got
<1>2. HostInv'
  BY <1>1 DEF EnvelopeInv, HostInv, SocketsOfPeers
<1>3. NumberInv
  BY DEF EnvelopeInv
<1>4. NumberInv'
  <2>1. CASE NumberWritten
    BY <1>1, <1>3, <2>1 DEF NumberWritten, Sent, NumberInv
  <2>2. CASE NumberRead
    <3>1. PICK wraps \in BOOLEAN : Got("number", deserialize_number(bytes, wraps))
      BY <2>2 DEF NumberRead
    <3>2. /\ bytes = serialize_number(subject.number) /\ bytes' = bytes
          /\ result' = <<deserialize_number(bytes, wraps)>>
      BY <1>1, <1>3, <3>1 DEF Got, NumberInv
    <3> QED
      BY <1>1, <1>3, <3>2, Zenon DEF NumberInv
  <2> QED
    BY <2>1, <2>2
<1> QED
  BY <1>1, <1>2, <1>4, OtherKinds DEF EnvelopeInv

\* traffic_out writes the pairs of one more call.
LEMMA OutPreserves ==
  ASSUME EnvelopeInv, NEW outs \in Outputs, traffic_out(outs)
  PROVE  EnvelopeInv'
<1>1. /\ subject.kind = "packets" /\ bytes = <<>> /\ result = <<>>
      /\ Len(subject.calls) < MaxCalls
      /\ bytes' = serialize_pairs(subject.sender, outs)
      /\ subject' = [subject EXCEPT !.calls = Append(@, outs)]
      /\ peers_' = peers_ /\ network' = network /\ result' = result
  BY DEF traffic_out
<1>2. subject \in PacketSubject /\ outs \in Seq(Output) /\ MaxCalls \in Nat
  BY <1>1, EnvelopeAssumption DEF EnvelopeInv, PacketsInv
<1>3. PICK done \in Seq(Seq(Output)) : SentBy(done)
  BY <1>1, Zenon DEF EnvelopeInv, PacketsInv
<1>4. /\ subject.sender \in Peers /\ subject.calls \in Seq(Seq(Output))
      /\ subject'.kind = "packets" /\ subject'.sender = subject.sender
      /\ subject'.calls = Append(subject.calls, outs)
      /\ Len(subject'.calls) = Len(subject.calls) + 1
      /\ subject' \in PacketSubject
  <2>1. subject.sender \in Peers /\ subject.calls \in Seq(Seq(Output))
    BY <1>2 DEF PacketSubject
  <2>2. /\ subject'.kind = "packets" /\ subject'.sender = subject.sender
        /\ subject'.calls = Append(subject.calls, outs)
    BY <1>1, <1>2 DEF PacketSubject
  <2>3. /\ Append(subject.calls, outs) \in Seq(Seq(Output))
        /\ Len(Append(subject.calls, outs)) = Len(subject.calls) + 1
    BY <1>2, <2>1, AppendProperties
  <2>4. subject' = [kind |-> "packets", sender |-> subject.sender, calls |-> Append(subject.calls, outs)]
    BY <1>1, <1>2 DEF PacketSubject
  <2>5. subject' \in PacketSubject
    BY <2>1, <2>3, <2>4 DEF PacketSubject
  <2> QED
    BY <2>1, <2>2, <2>3, <2>5
<1>5. subject.sender \in PeerInformation
  BY <1>4, EnvelopeAssumption
<1>6. subject.calls = done /\ network = Packets(subject.sender, FlattenSeq(done))
  <2>1. ASSUME NEW o \in Seq(Output), bytes = serialize_pairs(subject.sender, o)
        PROVE  FALSE
    BY <1>1, <1>5, <2>1, PairsRead, Zenon
  <2> QED
    BY <1>3, <2>1, Zenon DEF SentBy
<1>7. SentBy(done)'
  BY <1>1, <1>2, <1>4, <1>6 DEF SentBy
<1>8. Len(subject'.calls) <= MaxCalls
  BY <1>1, <1>2, <1>4
<1>9. PacketsInv'
  BY <1>1, <1>4, <1>7, <1>8 DEF PacketsInv
<1>10. HostInv'
  BY <1>1 DEF EnvelopeInv, HostInv, SocketsOfPeers
<1> QED
  BY <1>1, <1>4, <1>9, <1>10, OtherKinds DEF EnvelopeInv

\* Every packet goes to the uri of a peer.
LEMMA PacketUris ==
  ASSUME NEW sender, NEW outs \in Seq(Output), NEW sent, sent = Packets(sender, outs)
  PROVE  \A k \in DOMAIN sent : sent[k].uri \in {i.uri : i \in Peers}
<1> SUFFICES ASSUME NEW k \in DOMAIN sent
             PROVE  sent[k].uri \in {i.uri : i \in Peers}
  OBVIOUS
<1>1. k \in 1 .. Len(outs) /\ sent[k].uri = outs[k].receiver.uri
  BY DEF Packets
<1>2. outs[k] \in Output
  BY <1>1
<1>3. outs[k].receiver \in Peers
  BY <1>2, OutputFields, Zenon
<1> QED
  BY <1>1, <1>3

\* The host sends the pairs it was handed.
LEMMA ReturnPreserves == EnvelopeInv /\ traffic_out_return => EnvelopeInv'
<1> SUFFICES ASSUME EnvelopeInv, traffic_out_return
             PROVE  EnvelopeInv'
  OBVIOUS
<1> DEFINE sender == subject.sender
           pairs == deserialize_pairs(bytes)
           known == Connected(peers_, pairs)
<1>1. /\ subject.kind = "packets" /\ bytes # <<>> /\ bytes' = <<>>
      /\ peers_' = known
      /\ network' = network \o [k \in DOMAIN pairs |-> [uri |-> known[pairs[k].i.id], c |-> pairs[k].payload]]
      /\ subject' = subject /\ result' = result
  BY Zenon DEF traffic_out_return
<1> HIDE DEF pairs, known
<1>2. subject \in PacketSubject /\ Len(subject.calls) <= MaxCalls
  BY <1>1 DEF EnvelopeInv, PacketsInv
<1>3. PICK done \in Seq(Seq(Output)) : SentBy(done)
  BY <1>1, Zenon DEF EnvelopeInv, PacketsInv
<1>4. /\ network = Packets(sender, FlattenSeq(done)) /\ result = <<>>
      /\ \E outs \in Seq(Output) : subject.calls = Append(done, outs) /\ bytes = serialize_pairs(sender, outs)
  BY <1>1, <1>3, Zenon DEF SentBy
<1>5. PICK outs \in Seq(Output) : subject.calls = Append(done, outs) /\ bytes = serialize_pairs(sender, outs)
  BY <1>4, Zenon
<1>6. sender \in PeerInformation
  BY <1>2, EnvelopeAssumption DEF PacketSubject
<1> HIDE DEF sender
<1>7. SocketsOfPeers(peers_)
  BY Zenon DEF EnvelopeInv, HostInv
<1>8. pairs = deserialize_pairs(serialize_pairs(sender, outs))
  BY <1>5, Zenon DEF pairs
<1>9. /\ SocketsOfPeers(known)
      /\ [k \in DOMAIN pairs |-> [uri |-> known[pairs[k].i.id], c |-> pairs[k].payload]]
           = Packets(sender, outs)
  <2>1. known = Connected(peers_, pairs)
    BY Zenon DEF known
  <2> QED
    BY ONLY <1>6, <1>7, <1>8, <2>1, HostSends
<1>10. network' = Packets(sender, FlattenSeq(subject.calls))
  <2>1. FlattenSeq(done) \in Seq(Output) /\ FlattenSeq(Append(done, outs)) = FlattenSeq(done) \o outs
    BY FlattenIsSeq, FlattenAppend, Zenon
  <2>2. network' = Packets(sender, FlattenSeq(done)) \o Packets(sender, outs)
    BY <1>1, <1>4, <1>9, Zenon
  <2>3. Packets(sender, FlattenSeq(done) \o outs) = Packets(sender, FlattenSeq(done)) \o Packets(sender, outs)
    BY <2>1, PacketsConcat, Zenon
  <2> QED
    BY <1>5, <2>1, <2>2, <2>3, Zenon
<1>11. subject.calls \in Seq(Seq(Output)) /\ FlattenSeq(subject.calls) \in Seq(Output)
  BY <1>2, FlattenIsSeq DEF PacketSubject
<1>12. PICK calls \in Seq(Seq(Output)) : calls = subject.calls
  BY <1>11, Zenon
<1>13. SentBy(calls)'
  <2>1. network' = Packets(subject'.sender, FlattenSeq(calls)) /\ bytes' = <<>> /\ subject'.calls = calls
    BY <1>1, <1>10, <1>12, Zenon DEF sender
  <2> QED
    BY <2>1, Zenon DEF SentBy
<1>14. PacketsInv'
  <2>1. \E d \in Seq(Seq(Output)) : SentBy(d)'
    BY <1>13, Zenon
  <2>2. result' = <<>>
    BY <1>1, <1>4
  <2> QED
    BY <1>1, <1>2, <2>1, <2>2, Zenon DEF PacketsInv
<1>15. HostInv'
  <2>1. \A k \in DOMAIN network' : network'[k].uri \in {i.uri : i \in Peers}
    BY <1>10, <1>11, PacketUris, Zenon
  <2> QED
    BY <1>1, <1>9, <2>1 DEF HostInv
<1> QED
  BY <1>1, <1>14, <1>15, OtherKinds DEF EnvelopeInv

\* The receivers read their packets.
LEMMA ReadPreserves == EnvelopeInv /\ PacketsRead => EnvelopeInv'
<1> SUFFICES ASSUME EnvelopeInv, PacketsRead
             PROVE  EnvelopeInv'
  OBVIOUS
<1> DEFINE sender == subject.sender
           all == FlattenSeq(subject.calls)
<1>1. /\ subject.kind = "packets" /\ bytes = <<>>
      /\ result' = <<FlattenSeq([k \in DOMAIN network |-> AtReceiver(network[k])])>>
      /\ subject' = subject /\ bytes' = bytes /\ peers_' = peers_ /\ network' = network
  BY DEF PacketsRead
<1>2. subject \in PacketSubject /\ Len(subject.calls) <= MaxCalls
  BY <1>1 DEF EnvelopeInv, PacketsInv
<1>3. PICK done \in Seq(Seq(Output)) : SentBy(done)
  BY <1>1, Zenon DEF EnvelopeInv, PacketsInv
<1>4. sender \in PeerInformation /\ subject.calls \in Seq(Seq(Output)) /\ all \in Seq(Output)
  BY <1>2, EnvelopeAssumption, FlattenIsSeq DEF PacketSubject
<1>5. network = Packets(sender, all) /\ subject.calls = done
  <2>1. ASSUME NEW outs \in Seq(Output), bytes = serialize_pairs(sender, outs)
        PROVE  FALSE
    BY <1>1, <1>4, <2>1, PairsRead, Zenon
  <2> QED
    BY <1>3, <2>1, Zenon DEF SentBy
<1>6. SentBy(done)'
  BY <1>1, <1>5, Zenon DEF SentBy
<1>7. result' = <<Arrived(sender, all)>>
  <2> HIDE DEF sender, all
  <2>1. FlattenSeq([k \in DOMAIN network |-> AtReceiver(network[k])]) = Arrived(sender, all)
    BY <1>4, <1>5, ReceiversRead, Zenon
  <2> QED
    BY <1>1, <2>1, Zenon
<1>8. PacketsInv'
  <2>1. \E d \in Seq(Seq(Output)) : SentBy(d)'
    BY <1>6, Zenon
  <2> QED
    BY <1>1, <1>2, <1>7, <2>1, Zenon DEF PacketsInv
<1>9. HostInv'
  BY <1>1 DEF EnvelopeInv, HostInv, SocketsOfPeers
<1> QED
  BY <1>1, <1>8, <1>9, OtherKinds DEF EnvelopeInv

\* The buffer and the network hold what belongs to the subject.
LEMMA EnvelopeInvariant == Spec => []EnvelopeInv
<1>1. EnvelopeInv /\ [Next]_vars => EnvelopeInv'
  <2> SUFFICES ASSUME EnvelopeInv, [Next]_vars
               PROVE  EnvelopeInv'
    OBVIOUS
  <2>1. CASE JoinSent \/ JoinRead
    BY <2>1, JoinPreserves, Zenon
  <2>2. CASE InitSent \/ InitRead
    BY <2>2, InitPreserves, Zenon
  <2>3. CASE PseudonymIssued \/ PseudonymUsed
    BY <2>3, PseudonymPreserves, Zenon
  <2>4. CASE \E outs \in Outputs : traffic_out(outs)
    BY <2>4, OutPreserves, Zenon
  <2>5. CASE traffic_out_return
    BY <2>5, ReturnPreserves, Zenon
  <2>6. CASE PacketsRead
    BY <2>6, ReadPreserves, Zenon
  <2>7. CASE NumberWritten \/ NumberRead
    BY <2>7, NumberPreserves, Zenon
  <2>8. CASE UNCHANGED vars
    BY <2>8 DEF vars, EnvelopeInv, HostInv, SocketsOfPeers, JoinInv, InitInv, PseudonymInv,
                NumberInv, PacketsInv, SentBy
  <2> QED
    BY <2>1, <2>2, <2>3, <2>4, <2>5, <2>6, <2>7, <2>8 DEF Next
<1> QED
  BY <1>1, InitialEnvelope, PTL DEF Spec

-----------------------------------------------------------------------------
(* The states of the encodings: a subject of one of the five kinds, at     *)
(* most MaxCalls calls, and a host that knows sockets of peers only.       *)
THEOREM EnvelopeTypes == Spec => []TypeOK
<1>1. EnvelopeInv => TypeOK
  <2> SUFFICES ASSUME EnvelopeInv
               PROVE  TypeOK
    OBVIOUS
  <2>1. subject.kind = "packets" => Len(subject.calls) \in 0 .. MaxCalls
    <3> SUFFICES ASSUME subject.kind = "packets"
                 PROVE  Len(subject.calls) \in 0 .. MaxCalls
      OBVIOUS
    <3>1. subject.calls \in Seq(Seq(Output)) /\ Len(subject.calls) <= MaxCalls /\ MaxCalls \in Nat
      BY EnvelopeAssumption DEF EnvelopeInv, PacketsInv, PacketSubject
    <3> QED
      BY <3>1
  <2> QED
    BY <2>1 DEF EnvelopeInv, HostInv, SocketsOfPeers, TypeOK
<1> QED
  BY <1>1, EnvelopeInvariant, PTL

(* Whatever peer registers and whatever tables are answered, a join or an  *)
(* init message is read as what was sent, though the objects are copied as *)
(* memory (shared_structs.h:165-206, 316-348, 369-408).                    *)
THEOREM MessagesReadAsSent == Spec => []ReadAsSent
<1>1. EnvelopeInv => ReadAsSent
  BY DEF EnvelopeInv, JoinInv, InitInv, ReadAsSent
<1> QED
  BY <1>1, EnvelopeInvariant, PTL

(* Every init message has exactly the size that serialize() allocates and  *)
(* sends for it (shared_structs.h:369-408).                                *)
THEOREM InitMessagesFit == Spec => []InitMessageFits
<1>1. EnvelopeInv => InitMessageFits
  <2> SUFFICES ASSUME EnvelopeInv, subject.kind = "init"
               PROVE  Len(init_fields(subject.m)) = init_size(subject.m)
    BY DEF InitMessageFits
  <2>1. subject.m \in InitMessages
    BY DEF EnvelopeInv, InitInv
  <2> QED
    BY <2>1, MessagesKnown, InitMessageRead, Zenon
<1> QED
  BY <1>1, EnvelopeInvariant, PTL

(* Whatever peers, rounds, payloads and structure messages there are, and  *)
(* however often traffic_out is called, all packets are read by their      *)
(* receivers and as what they were made of (client_enclave.cpp:430-452,    *)
(* 494-519, network_manager.cpp:132-146).                                  *)
THEOREM AllPacketsArrive == Spec => []PacketsArrive
<1>1. EnvelopeInv => PacketsArrive
  <2> SUFFICES ASSUME EnvelopeInv, subject.kind = "packets", result # <<>>
               PROVE  result[1] = Expected
    BY DEF PacketsArrive
  <2>1. subject.calls \in Seq(Seq(Output))
    BY DEF EnvelopeInv, PacketsInv, PacketSubject
  <2>2. result = <<Arrived(subject.sender, FlattenSeq(subject.calls))>>
    BY DEF EnvelopeInv, PacketsInv
  <2>3. Expected = Arrived(subject.sender, FlattenSeq(subject.calls))
    BY <2>1, ExpectedArrives, Zenon DEF Expected
  <2> QED
    BY <2>2, <2>3
<1> QED
  BY <1>1, EnvelopeInvariant, PTL

(* Whatever kPseudonymSize is, a pseudonym is read if that is the size of  *)
(* its encryption, and refused otherwise (client_enclave.cpp:107-109).     *)
THEOREM PseudonymsFitOnly == Spec => []PseudonymsFit
<1>1. EnvelopeInv => PseudonymsFit
  BY DEF EnvelopeInv, PseudonymInv, ReadPseudonym, PseudonymsFit
<1> QED
  BY <1>1, EnvelopeInvariant, PTL

(* Whatever the widths of bytes, ints and numbers are, and whatever the    *)
(* build makes of the undefined shifts, a number up to the largest int is  *)
(* read as it was written, and a larger one that does not extend a         *)
(* negative int never is (serialization.h:24-47).                          *)
THEOREM NumbersKeptOnly == Spec => []NumbersKept
<1>1. EnvelopeInv => NumbersKept
  <2> SUFFICES ASSUME EnvelopeInv, subject.kind = "number", result # <<>>
               PROVE  /\ 2 * subject.number < IntSize => result[1] = subject.number
                      /\ 2 * subject.number \in IntSize .. 2 * NumberSize - IntSize - 1 =>
                           result[1] # subject.number
    BY DEF NumbersKept
  <2>1. NumberInv
    BY DEF EnvelopeInv
  <2>2. PICK wraps \in BOOLEAN :
          result = <<deserialize_number(serialize_number(subject.number), wraps)>>
    BY <2>1 DEF NumberInv
  <2>3. result[1] = deserialize_number(serialize_number(subject.number), wraps)
    BY <2>2
  <2>4. subject.number \in 0 .. (NumberSize - 1)
    BY <2>1 DEF NumberInv
  <2> QED
    BY <2>3, <2>4, NumberRoundTrip
<1> QED
  BY <1>1, EnvelopeInvariant, PTL
=============================================================================
