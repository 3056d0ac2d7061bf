------------------------------- MODULE ListFacts -------------------------------
(***************************************************************************)
(* Facts about lists and lists without repetition: the thread queues of    *)
(* list.h, and the operations on them.                                     *)
(***************************************************************************)
EXTENDS Naturals, Sequences, SequencesExt, TLAPS

Distinct(s) == \A i, j \in 1 .. Len(s) : s[i] = s[j] => i = j

(* The elements of a concatenation. *)
LEMMA ConcatElements ==
  ASSUME NEW S, NEW s \in Seq(S), NEW t \in Seq(S)
  PROVE  /\ s \o t \in Seq(S) /\ Len(s \o t) = Len(s) + Len(t)
         /\ \A j \in 1 .. Len(s) : (s \o t)[j] = s[j]
         /\ \A j \in 1 .. Len(t) : (s \o t)[Len(s) + j] = t[j]
<1>1. s \o t \in Seq(S) /\ Len(s \o t) = Len(s) + Len(t)
  OBVIOUS
<1>2. ASSUME NEW j \in 1 .. Len(s) PROVE (s \o t)[j] = s[j]
  OBVIOUS
<1>3. ASSUME NEW j \in 1 .. Len(t) PROVE (s \o t)[Len(s) + j] = t[j]
  OBVIOUS
<1>4. QED BY <1>1, <1>2, <1>3

(* The set of the elements. *)
LEMMA ToSetFact ==
  ASSUME NEW S, NEW s \in Seq(S)
  PROVE  /\ ToSet(s) \subseteq S
         /\ \A u : u \in ToSet(s) <=> Contains(s, u)
         /\ \A k \in 1 .. Len(s) : s[k] \in S /\ s[k] \in ToSet(s)
<1>1. DOMAIN s = 1 .. Len(s) /\ \A k \in 1 .. Len(s) : s[k] \in S
  OBVIOUS
<1>2. ToSet(s) = {s[k] : k \in 1 .. Len(s)}
  BY <1>1 DEF ToSet
<1>3. QED BY <1>1, <1>2 DEF Contains

(* Append keeps a list free of repetitions if the element is new to it. *)
LEMMA AppendFact ==
  ASSUME NEW S, NEW s \in Seq(S), NEW x \in S
  PROVE  /\ Append(s, x) \in Seq(S)
         /\ \A u : Contains(Append(s, x), u) <=> Contains(s, u) \/ u = x
         /\ Distinct(s) /\ ~Contains(s, x) => Distinct(Append(s, x))
  BY DEF Contains, Distinct

(* RemoveAt removes exactly the element at k. *)
LEMMA RemoveAtFact ==
  ASSUME NEW S, NEW s \in Seq(S), NEW k \in 1 .. Len(s)
  PROVE  /\ RemoveAt(s, k) \in Seq(S) /\ Len(RemoveAt(s, k)) = Len(s) - 1
         /\ Distinct(s) => /\ Distinct(RemoveAt(s, k))
                           /\ \A u : Contains(RemoveAt(s, k), u)
                                       <=> Contains(s, u) /\ u # s[k]
<1> DEFINE r == RemoveAt(s, k)
<1>1. /\ r \in Seq(S)
      /\ Len(r) = Len(s) - 1
      /\ \A j \in 1 .. Len(s) - 1 : r[j] = IF j < k THEN s[j] ELSE s[j + 1]
  <2> DEFINE a == SubSeq(s, 1, k - 1)
             b == SubSeq(s, k + 1, Len(s))
  <2>1. /\ a \in Seq(S) /\ Len(a) = k - 1
        /\ \A j \in 1 .. k - 1 : a[j] = s[j]
    OBVIOUS
  <2>2. /\ b \in Seq(S) /\ Len(b) = Len(s) - k
        /\ \A j \in 1 .. Len(s) - k : b[j] = s[j + k]
    OBVIOUS
  <2>3. r = a \o b
    BY DEF RemoveAt
  <2> HIDE DEF a, b, r
  <2>4. /\ r \in Seq(S) /\ Len(r) = Len(a) + Len(b)
        /\ \A j \in 1 .. Len(a) : r[j] = a[j]
        /\ \A j \in 1 .. Len(b) : r[Len(a) + j] = b[j]
    <3>1. a \in Seq(S) /\ b \in Seq(S)
      BY <2>1, <2>2
    <3>2. /\ a \o b \in Seq(S) /\ Len(a \o b) = Len(a) + Len(b)
          /\ \A j \in 1 .. Len(a) : (a \o b)[j] = a[j]
          /\ \A j \in 1 .. Len(b) : (a \o b)[Len(a) + j] = b[j]
      BY <3>1, ConcatElements
    <3>3. QED BY <2>3, <3>2
  <2>5. Len(r) = Len(s) - 1
    BY <2>1, <2>2, <2>4
  <2>6. ASSUME NEW j \in 1 .. Len(s) - 1
        PROVE  r[j] = IF j < k THEN s[j] ELSE s[j + 1]
    <3>1. CASE j < k
      BY <2>1, <2>4, <3>1
    <3>2. CASE ~(j < k)
      <4> DEFINE n == j - (k - 1)
      <4>1. n \in 1 .. Len(s) - k /\ Len(a) + n = j /\ n + k = j + 1
        BY <2>1, <3>2
      <4> HIDE DEF n
      <4>2. r[Len(a) + n] = b[n]
        BY <2>2, <2>4, <4>1
      <4>3. b[n] = s[n + k]
        BY <2>2, <4>1
      <4>4. QED BY <3>2, <4>1, <4>2, <4>3
    <3>3. QED BY <3>1, <3>2
  <2>7. QED BY <2>4, <2>5, <2>6
<1> HIDE DEF r
<1>2. ASSUME Distinct(s) PROVE Distinct(r)
  <2>1. ASSUME NEW i \in 1 .. Len(r), NEW j \in 1 .. Len(r), r[i] = r[j] PROVE i = j
    <3>1. CASE i < k /\ j < k
      BY <1>1, <1>2, <2>1, <3>1 DEF Distinct
    <3>2. CASE i < k /\ ~(j < k)
      BY <1>1, <1>2, <2>1, <3>2 DEF Distinct
    <3>3. CASE ~(i < k) /\ j < k
      BY <1>1, <1>2, <2>1, <3>3 DEF Distinct
    <3>4. CASE ~(i < k) /\ ~(j < k)
      BY <1>1, <1>2, <2>1, <3>4 DEF Distinct
    <3>5. QED BY <3>1, <3>2, <3>3, <3>4
  <2>2. QED BY <2>1 DEF Distinct
<1>3. ASSUME Distinct(s), NEW u PROVE Contains(r, u) <=> Contains(s, u) /\ u # s[k]
  <2>1. ASSUME Contains(r, u) PROVE Contains(s, u) /\ u # s[k]
    BY <1>1, <1>3, <2>1 DEF Contains, Distinct
  <2>2. ASSUME Contains(s, u), u # s[k] PROVE Contains(r, u)
    <3>1. PICK i \in 1 .. Len(s) : s[i] = u
      BY <2>2 DEF Contains
    <3>2. CASE i < k
      BY <1>1, <3>1, <3>2 DEF Contains
    <3>3. CASE i > k
      <4>1. i - 1 \in 1 .. Len(r) /\ r[i - 1] = u
        BY <1>1, <3>1, <3>3
      <4>2. QED BY <4>1 DEF Contains
    <3>4. QED BY <2>2, <3>1, <3>2, <3>3
  <2>3. QED BY <2>1, <2>2
<1>4. QED BY <1>1, <1>2, <1>3 DEF r

(* So does Tail, of the first. *)
LEMMA TailFact ==
  ASSUME NEW S, NEW s \in Seq(S), s # << >>
  PROVE  /\ Tail(s) \in Seq(S) /\ Head(s) \in S /\ Contains(s, Head(s))
         /\ Len(s) = 1 <=> Tail(s) = << >>
         /\ Distinct(s) => /\ Distinct(Tail(s))
                           /\ \A u : Contains(Tail(s), u)
                                       <=> Contains(s, u) /\ u # Head(s)
<1>1. /\ Tail(s) \in Seq(S) /\ Head(s) \in S /\ Head(s) = s[1]
      /\ Len(s) \in Nat /\ Len(s) > 0 /\ Len(Tail(s)) = Len(s) - 1
      /\ \A j \in 1 .. Len(s) - 1 : Tail(s)[j] = s[j + 1]
  OBVIOUS
<1>2. Contains(s, Head(s))
  BY <1>1 DEF Contains
<1>3. Len(s) = 1 <=> Tail(s) = << >>
  BY <1>1
<1>4. ASSUME Distinct(s) PROVE Distinct(Tail(s))
  BY <1>1, <1>4 DEF Distinct
<1>5. ASSUME Distinct(s), NEW u
      PROVE  Contains(Tail(s), u) <=> Contains(s, u) /\ u # Head(s)
  <2>1. ASSUME Contains(Tail(s), u) PROVE Contains(s, u) /\ u # Head(s)
    BY <1>1, <1>5, <2>1 DEF Contains, Distinct
  <2>2. ASSUME Contains(s, u), u # Head(s) PROVE Contains(Tail(s), u)
    <3>1. PICK i \in 1 .. Len(s) : s[i] = u
      BY <2>2 DEF Contains
    <3>2. i - 1 \in 1 .. Len(Tail(s)) /\ Tail(s)[i - 1] = u
      BY <1>1, <2>2, <3>1
    <3>3. QED BY <3>2 DEF Contains
  <2>3. QED BY <2>1, <2>2
<1>6. QED BY <1>1, <1>2, <1>3, <1>4, <1>5

(* A concatenation of disjoint lists. *)
LEMMA ConcatFact ==
  ASSUME NEW S, NEW s \in Seq(S), NEW t \in Seq(S)
  PROVE  /\ s \o t \in Seq(S)
         /\ \A u : Contains(s \o t, u) <=> Contains(s, u) \/ Contains(t, u)
         /\ Distinct(s) /\ Distinct(t) /\ (\A u \in S : ~(Contains(s, u) /\ Contains(t, u)))
              => Distinct(s \o t)
<1> DEFINE r == s \o t
<1>1. /\ r \in Seq(S) /\ Len(r) = Len(s) + Len(t)
      /\ \A j \in 1 .. Len(s) : r[j] = s[j]
      /\ \A j \in 1 .. Len(t) : r[Len(s) + j] = t[j]
  BY ConcatElements
<1>2. Len(s) \in Nat /\ Len(t) \in Nat
  OBVIOUS
<1> HIDE DEF r
<1>3. ASSUME NEW j \in 1 .. Len(r)
      PROVE  \/ j \in 1 .. Len(s) /\ r[j] = s[j]
             \/ j - Len(s) \in 1 .. Len(t) /\ r[j] = t[j - Len(s)]
  <2>1. CASE j <= Len(s)
    BY <1>1, <1>2, <2>1
  <2>2. CASE j > Len(s)
    <3>1. j - Len(s) \in 1 .. Len(t) /\ Len(s) + (j - Len(s)) = j
      BY <1>1, <1>2, <2>2
    <3>2. QED BY <1>1, <3>1
  <2>3. QED BY <1>1, <1>2, <2>1, <2>2
<1>4. ASSUME NEW u PROVE Contains(r, u) <=> Contains(s, u) \/ Contains(t, u)
  <2>1. ASSUME Contains(r, u) PROVE Contains(s, u) \/ Contains(t, u)
    BY <1>3, <2>1 DEF Contains
  <2>2. ASSUME NEW j \in 1 .. Len(s), s[j] = u PROVE Contains(r, u)
    BY <1>1, <1>2, <2>2 DEF Contains
  <2>3. ASSUME NEW j \in 1 .. Len(t), t[j] = u PROVE Contains(r, u)
    <3>1. Len(s) + j \in 1 .. Len(r)
      BY <1>1, <1>2
    <3>2. QED BY <1>1, <2>3, <3>1 DEF Contains
  <2>4. QED BY <2>1, <2>2, <2>3 DEF Contains
<1>5. ASSUME Distinct(s), Distinct(t), \A u \in S : ~(Contains(s, u) /\ Contains(t, u)),
             NEW i \in 1 .. Len(r), NEW j \in 1 .. Len(r), r[i] = r[j]
      PROVE  i = j
  <2>1. CASE i \in 1 .. Len(s) /\ r[i] = s[i] /\ j \in 1 .. Len(s) /\ r[j] = s[j]
    BY <1>5, <2>1 DEF Distinct
  <2>2. CASE /\ i - Len(s) \in 1 .. Len(t) /\ r[i] = t[i - Len(s)]
             /\ j - Len(s) \in 1 .. Len(t) /\ r[j] = t[j - Len(s)]
    <3>1. i - Len(s) = j - Len(s)
      BY <1>5, <2>2 DEF Distinct
    <3>2. QED BY <1>2, <3>1
  <2>3. CASE i \in 1 .. Len(s) /\ r[i] = s[i] /\ j - Len(s) \in 1 .. Len(t) /\ r[j] = t[j - Len(s)]
    <3>1. s[i] = t[j - Len(s)]
      BY <1>5, <2>3
    <3>2. s[i] \in S /\ Contains(s, s[i]) /\ Contains(t, s[i])
      BY <2>3, <3>1 DEF Contains
    <3>3. QED BY <1>5, <3>2
  <2>4. CASE j \in 1 .. Len(s) /\ r[j] = s[j] /\ i - Len(s) \in 1 .. Len(t) /\ r[i] = t[i - Len(s)]
    BY <1>5, <2>4 DEF Contains
  <2>5. QED BY <1>3, <2>1, <2>2, <2>3, <2>4
<1>6. QED BY <1>1, <1>4, <1>5 DEF r, Distinct

(* Reversal. *)
LEMMA ReverseFact ==
  ASSUME NEW S, NEW s \in Seq(S)
  PROVE  /\ Reverse(s) \in Seq(S)
         /\ \A u : Contains(Reverse(s), u) <=> Contains(s, u)
         /\ Distinct(s) => Distinct(Reverse(s))
<1> DEFINE r == Reverse(s)
<1>1. /\ Len(s) \in Nat
      /\ r \in Seq(S) /\ Len(r) = Len(s)
      /\ \A i \in 1 .. Len(s) : r[i] = s[(Len(s) - i) + 1]
  BY DEF Reverse
<1> HIDE DEF r
<1>2. ASSUME NEW i \in 1 .. Len(s)
      PROVE  /\ (Len(s) - i) + 1 \in 1 .. Len(s)
             /\ (Len(s) - ((Len(s) - i) + 1)) + 1 = i
  BY <1>1
<1>3. ASSUME NEW u PROVE Contains(r, u) <=> Contains(s, u)
  <2>1. ASSUME Contains(r, u) PROVE Contains(s, u)
    BY <1>1, <1>2, <2>1 DEF Contains
  <2>2. ASSUME NEW i \in 1 .. Len(s), s[i] = u PROVE Contains(r, u)
    <3> DEFINE k == (Len(s) - i) + 1
    <3>1. k \in 1 .. Len(s) /\ r[k] = s[(Len(s) - k) + 1] /\ (Len(s) - k) + 1 = i
      BY <1>1, <1>2
    <3>2. QED BY <1>1, <2>2, <3>1 DEF Contains
  <2>3. QED BY <2>1, <2>2 DEF Contains
<1>4. ASSUME Distinct(s), NEW i \in 1 .. Len(s), NEW j \in 1 .. Len(s), r[i] = r[j]
      PROVE  i = j
  <2>1. (Len(s) - i) + 1 = (Len(s) - j) + 1
    BY <1>1, <1>2, <1>4 DEF Distinct
  <2>2. QED BY <1>1, <2>1
<1>5. QED BY <1>1, <1>3, <1>4 DEF r, Distinct
=============================================================================
