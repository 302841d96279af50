----------------------------- MODULE ListLemmas -----------------------------
(***************************************************************************)
(* What the list operations of the kernel (tlinsert, tlremove, tlappend,   *)
(* unlinking a lock) do to the set of members of a list and to the absence *)
(* of duplicates in it.  The kernel's linked lists are sequences here.     *)
(***************************************************************************)
EXTENDS Naturals, Integers, Sequences, SequencesExt, SequenceTheorems, TLAPS

(* The empty list has no member.                                           *)
LEMMA EmptyList == Range(<<>>) = {} /\ IsInjective(<<>>)
  BY DEF Range, IsInjective

(* tlinsert adds one member.                                               *)
LEMMA RangeAppend ==
  ASSUME NEW S, NEW s \in Seq(S), NEW e \in S
  PROVE  Range(Append(s, e)) = Range(s) \cup {e}
<1>1. /\ Append(s, e) \in Seq(S)
      /\ Len(Append(s, e)) = Len(s) + 1
      /\ \A i \in 1 .. Len(s) : Append(s, e)[i] = s[i]
      /\ Append(s, e)[Len(s) + 1] = e
  BY AppendProperties
<1>2. /\ Range(s) = {s[i] : i \in 1 .. Len(s)}
      /\ Range(Append(s, e)) = {Append(s, e)[i] : i \in 1 .. Len(s) + 1}
  BY <1>1, RangeEquality
<1>3. Len(s) \in Nat
  BY LenProperties
<1> QED BY <1>1, <1>2, <1>3

LEMMA InjectiveAppend ==
  ASSUME NEW S, NEW s \in Seq(S), NEW e \in S, IsInjective(s), e \notin Range(s)
  PROVE  IsInjective(Append(s, e))
<1>1. /\ Append(s, e) \in Seq(S)
      /\ Len(Append(s, e)) = Len(s) + 1
      /\ \A i \in 1 .. Len(s) : Append(s, e)[i] = s[i]
      /\ Append(s, e)[Len(s) + 1] = e
  BY AppendProperties
<1>2. /\ Len(s) \in Nat
      /\ DOMAIN s = 1 .. Len(s)
      /\ DOMAIN Append(s, e) = 1 .. Len(s) + 1
  BY <1>1, LenProperties
<1>3. \A i \in 1 .. Len(s) : s[i] # e
  BY <1>2 DEF Range
<1> QED BY <1>1, <1>2, <1>3 DEF IsInjective

(* tlremove takes the head out.                                            *)
LEMMA RangeTail ==
  ASSUME NEW S, NEW s \in Seq(S), s # <<>>
  PROVE  /\ Head(s) \in Range(s)
         /\ Range(s) = {Head(s)} \cup Range(Tail(s))
<1>1. /\ Tail(s) \in Seq(S)
      /\ Len(Tail(s)) = Len(s) - 1
      /\ \A i \in 1 .. Len(Tail(s)) : Tail(s)[i] = s[i + 1]
  BY HeadTailProperties
<1>2. Len(s) \in Nat \ {0} /\ Head(s) = s[1]
  BY EmptySeq
<1>3. /\ Range(s) = {s[i] : i \in 1 .. Len(s)}
      /\ Range(Tail(s)) = {Tail(s)[i] : i \in 1 .. Len(s) - 1}
  BY <1>1, RangeEquality
<1>4. \A i \in 1 .. Len(s) : i = 1 \/ (i - 1 \in 1 .. Len(s) - 1 /\ Tail(s)[i - 1] = s[i])
  BY <1>1, <1>2
<1>5. \A i \in 1 .. Len(s) - 1 : i + 1 \in 1 .. Len(s) /\ Tail(s)[i] = s[i + 1]
  BY <1>1, <1>2
<1>6. 1 \in 1 .. Len(s)
  BY <1>2
<1>7. Head(s) \in Range(s)
  BY <1>2, <1>3, <1>6
<1>8. ASSUME NEW x \in Range(s)
      PROVE  x \in {Head(s)} \cup Range(Tail(s))
  <2>1. PICK i \in 1 .. Len(s) : x = s[i]
    BY <1>3
  <2> QED BY <1>2, <1>3, <1>4, <2>1
<1>9. ASSUME NEW x \in Range(Tail(s))
      PROVE  x \in Range(s)
  <2>1. PICK i \in 1 .. Len(s) - 1 : x = Tail(s)[i]
    BY <1>3
  <2>2. i + 1 \in 1 .. Len(s) /\ x = s[i + 1]
    BY <1>5, <2>1
  <2> QED BY <1>3, <2>2
<1> QED BY <1>7, <1>8, <1>9

LEMMA InjectiveTail ==
  ASSUME NEW S, NEW s \in Seq(S), s # <<>>, IsInjective(s)
  PROVE  IsInjective(Tail(s)) /\ Head(s) \notin Range(Tail(s))
<1>1. /\ Tail(s) \in Seq(S)
      /\ Len(Tail(s)) = Len(s) - 1
      /\ \A i \in 1 .. Len(Tail(s)) : Tail(s)[i] = s[i + 1]
  BY HeadTailProperties
<1>2. Len(s) \in Nat \ {0} /\ Head(s) = s[1]
  BY EmptySeq
<1>3. /\ DOMAIN s = 1 .. Len(s)
      /\ DOMAIN Tail(s) = 1 .. Len(s) - 1
  BY <1>1, LenProperties
<1>4. \A a, b \in 1 .. Len(s) : s[a] = s[b] => a = b
  BY <1>3 DEF IsInjective
<1>5. \A a \in 1 .. Len(s) - 1 : a + 1 \in 1 .. Len(s) /\ Tail(s)[a] = s[a + 1]
  BY <1>1, <1>2
<1>6. IsInjective(Tail(s))
  <2> SUFFICES ASSUME NEW a \in 1 .. Len(s) - 1, NEW b \in 1 .. Len(s) - 1,
                      Tail(s)[a] = Tail(s)[b]
               PROVE  a = b
    BY <1>3 DEF IsInjective
  <2>1. a + 1 = b + 1
    BY <1>4, <1>5
  <2> QED BY <2>1, <1>2
<1>7. Head(s) \notin Range(Tail(s))
  <2> SUFFICES ASSUME NEW a \in 1 .. Len(s) - 1, s[1] = Tail(s)[a]
               PROVE  FALSE
    BY <1>2, <1>3 DEF Range
  <2>1. a + 1 = 1
    BY <1>2, <1>4, <1>5
  <2> QED BY <2>1, <1>2
<1> QED BY <1>6, <1>7

(* tlappend joins two lists.                                               *)
LEMMA InjectiveConcat ==
  ASSUME NEW S, NEW s \in Seq(S), NEW u \in Seq(S), IsInjective(s), IsInjective(u),
         Range(s) \cap Range(u) = {}
  PROVE  IsInjective(s \o u)
<1>1. /\ s \o u \in Seq(S)
      /\ Len(s \o u) = Len(s) + Len(u)
      /\ \A i \in 1 .. Len(s) + Len(u) :
           (s \o u)[i] = IF i <= Len(s) THEN s[i] ELSE u[i - Len(s)]
  BY ConcatProperties
<1>2. /\ Len(s) \in Nat /\ Len(u) \in Nat
      /\ DOMAIN s = 1 .. Len(s) /\ DOMAIN u = 1 .. Len(u)
      /\ DOMAIN (s \o u) = 1 .. Len(s) + Len(u)
  BY <1>1, LenProperties
<1>3. \A a \in 1 .. Len(s), b \in 1 .. Len(u) : s[a] # u[b]
  BY <1>2 DEF Range
<1> QED BY <1>1, <1>2, <1>3 DEF IsInjective

(* What RemoveAt leaves: the elements after the removed one move up.       *)
LEMMA RemoveAtProperties ==
  ASSUME NEW S, NEW s \in Seq(S), NEW i \in DOMAIN s
  PROVE  /\ RemoveAt(s, i) \in Seq(S)
         /\ Len(RemoveAt(s, i)) = Len(s) - 1
         /\ \A k \in 1 .. Len(s) - 1 :
              RemoveAt(s, i)[k] = IF k < i THEN s[k] ELSE s[k + 1]
<1> DEFINE n == Len(s)
           r == RemoveAt(s, i)
<1>1. n \in Nat /\ DOMAIN s = 1 .. n /\ i \in 1 .. n /\ \A k \in 1 .. n : s[k] \in S
  BY LenProperties, ElementOfSeq
<1>2. /\ SubSeq(s, 1, i - 1) \in Seq(S)
      /\ Len(SubSeq(s, 1, i - 1)) = i - 1
      /\ \A k \in 1 .. i - 1 : SubSeq(s, 1, i - 1)[k] = s[k]
  <2>1. \A k \in 1 .. i - 1 : s[k] \in S
    BY <1>1
  <2>2. /\ SubSeq(s, 1, i - 1) \in Seq(S)
        /\ Len(SubSeq(s, 1, i - 1)) = IF 1 <= i - 1 THEN i - 1 - 1 + 1 ELSE 0
        /\ \A k \in 1 .. i - 1 - 1 + 1 : SubSeq(s, 1, i - 1)[k] = s[1 + k - 1]
    BY <1>1, <2>1, SubSeqProperties
  <2> QED BY <1>1, <2>2
<1>3. /\ SubSeq(s, i + 1, n) \in Seq(S)
      /\ Len(SubSeq(s, i + 1, n)) = n - i
      /\ \A k \in 1 .. n - i : SubSeq(s, i + 1, n)[k] = s[i + k]
  <2>1. \A k \in i + 1 .. n : s[k] \in S
    BY <1>1
  <2>2. /\ SubSeq(s, i + 1, n) \in Seq(S)
        /\ Len(SubSeq(s, i + 1, n)) = IF i + 1 <= n THEN n - (i + 1) + 1 ELSE 0
        /\ \A k \in 1 .. n - (i + 1) + 1 : SubSeq(s, i + 1, n)[k] = s[i + 1 + k - 1]
    BY <1>1, <2>1, SubSeqProperties
  <2> DEFINE q == SubSeq(s, i + 1, n)
  <2> HIDE DEF q, n
  <2>3. n - (i + 1) + 1 = n - i /\ (~(i + 1 <= n) => n - i = 0)
    BY <1>1
  <2>4. \A k \in 1 .. n - i : i + 1 + k - 1 = i + k
    BY <1>1
  <2>5. q \in Seq(S) /\ Len(q) = n - i
    BY <2>2, <2>3 DEF q
  <2>6. \A k \in 1 .. n - i : q[k] = s[i + k]
    BY <2>2, <2>3, <2>4 DEF q
  <2> QED BY <2>5, <2>6 DEF q
<1>4. /\ r \in Seq(S)
      /\ Len(r) = n - 1
      /\ \A k \in 1 .. n - 1 : r[k] = IF k < i THEN s[k] ELSE s[k + 1]
  <2> DEFINE p == SubSeq(s, 1, i - 1)
             q == SubSeq(s, i + 1, n)
  <2>1. r = p \o q
    BY DEF RemoveAt
  <2>2. p \in Seq(S) /\ Len(p) = i - 1 /\ \A k \in 1 .. i - 1 : p[k] = s[k]
    BY <1>2
  <2>3. q \in Seq(S) /\ Len(q) = n - i /\ \A k \in 1 .. n - i : q[k] = s[i + k]
    BY <1>3
  <2> HIDE DEF p, q, r, n
  <2>4. /\ p \o q \in Seq(S)
        /\ Len(p \o q) = Len(p) + Len(q)
        /\ \A k \in 1 .. Len(p) + Len(q) :
             (p \o q)[k] = IF k <= Len(p) THEN p[k] ELSE q[k - Len(p)]
    BY <2>2, <2>3, ConcatProperties
  <2>5. r \in Seq(S) /\ Len(r) = n - 1
    BY <1>1, <2>1, <2>2, <2>3, <2>4
  <2>6. ASSUME NEW k \in 1 .. n - 1
        PROVE  r[k] = IF k < i THEN s[k] ELSE s[k + 1]
    <3>1. CASE k < i
      BY <3>1, <1>1, <2>1, <2>2, <2>3, <2>4
    <3>2. CASE ~(k < i)
      <4>1. k \in 1 .. Len(p) + Len(q) /\ ~(k <= Len(p)) /\ k - Len(p) = k - (i - 1)
        BY <3>2, <1>1, <2>2, <2>3
      <4>2. r[k] = q[k - (i - 1)]
        BY <4>1, <2>1, <2>4
      <4>3. k - (i - 1) \in 1 .. n - i /\ i + (k - (i - 1)) = k + 1
        BY <3>2, <1>1
      <4>4. q[k - (i - 1)] = s[k + 1]
        BY <4>3, <2>3
      <4> QED BY <3>2, <4>2, <4>4
    <3> QED BY <3>1, <3>2
  <2> QED BY <2>5, <2>6
<1> QED BY <1>4

(* Unlinking the i-th entry takes that entry out and no other.             *)
LEMMA UnlinkProperties ==
  ASSUME NEW S, NEW s \in Seq(S), NEW i \in DOMAIN s, IsInjective(s)
  PROVE  /\ RemoveAt(s, i) \in Seq(S)
         /\ Range(RemoveAt(s, i)) = Range(s) \ {s[i]}
         /\ IsInjective(RemoveAt(s, i))
<1> DEFINE n == Len(s)
           r == RemoveAt(s, i)
<1>1. n \in Nat /\ DOMAIN s = 1 .. n /\ i \in 1 .. n /\ \A k \in 1 .. n : s[k] \in S
  BY LenProperties, ElementOfSeq
<1>2. /\ r \in Seq(S)
      /\ Len(r) = n - 1
      /\ \A k \in 1 .. n - 1 : r[k] = IF k < i THEN s[k] ELSE s[k + 1]
  BY RemoveAtProperties
<1>3. DOMAIN r = 1 .. n - 1
  BY <1>2, LenProperties
<1>4. \A a, b \in 1 .. n : s[a] = s[b] => a = b
  BY <1>1 DEF IsInjective
<1>5. IsInjective(r)
  <2> SUFFICES ASSUME NEW a \in 1 .. n - 1, NEW b \in 1 .. n - 1, r[a] = r[b]
               PROVE  a = b
    BY <1>3 DEF IsInjective
  <2> DEFINE at(k) == IF k < i THEN k ELSE k + 1
  <2>1. at(a) \in 1 .. n /\ at(b) \in 1 .. n /\ r[a] = s[at(a)] /\ r[b] = s[at(b)]
    BY <1>1, <1>2
  <2>2. at(a) = at(b)
    BY <1>4, <2>1
  <2> QED BY <1>1, <2>2
<1>6. \A x : x \in Range(r) <=> x \in Range(s) \ {s[i]}
  <2>1. ASSUME NEW k \in 1 .. n - 1
        PROVE  \E j \in 1 .. n : j # i /\ r[k] = s[j]
    <3>1. CASE k < i
      BY <3>1, <1>1, <1>2
    <3>2. CASE ~(k < i)
      <4>1. k + 1 \in 1 .. n /\ k + 1 # i /\ r[k] = s[k + 1]
        BY <3>2, <1>1, <1>2
      <4> QED BY <4>1
    <3> QED BY <3>1, <3>2
  <2>2. ASSUME NEW j \in 1 .. n, j # i
        PROVE  \E k \in 1 .. n - 1 : r[k] = s[j]
    <3>1. CASE j < i
      BY <3>1, <1>1, <1>2
    <3>2. CASE ~(j < i)
      <4>1. j - 1 \in 1 .. n - 1 /\ r[j - 1] = s[j]
        BY <2>2, <3>2, <1>1, <1>2
      <4> QED BY <4>1
    <3> QED BY <3>1, <3>2
  <2>3. /\ Range(r) = {r[k] : k \in 1 .. n - 1}
        /\ Range(s) = {s[k] : k \in 1 .. n}
    BY <1>1, <1>3 DEF Range
  <2> HIDE DEF r, n
  <2>4. ASSUME NEW x \in Range(r)
        PROVE  x \in Range(s) \ {s[i]}
    <3>1. PICK k \in 1 .. n - 1 : x = r[k]
      BY <2>3
    <3>2. PICK j \in 1 .. n : j # i /\ x = s[j]
      BY <2>1, <3>1
    <3> QED BY <1>1, <1>4, <2>3, <3>2
  <2>5. ASSUME NEW x \in Range(s) \ {s[i]}
        PROVE  x \in Range(r)
    <3>1. PICK j \in 1 .. n : x = s[j]
      BY <2>3
    <3> QED BY <2>2, <2>3, <3>1
  <2> QED BY <2>4, <2>5
<1>7. Range(r) = Range(s) \ {s[i]}
  BY <1>6
<1> QED BY <1>2, <1>5, <1>7
=============================================================================
