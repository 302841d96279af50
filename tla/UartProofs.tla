----------------------------- MODULE UartProofs -----------------------------
(***************************************************************************)
(* Proofs about Uart: for any number of callers, any size of the buffers   *)
(* and any range of the positions, both directions keep their order, and   *)
(* whoever waits for the device has its interrupt on.                      *)
(***************************************************************************)
EXTENDS Uart, SequenceTheorems, TLAPS

----------------------------------------------------------------------------
(* Arithmetic of the positions.                                            *)

(* What remains of a division, and what it is the remainder of.            *)
LEMMA DivMod ==
  ASSUME NEW x \in Nat, NEW R \in Nat \ {0}
  PROVE  x % R \in 0 .. R - 1 /\ x \div R \in Nat /\ x = R * (x \div R) + (x % R)
<1>1. x % R \in 0 .. R - 1 /\ x \div R \in Nat
  OBVIOUS
<1>2. x % R = x - R * (x \div R)
  BY Z3
<1> QED BY <1>1, <1>2

(* A number is in one class only ...                                       *)
LEMMA ModUnique ==
  ASSUME NEW q \in Nat, NEW R \in Nat \ {0}, NEW r \in 0 .. R - 1
  PROVE  (R * q + r) % R = r
<1>1. PICK x \in Nat : x = R * q + r
  <2>1. R * q \in Nat
    OBVIOUS
  <2> QED BY <2>1
<1>2. x % R \in 0 .. R - 1 /\ x \div R \in Nat /\ x = R * (x \div R) + (x % R)
  BY DivMod
<1> DEFINE p == x \div R
           s == x % R
<1>3. R * q + r = R * p + s
  BY <1>1, <1>2
<1> HIDE DEF p, s
<1>4. q = p
  <2>1. CASE q < p
    <3>1. PICK d \in Nat \ {0} : p = q + d
      <4>1. p - q \in Nat \ {0} /\ p = q + (p - q)
        BY <2>1, <1>2 DEF p
      <4> QED BY <4>1
    <3>2. R * p = R * q + R * d /\ R * d >= R
      BY <3>1
    <3> QED BY <1>2, <1>3, <3>2 DEF s
  <2>2. CASE p < q
    <3>1. PICK d \in Nat \ {0} : q = p + d
      <4>1. q - p \in Nat \ {0} /\ q = p + (q - p)
        BY <2>2, <1>2 DEF p
      <4> QED BY <4>1
    <3>2. R * q = R * p + R * d /\ R * d >= R
      BY <3>1, <1>2 DEF p
    <3> QED BY <1>2, <1>3, <3>2 DEF s, p
  <2> QED BY <2>1, <2>2, <1>2 DEF p
<1> QED BY <1>1, <1>2, <1>3, <1>4 DEF s, p

(* ... adding whole cycles does not change it ...                          *)
LEMMA ModCycle ==
  ASSUME NEW x \in Nat, NEW R \in Nat \ {0}, NEW P \in Nat, P % R = 0
  PROVE  (x + P) % R = x % R
<1> DEFINE q == x \div R
           p == P \div R
           r == x % R
<1>1. r \in 0 .. R - 1 /\ q \in Nat /\ x = R * q + r
  BY DivMod
<1>2. p \in Nat /\ P = R * p
  BY DivMod
<1> HIDE DEF p, q, r
<1>3. x + P = R * (q + p) + r /\ q + p \in Nat
  BY <1>1, <1>2
<1>4. (R * (q + p) + r) % R = r
  BY <1>1, <1>3, ModUnique
<1> QED BY <1>3, <1>4 DEF r

(* ... and numbers closer than a cycle are in different ones.              *)
LEMMA ModApart ==
  ASSUME NEW x \in Nat, NEW y \in Nat, NEW R \in Nat \ {0}, x < y, y < x + R
  PROVE  x % R # y % R
<1> DEFINE q == x \div R
           p == y \div R
           r == x % R
<1> SUFFICES ASSUME r = y % R PROVE FALSE
  OBVIOUS
<1>1. r \in 0 .. R - 1 /\ q \in Nat /\ x = R * q + r
  BY DivMod
<1>2. p \in Nat /\ y = R * p + r
  BY DivMod
<1> HIDE DEF p, q, r
<1>3. q < p
  <2>1. SUFFICES ASSUME p <= q PROVE FALSE
    BY <1>1, <1>2
  <2>2. PICK d \in Nat : q = p + d
    BY <1>1, <1>2, <2>1
  <2>3. R * q = R * p + R * d /\ R * d >= 0
    BY <1>2, <2>2
  <2> QED BY <1>1, <1>2, <2>3
<1>4. PICK d \in Nat \ {0} : p = q + d
  BY <1>1, <1>2, <1>3
<1>5. R * p = R * q + R * d /\ R * d >= R
  BY <1>1, <1>4
<1> QED BY <1>1, <1>2, <1>5

(* A position, and one that has wrapped once.                              *)
LEMMA Wrap ==
  ASSUME NEW x \in 0 .. 2 * POS - 1
  PROVE  x % POS = (IF x < POS THEN x ELSE x - POS) /\ x % POS \in 0 .. POS - 1
<1>1. POS \in Nat \ {0}
  BY UartAssumption
<1>2. CASE x < POS
  <2>1. x \in 0 .. POS - 1 /\ x = POS * 0 + x
    BY <1>1, <1>2
  <2>2. (POS * 0 + x) % POS = x
    BY <1>1, <2>1, ModUnique
  <2> QED BY <1>2, <2>1, <2>2
<1>3. CASE ~(x < POS)
  <2>1. x - POS \in 0 .. POS - 1 /\ x = POS * 1 + (x - POS)
    BY <1>1, <1>3
  <2>2. (POS * 1 + (x - POS)) % POS = x - POS
    BY <1>1, <2>1, ModUnique
  <2> QED BY <1>3, <2>1, <2>2
<1> QED BY <1>2, <1>3

----------------------------------------------------------------------------
(* Ring buffers.                                                           *)

Ring == [hpos : 0 .. POS - 1, tpos : 0 .. POS - 1, data : [0 .. RBUFSZ - 1 -> Char]]

LEMMA UsedOnce ==
  ASSUME NEW r \in Ring
  PROVE  /\ Used(r) = IF r.hpos <= r.tpos THEN r.tpos - r.hpos ELSE r.tpos + POS - r.hpos
         /\ Used(r) \in 0 .. POS - 1
         /\ rbuf_empty(r) <=> Used(r) = 0
<1>1. POS \in Nat /\ r.hpos \in 0 .. POS - 1 /\ r.tpos \in 0 .. POS - 1
  BY UartAssumption DEF Ring
<1>2. PICK x \in 0 .. 2 * POS - 1 : x = r.tpos + POS - r.hpos
  BY <1>1
<1>3. Used(r) = (IF x < POS THEN x ELSE x - POS)
  BY <1>2, Wrap DEF Used
<1> QED BY <1>1, <1>2, <1>3 DEF rbuf_empty

(* Where the i-th character behind the head is: counted from the tail it is*)
(* the same place.                                                         *)
LEMMA Place ==
  ASSUME NEW x \in 0 .. 2 * POS - 1, NEW k \in Nat
  PROVE  /\ ((x % POS) + k) % RBUFSZ = (x + k) % RBUFSZ
         /\ (x + k) % RBUFSZ \in 0 .. RBUFSZ - 1
<1>1. /\ RBUFSZ \in Nat \ {0} /\ POS \in Nat /\ POS % RBUFSZ = 0
      /\ x \in Nat /\ x + k \in Nat
  BY UartAssumption
<1>2. (x + k) % RBUFSZ \in 0 .. RBUFSZ - 1
  BY <1>1, DivMod
<1>3. CASE x < POS
  BY <1>2, <1>3, Wrap
<1>4. CASE ~(x < POS)
  <2>1. x % POS = x - POS
    BY <1>4, Wrap
  <2>2. x - POS + k \in Nat /\ x - POS + k + POS = x + k
    BY <1>1, <1>4
  <2>3. (x - POS + k + POS) % RBUFSZ = (x - POS + k) % RBUFSZ
    BY <1>1, <2>2, ModCycle
  <2> QED BY <1>2, <2>1, <2>2, <2>3
<1> QED BY <1>3, <1>4

(* The characters of a ring are a sequence.                                *)
LEMMA ContentOK ==
  ASSUME NEW r \in Ring
  PROVE  /\ Content(r) \in Seq(Char) /\ Len(Content(r)) = Used(r)
         /\ \A i \in 1 .. Used(r) : Content(r)[i] = r.data[(r.hpos + i - 1) % RBUFSZ]
         /\ Used(r) \in Nat
<1>1. Used(r) \in Nat
  BY UsedOnce, UartAssumption
<1>2. ASSUME NEW i \in 1 .. Used(r)
      PROVE  r.data[(r.hpos + i - 1) % RBUFSZ] \in Char
  <2>1. r.hpos \in 0 .. 2 * POS - 1 /\ i - 1 \in Nat /\ r.hpos + (i - 1) = r.hpos + i - 1
    BY <1>1, <1>2, UartAssumption DEF Ring
  <2>2. (r.hpos + (i - 1)) % RBUFSZ \in 0 .. RBUFSZ - 1
    BY <2>1, Place
  <2> QED BY <2>1, <2>2 DEF Ring
<1>3. Content(r) \in [1 .. Used(r) -> Char]
  BY <1>2 DEF Content
<1> QED BY <1>1, <1>3 DEF Content

(* rbuf_getc: the first n characters leave.                                *)
LEMMA GotOK ==
  ASSUME NEW r \in Ring, NEW n \in 0 .. Used(r)
  PROVE  /\ Got(r, n) \in Ring /\ Used(Got(r, n)) = Used(r) - n
         /\ Content(Got(r, n)) = SubSeq(Content(r), n + 1, Used(r))
<1> DEFINE g == Got(r, n)
<1>1. /\ POS \in Nat /\ r.hpos \in 0 .. POS - 1 /\ r.tpos \in 0 .. POS - 1
      /\ Used(r) \in 0 .. POS - 1 /\ n \in 0 .. POS - 1
      /\ r.hpos + n \in 0 .. 2 * POS - 1 /\ r.hpos \in Nat
  BY UartAssumption, UsedOnce DEF Ring
<1>2. /\ (r.hpos + n) % POS \in 0 .. POS - 1
      /\ (r.hpos + n) % POS = IF r.hpos + n < POS THEN r.hpos + n ELSE r.hpos + n - POS
  BY <1>1, Wrap
<1>3. g.hpos = (r.hpos + n) % POS /\ g.tpos = r.tpos /\ g.data = r.data /\ g \in Ring
  BY <1>1, <1>2 DEF Got, Ring
<1> HIDE DEF g
<1>4. Used(g) = Used(r) - n
  BY <1>1, <1>2, <1>3, UsedOnce
<1>5. /\ Content(g) \in Seq(Char) /\ Len(Content(g)) = Used(r) - n
      /\ \A i \in 1 .. Used(r) - n : Content(g)[i] = r.data[(((r.hpos + n) % POS) + i - 1) % RBUFSZ]
  BY <1>3, <1>4, ContentOK
<1>6. /\ Content(r) \in Seq(Char) /\ Len(Content(r)) = Used(r)
      /\ \A i \in 1 .. Used(r) : Content(r)[i] = r.data[(r.hpos + i - 1) % RBUFSZ]
  BY ContentOK
<1> DEFINE u == SubSeq(Content(r), n + 1, Used(r))
<1>7. /\ u \in Seq(Char) /\ Len(u) = Used(r) - n
      /\ \A i \in 1 .. Used(r) - n : u[i] = Content(r)[n + i]
  BY <1>1, <1>6
<1> HIDE DEF u
<1>8. ASSUME NEW i \in 1 .. Used(r) - n
      PROVE  Content(g)[i] = u[i]
  <2>1. i - 1 \in Nat /\ n + i \in 1 .. Used(r)
    BY <1>1
  <2>2. (((r.hpos + n) % POS) + (i - 1)) % RBUFSZ = ((r.hpos + n) + (i - 1)) % RBUFSZ
    BY <1>1, <2>1, Place
  <2>3. /\ ((r.hpos + n) % POS) + (i - 1) = ((r.hpos + n) % POS) + i - 1
        /\ (r.hpos + n) + (i - 1) = r.hpos + (n + i) - 1
    BY <1>1, <1>2, <2>1
  <2>4. Content(g)[i] = r.data[(r.hpos + (n + i) - 1) % RBUFSZ]
    BY <1>5, <2>2, <2>3
  <2> QED BY <1>6, <1>7, <2>1, <2>4
<1>9. Content(g) = u
  BY <1>5, <1>7, <1>8, SeqEqual
<1> QED BY <1>3, <1>4, <1>9 DEF g, u

(* rbuf_putc: as many characters as there is room for, behind the others.  *)
LEMMA PutOK ==
  ASSUME NEW r \in Ring, NEW s \in Seq(Char), Used(r) + Len(s) <= RBUFSZ
  PROVE  /\ Put(r, s) \in Ring /\ Used(Put(r, s)) = Used(r) + Len(s)
         /\ Content(Put(r, s)) = Content(r) \o s
<1>n. PICK n \in Nat : n = Len(s) /\ DOMAIN s = 1 .. n
  BY LenProperties
<1>u. PICK u \in Nat : u = Used(r)
  BY ContentOK
<1>h. PICK h \in Nat : h = r.hpos
  BY UartAssumption DEF Ring
<1>t. PICK t \in Nat : t = r.tpos
  BY UartAssumption DEF Ring
<1> DEFINE g     == Put(r, s)
           at(k) == (t + k - 1) % RBUFSZ
<1>1. /\ POS \in Nat /\ RBUFSZ \in Nat \ {0} /\ RBUFSZ < POS
      /\ h < POS /\ t < POS /\ u < POS /\ u + n <= RBUFSZ
      /\ u = IF h <= t THEN t - h ELSE t + POS - h
  <2>1. POS \in Nat /\ RBUFSZ \in Nat \ {0} /\ RBUFSZ < POS
    BY UartAssumption
  <2>2. h < POS /\ t < POS
    BY <1>h, <1>t, <2>1 DEF Ring
  <2>3. u = IF h <= t THEN t - h ELSE t + POS - h
    BY <1>u, <1>h, <1>t, UsedOnce
  <2>4. u < POS
    BY <1>u, <2>1, UsedOnce
  <2>5. u + n <= RBUFSZ
    BY <1>n, <1>u
  <2> QED BY <2>1, <2>2, <2>3, <2>4, <2>5
<1>2. /\ (t + n) % POS \in 0 .. POS - 1
      /\ (t + n) % POS = IF t + n < POS THEN t + n ELSE t + n - POS
  <2>1. PICK x \in 0 .. 2 * POS - 1 : x = t + n
    BY <1>1
  <2>2. x % POS = (IF x < POS THEN x ELSE x - POS) /\ x % POS \in 0 .. POS - 1
    BY Wrap
  <2>3. PICK e \in 0 .. POS - 1 : e = x % POS
    BY <2>2
  <2>4. e = IF t + n < POS THEN t + n ELSE t + n - POS
    BY <1>1, <2>1, <2>2, <2>3
  <2>5. e = (t + n) % POS
    BY <2>1, <2>3
  <2> QED BY <2>4, <2>5
<1>3. ASSUME NEW k \in 1 .. n
      PROVE  /\ at(k) = (h + (u + k - 1)) % RBUFSZ
             /\ at(k) \in 0 .. RBUFSZ - 1
  <2>1. PICK x \in 0 .. 2 * POS - 1 : x = h + u
    BY <1>1
  <2>2. x % POS = t
    <3>1. x % POS = IF x < POS THEN x ELSE x - POS
      BY Wrap
    <3> QED BY <1>1, <2>1, <3>1
  <2>3. k - 1 \in Nat /\ t + (k - 1) = t + k - 1
        /\ x + (k - 1) = h + (u + k - 1)
    BY <2>1
  <2>4. (t + (k - 1)) % RBUFSZ = (x + (k - 1)) % RBUFSZ
        /\ (x + (k - 1)) % RBUFSZ \in 0 .. RBUFSZ - 1
    BY <2>2, <2>3, Place
  <2> QED BY <2>3, <2>4
<1>4. ASSUME NEW j \in 0 .. u + n - 1, NEW l \in 0 .. u + n - 1, j < l
      PROVE  (h + j) % RBUFSZ # (h + l) % RBUFSZ
  <2>1. h + j \in Nat /\ h + l \in Nat /\ h + j < h + l
        /\ h + l < h + j + RBUFSZ
    BY <1>1, <1>4
  <2> QED BY <1>1, <2>1, ModApart
<1>5. \A k, l \in 1 .. n : at(k) = at(l) => k = l
  <2>1. ASSUME NEW k \in 1 .. n, NEW l \in 1 .. n, k < l
        PROVE  at(k) # at(l)
    <3>1. /\ u + k - 1 \in 0 .. u + n - 1 /\ u + l - 1 \in 0 .. u + n - 1
          /\ u + k - 1 < u + l - 1
      BY <2>1
    <3>2. (h + (u + k - 1)) % RBUFSZ # (h + (u + l - 1)) % RBUFSZ
      BY <1>4, <3>1
    <3> QED BY <1>3, <3>2
  <2> HIDE DEF at
  <2>2. \A k, l \in 1 .. n : k = l \/ k < l \/ l < k
    OBVIOUS
  <2> QED BY <2>1, <2>2
<1>6. ASSUME NEW i \in 1 .. u
      PROVE  /\ (h + i - 1) % RBUFSZ \in 0 .. RBUFSZ - 1
             /\ \A k \in 1 .. n : at(k) # (h + i - 1) % RBUFSZ
  <2>1. /\ h \in 0 .. 2 * POS - 1 /\ i - 1 \in Nat /\ h + (i - 1) = h + i - 1
    BY <1>1
  <2>2. (h + (i - 1)) % RBUFSZ \in 0 .. RBUFSZ - 1
    BY <2>1, Place
  <2>3. ASSUME NEW k \in 1 .. n
        PROVE  at(k) # (h + (i - 1)) % RBUFSZ
    <3>1. /\ i - 1 \in 0 .. u + n - 1 /\ u + k - 1 \in 0 .. u + n - 1
          /\ i - 1 < u + k - 1
      OBVIOUS
    <3>2. (h + (i - 1)) % RBUFSZ # (h + (u + k - 1)) % RBUFSZ
      BY <1>4, <3>1
    <3> QED BY <1>3, <3>2
  <2> HIDE DEF at
  <2> QED BY <2>1, <2>2, <2>3
<1>7. /\ g.hpos = h /\ g.tpos = (t + n) % POS
      /\ g = [hpos |-> g.hpos, tpos |-> g.tpos, data |-> g.data]
      /\ g.data = [i \in 0 .. RBUFSZ - 1 |-> IF \E k \in 1 .. n : at(k) = i
                                             THEN s[CHOOSE k \in 1 .. n : at(k) = i]
                                             ELSE r.data[i]]
  <2> HIDE DEF at
  <2>1. r = [hpos |-> h, tpos |-> t, data |-> r.data] /\ DOMAIN r.data = 0 .. RBUFSZ - 1
    BY <1>h, <1>t DEF Ring
  <2>2. g.data = [i \in DOMAIN r.data |-> IF \E k \in DOMAIN s : at(k) = i
                                          THEN s[CHOOSE k \in DOMAIN s : at(k) = i]
                                          ELSE r.data[i]]
    BY <1>t, <2>1 DEF Put, at
  <2>3. g.hpos = h /\ g.tpos = (t + n) % POS
    BY <1>n, <2>1 DEF Put
  <2>4. g = [hpos |-> g.hpos, tpos |-> g.tpos, data |-> g.data]
    <3>1. DOMAIN r = {"hpos", "tpos", "data"}
      BY <2>1
    <3>2. DOMAIN g = {"hpos", "tpos", "data"} /\ g = [f \in DOMAIN g |-> g[f]]
      BY <3>1 DEF Put
    <3> QED BY <3>2
  <2> QED BY <1>n, <2>1, <2>2, <2>3, <2>4
<1> HIDE DEF g, at
<1>8. \A k \in 1 .. n : at(k) \in 0 .. RBUFSZ - 1 /\ g.data[at(k)] = s[k]
  <2> TAKE k \in 1 .. n
  <2>1. (CHOOSE l \in 1 .. n : at(l) = at(k)) = k
    BY <1>5
  <2> QED BY <1>3, <1>7, <2>1
<1>9. \A i \in 1 .. u : g.data[(h + i - 1) % RBUFSZ] = r.data[(h + i - 1) % RBUFSZ]
  BY <1>6, <1>7
<1>10. \A i \in 0 .. RBUFSZ - 1 : g.data[i] \in Char
  <2> TAKE i \in 0 .. RBUFSZ - 1
  <2>1. CASE \E k \in 1 .. n : at(k) = i
    <3>1. PICK k \in 1 .. n : at(k) = i
      BY <2>1
    <3>2. s[k] \in Char
      BY <1>n, ElementOfSeq
    <3> QED BY <1>8, <3>1, <3>2
  <2>2. CASE ~\E k \in 1 .. n : at(k) = i
    <3>1. g.data[i] = r.data[i]
      BY <1>7, <2>2
    <3> QED BY <3>1 DEF Ring
  <2> QED BY <2>1, <2>2
<1>11. g \in Ring
  <2>1. g.data \in [0 .. RBUFSZ - 1 -> Char]
    BY <1>7, <1>10
  <2>2. g.hpos \in 0 .. POS - 1 /\ g.tpos \in 0 .. POS - 1
    BY <1>1, <1>2, <1>7
  <2>3. g = [hpos |-> g.hpos, tpos |-> g.tpos, data |-> g.data]
    BY <1>7
  <2> QED BY <2>1, <2>2, <2>3 DEF Ring
<1>12. Used(g) = u + n
  <2>1. Used(g) = IF g.hpos <= g.tpos THEN g.tpos - g.hpos ELSE g.tpos + POS - g.hpos
    BY <1>11, UsedOnce
  <2>2. PICK e \in Nat : e = (t + n) % POS /\ e = IF t + n < POS THEN t + n ELSE t + n - POS
    BY <1>1, <1>2
  <2>3. Used(g) = IF h <= e THEN e - h ELSE e + POS - h
    BY <1>7, <2>1, <2>2
  <2> QED BY <1>1, <2>2, <2>3
<1>13. /\ Content(g) \in Seq(Char) /\ Len(Content(g)) = u + n
       /\ \A i \in 1 .. u + n : Content(g)[i] = g.data[(h + i - 1) % RBUFSZ]
  BY <1>7, <1>11, <1>12, ContentOK
<1>14. /\ Content(r) \in Seq(Char) /\ Len(Content(r)) = u
       /\ \A i \in 1 .. u : Content(r)[i] = r.data[(h + i - 1) % RBUFSZ]
  BY <1>u, <1>h, ContentOK
<1>15. /\ Content(r) \o s \in Seq(Char) /\ Len(Content(r) \o s) = u + n
       /\ \A i \in 1 .. u + n :
            (Content(r) \o s)[i] = IF i <= u THEN Content(r)[i] ELSE s[i - u]
  BY <1>n, <1>14, ConcatProperties
<1>16. ASSUME NEW i \in 1 .. u + n
       PROVE  Content(g)[i] = (Content(r) \o s)[i]
  <2>1. CASE i <= u
    <3>1. i \in 1 .. u
      BY <2>1
    <3> QED BY <1>9, <1>13, <1>14, <1>15, <2>1, <3>1
  <2>2. CASE ~(i <= u)
    <3>1. PICK k \in 1 .. n : k = i - u
      BY <2>2
    <3>2. h + (u + k - 1) = h + i - 1
      BY <3>1
    <3>3. at(k) = (h + i - 1) % RBUFSZ
      BY <1>3, <3>2
    <3>4. Content(g)[i] = s[k]
      BY <1>8, <1>13, <3>3
    <3>5. (Content(r) \o s)[i] = s[k]
      BY <1>15, <2>2, <3>1
    <3> QED BY <3>4, <3>5
  <2> QED BY <2>1, <2>2
<1>17. Content(g) = Content(r) \o s
  BY <1>13, <1>15, <1>16, SeqEqual
<1> QED BY <1>n, <1>u, <1>11, <1>12, <1>17 DEF g

LEMMA EmptyRingOK ==
  /\ EmptyRing \in Ring /\ Used(EmptyRing) = 0 /\ rbuf_empty(EmptyRing)
  /\ Content(EmptyRing) = <<>>
<1>1. (CHOOSE ch \in Char : TRUE) \in Char
  BY UartAssumption
<1>2. 0 \in 0 .. POS - 1
  BY UartAssumption
<1>3. EmptyRing \in Ring
  BY <1>1, <1>2 DEF EmptyRing, Ring
<1>4. rbuf_empty(EmptyRing)
  BY DEF EmptyRing, rbuf_empty
<1>5. Used(EmptyRing) = 0
  BY <1>3, <1>4, UsedOnce
<1>6. Content(EmptyRing) = <<>>
  BY <1>3, <1>5, ContentOK, EmptySeq
<1> QED BY <1>3, <1>4, <1>5, <1>6

----------------------------------------------------------------------------
(* The inductive invariant.                                                *)

Labels == {"idle", "lock", "recv", "rxwait", "send", "txwait"}
Requests == [op : {"idle", "recv", "send"}, left : 0 .. MaxReq, data : Seq(Char)]

(* What the receiver or the transmitter holds.                             *)
Held == {s \in Seq(Char) : Len(s) <= 1}

Typing ==
  /\ PlicTypeOK /\ opened \in BOOLEAN /\ owner \in Client \cup {NoOne}
  /\ rxbuf \in Ring /\ txbuf \in Ring
  /\ Used(rxbuf) <= RBUFSZ /\ Used(txbuf) <= RBUFSZ
  /\ ier \subseteq {"DR", "THRE"} /\ rbr \in Held /\ thr \in Held
  /\ pc \in [Client -> Labels] /\ req \in [Client -> Requests]

(* The lock is held from its acquisition to the return; a call is made of  *)
(* an open port and has something left to do.                              *)
CallOK(c) ==
  /\ owner = c <=> pc[c] \notin {"idle", "lock"}
  /\ pc[c] = "idle" => req[c] = Idle
  /\ pc[c] # "idle" => opened /\ req[c].op # "idle" /\ req[c].left > 0
  /\ pc[c] \in {"recv", "rxwait"} => req[c].op = "recv"
  /\ pc[c] \in {"send", "txwait"} => req[c].op = "send"
  /\ req[c].op = "send" => req[c].left = Len(req[c].data)
CallInv == \A c \in Client : CallOK(c)

PortInv == opened <=> priority[irqno] = 1

(* The transmitter's interrupt is on as long as there is something to send;*)
(* waiting callers wait for a reason.                                      *)
WaitInv ==
  /\ opened /\ ~rbuf_empty(txbuf) => "THRE" \in ier
  /\ \A c \in Client : /\ pc[c] = "txwait" => rbuf_full(txbuf)
                       /\ pc[c] = "rxwait" => rbuf_empty(rxbuf)

UartInv == Typing /\ CallInv /\ PortInv /\ WaitInv

(* The receiver's interrupt is off in a call only while the buffer is full,*)
(* and then there is enough for all the call asks for.                     *)
RxInv ==
  \A c \in Client :
    /\ pc[c] = "recv" /\ "DR" \notin ier => rbuf_full(rxbuf)
    /\ pc[c] = "rxwait" => "DR" \in ier

LEMMA OneHolder ==
  ASSUME UartInv, NEW c \in Client, NEW d \in Client,
         pc[c] \notin {"idle", "lock"}, pc[d] \notin {"idle", "lock"}
  PROVE  c = d
BY DEF UartInv, CallInv, CallOK

LEMMA HeldOK ==
  /\ <<>> \in Held
  /\ \A ch \in Char : <<ch>> \in Held
  /\ \A s \in Held : s = <<>> \/ (Len(s) = 1 /\ s = <<s[1]>> /\ s[1] \in Char)
<1>1. <<>> \in Held
  BY EmptySeq DEF Held
<1>2. ASSUME NEW ch \in Char
      PROVE  <<ch>> \in Held
  BY DEF Held
<1>3. ASSUME NEW s \in Held
      PROVE  s = <<>> \/ (Len(s) = 1 /\ s = <<s[1]>> /\ s[1] \in Char)
  <2>1. s \in Seq(Char) /\ Len(s) \in Nat /\ Len(s) <= 1
    BY LenProperties DEF Held
  <2>2. CASE Len(s) = 0
    BY <2>1, <2>2, EmptySeq
  <2>3. CASE Len(s) = 1
    <3>1. s[1] \in Char
      BY <2>1, <2>3
    <3>2. <<s[1]>> \in Seq(Char) /\ Len(<<s[1]>>) = 1 /\ <<s[1]>>[1] = s[1]
      BY <3>1
    <3>3. s = <<s[1]>>
      BY <2>1, <2>3, <3>2, SeqEqual
    <3> QED BY <2>3, <3>1, <3>3, Zenon
  <2>4. Len(s) = 0 \/ Len(s) = 1
    <3>1. \A l \in Nat : l <= 1 => l = 0 \/ l = 1
      OBVIOUS
    <3> QED BY <2>1, <3>1, Zenon
  <2> QED BY <2>2, <2>3, <2>4, Zenon
<1> QED BY <1>1, <1>2, <1>3

----------------------------------------------------------------------------
(* Steps.                                                                  *)

LEMMA UartInit == Init => UartInv /\ RxInv
<1> SUFFICES ASSUME Init PROVE UartInv /\ RxInv
  OBVIOUS
<1>1. Idle \in Requests
  BY UartAssumption, EmptySeq DEF Idle, Requests
<1>p. PlicTypeOK
  BY DEF Init, PlicInit, PlicTypeOK
<1>r. /\ rxbuf \in Ring /\ txbuf \in Ring
      /\ Used(rxbuf) <= RBUFSZ /\ Used(txbuf) <= RBUFSZ
  BY EmptyRingOK, UartAssumption DEF Init
<1>c. pc \in [Client -> Labels] /\ req \in [Client -> Requests]
  BY <1>1 DEF Init, Labels
<1>2. Typing
  BY <1>p, <1>r, <1>c, HeldOK DEF Init, Typing
<1>3. CallInv
  BY UartAssumption DEF Init, CallInv, CallOK, Idle
<1>4. PortInv
  BY UartAssumption DEF Init, PlicInit, PortInv
<1>5. WaitInv /\ RxInv
  BY DEF Init, WaitInv, RxInv
<1> QED BY <1>2, <1>3, <1>4, <1>5 DEF UartInv

LEMMA OpenStep ==
  ASSUME UartInv, NEW c \in Client, Open(c)
  PROVE  UartInv' /\ RxInv'
<1> USE UartAssumption DEF Open
<1>0. \A d \in Client : pc[d] = "idle"
  BY DEF UartInv, CallInv, CallOK
<1>1. Typing'
  BY EmptyRingOK, HeldOK DEF UartInv, Typing, PlicTypeOK
<1>2. CallInv'
  BY <1>0 DEF UartInv, CallInv, CallOK
<1>3. PortInv'
  BY DEF UartInv, Typing, PlicTypeOK, PortInv
<1>4. WaitInv' /\ RxInv'
  BY <1>0, EmptyRingOK DEF WaitInv, RxInv
<1> QED BY <1>1, <1>2, <1>3, <1>4 DEF UartInv

LEMMA CloseStep ==
  ASSUME UartInv, NEW c \in Client, Close(c), \A d \in Client : pc[d] = "idle"
  PROVE  UartInv' /\ RxInv'
<1> USE UartAssumption DEF Close, ringVars
<1>p. PlicTypeOK'
  BY DEF UartInv, Typing, PlicTypeOK
<1>1. Typing'
  BY <1>p DEF UartInv, Typing
<1>2. CallInv'
  BY DEF UartInv, CallInv, CallOK
<1>3. PortInv'
  BY DEF UartInv, Typing, PlicTypeOK, PortInv
<1>4. WaitInv' /\ RxInv'
  BY DEF WaitInv, RxInv
<1> QED BY <1>1, <1>2, <1>3, <1>4 DEF UartInv

LEMMA CallStep ==
  ASSUME UartInv, NEW c \in Client, NEW r \in Requests, Call(c, r),
         r.op # "idle", r.left > 0, r.op = "send" => r.left = Len(r.data)
  PROVE  UartInv' /\ (RxInv => RxInv')
<1> USE DEF Call, Go, ringVars, plicVars
<1>1. Typing'
  BY DEF UartInv, Typing, PlicTypeOK, Labels
<1>2. CallInv'
  BY DEF UartInv, Typing, CallInv, CallOK
<1>3. PortInv'
  BY DEF UartInv, PortInv
<1>4. WaitInv' /\ (RxInv => RxInv')
  BY DEF UartInv, Typing, WaitInv, RxInv
<1> QED BY <1>1, <1>2, <1>3, <1>4 DEF UartInv

LEMMA LockStep ==
  ASSUME UartInv, NEW c \in Client, Lock(c)
  PROVE  UartInv' /\ (RxInv => RxInv')
<1> USE DEF Lock, Go, ringVars, plicVars
<1>0. req[c].op \in {"recv", "send"}
  BY DEF UartInv, Typing, CallInv, CallOK, Requests
<1>1. Typing'
  BY <1>0 DEF UartInv, Typing, PlicTypeOK, Labels
<1>2. CallInv'
  BY <1>0, UartAssumption DEF UartInv, Typing, CallInv, CallOK
<1>3. PortInv'
  BY DEF UartInv, PortInv
<1>4. WaitInv' /\ (RxInv => RxInv')
  BY <1>0 DEF UartInv, Typing, WaitInv, RxInv, CallInv, CallOK
<1> QED BY <1>1, <1>2, <1>3, <1>4 DEF UartInv

LEMMA RecvWaitStep ==
  ASSUME UartInv, NEW c \in Client, RecvWait(c)
  PROVE  UartInv' /\ (RxInv => RxInv')
<1> USE DEF RecvWait, Go, ringVars, plicVars
<1>1. Typing'
  BY DEF UartInv, Typing, PlicTypeOK, Labels
<1>2. CallInv'
  BY DEF UartInv, Typing, CallInv, CallOK
<1>3. PortInv'
  BY DEF UartInv, PortInv
<1>4. WaitInv'
  BY DEF UartInv, Typing, WaitInv
<1>5. ~rbuf_full(rxbuf)
  BY UsedOnce, UartAssumption DEF UartInv, Typing, rbuf_full
<1>6. RxInv => RxInv'
  BY <1>5 DEF UartInv, Typing, RxInv
<1> QED BY <1>1, <1>2, <1>3, <1>4, <1>6 DEF UartInv

LEMMA SendWaitStep ==
  ASSUME UartInv, NEW c \in Client, SendWait(c)
  PROVE  UartInv' /\ (RxInv => RxInv')
<1> USE DEF SendWait, Go, ringVars, plicVars
<1>1. Typing'
  BY DEF UartInv, Typing, PlicTypeOK, Labels
<1>2. CallInv'
  BY DEF UartInv, Typing, CallInv, CallOK
<1>3. PortInv'
  BY DEF UartInv, PortInv
<1>4. WaitInv' /\ (RxInv => RxInv')
  BY DEF UartInv, Typing, WaitInv, RxInv
<1> QED BY <1>1, <1>2, <1>3, <1>4 DEF UartInv

LEMMA ArriveStep ==
  ASSUME UartInv, NEW ch \in Char, Arrive(ch)
  PROVE  UartInv' /\ (RxInv => RxInv')
<1> USE DEF Arrive, ringVars, plicVars
<1>1. Typing'
  BY HeldOK DEF UartInv, Typing, PlicTypeOK
<1>2. CallInv' /\ PortInv' /\ WaitInv' /\ (RxInv => RxInv')
  BY DEF UartInv, CallInv, CallOK, PortInv, WaitInv, RxInv
<1> QED BY <1>1, <1>2 DEF UartInv

LEMMA SentStep ==
  ASSUME UartInv, Sent
  PROVE  UartInv' /\ (RxInv => RxInv')
<1> USE DEF Sent, ringVars, plicVars
<1>1. Typing'
  BY HeldOK DEF UartInv, Typing, PlicTypeOK
<1>2. CallInv' /\ PortInv' /\ WaitInv' /\ (RxInv => RxInv')
  BY DEF UartInv, CallInv, CallOK, PortInv, WaitInv, RxInv
<1> QED BY <1>1, <1>2 DEF UartInv

LEMMA Changed ==
  ASSUME NEW r \in Requests, NEW n, NEW d
  PROVE  [r EXCEPT !.left = n, !.data = d] = [op |-> r.op, left |-> n, data |-> d]
<1> DEFINE a == [r EXCEPT !.left = n, !.data = d]
           b == [op |-> r.op, left |-> n, data |-> d]
<1>1. DOMAIN r = {"op", "left", "data"}
  BY DEF Requests
<1>2. /\ DOMAIN a = {"op", "left", "data"} /\ a = [f \in DOMAIN a |-> a[f]]
      /\ a.op = r.op /\ a.left = n /\ a.data = d
  BY <1>1
<1>3. /\ DOMAIN b = {"op", "left", "data"} /\ b = [f \in DOMAIN b |-> b[f]]
      /\ b.op = r.op /\ b.left = n /\ b.data = d
  OBVIOUS
<1> HIDE DEF a, b
<1>4. \A f \in {"op", "left", "data"} : a[f] = b[f]
  BY <1>2, <1>3
<1>5. a = b
  BY <1>2, <1>3, <1>4
<1> QED BY <1>5 DEF a, b

(* What a pass of recv does: k characters come out of the buffer, all that *)
(* is left to receive or all that is there.                                *)
Receives(c, k, got) ==
  /\ got = req[c].data \o SubSeq(Content(rxbuf), 1, k)
  /\ k <= req[c].left /\ k <= Used(rxbuf)
  /\ k = req[c].left \/ k = Used(rxbuf)
  /\ req[c].op = "recv"
  /\ rxbuf' = Got(rxbuf, k)
  /\ IF k = req[c].left
     THEN Leave(c, got)
     ELSE /\ req' = [req EXCEPT ![c] = [op |-> "recv", left |-> req[c].left - k,
                                        data |-> got]]
          /\ req[c].left - k \in 1 .. MaxReq
          /\ UNCHANGED <<owner, pc, ret>>

LEMMA RecvCopyFacts ==
  ASSUME UartInv, NEW c \in Client, RecvCopy(c)
  PROVE  \E k \in 1 .. MaxReq, got \in Seq(Char) : Receives(c, k, got)
<1>1. /\ req[c] \in Requests /\ req[c].left > 0 /\ req[c].op = "recv"
      /\ Used(rxbuf) \in Nat /\ Used(rxbuf) > 0
      /\ Content(rxbuf) \in Seq(Char) /\ Len(Content(rxbuf)) = Used(rxbuf)
  BY UsedOnce, ContentOK DEF UartInv, Typing, CallInv, CallOK, RecvCopy
<1>2. req[c].left \in Nat /\ req[c].left <= MaxReq /\ req[c].data \in Seq(Char)
      /\ req[c] = [op |-> "recv", left |-> req[c].left, data |-> req[c].data]
  BY <1>1, UartAssumption DEF Requests
<1>3. PICK k : k = Lesser(req[c].left, Used(rxbuf))
  OBVIOUS
<1>4. /\ k \in 1 .. MaxReq /\ k <= req[c].left /\ k <= Used(rxbuf)
      /\ k = req[c].left \/ k = Used(rxbuf)
      /\ k # req[c].left => req[c].left - k \in 1 .. MaxReq
  BY <1>1, <1>2, <1>3, UartAssumption DEF Lesser
<1>5. PICK got : got = req[c].data \o SubSeq(Content(rxbuf), 1, k)
  OBVIOUS
<1>6. got \in Seq(Char)
  <2>1. SubSeq(Content(rxbuf), 1, k) \in Seq(Char)
    BY <1>1, <1>4
  <2> QED BY <1>2, <1>5, <2>1
<1>7. /\ rxbuf' = Got(rxbuf, k)
      /\ IF k = req[c].left
         THEN Leave(c, got)
         ELSE /\ req' = [req EXCEPT ![c] = [req[c] EXCEPT !.left = req[c].left - k, !.data = got]]
              /\ UNCHANGED <<owner, pc, ret>>
  BY <1>3, <1>5 DEF RecvCopy
<1>8. [req[c] EXCEPT !.left = req[c].left - k, !.data = got]
        = [op |-> "recv", left |-> req[c].left - k, data |-> got]
  <2>1. [req[c] EXCEPT !.left = req[c].left - k, !.data = got]
          = [op |-> req[c].op, left |-> req[c].left - k, data |-> got]
    BY <1>1, Changed
  <2> QED BY <1>1, <2>1, Zenon
<1>9. IF k = req[c].left
      THEN Leave(c, got)
      ELSE /\ req' = [req EXCEPT ![c] = [op |-> "recv", left |-> req[c].left - k, data |-> got]]
           /\ req[c].left - k \in 1 .. MaxReq
           /\ UNCHANGED <<owner, pc, ret>>
  BY <1>4, <1>7, <1>8
<1>10. Receives(c, k, got)
  BY <1>1, <1>4, <1>5, <1>7, <1>9, Zenon DEF Receives
<1> QED BY <1>4, <1>6, <1>10

LEMMA RecvCopyStep ==
  ASSUME UartInv, NEW c \in Client, RecvCopy(c)
  PROVE  UartInv' /\ (RxInv /\ MaxReq <= RBUFSZ => RxInv')
<1> USE DEF Receives
<1>1. PICK k \in 1 .. MaxReq, got \in Seq(Char) : Receives(c, k, got)
  BY RecvCopyFacts
<1>2. pc[c] = "recv" /\ UNCHANGED <<opened, txbuf, ier, rbr, thr, plicVars>>
  BY DEF RecvCopy
<1>3. /\ rxbuf' \in Ring /\ Used(rxbuf') = Used(rxbuf) - k
      /\ Used(rxbuf) \in Nat /\ Used(rxbuf) <= RBUFSZ
      /\ RBUFSZ \in Nat /\ MaxReq \in Nat
  BY <1>1, GotOK, ContentOK, UartAssumption DEF UartInv, Typing
<1>4. Used(rxbuf') <= RBUFSZ
  BY <1>3
<1>5. Idle \in Requests
  BY UartAssumption, EmptySeq DEF Idle, Requests
<1>6. CASE k = req[c].left
  <2>1. /\ owner' = NoOne /\ pc' = [pc EXCEPT ![c] = "idle"]
        /\ req' = [req EXCEPT ![c] = Idle]
    BY <1>1, <1>6 DEF Leave, Go
  <2>2. Typing'
    BY <1>2, <1>3, <1>4, <1>5, <2>1 DEF UartInv, Typing, PlicTypeOK, Labels, plicVars
  <2>3. CallInv'
    BY <1>2, <2>1, UartAssumption DEF UartInv, Typing, CallInv, CallOK, Idle
  <2>4. PortInv'
    BY <1>2 DEF UartInv, PortInv, plicVars
  <2>5. \A d \in Client : d # c => pc[d] \in {"idle", "lock"}
    BY <1>2, OneHolder
  <2>6. WaitInv' /\ (RxInv => RxInv')
    BY <1>2, <2>1, <2>5 DEF UartInv, Typing, WaitInv, RxInv
  <2> QED BY <2>2, <2>3, <2>4, <2>6 DEF UartInv
<1>7. CASE k # req[c].left
  <2>1. /\ req' = [req EXCEPT ![c] = [op |-> "recv", left |-> req[c].left - k, data |-> got]]
        /\ req[c].left - k \in 1 .. MaxReq
        /\ UNCHANGED <<owner, pc>>
    BY <1>1, <1>7
  <2>2. [op |-> "recv", left |-> req[c].left - k, data |-> got] \in Requests
    BY <1>3, <2>1 DEF Requests
  <2>3. Typing'
    BY <1>2, <1>3, <1>4, <2>1, <2>2 DEF UartInv, Typing, PlicTypeOK, plicVars
  <2>4. CallInv'
    BY <1>2, <1>3, <2>1 DEF UartInv, Typing, CallInv, CallOK
  <2>5. PortInv'
    BY <1>2 DEF UartInv, PortInv, plicVars
  <2>6. \A d \in Client : d # c => pc[d] \in {"idle", "lock"}
    BY <1>2, OneHolder
  <2>7. WaitInv'
    BY <1>2, <2>1, <2>6 DEF UartInv, Typing, WaitInv
  <2>8. ASSUME RxInv, MaxReq <= RBUFSZ
        PROVE  RxInv'
    <3>1. req[c].left \in Nat /\ req[c].left <= MaxReq
      BY <1>3 DEF UartInv, Typing, Requests
    <3>2. ~rbuf_full(rxbuf)
      BY <1>1, <1>3, <1>7, <2>8, <3>1 DEF rbuf_full
    <3>3. "DR" \in ier
      BY <1>2, <2>8, <3>2 DEF RxInv
    <3> QED BY <1>2, <2>1, <2>6, <3>3 DEF RxInv
  <2> QED BY <2>3, <2>4, <2>5, <2>7, <2>8 DEF UartInv
<1> QED BY <1>6, <1>7

(* What a pass of send does: the first k characters go into the buffer,    *)
(* all that is left to send or all that there is room for.                 *)
Sends(c, k, s, rest) ==
  /\ s = SubSeq(req[c].data, 1, k) /\ Len(s) = k
  /\ rest = SubSeq(req[c].data, k + 1, Len(req[c].data))
  /\ Len(rest) = req[c].left - k
  /\ k <= req[c].left /\ Used(txbuf) + k <= RBUFSZ
  /\ req[c].op = "send"
  /\ txbuf' = Put(txbuf, s)
  /\ IF k = req[c].left
     THEN Leave(c, <<>>)
     ELSE /\ req' = [req EXCEPT ![c] = [op |-> "send", left |-> req[c].left - k,
                                        data |-> rest]]
          /\ req[c].left - k \in 1 .. MaxReq
          /\ UNCHANGED <<owner, pc, ret>>

LEMMA SendCopyFacts ==
  ASSUME UartInv, NEW c \in Client, SendCopy(c)
  PROVE  \E k \in 1 .. MaxReq, s \in Seq(Char), rest \in Seq(Char) : Sends(c, k, s, rest)
<1>1. /\ req[c] \in Requests /\ req[c].left > 0 /\ req[c].op = "send"
      /\ req[c].left = Len(req[c].data)
      /\ Used(txbuf) \in Nat /\ Used(txbuf) < RBUFSZ
  BY ContentOK, UartAssumption DEF UartInv, Typing, CallInv, CallOK, SendCopy, rbuf_full
<1>2. req[c].left \in Nat /\ req[c].left <= MaxReq /\ req[c].data \in Seq(Char)
      /\ req[c] = [op |-> "send", left |-> req[c].left, data |-> req[c].data]
  BY <1>1, UartAssumption DEF Requests
<1>3. PICK k : k = Lesser(req[c].left, RBUFSZ - Used(txbuf))
  OBVIOUS
<1>4. /\ k \in 1 .. MaxReq /\ k <= req[c].left /\ Used(txbuf) + k <= RBUFSZ
      /\ k # req[c].left => req[c].left - k \in 1 .. MaxReq
  BY <1>1, <1>2, <1>3, UartAssumption DEF Lesser
<1>5. PICK s : s = SubSeq(req[c].data, 1, k)
  OBVIOUS
<1>6. PICK rest : rest = SubSeq(req[c].data, k + 1, Len(req[c].data))
  OBVIOUS
<1>d. PICK d \in Seq(Char), n \in Nat : d = req[c].data /\ n = req[c].left
  BY <1>2
<1>7. s \in Seq(Char) /\ Len(s) = k
  <2>1. k \in Nat /\ k <= Len(d)
    BY <1>1, <1>4, <1>d
  <2>2. SubSeq(d, 1, k) \in Seq(Char) /\ Len(SubSeq(d, 1, k)) = k
    BY <2>1
  <2> QED BY <1>5, <1>d, <2>2, Zenon
<1>8. rest \in Seq(Char) /\ Len(rest) = req[c].left - k
  <2>1. k \in Nat /\ k <= Len(d) /\ Len(d) = n
    BY <1>1, <1>4, <1>d
  <2>2. SubSeq(d, k + 1, Len(d)) \in Seq(Char) /\ Len(SubSeq(d, k + 1, Len(d))) = n - k
    BY <2>1
  <2> QED BY <1>6, <1>d, <2>2, Zenon
<1>9. /\ txbuf' = Put(txbuf, s)
      /\ IF k = req[c].left
         THEN Leave(c, <<>>)
         ELSE /\ req' = [req EXCEPT ![c] = [req[c] EXCEPT !.left = req[c].left - k, !.data = rest]]
              /\ UNCHANGED <<owner, pc, ret>>
  BY <1>3, <1>5, <1>6 DEF SendCopy
<1>10. [req[c] EXCEPT !.left = req[c].left - k, !.data = rest]
         = [op |-> "send", left |-> req[c].left - k, data |-> rest]
  <2>1. [req[c] EXCEPT !.left = req[c].left - k, !.data = rest]
          = [op |-> req[c].op, left |-> req[c].left - k, data |-> rest]
    BY <1>1, Changed
  <2> QED BY <1>1, <2>1, Zenon
<1>11. IF k = req[c].left
       THEN Leave(c, <<>>)
       ELSE /\ req' = [req EXCEPT ![c] = [op |-> "send", left |-> req[c].left - k,
                                          data |-> rest]]
            /\ req[c].left - k \in 1 .. MaxReq
            /\ UNCHANGED <<owner, pc, ret>>
  BY <1>4, <1>9, <1>10
<1>12. Sends(c, k, s, rest)
  BY <1>1, <1>4, <1>5, <1>6, <1>7, <1>8, <1>9, <1>11, Zenon DEF Sends
<1> QED BY <1>4, <1>7, <1>8, <1>12

LEMMA SendCopyStep ==
  ASSUME UartInv, NEW c \in Client, SendCopy(c)
  PROVE  UartInv' /\ (RxInv => RxInv')
<1> USE DEF Sends
<1>1. PICK k \in 1 .. MaxReq, s \in Seq(Char), rest \in Seq(Char) : Sends(c, k, s, rest)
  BY SendCopyFacts
<1>2. /\ pc[c] = "send" /\ ier' = ier \cup {"THRE"}
      /\ UNCHANGED <<opened, rxbuf, rbr, thr, plicVars>>
  BY DEF SendCopy
<1>3. txbuf' \in Ring /\ Used(txbuf') <= RBUFSZ
  BY <1>1, PutOK DEF UartInv, Typing
<1>5. Idle \in Requests
  BY UartAssumption, EmptySeq DEF Idle, Requests
<1>6. \A d \in Client : d # c => pc[d] \in {"idle", "lock"}
  BY <1>2, OneHolder
<1>7. CASE k = req[c].left
  <2>1. /\ owner' = NoOne /\ pc' = [pc EXCEPT ![c] = "idle"]
        /\ req' = [req EXCEPT ![c] = Idle]
    BY <1>1, <1>7 DEF Leave, Go
  <2>2. Typing'
    BY <1>2, <1>3, <1>5, <2>1 DEF UartInv, Typing, PlicTypeOK, Labels, plicVars
  <2>3. CallInv'
    BY <1>2, <2>1, UartAssumption DEF UartInv, Typing, CallInv, CallOK, Idle
  <2>4. PortInv'
    BY <1>2 DEF UartInv, PortInv, plicVars
  <2>5. WaitInv' /\ (RxInv => RxInv')
    BY <1>2, <1>6, <2>1 DEF UartInv, Typing, WaitInv, RxInv
  <2> QED BY <2>2, <2>3, <2>4, <2>5 DEF UartInv
<1>8. CASE k # req[c].left
  <2>1. /\ req' = [req EXCEPT ![c] = [op |-> "send", left |-> req[c].left - k, data |-> rest]]
        /\ req[c].left - k \in 1 .. MaxReq
        /\ UNCHANGED <<owner, pc>>
    BY <1>1, <1>8
  <2>2. [op |-> "send", left |-> req[c].left - k, data |-> rest] \in Requests
    BY <2>1, UartAssumption DEF Requests
  <2>3. Typing'
    BY <1>2, <1>3, <2>1, <2>2 DEF UartInv, Typing, PlicTypeOK, plicVars
  <2>4. CallInv'
    BY <1>1, <1>2, <2>1 DEF UartInv, Typing, CallInv, CallOK
  <2>5. PortInv'
    BY <1>2 DEF UartInv, PortInv, plicVars
  <2>6. WaitInv' /\ (RxInv => RxInv')
    BY <1>2, <1>6, <2>1 DEF UartInv, Typing, WaitInv, RxInv
  <2> QED BY <2>3, <2>4, <2>5, <2>6 DEF UartInv
<1> QED BY <1>7, <1>8

(* What a run of the handler does to the two sides, and whom it wakes.     *)
TakesIn == rbr # <<>> /\ ~rbuf_full(rxbuf)
PutsOut == thr = <<>> /\ ~rbuf_empty(txbuf)

LEMMA IsrFacts ==
  ASSUME UartInv, Isr
  PROVE  /\ opened
         /\ TakesIn => /\ rxbuf' = Put(rxbuf, rbr) /\ rbr' = <<>>
                       /\ rxbuf' \in Ring /\ Used(rxbuf') = Used(rxbuf) + 1
                       /\ Used(rxbuf) + 1 <= RBUFSZ
                       /\ Content(rxbuf') = Content(rxbuf) \o rbr
         /\ ~TakesIn => UNCHANGED <<rxbuf, rbr>>
         /\ PutsOut => /\ txbuf' = Got(txbuf, 1) /\ thr' = <<Content(txbuf)[1]>>
                       /\ txbuf' \in Ring /\ Used(txbuf') = Used(txbuf) - 1
                       /\ Used(txbuf) \in Nat \ {0}
                       /\ Content(txbuf') = SubSeq(Content(txbuf), 2, Used(txbuf))
                       /\ Content(txbuf)[1] \in Char
         /\ ~PutsOut => UNCHANGED <<txbuf, thr>>
         /\ pc' = [c \in Client |-> IF TakesIn /\ pc[c] = "rxwait" THEN "recv"
                                    ELSE IF PutsOut /\ pc[c] = "txwait" THEN "send"
                                    ELSE pc[c]]
         /\ ier' = Enables(rxbuf', txbuf')
         /\ UNCHANGED <<opened, owner, req, ret, plicVars>>
<1>1. opened
  BY UartAssumption DEF Isr, UartInv, Typing, PlicTypeOK, PortInv
<1>2. ASSUME TakesIn
      PROVE  /\ rxbuf' = Put(rxbuf, rbr) /\ rbr' = <<>>
             /\ rxbuf' \in Ring /\ Used(rxbuf') = Used(rxbuf) + 1
             /\ Used(rxbuf) + 1 <= RBUFSZ
             /\ Content(rxbuf') = Content(rxbuf) \o rbr
  <2>1. rxbuf' = Put(rxbuf, rbr) /\ rbr' = <<>>
    BY <1>2 DEF Isr, TakesIn
  <2>2. rbr \in Seq(Char) /\ Len(rbr) = 1
    BY <1>2, HeldOK DEF UartInv, Typing, Held, TakesIn
  <2>3. Used(rxbuf) \in Nat /\ Used(rxbuf) + 1 <= RBUFSZ
    BY <1>2, ContentOK, UartAssumption DEF UartInv, Typing, TakesIn, rbuf_full
  <2>4. Used(rxbuf) + Len(rbr) <= RBUFSZ
    BY <2>2, <2>3
  <2>5. /\ Put(rxbuf, rbr) \in Ring /\ Used(Put(rxbuf, rbr)) = Used(rxbuf) + Len(rbr)
        /\ Content(Put(rxbuf, rbr)) = Content(rxbuf) \o rbr
    BY <2>2, <2>4, PutOK DEF UartInv, Typing
  <2> QED BY <2>1, <2>2, <2>3, <2>5
<1>3. ASSUME PutsOut
      PROVE  /\ txbuf' = Got(txbuf, 1) /\ thr' = <<Content(txbuf)[1]>>
             /\ txbuf' \in Ring /\ Used(txbuf') = Used(txbuf) - 1
             /\ Used(txbuf) \in Nat \ {0}
             /\ Content(txbuf') = SubSeq(Content(txbuf), 2, Used(txbuf))
             /\ Content(txbuf)[1] \in Char
  <2>1. txbuf' = Got(txbuf, 1) /\ thr' = <<Content(txbuf)[1]>>
    BY <1>3 DEF Isr, PutsOut
  <2>2. txbuf \in Ring
    BY DEF UartInv, Typing
  <2>3. Used(txbuf) \in Nat \ {0} /\ 1 \in 0 .. Used(txbuf)
    BY <1>3, <2>2, UsedOnce, ContentOK DEF PutsOut
  <2>4. /\ Got(txbuf, 1) \in Ring /\ Used(Got(txbuf, 1)) = Used(txbuf) - 1
        /\ Content(Got(txbuf, 1)) = SubSeq(Content(txbuf), 2, Used(txbuf))
    BY <2>2, <2>3, GotOK
  <2>5. Content(txbuf)[1] \in Char
    BY <2>2, <2>3, ContentOK
  <2> QED BY <2>1, <2>3, <2>4, <2>5
<1>4. /\ ~TakesIn => UNCHANGED <<rxbuf, rbr>>
      /\ ~PutsOut => UNCHANGED <<txbuf, thr>>
      /\ UNCHANGED <<opened, owner, req, ret, plicVars>>
  BY DEF Isr, TakesIn, PutsOut
<1>5. /\ pc' = [c \in Client |-> IF TakesIn /\ pc[c] = "rxwait" THEN "recv"
                                    ELSE IF PutsOut /\ pc[c] = "txwait" THEN "send"
                                    ELSE pc[c]]
      /\ ier' = Enables(rxbuf', txbuf')
  BY DEF Isr, TakesIn, PutsOut
<1> QED BY <1>1, <1>2, <1>3, <1>4, <1>5

LEMMA IsrStep ==
  ASSUME UartInv, Isr
  PROVE  UartInv' /\ (RxInv => RxInv')
<1>1. /\ opened
      /\ pc' = [c \in Client |-> IF TakesIn /\ pc[c] = "rxwait" THEN "recv"
                                 ELSE IF PutsOut /\ pc[c] = "txwait" THEN "send"
                                 ELSE pc[c]]
      /\ ier' = Enables(rxbuf', txbuf')
      /\ UNCHANGED <<opened, owner, req, ret, plicVars>>
      /\ ~TakesIn => UNCHANGED <<rxbuf, rbr>>
      /\ ~PutsOut => UNCHANGED <<txbuf, thr>>
  BY IsrFacts
<1>2. rxbuf' \in Ring /\ Used(rxbuf') <= RBUFSZ /\ rbr' \in Held
  <2>1. CASE TakesIn
    BY <2>1, IsrFacts, HeldOK
  <2>2. CASE ~TakesIn
    BY <1>1, <2>2 DEF UartInv, Typing
  <2> QED BY <2>1, <2>2
<1>3. txbuf' \in Ring /\ Used(txbuf') <= RBUFSZ /\ thr' \in Held
  <2>1. CASE PutsOut
    <3>1. Used(txbuf) \in Nat /\ Used(txbuf) <= RBUFSZ /\ RBUFSZ \in Nat
      BY <2>1, IsrFacts, UartAssumption DEF UartInv, Typing
    <3>2. txbuf' \in Ring /\ Used(txbuf') = Used(txbuf) - 1 /\ thr' \in Held
      BY <2>1, IsrFacts, HeldOK
    <3> QED BY <3>1, <3>2
  <2>2. CASE ~PutsOut
    BY <1>1, <2>2 DEF UartInv, Typing
  <2> QED BY <2>1, <2>2
<1>4. Typing'
  <2>1. ier' \subseteq {"DR", "THRE"}
    BY <1>1 DEF Enables
  <2>2. pc' \in [Client -> Labels]
    BY <1>1 DEF UartInv, Typing, Labels
  <2> QED BY <1>1, <1>2, <1>3, <2>1, <2>2 DEF UartInv, Typing, PlicTypeOK, plicVars
<1>5. CallInv'
  BY <1>1 DEF UartInv, Typing, CallInv, CallOK
<1>6. PortInv'
  BY <1>1 DEF UartInv, PortInv, plicVars
<1>7. \A c \in Client :
         /\ pc'[c] = "rxwait" => pc[c] = "rxwait" /\ ~TakesIn
         /\ pc'[c] = "txwait" => pc[c] = "txwait" /\ ~PutsOut
  BY <1>1
<1>8. WaitInv'
  BY <1>1, <1>7 DEF UartInv, WaitInv, Enables
<1>9. RxInv'
  <2> SUFFICES ASSUME NEW c \in Client
               PROVE  /\ pc'[c] = "recv" /\ "DR" \notin ier' => rbuf_full(rxbuf')
                      /\ pc'[c] = "rxwait" => "DR" \in ier'
    BY DEF RxInv
  <2>1. ASSUME pc'[c] = "rxwait"
        PROVE  ~rbuf_full(rxbuf')
    <3>1. rxbuf' = rxbuf /\ rbuf_empty(rxbuf)
      BY <1>1, <1>7, <2>1 DEF UartInv, WaitInv
    <3> QED BY <3>1, UsedOnce, UartAssumption DEF UartInv, Typing, rbuf_full
  <2> QED BY <1>1, <2>1 DEF Enables
<1> QED BY <1>4, <1>5, <1>6, <1>8, <1>9 DEF UartInv

LEMMA UartNext ==
  ASSUME UartInv, [Next]_vars
  PROVE  UartInv' /\ (RxInv /\ MaxReq <= RBUFSZ => RxInv')
<1>1. ASSUME NEW c \in Client, NEW n \in 1 .. MaxReq,
             Call(c, [op |-> "recv", left |-> n, data |-> <<>>])
      PROVE  UartInv' /\ (RxInv => RxInv')
  <2>1. [op |-> "recv", left |-> n, data |-> <<>>] \in Requests /\ n > 0
    BY UartAssumption, EmptySeq DEF Requests
  <2> QED BY <1>1, <2>1, CallStep
<1>2. ASSUME NEW c \in Client, NEW s \in Texts,
             Call(c, [op |-> "send", left |-> Len(s), data |-> s])
      PROVE  UartInv' /\ (RxInv => RxInv')
  <2>1. [op |-> "send", left |-> Len(s), data |-> s] \in Requests /\ Len(s) > 0
    BY UartAssumption DEF Requests
  <2> QED BY <1>2, <2>1, CallStep
<1>3. ASSUME NEW c \in Client, Start(c)
      PROVE  UartInv' /\ (RxInv => RxInv')
  BY <1>1, <1>2, <1>3, OpenStep, CloseStep DEF Start
<1>4. ASSUME NEW c \in Client, Step(c)
      PROVE  UartInv' /\ (RxInv /\ MaxReq <= RBUFSZ => RxInv')
  BY <1>4, LockStep, RecvCopyStep, RecvWaitStep, SendCopyStep, SendWaitStep DEF Step
<1>5. CASE UNCHANGED vars
  <2>1. UartInv'
    BY <1>5 DEF vars, ringVars, plicVars, UartInv, Typing, PlicTypeOK, CallInv, CallOK,
         PortInv, WaitInv
  <2>2. RxInv => RxInv'
    BY <1>5 DEF vars, ringVars, RxInv
  <2> QED BY <2>1, <2>2
<1> QED BY <1>3, <1>4, <1>5, IsrStep, SentStep, ArriveStep DEF Next

(* Whatever the callers and the device do, the buffers are rings that never*)
(* hold more than they have room for, and whoever is past the lock is the  *)
(* one that holds it.                                                      *)
THEOREM UartTyping == Spec => []TypeOK
<1>1. Init => UartInv
  BY UartInit
<1>2. UartInv /\ [Next]_vars => UartInv'
  BY UartNext
<1>3. UartInv => TypeOK
  BY UartAssumption DEF UartInv, Typing, CallInv, CallOK, PortInv, TypeOK, Ring
<1> QED BY <1>1, <1>2, <1>3, PTL DEF Spec

(* Nobody waits for a character, or for room, with the interrupt that      *)
(* would wake him switched off, as long as no call asks for more than the  *)
(* buffer holds.                                                           *)
THEOREM WaiterIsHeardHolds ==
  ASSUME MaxReq <= RBUFSZ
  PROVE  Spec => []WaiterIsHeard
<1>1. Init => UartInv /\ RxInv
  BY UartInit
<1>2. UartInv /\ RxInv /\ [Next]_vars => UartInv' /\ RxInv'
  BY UartNext
<1>3. UartInv /\ RxInv => WaiterIsHeard
  <2> SUFFICES ASSUME UartInv, RxInv, NEW c \in Client
               PROVE  /\ pc[c] = "rxwait" => rbuf_empty(rxbuf) /\ "DR" \in ier
                      /\ pc[c] = "txwait" => rbuf_full(txbuf) /\ "THRE" \in ier
    BY DEF WaiterIsHeard
  <2>1. rbuf_full(txbuf) => ~rbuf_empty(txbuf)
    BY UsedOnce, UartAssumption DEF UartInv, Typing, rbuf_full
  <2> QED BY <2>1 DEF UartInv, CallInv, CallOK, WaitInv, RxInv
<1> QED BY <1>1, <1>2, <1>3, PTL DEF Spec

(* A writer is heard however much it has to send.                          *)
WriterIsHeard == \A c \in Client : pc[c] = "txwait" => rbuf_full(txbuf) /\ "THRE" \in ier
THEOREM WriterIsHeardHolds == Spec => []WriterIsHeard
<1>1. Init => UartInv
  BY UartInit
<1>2. UartInv /\ [Next]_vars => UartInv'
  BY UartNext
<1>3. UartInv => WriterIsHeard
  <2> SUFFICES ASSUME UartInv, NEW c \in Client, pc[c] = "txwait"
               PROVE  rbuf_full(txbuf) /\ "THRE" \in ier
    BY DEF WriterIsHeard
  <2>1. rbuf_full(txbuf) => ~rbuf_empty(txbuf)
    BY UsedOnce, UartAssumption DEF UartInv, Typing, rbuf_full
  <2> QED BY <2>1 DEF UartInv, CallInv, CallOK, WaitInv
<1> QED BY <1>1, <1>2, <1>3, PTL DEF Spec

----------------------------------------------------------------------------
(* The port is a Line.                                                     *)

(* What arrived and is not yet received; what is sent and not yet gone.    *)
LineIn  == IF opened THEN Content(rxbuf) \o rbr ELSE <<>>
LineOut == thr \o (IF opened THEN Content(txbuf) ELSE <<>>)

(* Taking from the front, and replacing or adding the last.                *)
LEMMA PopFront ==
  ASSUME NEW s \in Seq(Char), NEW u \in Seq(Char), NEW k \in 1 .. Len(s)
  PROVE  /\ SubSeq(s \o u, 1, k) = SubSeq(s, 1, k)
         /\ SubSeq(s \o u, k + 1, Len(s \o u)) = SubSeq(s, k + 1, Len(s)) \o u
         /\ k <= Len(s \o u)
<1>1. /\ s \o u \in Seq(Char) /\ Len(s \o u) = Len(s) + Len(u)
      /\ \A i \in 1 .. Len(s) + Len(u) : (s \o u)[i] = IF i <= Len(s) THEN s[i] ELSE u[i - Len(s)]
      /\ Len(s) \in Nat /\ Len(u) \in Nat
  BY ConcatProperties
<1>2. SubSeq(s \o u, 1, k) = SubSeq(s, 1, k)
  BY <1>1, SubSeqOfConcat1
<1> DEFINE a == SubSeq(s \o u, k + 1, Len(s) + Len(u))
           b == SubSeq(s, k + 1, Len(s))
<1>3. /\ a \in Seq(Char) /\ Len(a) = Len(s) + Len(u) - k
      /\ \A i \in 1 .. Len(s) + Len(u) - k : a[i] = (s \o u)[k + i]
  BY <1>1
<1>4. /\ b \in Seq(Char) /\ Len(b) = Len(s) - k
      /\ \A i \in 1 .. Len(s) - k : b[i] = s[k + i]
  BY <1>1
<1> HIDE DEF a, b
<1>5. /\ b \o u \in Seq(Char) /\ Len(b \o u) = Len(s) - k + Len(u)
      /\ \A i \in 1 .. Len(s) - k + Len(u) :
           (b \o u)[i] = IF i <= Len(s) - k THEN b[i] ELSE u[i - (Len(s) - k)]
  <2>1. /\ b \o u \in Seq(Char) /\ Len(b \o u) = Len(b) + Len(u)
        /\ \A i \in 1 .. Len(b) + Len(u) :
             (b \o u)[i] = IF i <= Len(b) THEN b[i] ELSE u[i - Len(b)]
    BY <1>4, ConcatProperties
  <2>2. PICK l : l = Len(b)
    OBVIOUS
  <2> QED BY <1>4, <2>1, <2>2
<1>6. PICK n \in Nat, m \in Nat : n = Len(s) /\ m = Len(u)
  BY <1>1
<1>7. ASSUME NEW i \in 1 .. n + m - k
      PROVE  a[i] = (b \o u)[i]
  <2>1. CASE i <= n - k
    <3>1. i \in 1 .. n - k /\ k + i \in 1 .. n + m /\ k + i <= n /\ i \in 1 .. n - k + m
      BY <1>6, <1>7, <2>1
    <3> QED BY <1>1, <1>3, <1>4, <1>5, <1>6, <2>1, <3>1
  <2>2. CASE ~(i <= n - k)
    <3>1. k + i \in 1 .. n + m /\ ~(k + i <= n) /\ k + i - n = i - (n - k) /\ i \in 1 .. n - k + m
      BY <1>6, <1>7, <2>2
    <3>2. a[i] = u[k + i - n]
      BY <1>1, <1>3, <1>6, <3>1
    <3>3. (b \o u)[i] = u[i - (n - k)]
      BY <1>5, <1>6, <2>2, <3>1
    <3> QED BY <3>1, <3>2, <3>3
  <2> QED BY <2>1, <2>2
<1>8. a = b \o u
  <2>1. Len(a) = n + m - k /\ Len(b \o u) = n + m - k
    BY <1>3, <1>5, <1>6
  <2>2. Len(a) = Len(b \o u) /\ \A i \in 1 .. Len(a) : a[i] = (b \o u)[i]
    BY <1>7, <2>1
  <2> QED BY <1>3, <1>5, <2>2, SeqEqual
<1>9. SubSeq(s \o u, k + 1, Len(s \o u)) = SubSeq(s, k + 1, Len(s)) \o u
  BY <1>1, <1>8, Zenon DEF a, b
<1>10. k <= Len(s \o u)
  BY <1>1
<1> QED BY <1>2, <1>9, <1>10

LEMMA LastOne ==
  ASSUME NEW s \in Seq(Char), NEW x \in Char, NEW y \in Char
  PROVE  /\ s \o <<y>> = Append(s, y)
         /\ [(s \o <<x>>) EXCEPT ![Len(s \o <<x>>)] = y] = s \o <<y>>
         /\ s \o <<x>> # <<>>
<1>1. s \o <<y>> = Append(s, y) /\ s \o <<x>> = Append(s, x)
  BY AppendIsConcat
<1>2. /\ Append(s, x) \in Seq(Char) /\ Append(s, x) # <<>> /\ Len(Append(s, x)) = Len(s) + 1
      /\ \A i \in 1 .. Len(s) : Append(s, x)[i] = s[i]
  BY AppendProperties
<1>3. /\ Append(s, y) \in Seq(Char) /\ Len(Append(s, y)) = Len(s) + 1
      /\ \A i \in 1 .. Len(s) : Append(s, y)[i] = s[i]
      /\ Append(s, y)[Len(s) + 1] = y
  BY AppendProperties
<1>4. Len(s) \in Nat
  BY LenProperties
<1> DEFINE a == Append(s, x)
           e == [a EXCEPT ![Len(s) + 1] = y]
<1>5. /\ e \in Seq(Char) /\ Len(e) = Len(s) + 1
      /\ \A j \in 1 .. Len(s) + 1 : e[j] = IF j = Len(s) + 1 THEN y ELSE a[j]
  <2>1. a \in Seq(Char) /\ Len(s) + 1 \in 1 .. Len(a)
    BY <1>2, <1>4
  <2>2. PICK i \in 1 .. Len(a) : i = Len(s) + 1
    BY <2>1
  <2> HIDE DEF a
  <2>3. /\ [a EXCEPT ![i] = y] \in Seq(Char) /\ Len([a EXCEPT ![i] = y]) = Len(a)
        /\ \A j \in 1 .. Len(a) : [a EXCEPT ![i] = y][j] = IF j = i THEN y ELSE a[j]
    BY <2>1, ExceptSeq
  <2>4. Len(a) = Len(s) + 1
    BY <1>2 DEF a
  <2> QED BY <2>2, <2>3, <2>4
<1> HIDE DEF e
<1>6. ASSUME NEW j \in 1 .. Len(s) + 1
      PROVE  e[j] = Append(s, y)[j]
  <2>1. j = Len(s) + 1 \/ j \in 1 .. Len(s)
    BY <1>4
  <2> QED BY <1>2, <1>3, <1>4, <1>5, <2>1
<1>7. e = Append(s, y)
  BY <1>3, <1>5, <1>6, SeqEqual
<1> QED BY <1>1, <1>2, <1>7 DEF e

LEMMA FirstOne ==
  ASSUME NEW s \in Seq(Char), NEW x \in Char
  PROVE  /\ <<x>> \o s # <<>> /\ Head(<<x>> \o s) = x /\ Tail(<<x>> \o s) = s
<1>1. <<x>> \in Seq(Char) /\ Len(<<x>>) = 1 /\ <<x>>[1] = x
  OBVIOUS
<1> DEFINE w == <<x>> \o s
<1>2. /\ w \in Seq(Char) /\ Len(w) = 1 + Len(s) /\ Len(s) \in Nat
      /\ \A i \in 1 .. 1 + Len(s) : w[i] = IF i <= 1 THEN <<x>>[i] ELSE s[i - 1]
  BY <1>1, ConcatProperties
<1> HIDE DEF w
<1>3. w # <<>>
  BY <1>2, EmptySeq
<1>4. Tail(w) \in Seq(Char) /\ Len(Tail(w)) = Len(s) /\ \A i \in 1 .. Len(s) : Tail(w)[i] = w[i + 1]
  BY <1>2, <1>3, HeadTailProperties
<1>5. ASSUME NEW i \in 1 .. Len(s)
      PROVE  Tail(w)[i] = s[i]
  <2>1. i + 1 \in 1 .. 1 + Len(s) /\ ~(i + 1 <= 1) /\ i + 1 - 1 = i
    BY <1>2
  <2> QED BY <1>2, <1>4, <2>1
<1>6. Tail(w) = s
  BY <1>4, <1>5, SeqEqual
<1>7. Head(w) = x
  <2>1. 1 \in 1 .. 1 + Len(s)
    BY <1>2
  <2> QED BY <1>1, <1>2, <1>3, <2>1
<1> QED BY <1>3, <1>6, <1>7 DEF w

(* What the steps do to the two lines.                                     *)
LEMMA Lines ==
  ASSUME UartInv
  PROVE  /\ rbr \in Seq(Char) /\ thr \in Seq(Char)
         /\ Content(rxbuf) \in Seq(Char) /\ Len(Content(rxbuf)) = Used(rxbuf)
         /\ Content(txbuf) \in Seq(Char) /\ Len(Content(txbuf)) = Used(txbuf)
         /\ LineIn \in Seq(Char) /\ LineOut \in Seq(Char)
<1>1. /\ rbr \in Seq(Char) /\ thr \in Seq(Char)
      /\ Content(rxbuf) \in Seq(Char) /\ Len(Content(rxbuf)) = Used(rxbuf)
      /\ Content(txbuf) \in Seq(Char) /\ Len(Content(txbuf)) = Used(txbuf)
  BY ContentOK DEF UartInv, Typing, Held
<1>2. <<>> \in Seq(Char)
  BY EmptySeq
<1>3. Content(rxbuf) \o rbr \in Seq(Char)
  BY <1>1, ConcatProperties
<1>4. LineIn \in Seq(Char)
  BY <1>2, <1>3 DEF LineIn
<1>5. LineOut \in Seq(Char)
  BY <1>1, <1>2, ConcatProperties DEF LineOut
<1> QED BY <1>1, <1>4, <1>5

LEMMA LineReceive ==
  ASSUME UartInv, NEW c \in Client, RecvCopy(c)
  PROVE  \E k \in 1 .. MaxReq : L!Receive(c, k)
<1>1. PICK k \in 1 .. MaxReq, got \in Seq(Char) : Receives(c, k, got)
  BY RecvCopyFacts
<1>2. opened /\ UNCHANGED <<opened, txbuf, rbr, thr>> /\ req[c] \in Requests
  BY DEF RecvCopy, UartInv, CallInv, CallOK, Typing
<1>3. k \in 1 .. Len(Content(rxbuf)) /\ k \in 0 .. Used(rxbuf) /\ Len(Content(rxbuf)) = Used(rxbuf)
  BY <1>1, ContentOK, UartAssumption DEF Receives, UartInv, Typing
<1>4. Content(rxbuf') = SubSeq(Content(rxbuf), k + 1, Len(Content(rxbuf)))
  BY <1>1, <1>3, GotOK DEF Receives, UartInv, Typing
<1>5. /\ SubSeq(LineIn, 1, k) = SubSeq(Content(rxbuf), 1, k) /\ k <= Len(LineIn)
      /\ LineIn' = SubSeq(LineIn, k + 1, Len(LineIn))
  <2>1. LineIn = Content(rxbuf) \o rbr /\ LineIn' = Content(rxbuf') \o rbr
    BY <1>2 DEF LineIn
  <2>2. PICK s \in Seq(Char), u \in Seq(Char) : s = Content(rxbuf) /\ u = rbr
    BY Lines
  <2>3. /\ SubSeq(s \o u, 1, k) = SubSeq(s, 1, k)
        /\ SubSeq(s \o u, k + 1, Len(s \o u)) = SubSeq(s, k + 1, Len(s)) \o u
        /\ k <= Len(s \o u)
    BY <1>3, <2>2, PopFront
  <2>4. LineIn = s \o u /\ LineIn' = SubSeq(s, k + 1, Len(s)) \o u
    BY <1>2, <1>4, <2>1, <2>2
  <2> QED BY <2>2, <2>3, <2>4, Zenon
<1>6. LineOut' = LineOut
  BY <1>2 DEF LineOut
<1>7. got = req[c].data \o SubSeq(LineIn, 1, k)
  BY <1>1, <1>5 DEF Receives
<1>8. /\ req[c].op = "recv" /\ k <= req[c].left
      /\ IF k = req[c].left
         THEN req' = [req EXCEPT ![c] = L!Idle] /\ ret' = got
         ELSE /\ req' = [req EXCEPT ![c].left = @ - k, ![c].data = got]
              /\ UNCHANGED ret
  <2>1. CASE k = req[c].left
    BY <1>1, <2>1 DEF Receives, Leave, Idle, L!Idle
  <2>2. CASE k # req[c].left
    <3>1. [req[c] EXCEPT !.left = req[c].left - k, !.data = got]
            = [op |-> "recv", left |-> req[c].left - k, data |-> got]
      <4>1. req[c].op = "recv"
        BY <1>1 DEF Receives
      <4>2. [req[c] EXCEPT !.left = req[c].left - k, !.data = got]
              = [op |-> req[c].op, left |-> req[c].left - k, data |-> got]
        BY <1>2, Changed
      <4> QED BY <4>1, <4>2, Zenon
    <3>2. req' = [req EXCEPT ![c] = [req[c] EXCEPT !.left = req[c].left - k, !.data = got]]
      BY <1>1, <2>2, <3>1 DEF Receives
    <3>3. req' = [req EXCEPT ![c].left = @ - k, ![c].data = got]
      BY <3>2 DEF UartInv, Typing
    <3> QED BY <1>1, <2>2, <3>3 DEF Receives
  <2> QED BY <2>1, <2>2
<1>9. L!Receive(c, k)
  BY <1>5, <1>6, <1>7, <1>8 DEF L!Receive, LineIn, LineOut
<1> QED BY <1>9

LEMMA LineSend ==
  ASSUME UartInv, NEW c \in Client, SendCopy(c)
  PROVE  \E k \in 1 .. MaxReq : L!Send(c, k)
<1>1. PICK k \in 1 .. MaxReq, s \in Seq(Char), rest \in Seq(Char) : Sends(c, k, s, rest)
  BY SendCopyFacts
<1>2. opened /\ UNCHANGED <<opened, rxbuf, rbr, thr>> /\ req[c] \in Requests
  BY DEF SendCopy, UartInv, CallInv, CallOK, Typing
<1>3. Content(txbuf') = Content(txbuf) \o s
  BY <1>1, PutOK DEF Sends, UartInv, Typing
<1>4. LineOut' = LineOut \o SubSeq(req[c].data, 1, k)
  <2>1. LineOut = thr \o Content(txbuf) /\ LineOut' = thr \o (Content(txbuf) \o s)
    BY <1>2, <1>3 DEF LineOut
  <2>2. (thr \o Content(txbuf)) \o s = thr \o (Content(txbuf) \o s)
    <3>1. PICK a \in Seq(Char), b \in Seq(Char) : a = thr /\ b = Content(txbuf)
      BY Lines
    <3>2. (a \o b) \o s = a \o (b \o s)
      BY ConcatAssociative
    <3> QED BY <3>1, <3>2
  <2> QED BY <1>1, <2>1, <2>2 DEF Sends
<1>5. LineIn' = LineIn
  BY <1>2 DEF LineIn
<1>6. /\ req[c].op = "send" /\ k <= req[c].left
      /\ IF k = req[c].left
         THEN req' = [req EXCEPT ![c] = L!Idle] /\ ret' = <<>>
         ELSE /\ req' = [req EXCEPT ![c].left = @ - k, ![c].data = SubSeq(@, k + 1, Len(@))]
              /\ UNCHANGED ret
  <2>1. CASE k = req[c].left
    BY <1>1, <2>1 DEF Sends, Leave, Idle, L!Idle
  <2>2. CASE k # req[c].left
    <3>1. [req[c] EXCEPT !.left = req[c].left - k, !.data = rest]
            = [op |-> "send", left |-> req[c].left - k, data |-> rest]
      <4>1. req[c].op = "send"
        BY <1>1 DEF Sends
      <4>2. [req[c] EXCEPT !.left = req[c].left - k, !.data = rest]
              = [op |-> req[c].op, left |-> req[c].left - k, data |-> rest]
        BY <1>2, Changed
      <4> QED BY <4>1, <4>2, Zenon
    <3>2. /\ req' = [req EXCEPT ![c] = [req[c] EXCEPT !.left = req[c].left - k, !.data = rest]]
          /\ rest = SubSeq(req[c].data, k + 1, Len(req[c].data))
          /\ req[c].op = "send" /\ k <= req[c].left /\ ret' = ret
      BY <1>1, <2>2, <3>1 DEF Sends
    <3>3. req' = [req EXCEPT ![c].left = @ - k, ![c].data = SubSeq(@, k + 1, Len(@))]
      BY <3>2 DEF UartInv, Typing
    <3> QED BY <2>2, <3>2, <3>3
  <2> QED BY <2>1, <2>2
<1>7. L!Send(c, k)
  BY <1>4, <1>5, <1>6 DEF L!Send, LineIn, LineOut
<1> QED BY <1>7

(* The handler moves a character from one half of a line to the other.     *)
LEMMA LineIsr ==
  ASSUME UartInv, Isr
  PROVE  LineIn' = LineIn /\ LineOut' = LineOut /\ UNCHANGED <<req, ret>>
<1>1. opened /\ UNCHANGED <<opened, req, ret>>
  BY IsrFacts DEF Isr
<1>2. Content(rxbuf') \o rbr' = Content(rxbuf) \o rbr
  <2>1. CASE TakesIn
    <3>1. Content(rxbuf') = Content(rxbuf) \o rbr /\ rbr' = <<>>
      BY <2>1, IsrFacts
    <3>2. Content(rxbuf) \o rbr \in Seq(Char)
      BY Lines, ConcatProperties
    <3> QED BY <3>1, <3>2, ConcatEmptySeq
  <2>2. CASE ~TakesIn
    BY <2>2, IsrFacts
  <2> QED BY <2>1, <2>2
<1>3. thr' \o Content(txbuf') = thr \o Content(txbuf)
  <2>1. CASE PutsOut
    <3> DEFINE s == Content(txbuf)
    <3>1. /\ thr = <<>> /\ thr' = <<s[1]>> /\ Content(txbuf') = SubSeq(s, 2, Len(s))
          /\ s \in Seq(Char) /\ Len(s) \in Nat \ {0}
      BY <2>1, IsrFacts, Lines DEF PutsOut
    <3> HIDE DEF s
    <3>2. SubSeq(s, 1, Len(s)) = <<s[1]>> \o SubSeq(s, 2, Len(s))
      <4>1. 1 \in 1 .. Len(s) /\ Len(s) \in 1 .. Len(s) /\ 1 + 1 = 2
        BY <3>1
      <4> QED BY <3>1, <4>1, SubSeqRecursiveFirst
    <3>3. SubSeq(s, 1, Len(s)) = s /\ <<>> \o s = s
      BY <3>1, SubSeqFull, ConcatEmptySeq
    <3> QED BY <3>1, <3>2, <3>3 DEF s
  <2>2. CASE ~PutsOut
    BY <2>2, IsrFacts
  <2> QED BY <2>1, <2>2
<1> QED BY <1>1, <1>2, <1>3 DEF LineIn, LineOut

LEMMA LineArrive ==
  ASSUME UartInv, NEW ch \in Char, Arrive(ch)
  PROVE  /\ LineOut' = LineOut /\ UNCHANGED <<req, ret>>
         /\ LineIn' = LineIn \/ L!Arrive \/ L!Overrun
<1>1. rbr' = <<ch>> /\ UNCHANGED <<opened, rxbuf, txbuf, thr, req, ret>>
  BY DEF Arrive, ringVars
<1>2. LineOut' = LineOut
  BY <1>1 DEF LineOut
<1>3. CASE ~opened
  BY <1>1, <1>2, <1>3 DEF LineIn
<1>4. CASE opened /\ rbr = <<>>
  <2>1. LineIn = Content(rxbuf) /\ LineIn' = Content(rxbuf) \o <<ch>>
    BY <1>1, <1>4, Lines, ConcatEmptySeq DEF LineIn
  <2>2. LineIn' = Append(LineIn, ch)
    BY <2>1, Lines, LastOne
  <2>3. L!Arrive
    BY <1>1, <1>2, <2>2 DEF L!Arrive, LineIn, LineOut
  <2> QED BY <1>1, <1>2, <2>3
<1>5. CASE opened /\ rbr # <<>>
  <2>1. PICK x \in Char : rbr = <<x>>
    BY <1>5, HeldOK DEF UartInv, Typing
  <2>2. LineIn = Content(rxbuf) \o <<x>> /\ LineIn' = Content(rxbuf) \o <<ch>>
    BY <1>1, <1>5, <2>1 DEF LineIn
  <2>3. LineIn # <<>> /\ LineIn' = [LineIn EXCEPT ![Len(LineIn)] = ch]
    <3>1. PICK s \in Seq(Char) : s = Content(rxbuf)
      BY Lines
    <3>2. /\ [(s \o <<x>>) EXCEPT ![Len(s \o <<x>>)] = ch] = s \o <<ch>>
          /\ s \o <<x>> # <<>>
      <4>1. [(s \o <<x>>) EXCEPT ![Len(s \o <<x>>)] = ch] = s \o <<ch>>
        BY <3>1, LastOne
      <4>2. s \o <<x>> # <<>>
        BY <3>1, LastOne
      <4> QED BY <4>1, <4>2, Zenon
    <3> QED BY <2>2, <3>1, <3>2, Zenon
  <2>4. L!Overrun
    BY <1>1, <1>2, <2>3 DEF L!Overrun, LineIn, LineOut
  <2> QED BY <1>1, <1>2, <2>4
<1> QED BY <1>3, <1>4, <1>5

LEMMA LineSent ==
  ASSUME UartInv, Sent
  PROVE  L!Leave
<1>1. thr # <<>> /\ thr' = <<>> /\ UNCHANGED <<opened, rxbuf, txbuf, rbr, req, ret>>
  BY DEF Sent, ringVars
<1>2. PICK x \in Char : thr = <<x>>
  BY <1>1, HeldOK DEF UartInv, Typing
<1>3. PICK s \in Seq(Char) : s = IF opened THEN Content(txbuf) ELSE <<>>
  BY Lines, EmptySeq
<1>4. LineOut = <<x>> \o s /\ LineOut' = <<>> \o s
  BY <1>1, <1>2, <1>3 DEF LineOut
<1>5. LineOut # <<>> /\ LineOut' = Tail(LineOut)
  BY <1>4, FirstOne, ConcatEmptySeq
<1>6. LineIn' = LineIn
  BY <1>1 DEF LineIn
<1> QED BY <1>1, <1>5, <1>6 DEF L!Leave, LineIn, LineOut

(* The port is opened and closed with nobody in a call.                    *)
LEMMA LineReopen ==
  ASSUME UartInv, \A c \in Client : pc[c] = "idle", UNCHANGED <<req, ret, thr>>,
         LineIn' = <<>>, LineOut' = thr
  PROVE  L!Reopen
<1>1. \A c \in Client : req[c] = L!Idle
  BY DEF UartInv, CallInv, CallOK, Idle, L!Idle
<1>2. LineOut' = <<>> \/ (LineOut # <<>> /\ LineOut' = <<Head(LineOut)>>)
  <2>1. CASE thr = <<>>
    BY <2>1
  <2>2. CASE thr # <<>>
    <3>1. PICK x \in Char : thr = <<x>>
      BY <2>2, HeldOK DEF UartInv, Typing
    <3>2. PICK s \in Seq(Char) : s = IF opened THEN Content(txbuf) ELSE <<>>
      BY Lines, EmptySeq
    <3>3. LineOut = <<x>> \o s
      BY <3>1, <3>2 DEF LineOut
    <3>4. LineOut # <<>> /\ Head(LineOut) = x
      BY <3>3, FirstOne
    <3> QED BY <3>1, <3>4
  <2> QED BY <2>1, <2>2
<1> QED BY <1>1, <1>2 DEF L!Reopen, LineIn, LineOut

LEMMA LineOpen ==
  ASSUME UartInv, NEW c \in Client, Open(c)
  PROVE  L!Reopen
<1>1. /\ opened' /\ rxbuf' = EmptyRing /\ txbuf' = EmptyRing /\ rbr' = <<>>
      /\ UNCHANGED <<req, ret, thr>>
  BY DEF Open
<1>2. \A d \in Client : pc[d] = "idle"
  BY DEF Open, UartInv, CallInv, CallOK
<1>3. LineIn' = <<>> \o <<>> /\ LineOut' = thr \o <<>>
  BY <1>1, EmptyRingOK DEF LineIn, LineOut
<1>4. LineIn' = <<>> /\ LineOut' = thr
  BY <1>3, Lines, EmptySeq, ConcatEmptySeq
<1> QED BY <1>1, <1>2, <1>4, LineReopen

LEMMA LineClose ==
  ASSUME UartInv, NEW c \in Client, Close(c), \A d \in Client : pc[d] = "idle"
  PROVE  L!Reopen
<1>1. ~opened' /\ UNCHANGED <<req, ret, thr>>
  BY DEF Close
<1>2. LineIn' = <<>> /\ LineOut' = thr \o <<>>
  BY <1>1 DEF LineIn, LineOut
<1>3. LineOut' = thr
  BY <1>2, Lines, ConcatEmptySeq
<1> QED BY <1>1, <1>2, <1>3, LineReopen

LEMMA LineCall ==
  ASSUME UartInv, NEW c \in Client, NEW r, Call(c, r),
         \/ \E n \in 1 .. MaxReq : r = [op |-> "recv", left |-> n, data |-> <<>>]
         \/ \E s \in Texts : r = [op |-> "send", left |-> Len(s), data |-> s]
  PROVE  L!Begin(c)
<1>1. /\ req[c] = L!Idle /\ req' = [req EXCEPT ![c] = r] /\ ret' = <<>>
  BY DEF Call, UartInv, CallInv, CallOK, Idle, L!Idle
<1>2. LineIn' = LineIn /\ LineOut' = LineOut
  BY DEF Call, ringVars, LineIn, LineOut
<1> QED BY <1>1, <1>2 DEF L!Begin, LineIn, LineOut

(* A step that leaves the lines and the calls alone.                       *)
LEMMA LineStill ==
  ASSUME UNCHANGED <<opened, rxbuf, txbuf, rbr, thr, req, ret>>
  PROVE  LineIn' = LineIn /\ LineOut' = LineOut /\ UNCHANGED <<req, ret>>
BY DEF LineIn, LineOut

LEMMA LineNext ==
  ASSUME UartInv, [Next]_vars
  PROVE  [L!Next]_<<LineIn, LineOut, req, ret>>
<1>1. ASSUME NEW c \in Client, Start(c)
      PROVE  L!Next
  <2>1. CASE Open(c)
    BY <2>1, LineOpen DEF L!Next
  <2>2. CASE Close(c) /\ \A d \in Client : pc[d] = "idle"
    BY <2>2, LineClose DEF L!Next
  <2>3. CASE \/ \E n \in 1 .. MaxReq : Call(c, [op |-> "recv", left |-> n, data |-> <<>>])
             \/ \E s \in Texts : Call(c, [op |-> "send", left |-> Len(s), data |-> s])
    <3>1. L!Begin(c)
      BY <2>3, LineCall
    <3> QED BY <3>1 DEF L!Next
  <2> QED BY <1>1, <2>1, <2>2, <2>3 DEF Start
<1>2. ASSUME NEW c \in Client, Step(c)
      PROVE  L!Next \/ (LineIn' = LineIn /\ LineOut' = LineOut /\ UNCHANGED <<req, ret>>)
  <2>1. CASE RecvCopy(c)
    BY <2>1, LineReceive DEF L!Next
  <2>2. CASE SendCopy(c)
    BY <2>2, LineSend DEF L!Next
  <2>3. CASE Lock(c) \/ RecvWait(c) \/ SendWait(c)
    <3>1. UNCHANGED <<opened, rxbuf, txbuf, rbr, thr, req, ret>>
      BY <2>3 DEF Lock, RecvWait, SendWait, ringVars
    <3> QED BY <3>1, LineStill
  <2> QED BY <1>2, <2>1, <2>2, <2>3 DEF Step
<1>3. ASSUME NEW ch \in Char, Arrive(ch)
      PROVE  L!Next \/ (LineIn' = LineIn /\ LineOut' = LineOut /\ UNCHANGED <<req, ret>>)
  BY <1>3, LineArrive DEF L!Next
<1>4. CASE Isr
  BY <1>4, LineIsr
<1>5. CASE Sent
  BY <1>5, LineSent DEF L!Next
<1>6. CASE UNCHANGED vars
  <2>1. UNCHANGED <<opened, rxbuf, txbuf, rbr, thr, req, ret>>
    BY <1>6 DEF vars, ringVars
  <2> QED BY <2>1, LineStill
<1> QED BY <1>1, <1>2, <1>3, <1>4, <1>5, <1>6 DEF Next

(* The port implements a line: the characters that come in are received in *)
(* order and those that are sent leave in order, through both buffers and  *)
(* the handler; all that is ever lost is a character the next one overruns *)
(* in the receiver.                                                        *)
THEOREM LineRefinement == Spec => LineSpec
<1>1. Init => L!Init
  <2> SUFFICES ASSUME Init PROVE L!Init
    OBVIOUS
  <2>1. LineIn = <<>> /\ LineOut = <<>> \o <<>>
    BY DEF Init, LineIn, LineOut
  <2>2. LineOut = <<>>
    BY <2>1, EmptySeq, ConcatEmptySeq
  <2> QED BY <2>1, <2>2 DEF Init, L!Init, LineIn, LineOut, Idle, L!Idle
<1>2. UartInv /\ [Next]_vars => [L!Next]_<<LineIn, LineOut, req, ret>>
  BY LineNext
<1>3. Init => UartInv
  BY UartInit
<1>4. UartInv /\ [Next]_vars => UartInv'
  BY UartNext
<1> QED BY <1>1, <1>2, <1>3, <1>4, PTL DEF Spec, LineSpec, L!Spec, LineIn, LineOut
=============================================================================
