--------------------------- MODULE RedisCodecProofs ---------------------------
(***************************************************************************)
(* Theorems about RedisCodec and RedisReader, for every number and every   *)
(* word: what the set_ methods write the get_ methods read, and a redis    *)
(* client, too.  The text of a number, FlattenSeq and ReadAll are defined  *)
(* by recursion, so that the proofs are inductions.  They go over sets, as *)
(* "a set of naturals that is not empty has a least element", which WFMin  *)
(* says without an operator as its parameter.                              *)
(***************************************************************************)
EXTENDS RedisReader, SequenceTheorems, WellFoundedInduction, TLAPS

-----------------------------------------------------------------------------
(* Induction *)

(* A set of natural numbers that is not empty has a least element. *)
LEMMA NatMin ==
    ASSUME NEW T, T \subseteq Nat, T # {}
    PROVE  \E x \in T : \A y \in T : x <= y
<1> DEFINE R == {ss \in Nat \X Nat : ss[1] < ss[2]}
<1>1. IsWellFoundedOn(R, Nat)
  BY NatLessThanWellFounded DEF OpToRel
<1>2. PICK x \in T : \A y \in T : ~ (<<y, x>> \in R)
  <2> HIDE DEF R
  <2> QED BY <1>1, WFMin
<1>3. ASSUME NEW y \in T PROVE x <= y
  <2>1. ~ (<<y, x>> \in R)
    BY <1>2
  <2>2. x \in Nat /\ y \in Nat
    OBVIOUS
  <2>3. ~ (y < x)
    <3>1. y < x => <<y, x>> \in Nat \X Nat /\ <<y, x>>[1] < <<y, x>>[2]
      BY <2>2
    <3> QED BY <2>1, <3>1
  <2> QED BY <2>2, <2>3
<1> QED BY <1>3

(* A set with 0 and with the successor of each of its natural numbers      *)
(* has all natural numbers.                                                *)
LEMMA SetInduction ==
    ASSUME NEW T, 0 \in T, \A n \in Nat : n \in T => n + 1 \in T
    PROVE  Nat \subseteq T
<1> DEFINE B == {n \in Nat : n \notin T}
<1> SUFFICES ASSUME B # {} PROVE FALSE
  OBVIOUS
<1>1. PICK x \in B : \A y \in B : x <= y
  BY NatMin
<1>2. x # 0 /\ x - 1 \in Nat /\ x - 1 \in T
  BY <1>1
<1> QED BY <1>1, <1>2

(* Two functions have the same values from m to N; they have the same next *)
(* value if they have the same one.                                        *)
Agree(f, h, m, N) == \A n \in m .. N : f[n] = h[n]
StayEqual(f, h, m, N) == \A n \in m .. N - 1 : f[n] = h[n] => f[n + 1] = h[n + 1]

(* Two functions that begin with the same value and stay equal agree. *)
LEMMA AgreeStepByStep ==
    ASSUME NEW f, NEW h, NEW m \in Nat, NEW N \in Nat, f[m] = h[m], StayEqual(f, h, m, N)
    PROVE  Agree(f, h, m, N)
<1> USE DEF Agree, StayEqual
<1> DEFINE T == {n \in Nat : m + n <= N => f[m + n] = h[m + n]}
<1>1. 0 \in T
  OBVIOUS
<1>2. ASSUME NEW n \in Nat, n \in T PROVE n + 1 \in T
  <2> SUFFICES ASSUME m + n + 1 <= N PROVE f[m + n + 1] = h[m + n + 1]
    OBVIOUS
  <2>1. m + n \in m .. N - 1 /\ f[m + n] = h[m + n]
    BY <1>2
  <2> QED BY <2>1
<1>3. Nat \subseteq T
  <2> HIDE DEF T
  <2> QED BY <1>1, <1>2, SetInduction
<1>4. ASSUME NEW n \in m .. N PROVE f[n] = h[n]
  <2>1. n - m \in T /\ m + (n - m) = n
    <3>1. n - m \in Nat /\ m + (n - m) = n
      OBVIOUS
    <3> HIDE DEF T
    <3> QED BY <1>3, <3>1
  <2> QED BY <2>1
<1> QED BY <1>4

(* The function f begins with a, and g makes each value out of the last. *)
Iterates(f, a, g, N) == f[0] = a /\ \A i \in 1 .. N : f[i] = g[<<i, f[i - 1]>>]

(* Such a function exists: a definition by primitive recursion has sense. *)
LEMMA Iterate ==
    ASSUME NEW S, NEW a \in S, NEW N \in Nat, NEW g \in [(1 .. N) \X S -> S]
    PROVE  \E f \in [0 .. N -> S] : Iterates(f, a, g, N)
<1> DEFINE Good(n, f) == /\ f \in [0 .. n -> S]
                         /\ f[0] = a
                         /\ \A i \in 1 .. n : f[i] = g[<<i, f[i - 1]>>]
           T == {n \in Nat : n <= N => \E f : Good(n, f)}
<1>1. 0 \in T
  <2>1. Good(0, [i \in 0 .. 0 |-> a])
    OBVIOUS
  <2> QED BY <2>1
<1>2. ASSUME NEW n \in Nat, n \in T PROVE n + 1 \in T
  <2> SUFFICES ASSUME n + 1 <= N PROVE \E f : Good(n + 1, f)
    OBVIOUS
  <2>1. PICK f : Good(n, f)
    BY <1>2
  <2> DEFINE h == [i \in 0 .. n + 1 |-> IF i = n + 1 THEN g[<<n + 1, f[n]>>] ELSE f[i]]
  <2>2. g[<<n + 1, f[n]>>] \in S
    BY <2>1
  <2>3. h \in [0 .. n + 1 -> S]
    BY <2>1, <2>2
  <2>4. h[0] = a
    BY <2>1
  <2>5. ASSUME NEW i \in 1 .. n + 1 PROVE h[i] = g[<<i, h[i - 1]>>]
    <3>1. CASE i = n + 1
      <4>1. h[n + 1] = g[<<n + 1, f[n]>>] /\ h[n] = f[n] /\ i - 1 = n
        BY <3>1
      <4> QED BY <3>1, <4>1
    <3>2. CASE i # n + 1
      <4>1. h[i] = f[i] /\ h[i - 1] = f[i - 1] /\ i \in 1 .. n
        BY <3>2
      <4> QED BY <4>1, <2>1
    <3> QED BY <3>1, <3>2
  <2>6. Good(n + 1, h)
    BY <2>3, <2>4, <2>5
  <2> QED BY <2>6
<1>3. Nat \subseteq T
  <2> HIDE DEF T
  <2> QED BY <1>1, <1>2, SetInduction
<1>4. PICK f : Good(N, f)
  <2>1. N \in T
    BY <1>3
  <2> QED BY <2>1
<1> QED BY <1>4 DEF Iterates

-----------------------------------------------------------------------------
(* Sequences inside of others *)

(* The sequence e stands in b after the first p elements. *)
At(b, p, e) ==
    /\ p \in Nat /\ p + Len(e) <= Len(b)
    /\ \A i \in 1 .. Len(e) : b[p + i] = e[i]

(* What is appended stands at the end. *)
LEMMA AtEnd ==
    ASSUME NEW B, NEW a \in Seq(B), NEW e \in Seq(B)
    PROVE  At(a \o e, Len(a), e)
<1>1. a \o e \in Seq(B) /\ Len(a \o e) = Len(a) + Len(e) /\ Len(a) \in Nat
  OBVIOUS
<1>2. ASSUME NEW i \in 1 .. Len(e) PROVE (a \o e)[Len(a) + i] = e[i]
  OBVIOUS
<1> QED BY <1>1, <1>2 DEF At

(* It stays where it is when more is appended. *)
LEMMA AtExtended ==
    ASSUME NEW B, NEW b \in Seq(B), NEW t \in Seq(B), NEW e \in Seq(B), NEW p, At(b, p, e)
    PROVE  At(b \o t, p, e)
<1>1. p \in Nat /\ p + Len(e) <= Len(b) /\ \A i \in 1 .. Len(e) : b[p + i] = e[i]
  BY DEF At
<1>2. Len(b \o t) = Len(b) + Len(t) /\ Len(t) \in Nat /\ Len(e) \in Nat /\ Len(b) \in Nat
  OBVIOUS
<1>3. ASSUME NEW i \in 1 .. Len(e) PROVE (b \o t)[p + i] = e[i]
  <2>1. p + i \in 1 .. Len(b)
    BY <1>1, <1>2
  <2>2. (b \o t)[p + i] = b[p + i]
    BY <2>1
  <2> QED BY <1>1, <2>2
<1> QED BY <1>1, <1>2, <1>3 DEF At

(* What stands in a part stands in the whole. *)
LEMMA AtInside ==
    ASSUME NEW B, NEW b \in Seq(B), NEW e \in Seq(B), NEW d \in Seq(B), NEW p, NEW q,
           At(b, p, e), At(e, q, d)
    PROVE  At(b, p + q, d)
<1>1. p \in Nat /\ p + Len(e) <= Len(b) /\ \A i \in 1 .. Len(e) : b[p + i] = e[i]
  BY DEF At
<1>2. q \in Nat /\ q + Len(d) <= Len(e) /\ \A i \in 1 .. Len(d) : e[q + i] = d[i]
  BY DEF At
<1>3. Len(b) \in Nat /\ Len(e) \in Nat /\ Len(d) \in Nat
  OBVIOUS
<1>4. ASSUME NEW i \in 1 .. Len(d) PROVE b[p + q + i] = d[i]
  <2>1. q + i \in 1 .. Len(e) /\ p + (q + i) = p + q + i
    BY <1>1, <1>2, <1>3
  <2> QED BY <1>1, <1>2, <2>1
<1> QED BY <1>1, <1>2, <1>3, <1>4 DEF At

(* The sequence a is x and then y. *)
Joins(a, x, y) == a = x \o y

(* Two ways to join three sequences, *)
Associates(x, y, z) == (x \o y) \o z = x \o (y \o z)

(* which give the same. *)
LEMMA Associative == \A B : \A x, y, z \in Seq(B) : Associates(x, y, z)
BY ConcatAssociative DEF Associates

(* Three sequences, one after the other: the first two may be joined first *)
(* or the last two.                                                        *)
LEMMA JoinsRight ==
    ASSUME NEW B, NEW x \in Seq(B), NEW y \in Seq(B), NEW z \in Seq(B),
           NEW p \in Seq(B), NEW q \in Seq(B), NEW a, Joins(p, x, y), Joins(q, y, z), Joins(a, p, z)
    PROVE  Joins(a, x, q)
<1>1. p = x \o y /\ q = y \o z /\ a = p \o z
  BY DEF Joins
<1>2. Associates(x, y, z)
  BY Associative, Zenon
<1> QED BY <1>1, <1>2, Zenon DEF Joins, Associates

LEMMA JoinsLeft ==
    ASSUME NEW B, NEW x \in Seq(B), NEW y \in Seq(B), NEW z \in Seq(B),
           NEW p \in Seq(B), NEW q \in Seq(B), NEW a, Joins(p, x, y), Joins(q, y, z), Joins(a, x, q)
    PROVE  Joins(a, p, z)
<1>1. p = x \o y /\ q = y \o z /\ a = x \o q
  BY DEF Joins
<1>2. Associates(x, y, z)
  BY Associative, Zenon
<1> QED BY <1>1, <1>2, Zenon DEF Joins, Associates

(* What is appended is a sequence of its own. *)
LEMMA Appended ==
    ASSUME NEW B, NEW x \in Seq(B), NEW e \in B, NEW one \in Seq(B), one = <<e>>,
           NEW a \in Seq(B), a = Append(x, e)
    PROVE  Joins(a, x, one)
<1>1. PICK c \in Seq(B) : c = x \o one
  <2>1. x \o one \in Seq(B)
    OBVIOUS
  <2> QED BY <2>1
<1>2. Len(one) = 1 /\ one[1] = e
  OBVIOUS
<1>3. Len(c) = Len(x) + 1 /\ c[Len(x) + 1] = e /\ \A i \in 1 .. Len(x) : c[i] = x[i]
  BY <1>1, <1>2
<1>4. Len(a) = Len(x) + 1 /\ a[Len(x) + 1] = e /\ \A i \in 1 .. Len(x) : a[i] = x[i]
  OBVIOUS
<1>5. ASSUME NEW i \in 1 .. Len(a) PROVE a[i] = c[i]
  <2>1. i \in 1 .. Len(x) \/ i = Len(x) + 1
    BY <1>4
  <2> QED BY <1>3, <1>4, <2>1
<1>6. a = c
  BY <1>3, <1>4, <1>5, SeqEqual
<1> QED BY <1>1, <1>6 DEF Joins

(* With one more element the begin of a sequence is longer by that one. *)
LEMMA BeginGrows ==
    ASSUME NEW B, NEW v \in Seq(B), NEW n \in 0 .. Len(v) - 1
    PROVE  /\ SubSeq(v, 1, n) \in Seq(B) /\ v[n + 1] \in B
           /\ SubSeq(v, 1, n + 1) = Append(SubSeq(v, 1, n), v[n + 1])
<1>1. /\ SubSeq(v, 1, n) \in Seq(B) /\ Len(SubSeq(v, 1, n)) = n
      /\ \A i \in 1 .. n : SubSeq(v, 1, n)[i] = v[i]
  OBVIOUS
<1>2. PICK y \in Seq(B) : y = SubSeq(v, 1, n) /\ Len(y) = n /\ \A i \in 1 .. n : y[i] = v[i]
  BY <1>1
<1>3. /\ SubSeq(v, 1, n + 1) \in Seq(B) /\ Len(SubSeq(v, 1, n + 1)) = n + 1
      /\ \A i \in 1 .. n + 1 : SubSeq(v, 1, n + 1)[i] = v[i]
  OBVIOUS
<1>4. PICK x \in B : x = v[n + 1]
  OBVIOUS
<1>5. /\ Append(y, x) \in Seq(B) /\ Len(Append(y, x)) = n + 1 /\ Append(y, x)[n + 1] = x
      /\ \A i \in 1 .. n : Append(y, x)[i] = y[i]
  BY <1>2
<1>6. ASSUME NEW i \in 1 .. n + 1 PROVE Append(y, x)[i] = SubSeq(v, 1, n + 1)[i]
  <2>1. i = n + 1 \/ i \in 1 .. n
    OBVIOUS
  <2> QED BY <1>2, <1>3, <1>4, <1>5, <2>1
<1>7. SubSeq(v, 1, n + 1) = Append(y, x)
  BY <1>3, <1>5, <1>6, SeqEqual
<1> QED BY <1>1, <1>2, <1>4, <1>7

-----------------------------------------------------------------------------
(* FlattenSeq *)

(* FlattenSeq appends one sequence after the other. *)
LEMMA FlattenUpTo ==
    ASSUME NEW B, NEW s \in Seq(Seq(B))
    PROVE  \E f \in [0 .. Len(s) -> Seq(B)] :
              /\ f[0] = <<>>
              /\ \A i \in 1 .. Len(s) : f[i] = f[i - 1] \o s[i]
              /\ FlattenSeq(s) = f[Len(s)]
<1>1. PICK N \in Nat : N = Len(s) /\ \A i \in 1 .. N : s[i] \in Seq(B)
  OBVIOUS
<1>2. PICK g : g = [x \in (1 .. N) \X Seq(B) |-> x[2] \o s[x[1]]]
  OBVIOUS
<1>3. ASSUME NEW i \in 1 .. N, NEW t \in Seq(B)
      PROVE  g[<<i, t>>] = t \o s[i] /\ t \o s[i] \in Seq(B)
  <2>1. <<i, t>> \in (1 .. N) \X Seq(B) /\ <<i, t>>[1] = i /\ <<i, t>>[2] = t
    OBVIOUS
  <2>2. g[<<i, t>>] = <<i, t>>[2] \o s[<<i, t>>[1]]
    BY <1>2, <2>1
  <2>3. g[<<i, t>>] = t \o s[i]
    BY <2>1, <2>2
  <2> QED BY <1>1, <2>3
<1>4. g \in [(1 .. N) \X Seq(B) -> Seq(B)]
  BY <1>1, <1>2
<1>5. PICK f \in [0 .. N -> Seq(B)] : Iterates(f, <<>>, g, N)
  <2>1. PICK e, SB : e = <<>> /\ SB = Seq(B)
    OBVIOUS
  <2>2. e \in SB /\ g \in [(1 .. N) \X SB -> SB]
    BY <1>4, <2>1
  <2>3. \E f \in [0 .. N -> SB] : Iterates(f, e, g, N)
    BY <2>2, Iterate
  <2> QED BY <2>1, <2>3
<1>6. f[0] = <<>> /\ \A i \in 1 .. N : f[i] = f[i - 1] \o s[i]
  <2>1. ASSUME NEW i \in 1 .. N PROVE f[i] = f[i - 1] \o s[i]
    <3>1. i - 1 \in 0 .. N
      OBVIOUS
    <3>2. f[i - 1] \in Seq(B) /\ f[i] = g[<<i, f[i - 1]>>]
      BY <1>5, <3>1 DEF Iterates
    <3> QED BY <1>3, <3>2
  <2> QED BY <1>5, <2>1 DEF Iterates
<1>7. FlattenSeq(s) = f[N]
  <2>1. CASE N = 0
    <3>1. s = <<>> /\ FlattenSeq(s) = s
      BY <2>1, <1>1 DEF FlattenSeq
    <3> QED BY <2>1, <3>1, <1>6
  <2>2. CASE N # 0
    <3> DEFINE Is(h) == h = [i \in 1 .. N |-> IF i = 1 THEN s[i] ELSE h[i - 1] \o s[i]]
               f1 == [i \in 1 .. N |-> f[i]]
               h1 == CHOOSE h : Is(h)
    <3>1. FlattenSeq(s) = h1[N]
      BY <2>2, <1>1 DEF FlattenSeq
    <3>2. f[1] = s[1]
      <4>1. 1 \in 1 .. N /\ 1 - 1 = 0
        BY <2>2
      <4>2. f[1] = f[0] \o s[1] /\ f[0] = <<>> /\ s[1] \in Seq(B)
        BY <4>1, <1>1, <1>6
      <4> QED BY <4>2
    <3>3. ASSUME NEW i \in 1 .. N PROVE f1[i] = IF i = 1 THEN s[i] ELSE f1[i - 1] \o s[i]
      <4>1. CASE i = 1
        BY <4>1, <3>2
      <4>2. CASE i # 1
        <5>1. i - 1 \in 1 .. N
          BY <4>2
        <5>2. f1[i - 1] = f[i - 1] /\ f1[i] = f[i]
          BY <5>1
        <5> QED BY <5>2, <4>2, <1>6
      <4> QED BY <4>1, <4>2
    <3>4. Is(f1)
      <4>1. f1 = [i \in 1 .. N |-> f1[i]]
        OBVIOUS
      <4> HIDE DEF f1
      <4> QED BY <3>3, <4>1
    <3>5. Is(h1)
      <4> HIDE DEF Is, f1
      <4> QED BY <3>4
    <3>6. ASSUME NEW i \in 1 .. N PROVE h1[i] = IF i = 1 THEN s[i] ELSE h1[i - 1] \o s[i]
      <4> HIDE DEF h1
      <4> QED BY <3>5
    <3> HIDE DEF h1
    <3>7. h1[1] = f[1]
      BY <3>2, <3>6, <2>2
    <3>8. ASSUME NEW n \in 1 .. N - 1, h1[n] = f[n] PROVE h1[n + 1] = f[n + 1]
      <4>1. n + 1 \in 1 .. N /\ (n + 1) - 1 = n /\ n + 1 # 1
        OBVIOUS
      <4>2. h1[n + 1] = h1[n] \o s[n + 1]
        BY <4>1, <3>6
      <4>3. f[n + 1] = f[n] \o s[n + 1]
        BY <4>1, <1>6
      <4> QED BY <3>8, <4>2, <4>3
    <3>9. \A n \in 1 .. N : h1[n] = f[n]
      <4>1. StayEqual(h1, f, 1, N)
        BY <3>8 DEF StayEqual
      <4>2. Agree(h1, f, 1, N)
        BY <3>7, <4>1, AgreeStepByStep
      <4> QED BY <4>2 DEF Agree
    <3> QED BY <3>1, <3>9, <2>2
  <2> QED BY <2>1, <2>2
<1> QED BY <1>1, <1>6, <1>7

(* So it does with the first j of them, on the way to all of them. *)
LEMMA FlattenPrefixes ==
    ASSUME NEW B, NEW s \in Seq(Seq(B))
    PROVE  \E f \in [0 .. Len(s) -> Seq(B)] :
              /\ f[0] = <<>>
              /\ \A i \in 1 .. Len(s) : f[i] = f[i - 1] \o s[i]
              /\ \A j \in 0 .. Len(s) : FlattenSeq(SubSeq(s, 1, j)) = f[j]
<1>1. PICK f \in [0 .. Len(s) -> Seq(B)] :
          f[0] = <<>> /\ \A i \in 1 .. Len(s) : f[i] = f[i - 1] \o s[i]
  BY FlattenUpTo
<1>2. ASSUME NEW j \in 0 .. Len(s) PROVE FlattenSeq(SubSeq(s, 1, j)) = f[j]
  <2>1. PICK t : t = SubSeq(s, 1, j)
    OBVIOUS
  <2>2. t \in Seq(Seq(B)) /\ Len(t) = j /\ \A i \in 1 .. j : t[i] = s[i]
    BY <2>1, SMTT(30)
  <2>3. PICK h \in [0 .. j -> Seq(B)] :
            /\ h[0] = <<>>
            /\ \A i \in 1 .. j : h[i] = h[i - 1] \o t[i]
            /\ FlattenSeq(t) = h[j]
    BY <2>2, FlattenUpTo
  <2>4. ASSUME NEW n \in 0 .. j - 1, h[n] = f[n] PROVE h[n + 1] = f[n + 1]
    <3>1. n + 1 \in 1 .. j /\ n + 1 \in 1 .. Len(s) /\ (n + 1) - 1 = n
      OBVIOUS
    <3>2. h[n + 1] = h[n] \o t[n + 1]
      BY <3>1, <2>3
    <3>3. f[n + 1] = f[n] \o s[n + 1]
      BY <3>1, <1>1
    <3> QED BY <2>2, <2>4, <3>1, <3>2, <3>3
  <2>5. \A n \in 0 .. j : h[n] = f[n]
    <3>1. StayEqual(h, f, 0, j)
      BY <2>4 DEF StayEqual
    <3>2. h[0] = f[0]
      BY <1>1, <2>3
    <3>3. Agree(h, f, 0, j)
      BY <3>1, <3>2, AgreeStepByStep
    <3> QED BY <3>3 DEF Agree
  <2> QED BY <2>1, <2>3, <2>5
<1> QED BY <1>1, <1>2

(* One more sequence is appended. *)
LEMMA FlattenPrefix ==
    ASSUME NEW B, NEW s \in Seq(Seq(B)), NEW i \in 1 .. Len(s)
    PROVE  /\ FlattenSeq(SubSeq(s, 1, i - 1)) \in Seq(B)
           /\ FlattenSeq(SubSeq(s, 1, i)) = FlattenSeq(SubSeq(s, 1, i - 1)) \o s[i]
<1>1. PICK f \in [0 .. Len(s) -> Seq(B)] :
            /\ f[0] = <<>>
            /\ \A j \in 1 .. Len(s) : f[j] = f[j - 1] \o s[j]
            /\ \A j \in 0 .. Len(s) : FlattenSeq(SubSeq(s, 1, j)) = f[j]
  BY FlattenPrefixes
<1>2. i \in 0 .. Len(s) /\ i - 1 \in 0 .. Len(s)
  OBVIOUS
<1> QED BY <1>1, <1>2

(* Flattening sequences of bytes gives bytes. *)
LEMMA FlattenType ==
    ASSUME NEW B, NEW s \in Seq(Seq(B))
    PROVE  FlattenSeq(s) \in Seq(B)
<1>1. PICK f \in [0 .. Len(s) -> Seq(B)] : FlattenSeq(s) = f[Len(s)]
  BY FlattenUpTo
<1>2. Len(s) \in 0 .. Len(s)
  OBVIOUS
<1> QED BY <1>1, <1>2

(* Append and flatten, or flatten and append. *)
LEMMA FlattenAppend ==
    ASSUME NEW B, NEW s \in Seq(Seq(B)), NEW e \in Seq(B)
    PROVE  FlattenSeq(Append(s, e)) = FlattenSeq(s) \o e
<1>1. PICK t : t = Append(s, e)
  OBVIOUS
<1>2. t \in Seq(Seq(B)) /\ Len(t) = Len(s) + 1 /\ Len(t) \in 1 .. Len(t) /\ t[Len(t)] = e
  BY <1>1
<1>3. SubSeq(t, 1, Len(t)) = t /\ SubSeq(t, 1, Len(t) - 1) = s
  BY <1>1, <1>2
<1>4. FlattenSeq(SubSeq(t, 1, Len(t))) = FlattenSeq(SubSeq(t, 1, Len(t) - 1)) \o t[Len(t)]
  BY <1>2, FlattenPrefix
<1> QED BY <1>1, <1>2, <1>3, <1>4

(* Each sequence stands in the flattened one behind those before it. *)
LEMMA FlattenAt ==
    ASSUME NEW B, NEW s \in Seq(Seq(B)), NEW i \in 1 .. Len(s)
    PROVE  At(FlattenSeq(s), Len(FlattenSeq(SubSeq(s, 1, i - 1))), s[i])
<1>1. PICK f \in [0 .. Len(s) -> Seq(B)] :
            /\ f[0] = <<>>
            /\ \A j \in 1 .. Len(s) : f[j] = f[j - 1] \o s[j]
            /\ \A j \in 0 .. Len(s) : FlattenSeq(SubSeq(s, 1, j)) = f[j]
  BY FlattenPrefixes
<1>2. FlattenSeq(s) = f[Len(s)] /\ FlattenSeq(SubSeq(s, 1, i - 1)) = f[i - 1]
  <2>1. s = SubSeq(s, 1, Len(s)) /\ Len(s) \in 0 .. Len(s) /\ i - 1 \in 0 .. Len(s)
    OBVIOUS
  <2> QED BY <1>1, <2>1
<1>3. \A j \in 0 .. Len(s) : f[j] \in Seq(B)
  BY <1>1
<1>4. \A j \in 1 .. Len(s) : s[j] \in Seq(B)
  OBVIOUS
<1>5. At(f[i], Len(f[i - 1]), s[i])
  <2>1. f[i] = f[i - 1] \o s[i]
    BY <1>1
  <2>2. f[i - 1] \in Seq(B) /\ s[i] \in Seq(B)
    <3>1. i - 1 \in 0 .. Len(s)
      OBVIOUS
    <3> QED BY <3>1, <1>3, <1>4
  <2> QED BY <2>1, <2>2, AtEnd
<1> DEFINE T == {n \in Nat : i + n <= Len(s) => At(f[i + n], Len(f[i - 1]), s[i])}
<1>6. 0 \in T
  BY <1>5
<1>7. ASSUME NEW n \in Nat, n \in T PROVE n + 1 \in T
  <2> SUFFICES ASSUME i + n + 1 <= Len(s) PROVE At(f[i + n + 1], Len(f[i - 1]), s[i])
    OBVIOUS
  <2>1. At(f[i + n], Len(f[i - 1]), s[i])
    BY <1>7
  <2>2. i + n + 1 \in 1 .. Len(s) /\ i + n \in 0 .. Len(s) /\ (i + n + 1) - 1 = i + n
    OBVIOUS
  <2>3. f[i + n + 1] = f[i + n] \o s[i + n + 1] /\ f[i + n] \in Seq(B) /\ s[i + n + 1] \in Seq(B)
    BY <2>2, <1>1, <1>3, <1>4
  <2>4. s[i] \in Seq(B)
    BY <1>4
  <2> HIDE DEF T
  <2> QED BY <2>1, <2>3, <2>4, AtExtended
<1>8. Len(s) - i \in T /\ i + (Len(s) - i) = Len(s)
  <2>1. Len(s) - i \in Nat /\ i + (Len(s) - i) = Len(s)
    OBVIOUS
  <2> HIDE DEF T
  <2>2. Nat \subseteq T
    BY <1>6, <1>7, SetInduction
  <2> QED BY <2>1, <2>2
<1> QED BY <1>2, <1>8

-----------------------------------------------------------------------------
(* Numbers *)

(* The bytes that digits are written with. *)
Digits == ToSet(DigitBytes)

(* There are ten of them. *)
LEMMA DigitsAre ==
    /\ Digits = {"0", "1", "2", "3", "4", "5", "6", "7", "8", "9"}
    /\ \A d \in 0 .. 9 : DigitBytes[d + 1] \in Digits
<1>1. Digits = {"0", "1", "2", "3", "4", "5", "6", "7", "8", "9"}
  BY DEF Digits, ToSet, DigitBytes
<1>2. \A d \in 0 .. 9 : DigitBytes[d + 1] \in Digits
  <2>1. DOMAIN DigitBytes = 1 .. 10
    BY DEF DigitBytes
  <2>2. \A d \in 0 .. 9 : d + 1 \in DOMAIN DigitBytes
    BY <2>1
  <2> QED BY <2>2 DEF Digits, ToSet
<1> QED BY <1>1, <1>2

(* A digit is read as what it was written for, and never as more than 9. *)
LEMMA DigitOfDigit ==
    /\ \A d \in 0 .. 9 : DigitOf(DigitBytes[d + 1]) = d
    /\ \A b \in Digits : DigitOf(b) \in 0 .. 9
<1>1. \A d, e \in 0 .. 9 : DigitBytes[d + 1] = DigitBytes[e + 1] => d = e
  BY DEF DigitBytes
<1>2. ASSUME NEW d \in 0 .. 9 PROVE DigitOf(DigitBytes[d + 1]) = d
  BY <1>1 DEF DigitOf
<1>3. ASSUME NEW b \in Digits PROVE DigitOf(b) \in 0 .. 9
  <2>1. \E d \in 0 .. 9 : DigitBytes[d + 1] = b
    <3>1. PICK i \in DOMAIN DigitBytes : b = DigitBytes[i]
      BY DEF Digits, ToSet
    <3>2. i \in 1 .. 10
      BY <3>1 DEF DigitBytes
    <3>3. i - 1 \in 0 .. 9 /\ (i - 1) + 1 = i
      BY <3>2
    <3> QED BY <3>1, <3>3
  <2> QED BY <2>1 DEF DigitOf
<1> QED BY <1>2, <1>3

(* NumberOf reads one digit after the other, as int() does: ten times what *)
(* it has read so far, and the next one.                                   *)
LEMMA NumberUpTo ==
    ASSUME NEW d \in Seq(Digits)
    PROVE  \E f \in [0 .. Len(d) -> Nat] :
              /\ f[0] = 0
              /\ \A i \in 1 .. Len(d) : f[i] = 10 * f[i - 1] + DigitOf(d[i])
              /\ NumberOf(d) = f[Len(d)]
<1>1. PICK N \in Nat : N = Len(d) /\ \A i \in 1 .. N : d[i] \in Digits
  OBVIOUS
<1>2. PICK g : g = [x \in (1 .. N) \X Nat |-> 10 * x[2] + DigitOf(d[x[1]])]
  OBVIOUS
<1>3. ASSUME NEW i \in 1 .. N, NEW t \in Nat
      PROVE  g[<<i, t>>] = 10 * t + DigitOf(d[i]) /\ g[<<i, t>>] \in Nat
  <2>1. <<i, t>> \in (1 .. N) \X Nat /\ <<i, t>>[1] = i /\ <<i, t>>[2] = t
    OBVIOUS
  <2>2. g[<<i, t>>] = 10 * <<i, t>>[2] + DigitOf(d[<<i, t>>[1]])
    BY <1>2, <2>1
  <2>3. g[<<i, t>>] = 10 * t + DigitOf(d[i])
    BY <2>1, <2>2
  <2>4. DigitOf(d[i]) \in 0 .. 9
    BY <1>1, DigitOfDigit
  <2> QED BY <2>3, <2>4, SMTT(30)
<1>4. g \in [(1 .. N) \X Nat -> Nat]
  BY <1>2, <1>3
<1>5. PICK f \in [0 .. N -> Nat] : Iterates(f, 0, g, N)
  <2>1. 0 \in Nat
    OBVIOUS
  <2> QED BY <1>4, <2>1, Iterate
<1>6. f[0] = 0 /\ \A i \in 1 .. N : f[i] = 10 * f[i - 1] + DigitOf(d[i])
  <2>1. ASSUME NEW i \in 1 .. N PROVE f[i] = 10 * f[i - 1] + DigitOf(d[i])
    <3>1. i - 1 \in 0 .. N
      OBVIOUS
    <3>2. f[i - 1] \in Nat /\ f[i] = g[<<i, f[i - 1]>>]
      BY <1>5, <3>1 DEF Iterates
    <3> QED BY <1>3, <3>2
  <2> QED BY <1>5, <2>1 DEF Iterates
<1> DEFINE Is(h) == h = [i \in 0 .. N |-> IF i = 0 THEN 0 ELSE 10 * h[i - 1] + DigitOf(d[i])]
           h1 == CHOOSE h : Is(h)
<1>7. NumberOf(d) = h1[N]
  BY <1>1 DEF NumberOf
<1>8. Is(f)
  <2>1. f = [i \in 0 .. N |-> f[i]]
    OBVIOUS
  <2>2. ASSUME NEW i \in 0 .. N PROVE f[i] = IF i = 0 THEN 0 ELSE 10 * f[i - 1] + DigitOf(d[i])
    <3>1. i # 0 => i \in 1 .. N
      OBVIOUS
    <3> QED BY <3>1, <1>6
  <2> QED BY <2>1, <2>2
<1>9. Is(h1)
  <2> HIDE DEF Is
  <2> QED BY <1>8
<1>10. ASSUME NEW i \in 0 .. N PROVE h1[i] = IF i = 0 THEN 0 ELSE 10 * h1[i - 1] + DigitOf(d[i])
  <2> HIDE DEF h1
  <2> QED BY <1>9
<1> HIDE DEF h1
<1>11. h1[0] = f[0]
  BY <1>6, <1>10
<1>12. ASSUME NEW n \in 0 .. N - 1, h1[n] = f[n] PROVE h1[n + 1] = f[n + 1]
  <2>1. n + 1 \in 1 .. N /\ n + 1 \in 0 .. N /\ (n + 1) - 1 = n /\ n + 1 # 0
    OBVIOUS
  <2>2. h1[n + 1] = 10 * h1[n] + DigitOf(d[n + 1])
    BY <2>1, <1>10
  <2>3. f[n + 1] = 10 * f[n] + DigitOf(d[n + 1])
    BY <2>1, <1>6
  <2> QED BY <1>12, <2>2, <2>3
<1>13. Agree(h1, f, 0, N)
  <2>1. StayEqual(h1, f, 0, N)
    BY <1>12 DEF StayEqual
  <2> QED BY <1>11, <2>1, AgreeStepByStep
<1>14. h1[N] = f[N]
  BY <1>13 DEF Agree
<1> QED BY <1>1, <1>6, <1>7, <1>14

(* With one digit more it has read ten times the number, and the digit. *)
LEMMA NumberAppend ==
    ASSUME NEW d \in Seq(Digits), NEW b \in Digits
    PROVE  NumberOf(Append(d, b)) = 10 * NumberOf(d) + DigitOf(b)
<1>1. PICK f \in [0 .. Len(d) -> Nat] :
            /\ f[0] = 0
            /\ \A i \in 1 .. Len(d) : f[i] = 10 * f[i - 1] + DigitOf(d[i])
            /\ NumberOf(d) = f[Len(d)]
  BY NumberUpTo
<1>2. PICK e : e = Append(d, b)
  OBVIOUS
<1>3. /\ e \in Seq(Digits) /\ Len(e) = Len(d) + 1 /\ Len(d) \in Nat
      /\ e[Len(e)] = b /\ \A i \in 1 .. Len(d) : e[i] = d[i]
  BY <1>2
<1>4. PICK h \in [0 .. Len(e) -> Nat] :
            /\ h[0] = 0
            /\ \A i \in 1 .. Len(e) : h[i] = 10 * h[i - 1] + DigitOf(e[i])
            /\ NumberOf(e) = h[Len(e)]
  BY <1>3, NumberUpTo
<1>5. h[0] = f[0]
  BY <1>1, <1>4
<1>6. ASSUME NEW n \in 0 .. Len(d) - 1, h[n] = f[n] PROVE h[n + 1] = f[n + 1]
  <2>1. n + 1 \in 1 .. Len(d) /\ n + 1 \in 1 .. Len(e) /\ (n + 1) - 1 = n
    BY <1>3
  <2>2. h[n + 1] = 10 * h[n] + DigitOf(e[n + 1])
    BY <2>1, <1>4
  <2>3. f[n + 1] = 10 * f[n] + DigitOf(d[n + 1])
    BY <2>1, <1>1
  <2> QED BY <1>6, <2>1, <2>2, <2>3, <1>3
<1>7. Agree(h, f, 0, Len(d))
  <2>1. StayEqual(h, f, 0, Len(d))
    BY <1>6 DEF StayEqual
  <2> QED BY <1>3, <1>5, <2>1, AgreeStepByStep
<1>8. h[Len(d)] = f[Len(d)]
  BY <1>3, <1>7 DEF Agree
<1>9. h[Len(e)] = 10 * h[Len(d)] + DigitOf(b)
  <2>1. Len(e) \in 1 .. Len(e) /\ Len(e) - 1 = Len(d)
    BY <1>3
  <2> QED BY <2>1, <1>3, <1>4
<1> QED BY <1>1, <1>2, <1>4, <1>8, <1>9

(* What it reads is a natural number. *)
LEMMA NumberType ==
    ASSUME NEW d \in Seq(Digits)
    PROVE  NumberOf(d) \in Nat
<1>1. PICK f \in [0 .. Len(d) -> Nat] : NumberOf(d) = f[Len(d)]
  BY NumberUpTo
<1>2. Len(d) \in 0 .. Len(d)
  OBVIOUS
<1> QED BY <1>1, <1>2

(* Of one digit, what that stands for. *)
LEMMA NumberOfOneDigit ==
    ASSUME NEW b \in Digits
    PROVE  NumberOf(<<b>>) = DigitOf(b)
<1>1. <<>> \in Seq(Digits) /\ Append(<<>>, b) = <<b>> /\ Len(<<>>) = 0
  OBVIOUS
<1>2. NumberOf(<<>>) = 0
  <2>1. PICK e : e = <<>> /\ e \in Seq(Digits) /\ Len(e) = 0
    BY <1>1
  <2>2. PICK f \in [0 .. Len(e) -> Nat] : f[0] = 0 /\ NumberOf(e) = f[Len(e)]
    BY <2>1, NumberUpTo
  <2> QED BY <2>1, <2>2
<1>3. NumberOf(Append(<<>>, b)) = 10 * NumberOf(<<>>) + DigitOf(b)
  BY <1>1, NumberAppend
<1>4. DigitOf(b) \in 0 .. 9
  BY DigitOfDigit
<1> QED BY <1>1, <1>2, <1>3, <1>4

(* The equation that defines Decimal, for any function f in its place. *)
DecimalStep(f, n) ==
    IF n < 10 THEN <<DigitBytes[n + 1]>> ELSE Append(f[n \div 10], DigitBytes[(n % 10) + 1])

(* The function f writes the numbers up to n. *)
DecimalUpTo(f, n) ==
    /\ f = [i \in 0 .. n |-> f[i]]
    /\ \A i \in 0 .. n : f[i] = DecimalStep(f, i)

(* The text of n depends on that of n \div 10 only, *)
LEMMA DecimalStepDepends ==
    ASSUME NEW f, NEW h, NEW n \in Nat, n >= 10 => f[n \div 10] = h[n \div 10]
    PROVE  DecimalStep(f, n) = DecimalStep(h, n)
BY DEF DecimalStep

(* so that two functions that write the numbers up to n do it alike. *)
LEMMA DecimalUnique ==
    ASSUME NEW f, NEW h, NEW n \in Nat, NEW m \in Nat, m <= n, DecimalUpTo(f, n), DecimalUpTo(h, m)
    PROVE  f[m] = h[m]
<1> DEFINE T == {i \in 0 .. m : f[i] # h[i]}
<1> SUFFICES ASSUME T # {} PROVE FALSE
  <2>1. T = {} => f[m] = h[m]
    OBVIOUS
  <2> QED BY <2>1
<1>1. T \subseteq Nat
  OBVIOUS
<1>2. PICK x \in T : \A y \in T : x <= y
  <2> HIDE DEF T
  <2> QED BY <1>1, NatMin
<1>3. x \in 0 .. m /\ x \in 0 .. n /\ x \in Nat /\ f[x] # h[x]
  OBVIOUS
<1>4. f[x] = DecimalStep(f, x) /\ h[x] = DecimalStep(h, x)
  BY <1>3 DEF DecimalUpTo
<1>5. ASSUME x >= 10 PROVE f[x \div 10] = h[x \div 10]
  <2>1. x \div 10 \in 0 .. x - 1
    BY <1>3, <1>5
  <2>2. x \div 10 \in 0 .. m /\ ~ (x <= x \div 10)
    BY <1>3, <2>1
  <2> QED BY <1>2, <2>2
<1>6. DecimalStep(f, x) = DecimalStep(h, x)
  BY <1>3, <1>5, DecimalStepDepends
<1> QED BY <1>3, <1>4, <1>6

(* For each n there is such a function, *)
LEMMA DecimalExists ==
    \A n \in Nat : \E f : DecimalUpTo(f, n)
<1> DEFINE T == {n \in Nat : \E f : DecimalUpTo(f, n)}
<1>1. 0 \in T
  <2>1. PICK f : f = [i \in 0 .. 0 |-> <<DigitBytes[i + 1]>>]
    OBVIOUS
  <2>2. DecimalUpTo(f, 0)
    BY <2>1 DEF DecimalUpTo, DecimalStep
  <2> QED BY <2>2
<1>2. ASSUME NEW n \in Nat, n \in T PROVE n + 1 \in T
  <2>1. PICK f : DecimalUpTo(f, n)
    BY <1>2
  <2>2. PICK h : h = [i \in 0 .. n + 1 |-> IF i = n + 1 THEN DecimalStep(f, n + 1) ELSE f[i]]
    OBVIOUS
  <2>3. ASSUME NEW i \in 0 .. n + 1 PROVE h[i] = DecimalStep(h, i)
    <3>1. h[i] = DecimalStep(f, i)
      <4>1. CASE i = n + 1
        BY <2>2, <4>1
      <4>2. CASE i # n + 1
        <5>1. i \in 0 .. n /\ h[i] = f[i]
          BY <2>2, <4>2
        <5> QED BY <2>1, <5>1 DEF DecimalUpTo
      <4> QED BY <4>1, <4>2
    <3>2. ASSUME i >= 10 PROVE f[i \div 10] = h[i \div 10]
      <4>1. i \div 10 \in 0 .. i - 1
        BY <3>2
      <4>2. i \div 10 \in 0 .. n + 1 /\ i \div 10 # n + 1
        BY <4>1
      <4> QED BY <2>2, <4>2
    <3>3. DecimalStep(f, i) = DecimalStep(h, i)
      BY <3>2, DecimalStepDepends
    <3> QED BY <3>1, <3>3
  <2>4. h = [i \in 0 .. n + 1 |-> h[i]]
    BY <2>2
  <2>5. DecimalUpTo(h, n + 1)
    BY <2>3, <2>4 DEF DecimalUpTo
  <2>6. n + 1 \in Nat
    OBVIOUS
  <2> QED BY <2>5, <2>6
<1>3. Nat \subseteq T
  <2> HIDE DEF T
  <2> QED BY <1>1, <1>2, SetInduction
<1> QED BY <1>3

(* and therefore Decimal is one: its recursive definition has sense. *)
LEMMA DecimalRecursion ==
    \A n \in Nat : Decimal[n] = DecimalStep(Decimal, n)
<1>1. PICK c : c = [n \in Nat |-> CHOOSE f : DecimalUpTo(f, n)]
  OBVIOUS
<1>2. \A n \in Nat : DecimalUpTo(c[n], n)
  BY <1>1, DecimalExists
<1>3. PICK F : F = [n \in Nat |-> c[n][n]]
  OBVIOUS
<1>4. ASSUME NEW n \in Nat PROVE F[n] = DecimalStep(F, n)
  <2>1. F[n] = c[n][n] /\ c[n][n] = DecimalStep(c[n], n)
    <3>1. n \in 0 .. n
      OBVIOUS
    <3> QED BY <1>2, <1>3, <3>1 DEF DecimalUpTo
  <2>2. ASSUME n >= 10 PROVE c[n][n \div 10] = F[n \div 10]
    <3>1. n \div 10 \in Nat /\ n \div 10 <= n
      BY <2>2
    <3>2. PICK m \in Nat : m = n \div 10
      BY <3>1
    <3>3. c[n][m] = c[m][m]
      BY <3>1, <3>2, <1>2, DecimalUnique
    <3>4. F[m] = c[m][m]
      BY <1>3
    <3> QED BY <3>2, <3>3, <3>4
  <2>3. PICK a : a = c[n]
    OBVIOUS
  <2>4. DecimalStep(a, n) = DecimalStep(F, n)
    BY <2>2, <2>3, DecimalStepDepends
  <2> QED BY <2>1, <2>3, <2>4
<1> DEFINE Is(g) == g = [n \in Nat |-> IF n < 10 THEN <<DigitBytes[n + 1]>>
                                       ELSE Append(g[n \div 10], DigitBytes[(n % 10) + 1])]
<1>5. Is(F)
  <2>1. F = [n \in Nat |-> F[n]]
    BY <1>3
  <2>2. [n \in Nat |-> F[n]] = [n \in Nat |-> DecimalStep(F, n)]
    BY <1>4
  <2> QED BY <2>1, <2>2 DEF DecimalStep
<1>6. Is(Decimal)
  <2>1. Decimal = CHOOSE g : Is(g)
    BY DEF Decimal
  <2> HIDE DEF Is
  <2> QED BY <1>5, <2>1
<1> HIDE DEF Decimal
<1> QED BY <1>6 DEF DecimalStep

(* The text that the codec writes for a natural number, in a count, a size *)
(* or an integer, has one digit at least and nothing else, and is read as  *)
(* this number.                                                            *)
THEOREM DecimalIsRead ==
    \A n \in Nat : /\ Decimal[n] \in Seq(Digits) /\ Decimal[n] # <<>>
                   /\ NumberOf(Decimal[n]) = n
<1> DEFINE Right(n) == /\ Decimal[n] \in Seq(Digits) /\ Decimal[n] # <<>>
                       /\ NumberOf(Decimal[n]) = n
           T == {n \in Nat : ~ Right(n)}
<1> SUFFICES ASSUME T # {} PROVE FALSE
  OBVIOUS
<1>1. PICK n \in T : \A y \in T : n <= y
  <2>1. T \subseteq Nat
    OBVIOUS
  <2> HIDE DEF T
  <2> QED BY <2>1, NatMin
<1>2. n \in Nat /\ ~ Right(n) /\ \A m \in Nat : m < n => Right(m)
  BY <1>1
<1>3. CASE n < 10
  <2>1. Decimal[n] = <<DigitBytes[n + 1]>>
    BY <1>2, <1>3, DecimalRecursion DEF DecimalStep
  <2>2. DigitBytes[n + 1] \in Digits /\ DigitOf(DigitBytes[n + 1]) = n
    <3>1. n \in 0 .. 9
      BY <1>2, <1>3
    <3> QED BY <3>1, DigitsAre, DigitOfDigit, Zenon
  <2>3. NumberOf(<<DigitBytes[n + 1]>>) = n
    BY <2>2, NumberOfOneDigit
  <2>4. Decimal[n] \in Seq(Digits) /\ Decimal[n] # <<>>
    BY <2>1, <2>2
  <2> QED BY <1>2, <2>1, <2>3, <2>4
<1>4. CASE n >= 10
  <2>1. PICK q \in Nat, r \in 0 .. 9 : q = n \div 10 /\ r = n % 10 /\ n = 10 * q + r /\ q < n
    BY <1>2, <1>4, SMTT(30)
  <2>2. Decimal[n] = Append(Decimal[q], DigitBytes[r + 1])
    <3>1. Decimal[n] = DecimalStep(Decimal, n)
      BY <1>2, DecimalRecursion
    <3>2. DecimalStep(Decimal, n) = Append(Decimal[n \div 10], DigitBytes[(n % 10) + 1])
      BY <1>2, <1>4 DEF DecimalStep
    <3> QED BY <2>1, <3>1, <3>2
  <2>3. Decimal[q] \in Seq(Digits) /\ NumberOf(Decimal[q]) = q
    BY <1>2, <2>1
  <2>4. DigitBytes[r + 1] \in Digits /\ DigitOf(DigitBytes[r + 1]) = r
    BY DigitsAre, DigitOfDigit
  <2>5. NumberOf(Append(Decimal[q], DigitBytes[r + 1])) = 10 * q + r
    BY <2>3, <2>4, NumberAppend
  <2>6. Decimal[n] \in Seq(Digits) /\ Decimal[n] # <<>>
    BY <2>2, <2>3, <2>4, SMTT(30)
  <2> QED BY <1>2, <2>1, <2>2, <2>5, <2>6
<1> QED BY <1>2, <1>3, <1>4

-----------------------------------------------------------------------------
(* Header lines *)

(* The bytes of a header line, one by one; *)
LEMMA HeaderShape ==
    ASSUME NEW B, NEW mark \in B, NEW d \in Seq(B), NEW c \in B, NEW e \in B,
           NEW l, l = <<mark>> \o d \o <<c, e>>
    PROVE  /\ l \in Seq(B) /\ Len(l) = Len(d) + 3 /\ l[1] = mark
           /\ \A i \in 1 .. Len(d) : l[i + 1] = d[i]
           /\ l[Len(d) + 2] = c /\ l[Len(d) + 3] = e
<1>1. l \in Seq(B) /\ Len(l) = Len(d) + 3
  OBVIOUS
<1>2. l[1] = mark
  OBVIOUS
<1>3. ASSUME NEW i \in 1 .. Len(d) PROVE l[i + 1] = d[i]
  OBVIOUS
<1>4. l[Len(d) + 2] = c /\ l[Len(d) + 3] = e
  OBVIOUS
<1> QED BY <1>1, <1>2, <1>3, <1>4

(* and its parts, as get_header cuts them out. *)
LEMMA HeaderParts ==
    ASSUME NEW B, NEW d \in Seq(B), NEW c \in B, NEW e \in B, NEW l \in Seq(B),
           Len(l) = Len(d) + 3,
           \A i \in 1 .. Len(d) : l[i + 1] = d[i],
           l[Len(d) + 2] = c, l[Len(d) + 3] = e
    PROVE  SubSeq(l, 2, Len(l) - 2) = d /\ SubSeq(l, Len(l) - 1, Len(l)) = <<c, e>>
<1>1. SubSeq(l, 2, Len(l) - 2) = d
  <2>1. PICK s : s = SubSeq(l, 2, Len(l) - 2)
    OBVIOUS
  <2>2. s \in Seq(B) /\ Len(s) = Len(d)
    BY <2>1
  <2>3. ASSUME NEW i \in 1 .. Len(d) PROVE s[i] = d[i]
    <3>1. s[i] = l[i + 1]
      BY <2>1
    <3> QED BY <3>1
  <2> QED BY <2>1, <2>2, <2>3, SeqEqual
<1>2. SubSeq(l, Len(l) - 1, Len(l)) = <<c, e>>
  <2>1. PICK s : s = SubSeq(l, Len(l) - 1, Len(l))
    OBVIOUS
  <2>2. s \in Seq(B) /\ Len(s) = 2
    BY <2>1
  <2>3. s[1] = c /\ s[2] = e
    BY <2>1
  <2>4. PICK t : t = <<c, e>>
    OBVIOUS
  <2>5. t \in Seq(B) /\ Len(t) = 2 /\ t[1] = c /\ t[2] = e
    BY <2>4
  <2>6. \A i \in 1 .. Len(s) : s[i] = t[i]
    BY <2>2, <2>3, <2>5
  <2>7. s = t
    BY <2>2, <2>5, <2>6, SeqEqual
  <2> QED BY <2>1, <2>4, <2>7
<1> QED BY <1>1, <1>2

(* The bytes that the protocol itself uses. *)
Marks == Digits \cup {CR, LF, "*", "$", "+", "-", ":"}

(* They are not taken for one another where it matters. *)
LEMMA MarksDiffer ==
    /\ CR # LF /\ "*" # LF /\ "$" # LF /\ "*" # "$"
    /\ \A m \in {"*", "$", "+", "-", ":"} : m # CR
    /\ \A b \in Digits : b # LF /\ b # CR /\ b # "-"
<1>1. \A b \in Digits : b # LF /\ b # CR /\ b # "-"
  BY DigitsAre DEF LF, CR
<1> QED BY <1>1 DEF CR, LF

(* get_header returns a natural number or refuses the line. *)
LEMMA HeaderType ==
    ASSUME NEW Byte, NEW mark, NEW l \in Seq(Byte)
    PROVE  get_header(mark, l) \in Nat \cup {Refused}
<1> DEFINE d == SubSeq(l, 2, Len(l) - 2)
<1>1. d \in Seq(Byte) /\ DOMAIN d = 1 .. Len(d)
  OBVIOUS
<1>2. ASSUME ToSet(d) \subseteq Digits PROVE d \in Seq(Digits)
  <2>1. \A i \in 1 .. Len(d) : d[i] \in Digits
    BY <1>1, <1>2 DEF ToSet
  <2> HIDE DEF d
  <2> QED BY <1>1, <2>1
<1>3. ASSUME ToSet(d) \subseteq Digits PROVE NumberOf(d) \in Nat
  <2> HIDE DEF d
  <2> QED BY <1>2, <1>3, NumberType
<1> HIDE DEF d
<1>4. get_header(mark, l) = Refused \/ (ToSet(d) \subseteq Digits /\ get_header(mark, l) = NumberOf(d))
  BY DEF get_header, d, Digits
<1> QED BY <1>3, <1>4

(* It refuses an empty line, one that does not end with LF, which was cut  *)
(* off, and one with another mark.                                         *)
LEMMA HeaderRefused ==
    ASSUME NEW Byte, NEW mark, NEW l \in Seq(Byte), l = <<>> \/ l[Len(l)] # LF \/ l[1] # mark
    PROVE  get_header(mark, l) = Refused
<1>1. CASE l = <<>>
  BY <1>1 DEF get_header
<1>2. CASE l # <<>> /\ l[1] # mark
  BY <1>2 DEF get_header
<1>3. CASE l # <<>> /\ l[Len(l)] # LF
  <2>1. ASSUME Len(l) > 3 PROVE SubSeq(l, Len(l) - 1, Len(l)) # CR_LF
    <3>1. SubSeq(l, Len(l) - 1, Len(l))[2] = l[Len(l)]
      BY <2>1
    <3>2. CR_LF[2] = LF
      BY DEF CR_LF
    <3> QED BY <1>3, <3>1, <3>2
  <2> QED BY <2>1 DEF get_header
<1> QED BY <1>1, <1>2, <1>3

(* What set_count and the others write before what follows. *)
HeaderLine(mark, d) == <<mark>> \o d \o CR_LF

(* A header line of digits is a line, and get_header reads their number. *)
LEMMA HeaderOfDigits ==
    ASSUME NEW Byte, Marks \subseteq Byte, NEW mark \in Byte, mark # LF, NEW d \in Seq(Digits), d # <<>>
    PROVE  /\ HeaderLine(mark, d) \in Seq(Byte) /\ IsLine(HeaderLine(mark, d))
           /\ HeaderLine(mark, d)[1] = mark
           /\ get_header(mark, HeaderLine(mark, d)) = NumberOf(d)
<1>1. PICK l : l = HeaderLine(mark, d)
  OBVIOUS
<1>2. l = <<mark>> \o d \o <<CR, LF>>
  BY <1>1 DEF HeaderLine, CR_LF
<1>4. d \in Seq(Byte) /\ Len(d) \in Nat /\ Len(d) > 0
  <2>1. Digits \subseteq Byte
    BY DEF Marks
  <2> QED BY <2>1
<1>5. CR \in Byte /\ LF \in Byte /\ CR # LF
  BY MarksDiffer DEF Marks
<1>6. /\ l \in Seq(Byte) /\ Len(l) = Len(d) + 3 /\ l[1] = mark
      /\ \A i \in 1 .. Len(d) : l[i + 1] = d[i]
      /\ l[Len(d) + 2] = CR /\ l[Len(d) + 3] = LF
  BY <1>2, <1>4, <1>5, HeaderShape
<1>7. IsLine(l)
  <2>1. ASSUME NEW i \in 1 .. Len(l) - 1 PROVE l[i] # LF
    <3>1. CASE i = 1
      BY <3>1, <1>6
    <3>2. CASE i = Len(d) + 2
      BY <3>2, <1>5, <1>6
    <3>3. CASE i # 1 /\ i # Len(d) + 2
      <4>1. i - 1 \in 1 .. Len(d) /\ (i - 1) + 1 = i
        BY <3>3, <1>4, <1>6
      <4>2. l[i] = d[i - 1]
        BY <4>1, <1>6
      <4>3. d[i - 1] \in Digits
        BY <4>1
      <4> QED BY <4>2, <4>3, MarksDiffer
    <3> QED BY <3>1, <3>2, <3>3
  <2>2. l # <<>> /\ l[Len(l)] = LF
    BY <1>4, <1>6
  <2> QED BY <2>1, <2>2 DEF IsLine, Last
<1>8. SubSeq(l, 2, Len(l) - 2) = d /\ SubSeq(l, Len(l) - 1, Len(l)) = CR_LF
  <2>1. SubSeq(l, 2, Len(l) - 2) = d /\ SubSeq(l, Len(l) - 1, Len(l)) = <<CR, LF>>
    BY <1>4, <1>5, <1>6, HeaderParts, SMTT(30)
  <2> QED BY <2>1 DEF CR_LF
<1>10. ToSet(d) \subseteq Digits
  BY DEF ToSet
<1>11. get_header(mark, l) = NumberOf(d)
  <2>1. Len(l) > 3 /\ Head(l) = mark
    BY <1>4, <1>6
  <2> QED BY <2>1, <1>8, <1>10 DEF get_header, Digits
<1> QED BY <1>1, <1>6, <1>7, <1>11

(* The header that was written for a count or a size is one line, which    *)
(* get_count or get_binary_size reads as the same number.                  *)
THEOREM HeaderIsRead ==
    ASSUME NEW Byte, Marks \subseteq Byte, NEW mark \in Byte, mark # LF, NEW n \in Nat
    PROVE  LET l == HeaderLine(mark, Decimal[n])
           IN  l \in Seq(Byte) /\ IsLine(l) /\ l[1] = mark /\ get_header(mark, l) = n
<1>1. Decimal[n] \in Seq(Digits) /\ Decimal[n] # <<>> /\ NumberOf(Decimal[n]) = n
  BY DecimalIsRead
<1> QED BY <1>1, HeaderOfDigits

(* A word: its size, its bytes, CR LF. *)
LEMMA WordParts ==
    ASSUME NEW Byte, Marks \subseteq Byte, NEW w \in Seq(Byte)
    PROVE  LET l == HeaderLine("$", Decimal[Len(w)])
           IN  /\ set_binary(w) \in Seq(Byte)
               /\ l \in Seq(Byte) /\ IsLine(l) /\ get_binary_size(l) = Len(w)
               /\ At(set_binary(w), 0, l)
               /\ At(set_binary(w), Len(l), w)
               /\ Len(set_binary(w)) = Len(l) + Len(w) + 2
<1>1. PICK l : l = HeaderLine("$", Decimal[Len(w)])
  OBVIOUS
<1>3. "$" \in Byte /\ "$" # LF /\ Len(w) \in Nat
  BY MarksDiffer DEF Marks
<1>4. l \in Seq(Byte) /\ IsLine(l) /\ get_binary_size(l) = Len(w)
  BY <1>1, <1>3, HeaderIsRead DEF get_binary_size
<1>5. set_binary(w) = l \o w \o CR_LF
  BY <1>1 DEF set_binary, HeaderLine
<1>6. CR_LF \in Seq(Byte) /\ Len(CR_LF) = 2
  BY DEF CR_LF, Marks
<1>7. l \o w \in Seq(Byte) /\ set_binary(w) \in Seq(Byte)
  BY <1>4, <1>5, <1>6
<1>8. Len(set_binary(w)) = Len(l) + Len(w) + 2
  <2>1. Len(l \o w) = Len(l) + Len(w)
    BY <1>4
  <2>2. PICK a \in Seq(Byte), c \in Seq(Byte) : a = l \o w /\ c = CR_LF
    BY <1>6, <1>7
  <2>3. Len(a \o c) = Len(a) + Len(c)
    OBVIOUS
  <2>4. a \o c = set_binary(w)
    BY <2>2, <1>5
  <2> QED BY <2>1, <2>2, <2>3, <2>4, <1>6
<1>9. At(l \o w \o CR_LF, Len(l), w)
  <2>1. At(l \o w, Len(l), w)
    BY <1>4, AtEnd
  <2> QED BY <2>1, <1>4, <1>6, <1>7, AtExtended
<1>10. At(l \o w \o CR_LF, 0, l)
  <2>1. At(l, 0, l)
    BY <1>4 DEF At
  <2>2. At(l \o w, 0, l)
    BY <2>1, <1>4, AtExtended
  <2> QED BY <2>2, <1>4, <1>6, <1>7, AtExtended
<1> QED BY <1>1, <1>4, <1>5, <1>7, <1>8, <1>9, <1>10

-----------------------------------------------------------------------------
(* What a redis client reads *)

(* Wherever the bytes e stand, a reader finds the token. *)
Spells(B, e, token) ==
    /\ e \in Seq(B) /\ Len(e) >= 3
    /\ \A b \in Seq(B) : \A p \in Nat : At(b, p, e) => ReadToken(b, p) = Whole(token, p + Len(e))

(* A text without CR. *)
NoCR(x) == \A i \in 1 .. Len(x) : x[i] # CR

(* A reader finds mark and text of a line. *)
LEMMA LineIsFound ==
    ASSUME NEW B, Marks \subseteq B, NEW mark \in B, mark # CR, NEW x \in Seq(B), NoCR(x),
           NEW b \in Seq(B), NEW p \in Nat, At(b, p, HeaderLine(mark, x))
    PROVE  /\ LineEnds(b, p) # {} /\ Min(LineEnds(b, p)) = p + Len(x) + 2
           /\ b[p + 1] = mark /\ SubSeq(b, p + 2, p + Len(x) + 1) = x
           /\ p + Len(x) + 3 <= Len(b)
<1>1. PICK l : l = HeaderLine(mark, x)
  OBVIOUS
<1>2. l = <<mark>> \o x \o <<CR, LF>>
  BY <1>1 DEF HeaderLine, CR_LF
<1>3. CR \in B /\ LF \in B /\ CR # LF
  BY MarksDiffer DEF Marks
<1>4. /\ l \in Seq(B) /\ Len(l) = Len(x) + 3 /\ l[1] = mark
      /\ \A i \in 1 .. Len(x) : l[i + 1] = x[i]
      /\ l[Len(x) + 2] = CR /\ l[Len(x) + 3] = LF
  BY <1>2, <1>3, HeaderShape
<1>5. PICK n \in Nat : n = Len(x) /\ n = Len(l) - 3
  BY <1>4
<1>6. p + n + 3 <= Len(b) /\ Len(b) \in Nat /\ \A i \in 1 .. n + 3 : b[p + i] = l[i]
  BY <1>1, <1>4, <1>5 DEF At
<1>7. /\ b[p + 1] = mark /\ b[p + n + 2] = CR /\ b[p + n + 3] = LF
      /\ \A i \in 1 .. n : b[p + i + 1] = x[i]
  <2>1. b[p + 1] = mark /\ b[p + (n + 2)] = CR /\ b[p + (n + 3)] = LF
    BY <1>4, <1>5, <1>6
  <2>2. ASSUME NEW i \in 1 .. n PROVE b[p + i + 1] = x[i]
    <3>1. i + 1 \in 1 .. n + 3 /\ p + (i + 1) = p + i + 1
      OBVIOUS
    <3> QED BY <3>1, <1>4, <1>5, <1>6
  <2> QED BY <2>1, <2>2, SMTT(30)
<1>8. p + n + 2 \in LineEnds(b, p)
  BY <1>6, <1>7 DEF LineEnds
<1>9. ASSUME NEW i \in LineEnds(b, p) PROVE p + n + 2 <= i
  <2>1. i \in p + 1 .. Len(b) - 1 /\ b[i] = CR
    BY DEF LineEnds
  <2>2. i # p + 1
    BY <2>1, <1>7
  <2>3. ASSUME i < p + n + 2 PROVE FALSE
    <3>1. i - p - 1 \in 1 .. n /\ p + (i - p - 1) + 1 = i
      BY <2>1, <2>2, <2>3
    <3>2. b[i] = x[i - p - 1]
      BY <3>1, <1>7
    <3> QED BY <2>1, <3>1, <3>2, <1>5 DEF NoCR
  <2> QED BY <2>1, <2>3
<1>10. Min(LineEnds(b, p)) = p + n + 2
  <2>1. \A i, j \in LineEnds(b, p) : i <= j /\ j <= i => i = j
    BY DEF LineEnds
  <2> QED BY <1>8, <1>9, <2>1 DEF Min
<1>11. SubSeq(b, p + 2, p + n + 1) = x
  <2>1. PICK t : t = SubSeq(b, p + 2, p + n + 1)
    OBVIOUS
  <2>2. t \in Seq(B) /\ Len(t) = n
    BY <2>1, <1>6
  <2>3. ASSUME NEW i \in 1 .. n PROVE t[i] = x[i]
    <3>1. t[i] = b[p + i + 1]
      BY <2>1, <1>6, SMTT(30)
    <3> QED BY <3>1, <1>7
  <2> QED BY <2>1, <2>2, <2>3, <1>5, SeqEqual
<1> QED BY <1>5, <1>6, <1>7, <1>8, <1>10, <1>11

(* Digits are not minus signs, and the text of an integer is read back. *)
LEMMA TextIsRead ==
    ASSUME NEW n \in Int
    PROVE  /\ Text(n) \in Seq(Digits \cup {"-"}) /\ NoCR(Text(n)) /\ IntOf(Text(n)) = n
           /\ n >= 0 => Text(n) = Decimal[n]
<1>1. \A m \in Nat : /\ Decimal[m] \in Seq(Digits) /\ Decimal[m] # <<>>
                     /\ NumberOf(Decimal[m]) = m
  BY DecimalIsRead
<1>2. \A b \in Digits \cup {"-"} : b # CR
  BY MarksDiffer
<1>3. CASE n >= 0
  <2>1. PICK d \in Seq(Digits) : d = Decimal[n] /\ d # <<>> /\ NumberOf(d) = n /\ Text(n) = d
    BY <1>1, <1>3 DEF Text
  <2>2. d[1] # "-"
    <3>1. d[1] \in Digits
      BY <2>1
    <3> QED BY <3>1, MarksDiffer
  <2>3. d \in Seq(Digits \cup {"-"}) /\ \A i \in 1 .. Len(d) : d[i] \in Digits \cup {"-"}
    OBVIOUS
  <2> QED BY <1>2, <2>1, <2>2, <2>3 DEF IntOf, NoCR
<1>4. CASE n < 0
  <2>1. -n \in Nat
    BY <1>4
  <2>2. PICK d \in Seq(Digits) : d = Decimal[-n] /\ NumberOf(d) = -n
    BY <1>1, <2>1
  <2>3. PICK t : t = <<"-">> \o d
    OBVIOUS
  <2>4. /\ t \in Seq(Digits \cup {"-"}) /\ t # <<>> /\ t[1] = "-" /\ Tail(t) = d
        /\ \A i \in 1 .. Len(t) : t[i] \in Digits \cup {"-"}
    <3>1. t \in Seq(Digits \cup {"-"})
      BY <2>3
    <3>2. t # <<>> /\ t[1] = "-"
      BY <2>3
    <3>3. Tail(t) = d
      BY <2>3
    <3> QED BY <3>1, <3>2, <3>3
  <2>5. Text(n) = t
    BY <1>4, <2>2, <2>3 DEF Text
  <2>6. IntOf(t) = n
    <3>1. IntOf(t) = -NumberOf(d)
      BY <2>4 DEF IntOf
    <3>2. -(-n) = n
      OBVIOUS
    <3> QED BY <2>2, <3>1, <3>2
  <2> QED BY <1>2, <1>4, <2>4, <2>5, <2>6 DEF NoCR
<1> QED BY <1>3, <1>4

(* A line is bytes, and at least its mark and CR LF. *)
LEMMA LineType ==
    ASSUME NEW B, Marks \subseteq B, NEW mark \in B, NEW x \in Seq(B)
    PROVE  HeaderLine(mark, x) \in Seq(B) /\ Len(HeaderLine(mark, x)) = Len(x) + 3
<1>1. PICK l : l = HeaderLine(mark, x)
  OBVIOUS
<1>2. l = <<mark>> \o x \o <<CR, LF>>
  BY <1>1 DEF HeaderLine, CR_LF
<1>3. CR \in B /\ LF \in B
  BY DEF Marks
<1>4. l \in Seq(B) /\ Len(l) = Len(x) + 3
  BY <1>2, <1>3, HeaderShape
<1> QED BY <1>1, <1>4

(* Lines of text are read as written. *)
LEMMA TextSpells ==
    ASSUME NEW B, Marks \subseteq B, NEW mark \in {"+", "-"}, NEW x \in Seq(B), NoCR(x)
    PROVE  Spells(B, HeaderLine(mark, x), <<mark, x>>)
<1>1. mark \in B /\ mark # CR
  BY MarksDiffer DEF Marks
<1>2. PICK l : l = HeaderLine(mark, x)
  OBVIOUS
<1>3. l \in Seq(B) /\ Len(l) = Len(x) + 3 /\ Len(x) \in Nat
  BY <1>1, <1>2, LineType
<1>4. ASSUME NEW b \in Seq(B), NEW p \in Nat, At(b, p, l)
      PROVE  ReadToken(b, p) = Whole(<<mark, x>>, p + Len(l))
  <2>1. /\ LineEnds(b, p) # {} /\ Min(LineEnds(b, p)) = p + Len(x) + 2
        /\ b[p + 1] = mark /\ SubSeq(b, p + 2, p + Len(x) + 1) = x
    BY <1>1, <1>2, <1>4, LineIsFound
  <2>2. PICK cr : cr = p + Len(x) + 2 /\ cr - 1 = p + Len(x) + 1 /\ cr + 1 = p + Len(l)
    BY <1>3
  <2>3. ReadToken(b, p) = Whole(<<mark, SubSeq(b, p + 2, cr - 1)>>, cr + 1)
    BY <2>1, <2>2 DEF ReadToken
  <2> QED BY <2>1, <2>2, <2>3
<1> QED BY <1>2, <1>3, <1>4, SMTT(30) DEF Spells

(* So are integers and the lengths of arrays. *)
LEMMA IntSpells ==
    ASSUME NEW B, Marks \subseteq B, NEW mark \in {":", "*"}, NEW n \in Int
    PROVE  Spells(B, HeaderLine(mark, Text(n)), <<mark, n>>)
<1>1. mark \in B /\ mark # CR /\ mark \notin {"+", "-"}
  BY MarksDiffer DEF Marks
<1>2. PICK x \in Seq(B) : x = Text(n) /\ NoCR(x) /\ IntOf(x) = n
  <2>1. Digits \cup {"-"} \subseteq B
    BY DEF Marks
  <2>2. Text(n) \in Seq(Digits \cup {"-"})
    BY TextIsRead
  <2>3. Text(n) \in Seq(B)
    BY <2>1, <2>2
  <2> QED BY <2>3, TextIsRead
<1>3. PICK l : l = HeaderLine(mark, x)
  OBVIOUS
<1>4. l \in Seq(B) /\ Len(l) = Len(x) + 3 /\ Len(x) \in Nat
  BY <1>1, <1>3, LineType
<1>5. ASSUME NEW b \in Seq(B), NEW p \in Nat, At(b, p, l)
      PROVE  ReadToken(b, p) = Whole(<<mark, n>>, p + Len(l))
  <2>1. /\ LineEnds(b, p) # {} /\ Min(LineEnds(b, p)) = p + Len(x) + 2
        /\ b[p + 1] = mark /\ SubSeq(b, p + 2, p + Len(x) + 1) = x
    <3>1. NoCR(x) /\ At(b, p, HeaderLine(mark, x))
      BY <1>2, <1>3, <1>5
    <3> QED BY <1>1, <3>1, LineIsFound
  <2>2. PICK cr : cr = p + Len(x) + 2 /\ cr - 1 = p + Len(x) + 1 /\ cr + 1 = p + Len(l)
    BY <1>4
  <2>3. ReadToken(b, p) = Whole(<<mark, IntOf(SubSeq(b, p + 2, cr - 1))>>, cr + 1)
    BY <1>1, <2>1, <2>2 DEF ReadToken
  <2> QED BY <1>2, <2>1, <2>2, <2>3
<1>6. Spells(B, l, <<mark, n>>)
  <2>1. Len(l) >= 3
    BY <1>4
  <2> QED BY <2>1, <1>4, <1>5, Zenon DEF Spells
<1> QED BY <1>2, <1>3, <1>6

(* Nil, which looks like a word of the size -1. *)
LEMMA NilSpells ==
    ASSUME NEW B, Marks \subseteq B
    PROVE  Spells(B, set_nil, <<"nil", <<>>>>)
<1>1. "$" \in B /\ "$" # CR /\ "$" \notin {"+", "-"} /\ "$" \notin {":", "*"}
  BY MarksDiffer DEF Marks
<1>2. PICK x \in Seq(B) : x = <<"-", "1">> /\ NoCR(x) /\ IntOf(x) = -1
  <2>1. DigitBytes[2] = "1"
    BY DEF DigitBytes
  <2>2. "1" \in Digits /\ DigitOf("1") = 1
    <3>1. 1 \in 0 .. 9 /\ 1 + 1 = 2
      OBVIOUS
    <3> QED BY <2>1, <3>1, DigitOfDigit, DigitsAre
  <2>3. NumberOf(<<"1">>) = 1
    BY <2>2, NumberOfOneDigit
  <2>4. PICK x : x = <<"-", "1">>
    OBVIOUS
  <2>5. x \in Seq(B) /\ x # <<>> /\ Len(x) = 2 /\ x[1] = "-" /\ x[2] = "1" /\ Tail(x) = <<"1">>
    <3>1. "-" \in B /\ "1" \in B
      BY <2>2 DEF Marks
    <3> QED BY <2>4, <3>1
  <2>6. NoCR(x)
    BY <2>2, <2>5, MarksDiffer DEF NoCR
  <2>7. IntOf(x) = -1
    BY <2>3, <2>5 DEF IntOf
  <2> QED BY <2>4, <2>5, <2>6, <2>7
<1>3. PICK l : l = HeaderLine("$", x) /\ l = set_nil
  <2>1. <<"$">> \o <<"-", "1">> \o CR_LF = <<"$", "-", "1">> \o CR_LF
    BY DEF CR_LF
  <2> QED BY <1>2, <2>1 DEF HeaderLine, set_nil
<1>4. l \in Seq(B) /\ Len(l) = Len(x) + 3 /\ Len(x) \in Nat
  BY <1>1, <1>3, LineType
<1>5. ASSUME NEW b \in Seq(B), NEW p \in Nat, At(b, p, l)
      PROVE  ReadToken(b, p) = Whole(<<"nil", <<>>>>, p + Len(l))
  <2>1. /\ LineEnds(b, p) # {} /\ Min(LineEnds(b, p)) = p + Len(x) + 2
        /\ b[p + 1] = "$" /\ SubSeq(b, p + 2, p + Len(x) + 1) = x
    <3>1. NoCR(x) /\ At(b, p, HeaderLine("$", x))
      BY <1>2, <1>3, <1>5
    <3> QED BY <1>1, <3>1, LineIsFound
  <2>2. PICK cr : cr = p + Len(x) + 2 /\ cr - 1 = p + Len(x) + 1 /\ cr + 1 = p + Len(l)
    BY <1>4
  <2>3. ReadToken(b, p) = Whole(<<"nil", <<>>>>, cr + 1)
    <3>1. IntOf(SubSeq(b, p + 2, cr - 1)) < 0
      <4>1. SubSeq(b, p + 2, cr - 1) = x
        BY <2>1, <2>2
      <4>2. -1 < 0
        OBVIOUS
      <4> QED BY <1>2, <4>1, <4>2
    <3> QED BY <1>1, <2>1, <2>2, <3>1 DEF ReadToken
  <2> QED BY <2>2, <2>3
<1>6. Spells(B, l, <<"nil", <<>>>>)
  BY <1>4, <1>5 DEF Spells
<1> QED BY <1>3, <1>6

(* A word is read, whatever its bytes are. *)
LEMMA WordSpells ==
    ASSUME NEW B, Marks \subseteq B, NEW w \in Seq(B)
    PROVE  Spells(B, set_binary(w), <<"$", w>>)
<1>1. "$" \in B /\ "$" # CR /\ "$" \notin {"+", "-"} /\ "$" \notin {":", "*"}
  BY MarksDiffer DEF Marks
<1>2. Len(w) \in Nat
  OBVIOUS
<1>3. PICK x \in Seq(B) : x = Decimal[Len(w)] /\ NoCR(x) /\ IntOf(x) = Len(w)
  <2>1. Digits \cup {"-"} \subseteq B
    BY DEF Marks
  <2>2. Decimal[Len(w)] = Text(Len(w)) /\ Text(Len(w)) \in Seq(Digits \cup {"-"})
    BY <1>2, TextIsRead, SMTT(30)
  <2>3. Text(Len(w)) \in Seq(B)
    BY <2>1, <2>2
  <2> QED BY <1>2, <2>2, <2>3, TextIsRead
<1>4. PICK h, e : h = HeaderLine("$", x) /\ e = set_binary(w)
  OBVIOUS
<1>5. /\ h \in Seq(B) /\ e \in Seq(B) /\ At(e, 0, h) /\ At(e, Len(h), w)
      /\ Len(e) = Len(h) + Len(w) + 2
  BY <1>3, <1>4, WordParts
<1>6. Len(h) = Len(x) + 3 /\ Len(x) \in Nat
  BY <1>1, <1>4, LineType
<1>7. ASSUME NEW b \in Seq(B), NEW p \in Nat, At(b, p, e)
      PROVE  ReadToken(b, p) = Whole(<<"$", w>>, p + Len(e))
  <2>1. At(b, p, h) /\ At(b, p + Len(h), w) /\ p + Len(e) <= Len(b)
    <3>1. At(b, p + 0, h) /\ At(b, p + Len(h), w)
      BY <1>5, <1>7, AtInside
    <3> QED BY <3>1, <1>7 DEF At
  <2>2. /\ LineEnds(b, p) # {} /\ Min(LineEnds(b, p)) = p + Len(x) + 2
        /\ b[p + 1] = "$" /\ SubSeq(b, p + 2, p + Len(x) + 1) = x
    <3>1. NoCR(x) /\ At(b, p, HeaderLine("$", x))
      BY <1>3, <1>4, <2>1
    <3> QED BY <1>1, <3>1, LineIsFound
  <2>3. PICK cr \in Nat, end \in Nat :
            /\ cr = p + Len(x) + 2 /\ cr - 1 = p + Len(x) + 1
            /\ end = cr + 1 + Len(w) /\ end + 2 = p + Len(e) /\ cr + 1 = p + Len(h)
    <3>1. PICK cr \in Nat, end \in Nat : cr = p + Len(x) + 2 /\ end = cr + 1 + Len(w)
      BY <1>2, <1>6
    <3>2. PICK n \in Nat, m \in Nat : n = Len(x) /\ m = Len(w) /\ Len(h) = n + 3 /\ Len(e) = n + 3 + m + 2
      BY <1>2, <1>5, <1>6
    <3>3. cr = p + n + 2 /\ end = p + n + 2 + 1 + m
      BY <3>1, <3>2
    <3>4. cr - 1 = p + n + 1 /\ end + 2 = p + (n + 3 + m + 2) /\ cr + 1 = p + (n + 3)
      BY <3>3
    <3> QED BY <3>1, <3>2, <3>4
  <2>4. SubSeq(b, p + 2, cr - 1) = x /\ ~ (end + 2 > Len(b))
    BY <2>1, <2>2, <2>3, SMTT(30)
  <2>5. SubSeq(b, cr + 2, end) = w
    <3>1. \A i \in 1 .. Len(w) : b[cr + 1 + i] = w[i]
      BY <2>1, <2>3 DEF At
    <3>2. PICK t : t = SubSeq(b, cr + 2, end)
      OBVIOUS
    <3>3. t \in Seq(B) /\ Len(t) = Len(w)
      BY <3>2, <2>3, <2>4, SMTT(30)
    <3>4. ASSUME NEW i \in 1 .. Len(w) PROVE t[i] = w[i]
      <4>1. t[i] = b[cr + 1 + i]
        BY <3>2, <2>3, <2>4
      <4> QED BY <3>1, <4>1
    <3> QED BY <3>2, <3>3, <3>4, SeqEqual
  <2>6. ReadToken(b, p) = Whole(<<"$", SubSeq(b, cr + 2, end)>>, end + 2)
    <3>1. IntOf(SubSeq(b, p + 2, cr - 1)) = Len(w) /\ ~ (Len(w) < 0)
      <4>1. IntOf(x) = Len(w)
        BY <1>3
      <4>2. ~ (Len(w) < 0)
        BY <1>2
      <4> QED BY <2>4, <4>1, <4>2
    <3>2. Min(LineEnds(b, p)) = cr
      BY <2>2, <2>3
    <3> QED BY <1>1, <2>2, <2>3, <2>4, <3>1, <3>2 DEF ReadToken
  <2> QED BY <2>3, <2>5, <2>6
<1>8. Spells(B, e, <<"$", w>>)
  <2>1. Len(e) >= 3
    BY <1>2, <1>5, <1>6
  <2> QED BY <2>1, <1>5, <1>7, Zenon DEF Spells
<1> QED BY <1>4, <1>8

(* One token takes a reader from one state to the next. *)
Reading(B, b, s1, s2) ==
    \E e, token : /\ s1.next \in Nat
                  /\ Spells(B, e, token) /\ At(b, s1.next, e)
                  /\ s2 = Take(s1, token, s1.next + Len(e))

(* The n steps f take a reader from the begin of b to the state s at its   *)
(* end.                                                                    *)
ReadsBy(B, b, s, n, f) ==
    /\ b \in Seq(B) /\ n \in Nat /\ 3 * n <= Len(b) /\ s.next = Len(b)
    /\ f[0] = Nothing /\ f[n] = s
    /\ \A k \in 1 .. n : Reading(B, b, f[k - 1], f[k])

Reads(B, b, s) == \E n, f : ReadsBy(B, b, s, n, f)

(* In no bytes there is nothing to read. *)
LEMMA ReadsNothing == \A B : Reads(B, <<>>, Nothing)
<1> TAKE B
<1>1. PICK f : f = [k \in 0 .. 0 |-> Nothing]
  OBVIOUS
<1>2. Nothing.next = 0 /\ Len(<<>>) = 0 /\ <<>> \in Seq(B)
  BY DEF Nothing
<1>3. f[0] = Nothing
  BY <1>1
<1>4. ReadsBy(B, <<>>, Nothing, 0, f)
  BY <1>2, <1>3 DEF ReadsBy
<1> QED BY <1>4 DEF Reads

(* One more token is read after those before it. *)
LEMMA ReadsMore ==
    ASSUME NEW B, NEW b, NEW s, Reads(B, b, s), NEW e, NEW token, Spells(B, e, token)
    PROVE  Reads(B, b \o e, Take(s, token, Len(b \o e)))
<1>1. PICK n, f : ReadsBy(B, b, s, n, f)
  BY DEF Reads
<1>2. /\ b \in Seq(B) /\ n \in Nat /\ 3 * n <= Len(b) /\ s.next = Len(b)
      /\ f[0] = Nothing /\ f[n] = s
      /\ \A k \in 1 .. n : Reading(B, b, f[k - 1], f[k])
  BY <1>1 DEF ReadsBy
<1>3. e \in Seq(B) /\ Len(e) >= 3
  BY DEF Spells
<1>4. b \o e \in Seq(B) /\ Len(b \o e) = Len(b) + Len(e) /\ Len(b) \in Nat /\ Len(e) \in Nat
  BY <1>2, <1>3
<1>5. PICK c, s2 : c = b \o e /\ s2 = Take(s, token, Len(c))
  OBVIOUS
<1>6. ASSUME NEW s0, NEW s1, Reading(B, b, s0, s1) PROVE Reading(B, c, s0, s1)
  <2>1. PICK d, t : /\ s0.next \in Nat
                    /\ Spells(B, d, t) /\ At(b, s0.next, d)
                    /\ s1 = Take(s0, t, s0.next + Len(d))
    BY <1>6 DEF Reading
  <2>2. d \in Seq(B)
    BY <2>1 DEF Spells
  <2>3. At(c, s0.next, d)
    BY <1>2, <1>3, <1>5, <2>1, <2>2, AtExtended
  <2> QED BY <2>1, <2>3 DEF Reading
<1>7. Reading(B, c, s, s2)
  <2>1. At(c, s.next, e)
    BY <1>2, <1>3, <1>5, AtEnd
  <2>2. s2 = Take(s, token, s.next + Len(e)) /\ s.next \in Nat
    BY <1>2, <1>4, <1>5
  <2> QED BY <2>1, <2>2 DEF Reading
<1>8. PICK g : g = [k \in 0 .. n + 1 |-> IF k = n + 1 THEN s2 ELSE f[k]]
  OBVIOUS
<1>9. ASSUME NEW k \in 1 .. n + 1 PROVE Reading(B, c, g[k - 1], g[k])
  <2>1. CASE k = n + 1
    <3>1. g[k] = s2 /\ g[k - 1] = f[n]
      BY <1>2, <1>8, <2>1
    <3> QED BY <1>2, <1>7, <3>1
  <2>2. CASE k # n + 1
    <3>1. k \in 1 .. n /\ g[k] = f[k] /\ g[k - 1] = f[k - 1]
      BY <1>2, <1>8, <2>2
    <3> QED BY <1>2, <1>6, <3>1
  <2> QED BY <2>1, <2>2
<1>10. g[0] = Nothing /\ g[n + 1] = s2
  BY <1>2, <1>8
<1>11. s2.next = Len(c)
  BY <1>5 DEF Take
<1>12. 3 * (n + 1) <= Len(c) /\ n + 1 \in Nat
  BY <1>2, <1>3, <1>4, <1>5
<1>13. ReadsBy(B, c, s2, n + 1, g)
  BY <1>4, <1>5, <1>9, <1>10, <1>11, <1>12 DEF ReadsBy
<1> QED BY <1>5, <1>13 DEF Reads

(* What a reader in the state s at the end of b has read is what ReadAll   *)
(* finds in b: after the last token nothing more is read.                  *)
LEMMA ReadsAll ==
    ASSUME NEW B, NEW b, NEW s, Reads(B, b, s)
    PROVE  ReadAll(b) = s.values
<1>1. PICK n, f : ReadsBy(B, b, s, n, f)
  BY DEF Reads
<1>2. /\ b \in Seq(B) /\ n \in Nat /\ 3 * n <= Len(b) /\ s.next = Len(b)
      /\ f[0] = Nothing /\ f[n] = s
      /\ \A k \in 1 .. n : Reading(B, b, f[k - 1], f[k])
  BY <1>1 DEF ReadsBy
<1>3. PICK N \in Nat : N = Len(b) \div 3 /\ n <= N
  BY <1>2
<1>4. PICK g : g = [k \in 0 .. N |-> IF k <= n THEN f[k] ELSE s]
  OBVIOUS
<1>5. ASSUME NEW s0, NEW s1, Reading(B, b, s0, s1) PROVE s1 = ReadStep(b, s0)
  <2>1. PICK e, t : /\ s0.next \in Nat
                    /\ Spells(B, e, t) /\ At(b, s0.next, e)
                    /\ s1 = Take(s0, t, s0.next + Len(e))
    BY <1>5 DEF Reading
  <2>2. ReadToken(b, s0.next) = Whole(t, s0.next + Len(e))
    BY <1>2, <2>1 DEF Spells
  <2> QED BY <2>1, <2>2 DEF ReadStep, Whole
<1>6. s = ReadStep(b, s)
  <2>1. LineEnds(b, Len(b)) = {}
    BY <1>2 DEF LineEnds
  <2>2. ReadToken(b, s.next) = Incomplete
    BY <1>2, <2>1 DEF ReadToken
  <2> QED BY <2>2 DEF ReadStep, Incomplete
<1>7. g[0] = Nothing /\ g[N] = s
  BY <1>2, <1>3, <1>4
<1>8. ASSUME NEW k \in 1 .. N PROVE g[k] = ReadStep(b, g[k - 1])
  <2>1. CASE k <= n
    <3>1. k \in 1 .. n /\ g[k] = f[k] /\ g[k - 1] = f[k - 1]
      BY <1>2, <1>4, <2>1
    <3> QED BY <1>2, <1>5, <3>1
  <2>2. CASE k > n
    <3>1. g[k] = s /\ g[k - 1] = s
      <4>1. g[k] = s
        BY <1>2, <1>4, <2>2
      <4>2. CASE k - 1 <= n
        <5>1. k - 1 = n
          BY <1>2, <2>2, <4>2
        <5> QED BY <1>2, <1>4, <4>1, <5>1
      <4>3. CASE k - 1 > n
        BY <1>2, <1>4, <4>1, <4>3
      <4> QED BY <1>2, <4>2, <4>3
    <3> QED BY <1>6, <3>1
  <2> QED BY <1>2, <2>1, <2>2
<1> DEFINE Is(h) == h = [k \in 0 .. N |-> IF k = 0 THEN Nothing ELSE ReadStep(b, h[k - 1])]
           h1 == CHOOSE h : Is(h)
<1>9. ReadAll(b) = h1[N].values
  BY <1>3 DEF ReadAll
<1>10. Is(g)
  <2>1. g = [k \in 0 .. N |-> g[k]]
    BY <1>4
  <2>2. ASSUME NEW k \in 0 .. N PROVE g[k] = IF k = 0 THEN Nothing ELSE ReadStep(b, g[k - 1])
    <3>1. k # 0 => k \in 1 .. N
      OBVIOUS
    <3> QED BY <3>1, <1>7, <1>8
  <2> QED BY <2>1, <2>2
<1>11. Is(h1)
  <2> HIDE DEF Is
  <2> QED BY <1>10
<1>12. ASSUME NEW k \in 0 .. N PROVE h1[k] = IF k = 0 THEN Nothing ELSE ReadStep(b, h1[k - 1])
  <2> HIDE DEF h1
  <2> QED BY <1>11
<1> HIDE DEF h1
<1>13. h1[0] = g[0]
  BY <1>7, <1>12
<1>14. ASSUME NEW k \in 0 .. N - 1, h1[k] = g[k] PROVE h1[k + 1] = g[k + 1]
  <2>1. k + 1 \in 1 .. N /\ k + 1 \in 0 .. N /\ (k + 1) - 1 = k /\ k + 1 # 0
    OBVIOUS
  <2>2. h1[k + 1] = ReadStep(b, h1[k])
    BY <2>1, <1>12
  <2>3. g[k + 1] = ReadStep(b, g[k])
    BY <2>1, <1>8
  <2> QED BY <1>14, <2>2, <2>3
<1>15. Agree(h1, g, 0, N)
  <2>1. StayEqual(h1, g, 0, N)
    BY <1>14 DEF StayEqual
  <2> QED BY <1>13, <2>1, AgreeStepByStep
<1>16. h1[N] = s
  BY <1>7, <1>15 DEF Agree
<1> QED BY <1>9, <1>16

=============================================================================
