---------------------------- MODULE SequenceFacts ----------------------------
(* Facts about the operators on sequences that the models of the lists in   *)
(* Redis are built from: what LPUSH, BRPOPLPUSH, LREM and LRANGE do.        *)
EXTENDS Naturals, SequencesExt, FiniteSetTheorems, WellFoundedInduction, TLAPS

(* What RemoveAt leaves of a sequence. *)
LEMMA RemoveAtElements ==
  ASSUME NEW S, NEW q \in Seq(S), NEW i \in DOMAIN q
  PROVE  /\ RemoveAt(q, i) \in Seq(S)
         /\ Len(RemoveAt(q, i)) = Len(q) - 1
         /\ \A m \in 1..(Len(q) - 1) :
              RemoveAt(q, i)[m] = IF m < i THEN q[m] ELSE q[m + 1]
<1>1. Len(q) \in Nat /\ i \in 1..Len(q)
  OBVIOUS
<1> DEFINE a == SubSeq(q, 1, i - 1)
           b == SubSeq(q, i + 1, Len(q))
<1>2. /\ a \in Seq(S) /\ Len(a) = i - 1
      /\ \A m \in 1..(i - 1) : a[m] = q[m]
  BY <1>1
<1>3. /\ b \in Seq(S) /\ Len(b) = Len(q) - i
      /\ \A m \in 1..(Len(q) - i) : b[m] = q[i + m]
  BY <1>1
<1>4. RemoveAt(q, i) = a \o b
  BY DEF RemoveAt
<1> HIDE DEF a, b
<1>5. /\ a \o b \in Seq(S) /\ Len(a \o b) = Len(q) - 1
      /\ \A m \in 1..(Len(q) - 1) :
           (a \o b)[m] = IF m <= Len(a) THEN a[m] ELSE b[m - Len(a)]
  <2>1. /\ a \o b \in Seq(S) /\ Len(a \o b) = Len(a) + Len(b)
        /\ \A m \in 1..(Len(a) + Len(b)) :
             (a \o b)[m] = IF m <= Len(a) THEN a[m] ELSE b[m - Len(a)]
    <3>1. \A x, y \in Seq(S) :
             /\ x \o y \in Seq(S) /\ Len(x \o y) = Len(x) + Len(y)
             /\ \A m \in 1..(Len(x) + Len(y)) :
                  (x \o y)[m] = IF m <= Len(x) THEN x[m] ELSE y[m - Len(x)]
      OBVIOUS
    <3>2. a \in Seq(S) /\ b \in Seq(S)
      BY <1>2, <1>3
    <3>3. QED
      BY <3>1, <3>2
  <2>2. Len(a) + Len(b) = Len(q) - 1
    BY <1>1, <1>2, <1>3
  <2>3. QED
    BY <2>1, <2>2
<1>6. ASSUME NEW m \in 1..(Len(q) - 1)
      PROVE  (a \o b)[m] = IF m < i THEN q[m] ELSE q[m + 1]
  <2>1. CASE m < i
    <3>1. m \in 1..(i - 1) /\ m <= Len(a)
      BY <1>1, <1>2, <2>1
    <3>2. QED
      BY <1>2, <1>5, <2>1, <3>1
  <2>2. CASE ~ (m < i)
    <3>1. /\ ~ (m <= Len(a)) /\ m - Len(a) \in 1..(Len(q) - i)
          /\ i + (m - Len(a)) = m + 1
      BY <1>1, <1>2, <2>2
    <3>2. QED
      BY <1>3, <1>5, <2>2, <3>1
  <2>3. QED
    BY <2>1, <2>2
<1>7. QED
  BY <1>4, <1>5, <1>6

(* The other elements stay, in their order, and nothing is added. *)
LEMMA RemoveAtKeeps ==
  ASSUME NEW S, NEW q \in Seq(S), NEW i \in DOMAIN q
  PROVE  LET r == RemoveAt(q, i) IN
         /\ r \in Seq(S)
         /\ \A k \in DOMAIN q : k < i => k \in DOMAIN r /\ r[k] = q[k]
         /\ \A k \in DOMAIN q : k > i => k - 1 \in DOMAIN r /\ r[k - 1] = q[k]
         /\ \A m \in DOMAIN r :
              IF m < i THEN m \in DOMAIN q /\ r[m] = q[m]
              ELSE m + 1 \in DOMAIN q /\ r[m] = q[m + 1]
<1> DEFINE r == RemoveAt(q, i)
<1>1. /\ r \in Seq(S) /\ Len(r) = Len(q) - 1 /\ Len(q) \in Nat /\ i \in 1..Len(q)
      /\ \A m \in 1..(Len(q) - 1) : r[m] = IF m < i THEN q[m] ELSE q[m + 1]
  BY RemoveAtElements
<1> HIDE DEF r
<1>2. DOMAIN q = 1..Len(q) /\ DOMAIN r = 1..(Len(q) - 1)
  BY <1>1
<1>3. ASSUME NEW k \in DOMAIN q, k < i
      PROVE  k \in DOMAIN r /\ r[k] = q[k]
  BY <1>1, <1>2, <1>3
<1>4. ASSUME NEW k \in DOMAIN q, k > i
      PROVE  k - 1 \in DOMAIN r /\ r[k - 1] = q[k]
  BY <1>1, <1>2, <1>4
<1>5. ASSUME NEW m \in DOMAIN r
      PROVE  IF m < i THEN m \in DOMAIN q /\ r[m] = q[m]
             ELSE m + 1 \in DOMAIN q /\ r[m] = q[m + 1]
  BY <1>1, <1>2
<1>6. QED
  BY <1>1, <1>3, <1>4, <1>5 DEF r

LEMMA AppendKeeps ==
  ASSUME NEW S, NEW q \in Seq(S), NEW e \in S
  PROVE  /\ Append(q, e) \in Seq(S)
         /\ DOMAIN Append(q, e) = DOMAIN q \cup {Len(q) + 1}
         /\ \A k \in DOMAIN q : Append(q, e)[k] = q[k] /\ k < Len(q) + 1
         /\ Append(q, e)[Len(q) + 1] = e
  OBVIOUS
-----------------------------------------------------------------------------
(* A set of numbers has a least one, the one Min chooses: of the intervals  *)
(* that end in the set, one contains no other.                              *)
LEMMA MinIsLeast ==
  ASSUME NEW T \in SUBSET Nat, T # {}
  PROVE  Min(T) \in T /\ \A y \in T : Min(T) <= y
<1> DEFINE U == {1..x : x \in T}
<1>1. U \subseteq FiniteSubsetsOf(Nat) /\ U # {}
  <2>1. \A x \in T : 1..x \subseteq Nat /\ IsFiniteSet(1..x)
    BY FS_Interval
  <2>2. QED
    BY <2>1 DEF FiniteSubsetsOf
<1>2. PICK u \in U : \A v \in U : ~ (<<v, u>> \in StrictSubsetOrdering(Nat))
  BY <1>1, FS_StrictSubsetOrderingWellFounded, WFMin
<1>3. PICK x \in T : u = 1..x
  OBVIOUS
<1>4. ASSUME NEW y \in T PROVE x <= y
  <2> SUFFICES ASSUME y < x PROVE FALSE
    OBVIOUS
  <2>1. 1..y \subseteq 1..x /\ 1..y # 1..x
    OBVIOUS
  <2>2. 1..y \subseteq Nat /\ 1..x \subseteq Nat
    OBVIOUS
  <2>3. <<1..y, 1..x>> \in StrictSubsetOrdering(Nat)
    BY <2>1, <2>2 DEF StrictSubsetOrdering
  <2>4. QED
    BY <1>2, <1>3, <2>3
<1>5. QED
  BY <1>4 DEF Min

LEMMA RemoveFirstIsRemoveAt ==
  ASSUME NEW S, NEW s \in Seq(S), NEW e, \E i \in 1..Len(s) : s[i] = e
  PROVE  \E i \in DOMAIN s : s[i] = e /\ RemoveFirst(s, e) = RemoveAt(s, i)
<1> DEFINE I == {i \in 1..Len(s) : s[i] = e}
<1>1. I \in SUBSET Nat /\ I # {}
  OBVIOUS
<1>2. Min(I) \in I
  BY <1>1, MinIsLeast
<1>3. SelectInSeq(s, LAMBDA v : v = e) \in I
  BY <1>1, <1>2 DEF SelectInSeq
<1>4. \E i \in 1..Len(s) : s[i] = e /\ RemoveFirst(s, e) = RemoveAt(s, i)
  BY <1>3 DEF RemoveFirst
<1>5. QED
  BY <1>4

(* LREM: at most that element is gone, and no place is new. *)
LEMMA RemoveFirstElements ==
  ASSUME NEW S, NEW s \in Seq(S), NEW e
  PROVE  LET r == RemoveFirst(s, e) IN
         /\ r \in Seq(S)
         /\ ToSet(r) \subseteq ToSet(s)
         /\ ToSet(s) \subseteq ToSet(r) \cup {e}
<1>1. CASE \E i \in 1..Len(s) : s[i] = e
  <2>1. PICK i \in DOMAIN s : s[i] = e /\ RemoveFirst(s, e) = RemoveAt(s, i)
    BY <1>1, RemoveFirstIsRemoveAt
  <2>2. PICK r : r = RemoveAt(s, i)
    OBVIOUS
  <2>3. /\ r \in Seq(S)
        /\ \A k \in DOMAIN s : k < i => k \in DOMAIN r /\ r[k] = s[k]
        /\ \A k \in DOMAIN s : k > i => k - 1 \in DOMAIN r /\ r[k - 1] = s[k]
        /\ \A m \in DOMAIN r :
             IF m < i THEN m \in DOMAIN s /\ r[m] = s[m]
             ELSE m + 1 \in DOMAIN s /\ r[m] = s[m + 1]
    BY <2>2, RemoveAtKeeps
  <2>4. ToSet(r) \subseteq ToSet(s)
    BY <2>3 DEF ToSet
  <2>5. ASSUME NEW k \in DOMAIN s PROVE s[k] \in ToSet(r) \cup {e}
    <3>1. k < i \/ k = i \/ k > i
      OBVIOUS
    <3>2. QED
      BY <2>1, <2>3, <3>1 DEF ToSet
  <2>6. QED
    BY <2>1, <2>2, <2>3, <2>4, <2>5 DEF ToSet
<1>2. CASE ~ \E i \in 1..Len(s) : s[i] = e
  BY <1>2 DEF RemoveFirst
<1>3. QED
  BY <1>1, <1>2

(* LREM moves no element onto another: two places were two places before,  *)
(* and the only place of the element is no place any more.                 *)
LEMMA RemoveFirstPlaces ==
  ASSUME NEW S, NEW s \in Seq(S), NEW e, NEW T,
         \A m, n \in DOMAIN s : s[m] \in T /\ s[n] \in T => m = n
  PROVE  LET r == RemoveFirst(s, e) IN
         /\ \A m, n \in DOMAIN r : r[m] \in T /\ r[n] \in T => m = n
         /\ e \in T /\ e \in ToSet(s) => \A m \in DOMAIN r : r[m] \notin T
<1>1. CASE \E i \in 1..Len(s) : s[i] = e
  <2>1. PICK i \in DOMAIN s : s[i] = e /\ RemoveFirst(s, e) = RemoveAt(s, i)
    BY <1>1, RemoveFirstIsRemoveAt
  <2>2. PICK r : r = RemoveAt(s, i)
    OBVIOUS
  <2>3. /\ r \in Seq(S)
        /\ \A m \in DOMAIN r :
             IF m < i THEN m \in DOMAIN s /\ r[m] = s[m]
             ELSE m + 1 \in DOMAIN s /\ r[m] = s[m + 1]
    BY <2>2, RemoveAtKeeps
  <2>4. DOMAIN r \subseteq Nat /\ i \in Nat
    BY <2>3
  <2>5. ASSUME NEW m \in DOMAIN r, NEW n \in DOMAIN r, r[m] \in T, r[n] \in T
        PROVE  m = n
    <3>1. PICK k \in DOMAIN s : s[k] = r[m] /\ k = IF m < i THEN m ELSE m + 1
      BY <2>3
    <3>2. PICK l \in DOMAIN s : s[l] = r[n] /\ l = IF n < i THEN n ELSE n + 1
      BY <2>3
    <3>3. k = l
      BY <2>5, <3>1, <3>2
    <3>4. QED
      BY <2>4, <3>1, <3>2, <3>3
  <2>6. ASSUME e \in T, NEW m \in DOMAIN r, r[m] \in T PROVE FALSE
    <3>1. PICK k \in DOMAIN s : s[k] = r[m] /\ k = IF m < i THEN m ELSE m + 1
      BY <2>3
    <3>2. k = i
      BY <2>1, <2>6, <3>1
    <3>3. QED
      BY <2>4, <3>1, <3>2
  <2>7. QED
    BY <2>1, <2>2, <2>5, <2>6
<1>2. CASE ~ \E i \in 1..Len(s) : s[i] = e
  <2>1. RemoveFirst(s, e) = s /\ e \notin ToSet(s)
    BY <1>2 DEF RemoveFirst, ToSet
  <2>2. QED
    BY <2>1
<1>3. QED
  BY <1>1, <1>2
-----------------------------------------------------------------------------
(* LPUSH: one more place, before all the others. *)
LEMMA PushElements ==
  ASSUME NEW S, NEW s \in Seq(S), NEW e \in S
  PROVE  LET r == <<e>> \o s IN
         /\ r \in Seq(S)
         /\ ToSet(r) = ToSet(s) \cup {e}
         /\ \A m \in DOMAIN r :
              \/ m = 1 /\ r[m] = e
              \/ m > 1 /\ m - 1 \in DOMAIN s /\ r[m] = s[m - 1]
<1> DEFINE r == <<e>> \o s
<1>1. /\ r \in Seq(S) /\ Len(r) = Len(s) + 1 /\ Len(s) \in Nat
      /\ r[1] = e
      /\ \A m \in 2..(Len(s) + 1) : r[m] = s[m - 1]
  OBVIOUS
<1> HIDE DEF r
<1>2. DOMAIN r = 1..(Len(s) + 1) /\ DOMAIN s = 1..Len(s)
  BY <1>1
<1>3. ASSUME NEW m \in DOMAIN r
      PROVE  \/ m = 1 /\ r[m] = e
             \/ m > 1 /\ m - 1 \in DOMAIN s /\ r[m] = s[m - 1]
  BY <1>1, <1>2
<1>4. ASSUME NEW n \in DOMAIN s PROVE n + 1 \in DOMAIN r /\ r[n + 1] = s[n]
  <2>1. n + 1 \in 2..(Len(s) + 1) /\ (n + 1) - 1 = n
    BY <1>2
  <2>2. QED
    BY <1>1, <1>2, <2>1
<1>5. ToSet(r) = ToSet(s) \cup {e}
  <2>1. ToSet(r) \subseteq ToSet(s) \cup {e}
    BY <1>3 DEF ToSet
  <2>2. 1 \in DOMAIN r
    BY <1>1, <1>2
  <2>3. ToSet(s) \cup {e} \subseteq ToSet(r)
    BY <1>1, <1>4, <2>2 DEF ToSet
  <2>4. QED
    BY <2>1, <2>3
<1>6. QED
  BY <1>1, <1>3, <1>5 DEF r

LEMMA PushPlaces ==
  ASSUME NEW S, NEW s \in Seq(S), NEW e \in S, NEW T,
         \A m, n \in DOMAIN s : s[m] \in T /\ s[n] \in T => m = n,
         e \in T => \A m \in DOMAIN s : s[m] \notin T
  PROVE  LET r == <<e>> \o s IN
         \A m, n \in DOMAIN r : r[m] \in T /\ r[n] \in T => m = n
<1> DEFINE r == <<e>> \o s
<1>1. /\ r \in Seq(S)
      /\ \A m \in DOMAIN r :
           \/ m = 1 /\ r[m] = e
           \/ m > 1 /\ m - 1 \in DOMAIN s /\ r[m] = s[m - 1]
  BY PushElements
<1> HIDE DEF r
<1>2. DOMAIN r \subseteq Nat
  BY <1>1
<1>3. ASSUME NEW m \in DOMAIN r, NEW n \in DOMAIN r, r[m] \in T, r[n] \in T
      PROVE  m = n
  <2>1. CASE m = 1
    BY <1>1, <1>2, <1>3, <2>1
  <2>2. CASE m # 1
    <3>1. m - 1 \in DOMAIN s /\ s[m - 1] \in T
      BY <1>1, <1>3, <2>2
    <3>2. n # 1 /\ n - 1 \in DOMAIN s /\ s[n - 1] \in T
      BY <1>1, <1>3, <3>1
    <3>3. m - 1 = n - 1
      BY <3>1, <3>2
    <3>4. QED
      BY <1>2, <3>3
  <2>3. QED
    BY <2>1, <2>2
<1>4. QED
  BY <1>3 DEF r

(* BRPOPLPUSH takes the last element and leaves the others in place. *)
LEMMA PopElements ==
  ASSUME NEW S, NEW s \in Seq(S), s # << >>
  PROVE  /\ Last(s) \in S /\ Front(s) \in Seq(S)
         /\ Len(s) \in DOMAIN s /\ s[Len(s)] = Last(s)
         /\ ToSet(s) = ToSet(Front(s)) \cup {Last(s)}
         /\ \A m \in DOMAIN Front(s) :
              m \in DOMAIN s /\ m # Len(s) /\ Front(s)[m] = s[m]
<1>1. Len(s) \in Nat \ {0} /\ DOMAIN s = 1..Len(s)
  OBVIOUS
<1>2. /\ Front(s) \in Seq(S) /\ Len(Front(s)) = Len(s) - 1
      /\ \A m \in 1..(Len(s) - 1) : Front(s)[m] = s[m]
  BY <1>1 DEF Front
<1>3. PICK f \in Seq(S) : f = Front(s)
  BY <1>2
<1>4. DOMAIN f = 1..(Len(s) - 1)
  BY <1>1, <1>2, <1>3
<1>5. \A m \in DOMAIN f : m \in DOMAIN s /\ m # Len(s) /\ f[m] = s[m]
  BY <1>1, <1>2, <1>3, <1>4
<1>6. \A m \in DOMAIN s : m = Len(s) \/ m \in DOMAIN f
  BY <1>1, <1>4
<1>7. Last(s) = s[Len(s)] /\ Len(s) \in DOMAIN s /\ Last(s) \in S
  BY <1>1 DEF Last
<1>8. ToSet(s) = ToSet(f) \cup {Last(s)}
  BY <1>5, <1>6, <1>7 DEF ToSet
<1>9. QED
  BY <1>3, <1>5, <1>7, <1>8

LEMMA TailElements ==
  ASSUME NEW S, NEW s \in Seq(S), s # << >>
  PROVE  /\ Head(s) \in S /\ Head(s) \in ToSet(s)
         /\ Tail(s) \in Seq(S) /\ ToSet(Tail(s)) \subseteq ToSet(s)
         /\ ToSet(s) = {Head(s)} \cup ToSet(Tail(s))
<1>1. Len(s) \in Nat \ {0} /\ DOMAIN s = 1..Len(s) /\ Head(s) = s[1]
  OBVIOUS
<1>2. PICK t \in Seq(S) : t = Tail(s)
  <2>1. Tail(s) \in Seq(S)
    OBVIOUS
  <2>2. QED
    BY <2>1
<1>3. DOMAIN t = 1..(Len(s) - 1) /\ \A n \in DOMAIN t : t[n] = s[n + 1]
  BY <1>1, <1>2
<1>4. ToSet(t) \subseteq ToSet(s) /\ Head(s) \in ToSet(s)
  BY <1>1, <1>3 DEF ToSet
<1>5. ASSUME NEW n \in DOMAIN s PROVE s[n] = Head(s) \/ s[n] \in ToSet(t)
  <2>1. CASE n = 1
    BY <1>1, <2>1
  <2>2. CASE n # 1
    <3>1. n - 1 \in DOMAIN t /\ t[n - 1] = s[n]
      BY <1>1, <1>3, <2>2
    <3>2. QED
      BY <3>1 DEF ToSet
  <2>3. QED
    BY <2>1, <2>2
<1>6. ToSet(s) = {Head(s)} \cup ToSet(t)
  BY <1>4, <1>5 DEF ToSet
<1>7. QED
  BY <1>1, <1>2, <1>4, <1>6

(* What is left of a sequence from one place on. *)
LEMMA SuffixElements ==
  ASSUME NEW S, NEW s \in Seq(S), NEW i \in DOMAIN s
  PROVE  /\ SubSeq(s, i, Len(s)) \in Seq(S)
         /\ ToSet(SubSeq(s, i, Len(s))) \subseteq ToSet(s)
<1>1. Len(s) \in Nat /\ DOMAIN s = 1..Len(s)
  OBVIOUS
<1>2. PICK t \in Seq(S) : t = SubSeq(s, i, Len(s))
  <2>1. SubSeq(s, i, Len(s)) \in Seq(S)
    BY <1>1
  <2>2. QED
    BY <2>1
<1>3. DOMAIN t = 1..(Len(s) - i + 1) /\ \A n \in DOMAIN t : t[n] = s[i + n - 1]
  BY <1>1, <1>2
<1>4. \A n \in DOMAIN t : i + n - 1 \in DOMAIN s
  BY <1>1, <1>3
<1>5. QED
  BY <1>2, <1>3, <1>4 DEF ToSet

(* The orders of a finite set: each element has one place. *)
LEMMA OrdersElements ==
  ASSUME NEW S, IsFiniteSet(S), NEW f \in SetToSeqs(S)
  PROVE  /\ f \in Seq(S)
         /\ \A x \in S : \E n \in DOMAIN f : f[n] = x
         /\ \A m, n \in DOMAIN f : f[m] = f[n] => m = n
<1> DEFINE c == Cardinality(S)
<1>1. c \in Nat
  BY FS_CardinalityType
<1>2. f \in [1..c -> S] /\ \A i, j \in 1..c : i # j => f[i] # f[j]
  BY DEF SetToSeqs
<1>3. f \in Injection(1..c, S)
  BY <1>2 DEF Injection, IsInjective
<1>4. IsFiniteSet(1..c) /\ Cardinality(1..c) = c
  BY <1>1, FS_Interval
<1>5. f \in Surjection(1..c, S)
  BY <1>3, <1>4, FS_Injection
<1>6. QED
  BY <1>1, <1>2, <1>5 DEF Surjection
=============================================================================
