-------------------------- MODULE TokenBucketProofs --------------------------
(* Theorems about TokenBucket, for any capacities, rate, delays and number  *)
(* of calls.                                                                *)
EXTENDS TokenBucket, TLAPS

LEMMA InitFill == Init => FillInv
<1>1. Idle \in Call
  BY DEF Idle, Call
<1>2. QED
  BY <1>1 DEF Init, FillInv, TypeOK, SentCallsWait, NoDoubleRefill, Idle

(* The end of a call leaves the others alone. *)
LEMMA AnswerKeeps ==
  ASSUME TypeOK, SentCallsWait, NEW c \in Callers, 
         NEW a \in {"admitted", "denied", "failed"}, Answer(c, a)
  PROVE  call' \in [Callers -> Call] /\ SentCallsWait'
<1>1. PICK q \in Call : q = call[c]
  BY DEF TypeOK
<1> DEFINE rec == [q EXCEPT !.pc = "idle", !.answer = a]
<1>2. rec \in Call /\ rec.pc = "idle"
  BY DEF Call
<1>3. call' = [call EXCEPT ![c] = rec]
  BY <1>1 DEF Answer
<1> HIDE DEF rec
<1>4. QED
  BY <1>2, <1>3 DEF TypeOK, SentCallsWait

(* What an admission finds in the bucket. *)
LEMMA TokensType ==
  ASSUME TypeOK, NEW now \in Nat, NEW capacity \in Capacities
  PROVE  /\ Tokens(now, capacity) \in Int
         /\ Tokens(now, capacity) <= capacity
         /\ bucket = NULL => Tokens(now, capacity) = capacity
         /\ bucket # NULL =>
              Tokens(now, capacity)
                <= bucket.tokens + Rate * (now - bucket.last)
<1>1. capacity \in Nat /\ Rate \in Nat
  BY BucketAssumption
<1>2. CASE bucket = NULL
  BY <1>1, <1>2 DEF Tokens
<1>3. CASE bucket # NULL
  <2>1. PICK b \in Bucket : b = bucket
    BY <1>3 DEF TypeOK
  <2>2. b.tokens \in Nat /\ b.last \in Nat
    BY DEF Bucket
  <2>3. Rate * (now - b.last) \in Int
    BY <1>1, <2>2
  <2>4. QED
    BY <1>1, <1>3, <2>1, <2>2, <2>3 DEF Tokens, Elapsed, Smaller
<1>4. QED
  BY <1>2, <1>3

LEMMA SpendKeeps ==
  ASSUME FillInv, NEW c \in Callers, call[c].pc = "sent", Spend(c),
         NEW a \in {"admitted", "failed"}, Answer(c, a)
  PROVE  FillInv'
<1> DEFINE now == call[c].now
           k == call[c].capacity
           t == Tokens(now, k)
<1>1. now \in Nat /\ k \in Capacities /\ clock \in Nat /\ call[c].pc = "sent"
  BY DEF FillInv, TypeOK, SentCallsWait, Call, Spend
<1>2. k \in Nat /\ Rate \in Nat /\ KeyTTL \in Nat
  BY <1>1, BucketAssumption
<1>3. t \in Int /\ t >= 1
  BY <1>1, TokensType DEF FillInv, Spend
<1> DEFINE new == [tokens |-> t - 1, last |-> now, dies |-> clock + KeyTTL]
<1>4. bucket' = new /\ grants' = Append(grants, clock) /\ clock' = clock
  BY DEF Spend
<1>5. new \in Bucket /\ new.tokens = t - 1 /\ new.last = now
  BY <1>1, <1>2, <1>3 DEF Bucket
<1>6. bucket' # NULL /\ bucket'.tokens = t - 1 /\ bucket'.last = now
  BY <1>4, <1>5, NullAssumption
<1>7. call' \in [Callers -> Call] /\ SentCallsWait'
  BY AnswerKeeps DEF FillInv, Spend
<1>8. CASE bucket = NULL
  <2> DEFINE first == [born |-> now, capacity |-> k, count |-> 1]
  <2>1. life' = first
    BY <1>8 DEF Spend
  <2>2. /\ first \in Life /\ first.born = now
        /\ first.capacity = k /\ first.count = 1
    BY <1>1 DEF Life
  <2>3. t = k
    BY <1>1, <1>8, TokensType DEF FillInv
  <2>4. life' # NULL /\ life'.count = 1 /\ life'.born = now
        /\ life'.capacity = k /\ life' \in Life
    BY <2>1, <2>2, NullAssumption
  <2>5. Rate * (now - now) = 0
    BY <1>1, <1>2
  <2>6. NoDoubleRefill'
    BY <1>2, <1>6, <2>3, <2>4, <2>5, BucketAssumption DEF NoDoubleRefill
  <2>7. TypeOK'
    BY <1>1, <1>4, <1>5, <1>7, <2>4 DEF FillInv, TypeOK
  <2>8. QED
    BY <1>7, <2>6, <2>7 DEF FillInv
<1>9. CASE bucket # NULL
  <2>1. PICK b \in Bucket : b = bucket
    BY <1>9 DEF FillInv, TypeOK
  <2>2. PICK l \in Life : l = life /\ life # NULL
    BY <1>9 DEF FillInv, TypeOK, NoDoubleRefill
  <2>3. /\ b.tokens \in Nat /\ b.last \in Nat
        /\ l.born \in Nat /\ l.count \in Nat /\ l.capacity \in Nat
    BY BucketAssumption DEF Bucket, Life
  <2> DEFINE longer == [l EXCEPT !.count = @ + 1]
  <2>4. /\ longer \in Life /\ longer.count = l.count + 1
        /\ longer.born = l.born /\ longer.capacity = l.capacity
    BY <2>3 DEF Life
  <2>5. life' = longer
    BY <1>9, <2>2 DEF Spend
  <2> HIDE DEF longer
  <2>6. life' # NULL
    BY <2>4, <2>5, NullAssumption
  <2>7. t <= b.tokens + Rate * (now - b.last)
    BY <1>1, <1>9, <2>1, TokensType DEF FillInv
  <2>8. Rate * (now - l.born) = Rate * (now - b.last) + Rate * (b.last - l.born)
    BY <1>1, <1>2, <2>3
  <2>9. l.count + b.tokens <= l.capacity + Rate * (b.last - l.born)
    BY <1>9, <2>1, <2>2 DEF FillInv, NoDoubleRefill
  <2>10. /\ Rate * (now - b.last) \in Int
         /\ Rate * (b.last - l.born) \in Int
         /\ Rate * (now - l.born) \in Int
    BY <1>1, <1>2, <2>3
  <2> DEFINE x == Rate * (now - b.last)
             y == Rate * (b.last - l.born)
             z == Rate * (now - l.born)
  <2>11. l.count + 1 + (t - 1) <= l.capacity + z
    <3>1. /\ x \in Int /\ y \in Int /\ z \in Int
          /\ z = x + y /\ t <= b.tokens + x /\ l.count + b.tokens <= l.capacity + y
      BY <2>7, <2>8, <2>9, <2>10
    <3> HIDE DEF x, y, z, t
    <3>2. QED
      BY <1>3, <2>3, <3>1
  <2>12. NoDoubleRefill'
    BY <1>6, <2>4, <2>5, <2>6, <2>11 DEF NoDoubleRefill
  <2>13. TypeOK'
    BY <1>1, <1>4, <1>5, <1>7, <2>4, <2>5 DEF FillInv, TypeOK
  <2>14. QED
    BY <1>7, <2>12, <2>13 DEF FillInv
<1>10. QED
  BY <1>8, <1>9

LEMMA NextKeepsFill == FillInv /\ [Next]_vars => FillInv'
<1> SUFFICES ASSUME FillInv, [Next]_vars PROVE FillInv'
  OBVIOUS
<1>1. CASE Tick
  <2>1. clock' \in Nat /\ UNCHANGED <<call, grants>>
    BY <1>1 DEF Tick, FillInv, TypeOK
  <2>2. \/ bucket' = NULL /\ life' = NULL
        \/ bucket' # NULL /\ bucket' = bucket /\ life' = life
    BY <1>1 DEF Tick
  <2>3. QED
    BY <2>1, <2>2 DEF FillInv, TypeOK, SentCallsWait, NoDoubleRefill
<1>2. ASSUME NEW c \in Callers, Sample(c) PROVE FillInv'
  <2>1. PICK k \in Capacities :
          call' = [call EXCEPT ![c] = [pc |-> "sent", now |-> clock,
                                       capacity |-> k, answer |-> "none"]]
    BY <1>2 DEF Sample
  <2>2. call' \in [Callers -> Call] /\ SentCallsWait'
    BY <2>1 DEF FillInv, TypeOK, SentCallsWait, Call
  <2>3. QED
    BY <1>2, <2>2 DEF Sample, FillInv, TypeOK, NoDoubleRefill
<1>3. ASSUME NEW c \in Callers, Admit(c) \/ (Fail(c) /\ Spend(c))
      PROVE  FillInv'
  BY <1>3, SpendKeeps DEF Admit, Fail
<1>4. ASSUME NEW c \in Callers, Deny(c) \/ (Fail(c) /\ ~ Spend(c))
      PROVE  FillInv'
  <2>1. call' \in [Callers -> Call] /\ SentCallsWait'
    BY <1>4, AnswerKeeps DEF Deny, Fail, FillInv
  <2>2. UNCHANGED <<clock, bucket, grants, life>>
    BY <1>4 DEF Deny, Fail, NoWrite
  <2>3. QED
    BY <2>1, <2>2 DEF FillInv, TypeOK, NoDoubleRefill
<1>5. CASE UNCHANGED vars
  BY <1>5 DEF vars, FillInv, TypeOK, SentCallsWait, NoDoubleRefill
<1>6. QED
  BY <1>1, <1>2, <1>3, <1>4, <1>5 DEF Next
-----------------------------------------------------------------------------
(* The bucket never holds a negative number of tokens and every variable of *)
(* the limiter keeps its type.                                              *)
THEOREM TypeCorrect == Spec => []TypeOK
<1>1. FillInv => TypeOK
  BY DEF FillInv
<1>2. QED
  BY <1>1, InitFill, NextKeepsFill, PTL DEF Spec

(* token_bucket.lua admits at most the capacity of the bucket and Rate      *)
(* calls a second, in whatever order the calls reach Redis.                 *)
THEOREM AdmissionBound == Spec => []NoDoubleRefill
<1>1. FillInv => NoDoubleRefill
  BY DEF FillInv
<1>2. QED
  BY <1>1, InitFill, NextKeepsFill, PTL DEF Spec

(* A user whose last admission is a second old is never refused: refusals   *)
(* cost nothing and late calls do not put the bucket in debt.               *)
THEOREM DenialDeserved == Spec => DeniedOnlyWhenSpent
<1> DEFINE Deserved(c) ==
             call[c].pc = "sent" /\ call'[c].answer = "denied" =>
                 bucket # NULL /\ call[c].now <= bucket.last
<1>1. ASSUME FillInv, [Next]_vars, NEW c \in Callers
      PROVE  Deserved(c)
  <2> SUFFICES ASSUME call[c].pc = "sent", call'[c].answer = "denied"
               PROVE  bucket # NULL /\ call[c].now <= bucket.last
    OBVIOUS
  <2>1. PICK q \in Call : q = call[c] /\ q.answer = "none"
    BY <1>1 DEF FillInv, TypeOK, SentCallsWait
  <2>2. q.now \in Nat /\ q.capacity \in Capacities
    BY <1>1, <2>1 DEF FillInv, SentCallsWait, Call
  <2>3. Deny(c)
    <3>1. ASSUME NEW d \in Callers, NEW a, Answer(d, a), a # "denied"
          PROVE  FALSE
      <4>1. CASE d = c
        <5>1. call'[c] = [q EXCEPT !.pc = "idle", !.answer = a]
          BY <1>1, <2>1, <3>1, <4>1 DEF Answer, FillInv, TypeOK
        <5>2. [q EXCEPT !.pc = "idle", !.answer = a].answer = a
          BY DEF Call
        <5>3. QED
          BY <3>1, <5>1, <5>2
      <4>2. CASE d # c
        BY <1>1, <2>1, <3>1, <4>2 DEF Answer, FillInv, TypeOK
      <4>3. QED
        BY <4>1, <4>2
    <3>2. ASSUME NEW d \in Callers, Sample(d) PROVE FALSE
      BY <1>1, <2>1, <3>2 DEF Sample, FillInv, TypeOK
    <3>3. ~ (UNCHANGED call)
      BY <2>1
    <3>4. PICK d \in Callers : Deny(d)
      BY <1>1, <3>1, <3>2, <3>3 DEF Next, Tick, Admit, Fail, vars
    <3>5. d = c
      BY <1>1, <2>1, <3>4 DEF Deny, Answer, FillInv, TypeOK
    <3>6. QED
      BY <3>4, <3>5
  <2>4. Tokens(q.now, q.capacity) < 1
    BY <2>1, <2>3 DEF Deny
  <2>5. bucket # NULL
    <3>1. ASSUME bucket = NULL PROVE FALSE
      <4>1. Tokens(q.now, q.capacity) = q.capacity
        BY <3>1 DEF Tokens
      <4>2. q.capacity \in Nat \ {0}
        BY <2>2, BucketAssumption
      <4>3. QED
        BY <2>4, <4>1, <4>2
    <3>2. QED
      BY <3>1
  <2>6. PICK b \in Bucket : b = bucket
    BY <1>1, <2>5 DEF FillInv, TypeOK
  <2>7. b.tokens \in Nat /\ b.last \in Nat
    BY DEF Bucket
  <2>8. q.now > b.last => Rate * (q.now - b.last) >= 1
    <3>1. ASSUME NEW n \in Nat, NEW m \in Nat, n >= 1, m >= 1
          PROVE  n * m >= 1
      BY <3>1
    <3>2. QED
      BY <2>2, <2>7, <3>1, BucketAssumption
  <2>9. Rate * (q.now - b.last) \in Int
    BY <2>2, <2>7, BucketAssumption
  <2>10. b.tokens + Rate * (q.now - b.last) < 1
    <3>1. q.capacity \in Nat \ {0}
      BY <2>2, BucketAssumption
    <3>2. Tokens(q.now, q.capacity) =
            Smaller(q.capacity, b.tokens + Rate * (q.now - b.last))
      BY <2>5, <2>6 DEF Tokens, Elapsed
    <3>3. QED
      BY <2>4, <2>7, <2>9, <3>1, <3>2 DEF Smaller
  <2>11. QED
    BY <2>1, <2>2, <2>5, <2>6, <2>7, <2>8, <2>9, <2>10
<1>2. FillInv /\ [Next]_vars => [\A c \in Callers : Deserved(c)]_vars
  BY <1>1
<1>3. QED
  BY <1>2, InitFill, NextKeepsFill, PTL DEF Spec, DeniedOnlyWhenSpent
-----------------------------------------------------------------------------
(* The bound on bursts, across the expiry of the key. *)

LEMMA TimesSum ==
  ASSUME NEW r \in Nat, NEW a \in Int, NEW b \in Int
  PROVE  r * a \in Int /\ r * b \in Int /\ r * (a + b) = r * a + r * b
OBVIOUS

LEMMA TimesGrows ==
  ASSUME NEW r \in Nat, NEW a \in Int, NEW b \in Int, a <= b
  PROVE  r * a <= r * b
<1>1. r * b = r * a + r * (b - a)
  OBVIOUS
<1>2. r * (b - a) >= 0
  OBVIOUS
<1>3. r * a \in Int /\ r * b \in Int /\ r * (b - a) \in Int
  OBVIOUS
<1>4. QED
  BY <1>1, <1>2, <1>3

(* What Paced says of the admissions since the i-th, with a tokens left at *)
(* second l: the bound for an admission that finds t tokens at second m.   *)
LEMMA BoundMoves ==
  ASSUME NEW n \in Nat, NEW k \in Nat, NEW a \in Int, NEW t \in Int,
         NEW l \in Int, NEW m \in Int, NEW g \in Int,
         n + a <= k + Rate * (l - g + MaxDelay),
         t <= a + Rate * (m - l)
  PROVE  n + 1 + (t - 1) <= k + Rate * (m - g + MaxDelay)
<1>1. Rate \in Nat /\ MaxDelay \in Nat
  BY BucketAssumption
<1> DEFINE x == Rate * (l - g + MaxDelay)
           y == Rate * (m - l)
           z == Rate * (m - g + MaxDelay)
<1>2. x \in Int /\ y \in Int /\ z \in Int
  BY <1>1
<1>3. z = x + y
  <2>1. m - g + MaxDelay = (l - g + MaxDelay) + (m - l)
    BY <1>1
  <2>2. l - g + MaxDelay \in Int /\ m - l \in Int
    BY <1>1
  <2>3. QED
    BY <1>1, <2>1, <2>2, TimesSum
<1> HIDE DEF x, y, z
<1>4. n + a <= k + x /\ t <= a + y
  BY DEF x, y
<1>5. n + 1 + (t - 1) <= k + z
  BY <1>2, <1>3, <1>4
<1>6. QED
  BY <1>5 DEF z

LEMMA InitIInv == Init => IInv
<1> SUFFICES ASSUME Init PROVE IInv
  OBVIOUS
<1>1. CallsTimely
  BY DEF Init, CallsTimely, Idle
<1>2. BurstBounded /\ Paced
  BY DEF Init, BurstBounded, Paced
<1>3. QED
  BY <1>1, <1>2, InitFill DEF IInv

(* A call that ended, or has just begun, is not late. *)
LEMMA EndIsTimely ==
  ASSUME IInv, NEW c \in Callers,
         NEW a \in {"admitted", "denied", "failed"}, Answer(c, a), clock' = clock
  PROVE  CallsTimely'
<1>1. PICK q \in Call : q = call[c]
  BY DEF IInv, FillInv, TypeOK
<1> DEFINE rec == [q EXCEPT !.pc = "idle", !.answer = a]
<1>2. rec.pc = "idle"
  BY DEF Call
<1>3. call' = [call EXCEPT ![c] = rec]
  BY <1>1 DEF Answer
<1> HIDE DEF rec
<1>4. QED
  BY <1>2, <1>3 DEF IInv, FillInv, TypeOK, CallsTimely

LEMMA SpendKeepsBurst ==
  ASSUME IInv, NEW c \in Callers, call[c].pc = "sent", Spend(c),
         NEW a \in {"admitted", "failed"}, Answer(c, a)
  PROVE  IInv'
<1>1. FillInv'
  BY SpendKeeps DEF IInv
<1>2. PICK q \in Call : q = call[c] /\ q.pc = "sent"
  BY DEF IInv, FillInv, TypeOK, Spend
<1>3. PICK now \in Nat : now = q.now
  BY DEF Call
<1>4. PICK cap \in Capacities : cap = q.capacity
  BY <1>2 DEF IInv, FillInv, SentCallsWait
<1>5. PICK t \in Int :
        t = Tokens(now, cap) /\ t >= 1 /\ t <= cap
  BY <1>2, <1>3, <1>4, TokensType DEF IInv, FillInv, Spend
<1>6. PICK second \in Nat : second = clock
  BY DEF IInv, FillInv, TypeOK
<1>7. /\ cap \in Nat /\ Rate \in Nat \ {0} /\ MaxDelay \in Nat /\ KeyTTL \in Nat
      /\ Capacities \subseteq Nat
  BY BucketAssumption
<1>8. now <= second /\ second <= now + MaxDelay
  BY <1>2, <1>3, <1>6 DEF IInv, CallsTimely
<1>9. PICK n \in Nat : n = Len(grants)
  BY DEF IInv, FillInv, TypeOK
<1>10. /\ grants' = Append(grants, second) /\ clock' = second
       /\ Len(grants') = n + 1 /\ grants'[n + 1] = second
       /\ \A i \in 1..n : grants'[i] = grants[i] /\ grants[i] \in Nat
       /\ DOMAIN grants = 1..n /\ DOMAIN grants' = 1..(n + 1)
  BY <1>6, <1>9 DEF IInv, FillInv, TypeOK, Spend
<1>11. /\ bucket' # NULL /\ bucket'.tokens = t - 1 /\ bucket'.last = now
       /\ bucket'.dies = second + KeyTTL
  <2>1. bucket' = [tokens |-> t - 1, last |-> now, dies |-> second + KeyTTL]
    BY <1>2, <1>3, <1>4, <1>5, <1>6 DEF Spend
  <2>2. [tokens |-> t - 1, last |-> now, dies |-> second + KeyTTL] \in Bucket
    BY <1>5, <1>7 DEF Bucket
  <2>3. QED
    BY <2>1, <2>2, NullAssumption
<1>12. ASSUME NEW i \in 1..n
       PROVE  \E k \in Capacities :
                (n - i + 1) + 1 + (t - 1)
                  <= k + Rate * (now - grants[i] + MaxDelay)
  <2>1. grants[i] \in Nat /\ grants[n] \in Nat /\ n > 0
    BY <1>10
  <2>2. PICK g \in Nat : g = grants[i]
    BY <2>1
  <2>3. PICK r \in Nat : r = n - i + 1
    OBVIOUS
  <2>4. SUFFICES \E k \in Capacities :
                   r + 1 + (t - 1) <= k + Rate * (now - g + MaxDelay)
    BY <2>2, <2>3
  <2>5. CASE bucket = NULL
    <3>1. PICK k \in Capacities :
            r <= k + Rate * (grants[n] - g + MaxDelay)
      <4>1. i \in DOMAIN grants /\ n \in DOMAIN grants /\ i <= n
        BY <1>10, <2>1
      <4>2. QED
        BY <2>2, <2>3, <4>1 DEF IInv, BurstBounded
    <3>2. second >= grants[n] + KeyTTL
      BY <1>6, <1>9, <2>1, <2>5 DEF IInv, Paced
    <3>3. Rate * (KeyTTL - MaxDelay) <= Rate * (now - grants[n])
      <4>1. KeyTTL - MaxDelay \in Int /\ now - grants[n] \in Int
        BY <1>7, <2>1
      <4>2. KeyTTL - MaxDelay <= now - grants[n]
        BY <1>7, <1>8, <2>1, <3>2
      <4>3. QED
        BY <1>7, <4>1, <4>2, TimesGrows
    <3>4. Rate * KeyTTL = Rate * MaxDelay + Rate * (KeyTTL - MaxDelay)
      <4>1. KeyTTL = MaxDelay + (KeyTTL - MaxDelay) /\ KeyTTL - MaxDelay \in Int
        BY <1>7
      <4>2. QED
        BY <1>7, <4>1, TimesSum
    <3>5. cap + Rate * MaxDelay <= Rate * KeyTTL
      BY ExpiryAssumption
    <3>6. /\ Rate * MaxDelay \in Int /\ Rate * KeyTTL \in Int
          /\ Rate * (KeyTTL - MaxDelay) \in Int /\ Rate * (now - grants[n]) \in Int
      BY <1>7, <2>1
    <3>7. cap <= Rate * (now - grants[n])
      BY <1>7, <3>3, <3>4, <3>5, <3>6
    <3>8. t <= 0 + Rate * (now - grants[n])
      BY <1>5, <1>7, <3>6, <3>7
    <3>9. r + 0 <= k + Rate * (grants[n] - g + MaxDelay)
      BY <3>1
    <3>10. r + 1 + (t - 1) <= k + Rate * (now - g + MaxDelay)
      <4>1. k \in Nat /\ 0 \in Int /\ grants[n] \in Int /\ now \in Int /\ g \in Int
        BY <1>7, <2>1
      <4>2. QED
        BY <3>8, <3>9, <4>1, BoundMoves, Zenon
    <3>11. QED
      BY <3>10
  <2>6. CASE bucket # NULL
    <3>1. PICK b \in Bucket : b = bucket
      BY <2>6 DEF IInv, FillInv, TypeOK
    <3>2. b.tokens \in Nat /\ b.last \in Nat
      BY DEF Bucket
    <3>3. PICK k \in Capacities :
            r + b.tokens <= k + Rate * (b.last - g + MaxDelay)
      BY <1>9, <2>2, <2>3, <2>6, <3>1 DEF IInv, Paced
    <3>4. t <= b.tokens + Rate * (now - b.last)
      BY <1>5, <2>6, <3>1, TokensType DEF IInv, FillInv
    <3>5. /\ k \in Nat /\ b.tokens \in Int /\ b.last \in Int
          /\ now \in Int /\ g \in Int
      BY <1>7, <3>2
    <3>6. r + 1 + (t - 1) <= k + Rate * (now - g + MaxDelay)
      BY <3>3, <3>4, <3>5, BoundMoves, Zenon
    <3>7. QED
      BY <3>6
  <2>7. QED
    BY <2>5, <2>6
<1>13. ASSUME NEW i \in 1..(n + 1)
       PROVE  \E k \in Capacities :
                (n + 1) - i + 1 + (t - 1)
                  <= k + Rate * (now - grants'[i] + MaxDelay)
  <2>1. CASE i = n + 1
    <3>1. now - second + MaxDelay \in Nat
      BY <1>7, <1>8
    <3>2. Rate * (now - second + MaxDelay) >= 0
          /\ Rate * (now - second + MaxDelay) \in Int
      BY <1>7, <3>1
    <3>3. t <= cap + Rate * (now - second + MaxDelay)
      BY <1>5, <1>7, <3>2
    <3>4. (n + 1) - i + 1 + (t - 1) = t
      BY <2>1
    <3>5. QED
      BY <1>10, <2>1, <3>3, <3>4
  <2>2. CASE i \in 1..n
    <3>1. PICK k \in Capacities :
                (n - i + 1) + 1 + (t - 1)
                  <= k + Rate * (now - grants[i] + MaxDelay)
      BY <1>12, <2>2
    <3>2. (n + 1) - i + 1 + (t - 1) = (n - i + 1) + 1 + (t - 1)
      OBVIOUS
    <3>3. QED
      BY <1>10, <2>2, <3>1, <3>2
  <2>3. QED
    BY <2>1, <2>2
<1>14. Paced'
  <2>1. now <= second /\ n + 1 > 0
    BY <1>8
  <2>2. QED
    BY <1>10, <1>11, <1>13, <2>1 DEF Paced
<1>15. BurstBounded'
  <2> SUFFICES ASSUME NEW i \in 1..(n + 1), NEW j \in 1..(n + 1), i <= j
               PROVE  \E k \in Capacities :
                        j - i + 1 <= k + Rate * (grants'[j] - grants'[i] + MaxDelay)
    BY <1>10 DEF BurstBounded
  <2>1. CASE j \in 1..n
    <3>1. i \in 1..n
      BY <2>1
    <3>2. QED
      BY <1>10, <2>1, <3>1 DEF IInv, BurstBounded
  <2>2. CASE j = n + 1
    <3>1. PICK k \in Capacities :
                (n + 1) - i + 1 + (t - 1)
                  <= k + Rate * (now - grants'[i] + MaxDelay)
      BY <1>13
    <3>2. PICK g \in Int : g = grants'[i]
      BY <1>10
    <3>3. Rate * (now - g + MaxDelay) <= Rate * (second - g + MaxDelay)
      <4>1. /\ now - g + MaxDelay \in Int /\ second - g + MaxDelay \in Int
            /\ now - g + MaxDelay <= second - g + MaxDelay
        BY <1>7, <1>8
      <4>2. QED
        BY <1>7, <4>1, TimesGrows
    <3>4. /\ Rate * (now - g + MaxDelay) \in Int
          /\ Rate * (second - g + MaxDelay) \in Int
      BY <1>7
    <3>5. (n + 1) - i + 1 <= k + Rate * (second - g + MaxDelay)
      BY <1>5, <1>7, <3>1, <3>2, <3>3, <3>4
    <3>6. QED
      BY <1>10, <2>2, <3>2, <3>5
  <2>3. QED
    BY <2>1, <2>2
<1>16. CallsTimely'
  BY EndIsTimely DEF Spend
<1>17. QED
  BY <1>1, <1>14, <1>15, <1>16 DEF IInv

(* The key dies KeyTTL after the last admission. *)
LEMMA TickKeepsBurst == IInv /\ Tick => IInv'
<1> SUFFICES ASSUME IInv, Tick PROVE IInv'
  OBVIOUS
<1>1. FillInv'
  BY NextKeepsFill DEF IInv, Next
<1>2. clock \in Nat /\ clock' = clock + 1 /\ UNCHANGED <<call, grants>>
  BY DEF IInv, FillInv, TypeOK, Tick
<1>3. CallsTimely'
  <2> SUFFICES ASSUME NEW c \in Callers, call[c].pc = "sent"
               PROVE  call[c].now <= clock + 1 /\ clock + 1 <= call[c].now + MaxDelay
    BY <1>2 DEF CallsTimely
  <2>1. PICK q \in Call : q = call[c]
    BY DEF IInv, FillInv, TypeOK
  <2>2. q.now \in Nat /\ MaxDelay \in Nat
    BY BucketAssumption DEF Call
  <2>3. q.now <= clock /\ clock < q.now + MaxDelay
    BY <2>1 DEF IInv, CallsTimely, Tick
  <2>4. QED
    BY <1>2, <2>1, <2>2, <2>3
<1>4. BurstBounded'
  BY <1>2 DEF IInv, BurstBounded
<1>5. PICK n \in Nat : n = Len(grants)
  BY DEF IInv, FillInv, TypeOK
<1>6. n > 0 => grants[n] \in Nat
  BY <1>5 DEF IInv, FillInv, TypeOK
<1>7. Paced'
  <2>1. CASE bucket = NULL
    <3>1. bucket' = NULL
      BY <2>1 DEF Tick
    <3>2. n > 0 => clock + 1 >= grants[n] + KeyTTL
      BY <1>2, <1>5, <1>6, <2>1, BucketAssumption DEF IInv, Paced
    <3>3. QED
      BY <1>2, <1>5, <3>1, <3>2 DEF Paced
  <2>2. CASE bucket # NULL
    <3>1. /\ n > 0 /\ bucket.last <= grants[n] /\ bucket.dies = grants[n] + KeyTTL
          /\ \A i \in 1..n : \E k \in Capacities :
                n - i + 1 + bucket.tokens
                  <= k + Rate * (bucket.last - grants[i] + MaxDelay)
      BY <1>5, <2>2 DEF IInv, Paced
    <3>2. CASE Dead(clock')
      <4>1. bucket' = NULL
        BY <2>2, <3>2 DEF Tick
      <4>2. clock' >= grants[n] + KeyTTL
        BY <1>2, <1>6, <3>1, <3>2, BucketAssumption DEF Dead
      <4>3. QED
        BY <1>2, <1>5, <4>1, <4>2 DEF Paced
    <3>3. CASE ~ Dead(clock')
      <4>1. bucket' = bucket
        BY <3>3 DEF Tick
      <4>2. QED
        BY <1>2, <1>5, <2>2, <3>1, <4>1 DEF Paced
    <3>4. QED
      BY <3>2, <3>3
  <2>3. QED
    BY <2>1, <2>2
<1>8. QED
  BY <1>1, <1>3, <1>4, <1>7 DEF IInv

LEMMA NextKeepsIInv == IInv /\ [Next]_vars => IInv'
<1> SUFFICES ASSUME IInv, [Next]_vars PROVE IInv'
  OBVIOUS
<1>1. FillInv'
  BY NextKeepsFill DEF IInv
<1>2. ASSUME UNCHANGED <<clock, bucket, grants>>, CallsTimely'
      PROVE  IInv'
  BY <1>1, <1>2 DEF IInv, BurstBounded, Paced
<1>3. CASE Tick
  BY <1>3, TickKeepsBurst
<1>4. ASSUME NEW c \in Callers, Sample(c) PROVE IInv'
  <2>1. PICK k \in Capacities :
          call' = [call EXCEPT ![c] = [pc |-> "sent", now |-> clock,
                                       capacity |-> k, answer |-> "none"]]
    BY <1>4 DEF Sample
  <2>2. clock \in Nat /\ MaxDelay \in Nat
    BY BucketAssumption DEF IInv, FillInv, TypeOK
  <2>3. CallsTimely'
    BY <1>4, <2>1, <2>2 DEF IInv, FillInv, TypeOK, CallsTimely, Sample
  <2>4. QED
    BY <1>2, <1>4, <2>3 DEF Sample
<1>5. ASSUME NEW c \in Callers, Admit(c) \/ (Fail(c) /\ Spend(c))
      PROVE  IInv'
  BY <1>5, SpendKeepsBurst DEF Admit, Fail
<1>6. ASSUME NEW c \in Callers, Deny(c) \/ (Fail(c) /\ ~ Spend(c))
      PROVE  IInv'
  <2>1. UNCHANGED <<clock, bucket, grants>>
    BY <1>6 DEF Deny, Fail, NoWrite
  <2>2. CallsTimely'
    BY <1>6, EndIsTimely DEF Deny, Fail
  <2>3. QED
    BY <1>2, <2>1, <2>2
<1>7. CASE UNCHANGED vars
  <2>1. UNCHANGED <<clock, bucket, grants>> /\ CallsTimely'
    BY <1>7 DEF vars, IInv, CallsTimely
  <2>2. QED
    BY <1>2, <2>1
<1>8. QED
  BY <1>3, <1>4, <1>5, <1>6, <1>7 DEF Next

(* The inductive invariant holds in every reachable state. *)
THEOREM BucketInvariant == Spec => []IInv
BY InitIInv, NextKeepsIInv, PTL DEF Spec

(* token_bucket.lua over any stretch of time, with late calls, capacities  *)
(* of several routes and the EXPIRE of the key: a burst of one capacity,   *)
(* and Rate calls a second after it.                                       *)
THEOREM BurstsAreBounded == Spec => []BurstBounded
<1>1. IInv => BurstBounded
  BY DEF IInv
<1>2. QED
  BY <1>1, BucketInvariant, PTL
=============================================================================
