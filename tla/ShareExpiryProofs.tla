-------------------------- MODULE ShareExpiryProofs --------------------------
(* Theorems about ShareExpiry, for any clients, owners, versions, lifetimes *)
(* of links and pages, and delays of calls.                                 *)
EXTENDS ShareExpiry, TLAPS

LEMMA Numbers ==
  /\ Slack = 1 /\ Latest = 0
  /\ Number \subseteq Nat \ {0} /\ 1 \in Number /\ Latest \notin Number
  /\ TTL \in Nat \ {0} /\ MaxDelay \in Nat
  /\ Floor \in Int /\ Floor < 0
  /\ Longest \in Nat \ {0} /\ ShareTTLs \subseteq 1..Longest
<1>1. PICK t \in ShareTTLs : \A u \in ShareTTLs : u <= t
  BY ShareAssumption
<1>2. Longest \in ShareTTLs /\ \A u \in ShareTTLs : u <= Longest
  BY <1>1 DEF Longest
<1>3. Longest \in Nat \ {0} /\ ShareTTLs \subseteq 1..Longest
  BY <1>2, ShareAssumption
<1>4. QED
  BY <1>3, ShareAssumption DEF Slack, Latest, Number, Floor

(* A version without a link, and a link with t ticks left. *)
LEMMA LeftType ==
  ASSUME TypeOK, NEW n \in Number, left[n] # NULL
  PROVE  left[n] \in Int /\ left[n] >= Floor /\ left[n] <= Longest
BY Numbers DEF TypeOK

LEMMA DueType ==
  ASSUME TypeOK, NEW m \in Member, due[m] # NULL
  PROVE  due[m] \in Nat /\ due[m] <= Longest
BY Numbers DEF TypeOK

LEMMA NoCallOnTime ==
  NoCall \in Call /\ NoCall.pc = "idle" /\ CallOnTime(NoCall)
<1>1. NoCall \in Call /\ NoCall.pc = "idle" /\ NoCall.age = 0
  BY Numbers, ShareAssumption DEF NoCall, Call, Key, Seen
<1>2. QED
  BY <1>1 DEF CallOnTime

LEMMA NoCallStaysOnTime == CallOnTime(NoCall)'
BY NoCallOnTime DEF NoCall, CallOnTime

LEMMA InitIInv == Init => IInv
<1> SUFFICES ASSUME Init PROVE IInv
  OBVIOUS
<1>1. PICK t \in {NULL, Longest} :
        /\ left = [n \in Number |-> IF n = 1 THEN t ELSE NULL]
        /\ due = [m \in Member |-> IF m = <<1, "legacy">> THEN t ELSE NULL]
  BY DEF Init
<1>2. \A c \in Callers : call[c] = NoCall
  BY DEF Init
<1>3. TypeOK
  <2>1. counter \in Number /\ owned \in 0..MaxOwned /\ rough \in BOOLEAN
    BY Numbers, ShareAssumption DEF Init
  <2>2. left \in [Number -> Floor..Longest \cup {NULL}]
    BY <1>1, Numbers
  <2>3. due \in [Member -> 0..Longest \cup {NULL}]
    BY <1>1, Numbers
  <2>4. call \in [Callers -> Call]
    BY NoCallOnTime DEF Init
  <2>5. cache \in [Key -> Entry \cup {NULL}] /\ scan = NULL
    BY DEF Init
  <2>6. QED
    BY <2>1, <2>2, <2>3, <2>4, <2>5 DEF TypeOK
<1>4. AllOnTime
  BY <1>2, NoCallOnTime DEF Init, AllOnTime
<1>5. OneAtATime
  BY <1>2, NoCallOnTime DEF Init, OneAtATime
<1>6. AwaitedNoted
  <2> SUFFICES ASSUME NEW n \in Number, left[n] # NULL PROVE Noted(n)
    BY DEF AwaitedNoted
  <2>1. n = 1 /\ t = Longest /\ left[n] = Longest
    BY <1>1
  <2>2. <<1, "legacy">> \in Member /\ <<1, "legacy">>[1] = 1
    BY Numbers DEF Member
  <2>3. due[<<1, "legacy">>] = Longest
    BY <1>1, <2>1, <2>2
  <2>4. Longest # NULL
    BY Numbers, NullAssumption
  <2>5. ScoreFor(Longest, Longest)
    BY <2>4, Numbers DEF ScoreFor
  <2>6. QED
    BY <2>1, <2>2, <2>3, <2>5 DEF Noted
<1>7. QED
  BY <1>3, <1>4, <1>5, <1>6 DEF IInv
-----------------------------------------------------------------------------
(* The step of one call. *)

LEMMA GotoEffect ==
  ASSUME TypeOK, NEW c \in Callers, NEW rec \in Call, Goto(c, rec)
  PROVE  /\ call' \in [Callers -> Call]
         /\ call'[c] = rec
         /\ \A d \in Callers : d # c => call'[d] = call[d]
BY DEF TypeOK, Goto

(* In a calm behaviour a call that may move is the only thing that runs. *)
LEMMA OneMoves ==
  ASSUME IInv, NEW c \in Callers, NEW rec \in Call, Goto(c, rec),
         rough' = rough, scan' = scan,
         call[c].pc # "idle" \/ MayStart
  PROVE  /\ OneAtATime'
         /\ ~ rough =>
              \A d \in Callers : d # c => call[d].pc = "idle"
<1>1. /\ call'[c] = rec
      /\ \A d \in Callers : d # c => call'[d] = call[d]
  BY GotoEffect DEF IInv
<1> SUFFICES ASSUME ~ rough
             PROVE  /\ OneAtATime'
                    /\ \A d \in Callers : d # c => call[d].pc = "idle"
  BY DEF OneAtATime
<1>2. scan = NULL /\ \A d \in Callers : d # c => call[d].pc = "idle"
  BY DEF IInv, OneAtATime, MayStart, Quiet
<1>3. QED
  BY <1>1, <1>2 DEF OneAtATime

(* A step of a call that leaves links, notes and pages alone. *)
LEMMA CallStepKeeps ==
  ASSUME IInv, NEW c \in Callers, NEW rec \in Call, Goto(c, rec),
         UNCHANGED <<left, due, cache, scan, rough>>,
         call[c].pc # "idle" \/ MayStart, rough \/ call[c].pc # "zadd",
         CallOnTime(rec),
         counter' \in Number, owned' \in 0..MaxOwned
  PROVE  IInv'
<1>1. /\ call' \in [Callers -> Call] /\ call'[c] = rec
      /\ \A d \in Callers : d # c => call'[d] = call[d]
  BY GotoEffect DEF IInv
<1>2. TypeOK'
  BY <1>1 DEF IInv, TypeOK
<1>3. \A d \in Callers : CallOnTime(call'[d])
  BY <1>1 DEF IInv, AllOnTime
<1>4. AllOnTime'
  BY <1>3 DEF IInv, AllOnTime, CallOnTime, FillOnTime, PageOnTime
<1>5. OneAtATime'
  BY OneMoves
<1>6. ASSUME ~ rough, NEW n \in Number, Noted(n) PROVE Noted(n)'
  BY <1>1, <1>6 DEF Noted, ScoreFor
<1>7. AwaitedNoted'
  BY <1>6 DEF IInv, AwaitedNoted, Awaited
<1>8. QED
  BY <1>2, <1>4, <1>5, <1>7 DEF IInv

LEMMA StartedType ==
  ASSUME IInv, NEW c \in Callers, Start(c)
  PROVE  /\ owned' \in 0..MaxOwned /\ scan' = scan /\ rough' = rough
         /\ call[c].pc = "idle" /\ MayStart
BY ShareAssumption DEF IInv, TypeOK, Start

LEMMA ViewMissKeeps ==
  ASSUME IInv, NEW c \in Callers, NEW k \in Key, ViewMiss(c, k)
  PROVE  IInv'
<1> DEFINE rec == [NoCall EXCEPT !.pc = "select", !.key = k]
<1>1. rec \in Call /\ rec.pc = "select" /\ rec.age = 0
  BY NoCallOnTime DEF NoCall, Call
<1>2. Goto(c, rec) /\ Start(c) /\ UNCHANGED <<counter, left, due, cache>>
  BY DEF ViewMiss
<1> HIDE DEF rec
<1>3. CallOnTime(rec)
  BY <1>1 DEF CallOnTime
<1>4. counter' \in Number
  BY <1>2 DEF IInv, TypeOK
<1>5. QED
  BY <1>1, <1>2, <1>3, <1>4, StartedType, CallStepKeeps

(* What a page was read as says how long its link had at `now`. *)
LEMMA SeenMeans ==
  ASSUME TypeOK, NEW n \in Number, NEW c \in Callers,
         c \in Owners \/ Shown(n, c)
  PROVE  /\ SeenBy(n, c) \in Seen
         /\ left[n] # NULL =>
              /\ SeenBy(n, c) # "owner" => left[n] + call[c].age > 0
              /\ SeenBy(n, c) = "alive" => left[n] + call[c].age > Slack
<1>1. CASE left[n] = NULL
  BY <1>1 DEF SeenBy, LeftAt, Seen
<1>2. CASE left[n] # NULL
  <2>1. PICK q \in Call : q = call[c]
    BY DEF TypeOK
  <2>2. q.age \in Int
    BY Numbers DEF Call
  <2>3. PICK t \in Int : t = left[n] + q.age
    BY <1>2, <2>2, LeftType
  <2>4. LeftAt(n, c) = t /\ t # NULL
    BY <1>2, <2>1, <2>3, NullAssumption DEF LeftAt
  <2>5. c \in Owners \/ t > 0
    BY <2>4 DEF Shown
  <2>6. /\ SeenBy(n, c) \in Seen
        /\ SeenBy(n, c) # "owner" => t > 0
        /\ SeenBy(n, c) = "alive" => t > Slack
    BY <2>4, <2>5, Numbers DEF SeenBy, Seen
  <2>7. QED
    BY <2>1, <2>3, <2>6
<1>3. QED
  BY <1>1, <1>2

LEMMA SelectKeeps ==
  ASSUME IInv, NEW c \in Callers, Select(c)
  PROVE  IInv'
<1>1. PICK q \in Call : q = call[c]
  BY DEF IInv, TypeOK
<1>2. /\ q.pc = "select" /\ q.key \in Key /\ q.age \in 0..MaxDelay
      /\ UNCHANGED <<counter, left, due, cache, scan, owned, rough>>
  BY <1>1 DEF Select, Continue, Call
<1>3. PICK n \in Number : n = IF q.key = Latest THEN counter ELSE q.key
  BY <1>2 DEF IInv, TypeOK, Key
<1>4. /\ counter' \in Number /\ owned' \in 0..MaxOwned
  BY <1>2 DEF IInv, TypeOK
<1>5. CASE Shown(n, c)
  <2>1. PICK seen \in Seen : seen = SeenBy(n, c)
    BY <1>5, SeenMeans DEF IInv
  <2> DEFINE rec == [q EXCEPT !.pc = "fill", !.num = n, !.seen = seen]
  <2>2. /\ rec \in Call /\ rec.pc = "fill" /\ rec.num = n /\ rec.seen = seen
        /\ rec.age = q.age /\ rec.key = q.key
    BY DEF Call
  <2>3. Goto(c, rec)
    BY <1>1, <1>3, <1>5, <2>1 DEF Select
  <2> HIDE DEF rec
  <2>4. left[n] # NULL =>
          /\ seen # "owner" => left[n] + q.age > 0
          /\ seen = "alive" => left[n] + q.age > Slack
    BY <1>1, <1>5, <2>1, SeenMeans DEF IInv
  <2>5. ~ rough => q.age = 0
    BY <1>1 DEF IInv, AllOnTime, CallOnTime
  <2>6. left[n] # NULL => left[n] \in Int
    BY LeftType DEF IInv
  <2>7. FillOnTime(rec)
    BY <1>3, <2>2, <2>4, <2>5, <2>6, Numbers DEF FillOnTime
  <2>8. CallOnTime(rec)
    BY <2>2, <2>5, <2>7 DEF CallOnTime
  <2>9. QED
    BY <1>1, <1>2, <1>4, <2>2, <2>3, <2>8, CallStepKeeps
<1>6. CASE ~ Shown(n, c)
  <2>1. Goto(c, NoCall)
    BY <1>1, <1>3, <1>6 DEF Select, Return
  <2>2. QED
    BY <1>1, <1>2, <1>4, <2>1, NoCallOnTime, CallStepKeeps
<1>7. QED
  BY <1>5, <1>6

LEMMA UpdateKeeps ==
  ASSUME IInv, NEW c \in Callers, Update(c)
  PROVE  IInv'
<1>1. PICK n \in Number : n = counter'
  BY DEF Update
<1>2. /\ c \in Owners /\ Start(c) /\ UNCHANGED <<left, due, cache>>
      /\ call[c].pc = "idle" /\ MayStart
      /\ owned' \in 0..MaxOwned /\ scan' = scan /\ rough' = rough
  BY StartedType DEF Update
<1>3. PICK seen \in Seen : seen = SeenBy(n, c)
  BY <1>2, SeenMeans DEF IInv
<1>4. left[n] # NULL =>
        /\ seen # "owner" => left[n] + call[c].age > 0
        /\ seen = "alive" => left[n] + call[c].age > Slack
  BY <1>2, <1>3, SeenMeans DEF IInv
<1>5. call[c].age = 0
  BY <1>2 DEF IInv, AllOnTime, CallOnTime
<1> DEFINE rec == [NoCall EXCEPT !.pc = "fill", !.num = n, !.seen = seen]
<1>6. /\ rec \in Call /\ rec.pc = "fill" /\ rec.num = n /\ rec.seen = seen
      /\ rec.age = 0 /\ rec.key = Latest
  BY NoCallOnTime DEF Call, NoCall
<1>7. Goto(c, rec)
  BY <1>1, <1>3 DEF Update
<1> HIDE DEF rec
<1>8. CallOnTime(rec)
  BY <1>4, <1>5, <1>6, LeftType, Numbers DEF CallOnTime, FillOnTime, IInv
<1>9. QED
  BY <1>1, <1>2, <1>6, <1>7, <1>8, CallStepKeeps

LEMMA AbortKeeps ==
  ASSUME IInv, NEW c \in Callers, Abort(c)
  PROVE  IInv'
<1>1. /\ rough /\ call[c].pc # "idle" /\ Goto(c, NoCall)
      /\ UNCHANGED <<counter, left, due, cache, scan, owned, rough>>
  BY DEF Abort, Return
<1>2. counter' \in Number /\ owned' \in 0..MaxOwned
  BY <1>1 DEF IInv, TypeOK
<1>3. QED
  BY <1>1, <1>2, NoCallOnTime, CallStepKeeps
-----------------------------------------------------------------------------
(* The end of a call that wrote the cache or snippets:expiry. *)

(* setex puts a page there that was on time, or does nothing. *)
LEMMA FillKeeps ==
  ASSUME IInv, NEW c \in Callers, Fill(c)
  PROVE  IInv'
<1>1. PICK q \in Call : q = call[c]
  BY DEF IInv, TypeOK
<1>2. /\ q.pc = "fill" /\ Goto(c, NoCall)
      /\ UNCHANGED <<counter, left, due, scan, owned, rough>>
  BY <1>1 DEF Fill, Continue, Return
<1>3. CASE UNCHANGED cache
  <2>1. counter' \in Number /\ owned' \in 0..MaxOwned
    BY <1>2 DEF IInv, TypeOK
  <2>2. QED
    BY <1>1, <1>2, <1>3, <2>1, NoCallOnTime, CallStepKeeps
<1>4. CASE ~ UNCHANGED cache
  <2> DEFINE e == [version |-> q.num, seen |-> q.seen, ttl |-> TTL]
  <2>1. /\ q.key \in Key /\ q.num \in Number /\ q.seen \in Seen
        /\ q.age \in Nat /\ q.age <= MaxDelay
    BY Numbers DEF Call
  <2>2. /\ e \in Entry /\ e.version = q.num /\ e.seen = q.seen /\ e.ttl = TTL
    BY <2>1, Numbers DEF Entry
  <2>3. cache' = [cache EXCEPT ![q.key] = e]
    BY <1>1, <1>4 DEF Fill
  <2> HIDE DEF e
  <2>4. /\ cache' \in [Key -> Entry \cup {NULL}] /\ cache'[q.key] = e
        /\ \A k \in Key : k # q.key => cache'[k] = cache[k]
    BY <2>1, <2>2, <2>3 DEF IInv, TypeOK
  <2>5. /\ call' \in [Callers -> Call] /\ call'[c] = NoCall
        /\ \A d \in Callers : d # c => call'[d] = call[d]
    BY <1>2, NoCallOnTime, GotoEffect DEF IInv
  <2>6. TypeOK'
    BY <1>2, <2>4, <2>5 DEF IInv, TypeOK
  <2>7. FillOnTime(q)
    BY <1>1, <1>2 DEF IInv, AllOnTime, CallOnTime
  <2>8. PageOnTime(q.key, e)
    <3>1. left[q.num] # NULL => left[q.num] \in Int
      BY <2>1, LeftType DEF IInv
    <3>2. q.seen # "owner" /\ left[q.num] # NULL
            => left[q.num] + MaxDelay + TTL - TTL > 0
      BY <2>1, <2>7, <3>1, Numbers DEF FillOnTime
    <3>3. QED
      BY <2>2, <2>7, <3>2 DEF FillOnTime, PageOnTime
  <2>9. AllOnTime'
    <3>1. \A d \in Callers : CallOnTime(call'[d])
      BY <2>5, NoCallOnTime DEF IInv, AllOnTime
    <3>2. \A k \in Key : cache'[k] # NULL => PageOnTime(k, cache'[k])
      BY <2>4, <2>8 DEF IInv, AllOnTime
    <3>3. QED
      BY <1>2, <3>1, <3>2 DEF AllOnTime, CallOnTime, FillOnTime, PageOnTime
  <2>10. OneAtATime'
    BY <1>1, <1>2, NoCallOnTime, OneMoves
  <2>11. AwaitedNoted'
    <3> SUFFICES ASSUME ~ rough, NEW n \in Number, left[n] # NULL, Awaited(n)'
                 PROVE  Noted(n)'
      BY <1>2 DEF AwaitedNoted
    <3>1. Awaited(n)
      <4>1. CASE n = q.num /\ e.seen = "alive"
        BY <2>2, <2>7, <4>1 DEF FillOnTime, Awaited
      <4>2. CASE ~ (n = q.num /\ e.seen = "alive")
        BY <1>2, <2>2, <2>4, <4>2 DEF Awaited
      <4>3. QED
        BY <4>1, <4>2
    <3>2. Noted(n)
      BY <3>1 DEF IInv, AwaitedNoted
    <3>3. QED
      BY <1>1, <1>2, <2>5, <3>2 DEF Noted, ScoreFor
  <2>12. QED
    BY <2>6, <2>9, <2>10, <2>11 DEF IInv
<1>5. QED
  BY <1>3, <1>4

(* zadd notes the expiry the call committed, which in a calm behaviour is  *)
(* still the expiry of the version.                                        *)
LEMMA ZaddKeeps ==
  ASSUME IInv, NEW c \in Callers, Zadd(c)
  PROVE  IInv'
<1>1. PICK q \in Call : q = call[c]
  BY DEF IInv, TypeOK
<1>2. /\ q.pc = "zadd" /\ Goto(c, NoCall)
      /\ UNCHANGED <<counter, left, cache, scan, owned, rough>>
      /\ q.num \in Number /\ q.exp \in 0..Longest
  BY <1>1 DEF Zadd, Continue, Return, Call
<1>3. CASE rough /\ UNCHANGED due
  <2>1. counter' \in Number /\ owned' \in 0..MaxOwned
    BY <1>2 DEF IInv, TypeOK
  <2>2. QED
    BY <1>1, <1>2, <1>3, <2>1, NoCallOnTime, CallStepKeeps
<1>4. CASE ~ (rough /\ UNCHANGED due)
  <2> DEFINE m == <<q.num, "short">>
  <2>1. PICK t \in {q.exp, q.exp - Slack} : t >= 0 /\ due' = [due EXCEPT ![m] = t]
    BY <1>1, <1>4 DEF Zadd, Score
  <2>2. t \in 0..Longest /\ t # NULL /\ t \in q.exp - Slack .. q.exp
    <3>1. t \in Int /\ t <= Longest /\ t >= q.exp - Slack /\ t <= q.exp
      BY <1>2, <2>1, Numbers
    <3>2. QED
      BY <1>2, <2>1, <3>1, Numbers, NullAssumption
  <2>3. m \in Member /\ m[1] = q.num
    BY <1>2 DEF Member
  <2> HIDE DEF m
  <2>4. /\ due' \in [Member -> 0..Longest \cup {NULL}] /\ due'[m] = t
        /\ \A l \in Member : l # m => due'[l] = due[l]
    BY <2>1, <2>2, <2>3 DEF IInv, TypeOK
  <2>5. /\ call' \in [Callers -> Call] /\ call'[c] = NoCall
        /\ \A d \in Callers : d # c => call'[d] = call[d]
    BY <1>2, NoCallOnTime, GotoEffect DEF IInv
  <2>6. TypeOK'
    BY <1>2, <2>4, <2>5 DEF IInv, TypeOK
  <2>7. AllOnTime'
    <3>1. \A d \in Callers : CallOnTime(call'[d])
      BY <2>5, NoCallOnTime DEF IInv, AllOnTime
    <3>2. QED
      BY <1>2, <3>1 DEF IInv, AllOnTime, CallOnTime, FillOnTime, PageOnTime
  <2>8. OneAtATime' /\ (~ rough => \A d \in Callers : d # c => call[d].pc = "idle")
    BY <1>1, <1>2, NoCallOnTime, OneMoves
  <2>9. AwaitedNoted'
    <3> SUFFICES ASSUME ~ rough, NEW n \in Number, left[n] # NULL, Awaited(n)
                 PROVE  Noted(n)'
      BY <1>2 DEF AwaitedNoted, Awaited
    <3>1. CASE n = q.num
      <4>1. left[n] = q.exp
        BY <1>1, <1>2, <3>1 DEF IInv, AllOnTime, CallOnTime
      <4>2. ScoreFor(t, left[n])
        BY <2>2, <4>1 DEF ScoreFor
      <4>3. QED
        BY <1>2, <2>3, <2>4, <3>1, <4>2 DEF Noted, ScoreFor
    <3>2. CASE n # q.num
      <4>1. Noted(n)
        BY DEF IInv, AwaitedNoted
      <4>2. PICK l \in Member : l[1] = n /\ ScoreFor(due[l], left[n])
        BY <1>1, <2>8, <3>2, <4>1 DEF Noted
      <4>3. due'[l] = due[l]
        BY <2>3, <2>4, <3>2, <4>2
      <4>4. QED
        BY <1>2, <4>2, <4>3 DEF Noted, ScoreFor
    <3>3. QED
      BY <3>1, <3>2
  <2>10. QED
    BY <2>6, <2>7, <2>8, <2>9 DEF IInv
<1>5. QED
  BY <1>3, <1>4

(* A new expiry is later than now, for pages and calls under way as well. *)
LEMMA ShareKeeps ==
  ASSUME IInv, NEW c \in Callers, Share(c)
  PROVE  IInv'
<1>1. /\ call[c].pc = "idle" /\ MayStart /\ owned' \in 0..MaxOwned
      /\ scan' = scan /\ rough' = rough /\ UNCHANGED <<counter, due, cache>>
  BY StartedType DEF Share
<1>2. PICK n \in 1..counter, t0 \in ShareTTLs, lag \in 0..MaxDelay :
        /\ lag < t0 /\ (lag = 0 \/ rough)
        /\ left' = [left EXCEPT ![n] = t0 - lag]
        /\ Goto(c, [NoCall EXCEPT !.pc = "zadd", !.num = n, !.exp = t0 - lag,
                                  !.age = lag])
  BY DEF Share
<1> DEFINE t == t0 - lag
<1>3. n \in Number /\ t \in Int /\ t > 0 /\ t <= Longest /\ t # NULL
  <2>1. n \in Number
    BY ShareAssumption DEF IInv, TypeOK, Number
  <2>2. t \in Int /\ t > 0 /\ t <= Longest
    BY <1>2, Numbers, ShareAssumption
  <2>3. QED
    BY <2>1, <2>2, NullAssumption
<1> DEFINE rec == [NoCall EXCEPT !.pc = "zadd", !.num = n, !.exp = t, !.age = lag]
<1> HIDE DEF t
<1>4. /\ rec \in Call /\ rec.pc = "zadd" /\ rec.num = n /\ rec.exp = t
      /\ (~ rough => rec.age = 0)
  <2>1. t \in 0..Longest
    BY <1>3, Numbers
  <2>2. QED
    BY <1>2, <1>3, <2>1, NoCallOnTime DEF NoCall, Call
<1>5. Goto(c, rec)
  BY <1>2 DEF t
<1> HIDE DEF rec
<1>6. /\ call' \in [Callers -> Call] /\ call'[c] = rec
      /\ \A d \in Callers : d # c => call'[d] = call[d]
  BY <1>4, <1>5, GotoEffect DEF IInv
<1>7. /\ left' \in [Number -> Floor..Longest \cup {NULL}] /\ left'[n] = t
      /\ \A i \in Number : i # n => left'[i] = left[i]
  <2>1. t \in Floor..Longest
    BY <1>3, Numbers
  <2>2. QED
    BY <1>2, <1>3, <2>1 DEF IInv, TypeOK, t
<1>8. TypeOK'
  BY <1>1, <1>6, <1>7 DEF IInv, TypeOK
<1>9. /\ OneAtATime'
      /\ ~ rough => \A d \in Callers : d # c => call[d].pc = "idle"
  BY <1>1, <1>4, <1>5, OneMoves
<1>10. AllOnTime'
  <2>1. ASSUME NEW d \in Callers PROVE CallOnTime(call[d])'
    <3>1. PICK q \in Call : q = call'[d]
      BY <1>6
    <3>2. CASE d = c
      BY <1>1, <1>4, <1>6, <1>7, <3>1, <3>2 DEF CallOnTime
    <3>3. CASE d # c
      <4>1. CallOnTime(q) /\ (~ rough => q.pc = "idle")
        BY <1>6, <1>9, <3>1, <3>3 DEF IInv, AllOnTime
      <4>2. q.num \in Number /\ q.age \in Nat
        BY Numbers DEF Call
      <4>3. q.pc = "fill" => FillOnTime(q)'
        <5>1. t + q.age > 0
          BY <1>3, <4>2
        <5>2. CASE q.num = n
          BY <1>1, <1>7, <4>1, <5>1, <5>2 DEF CallOnTime, FillOnTime
        <5>3. CASE q.num # n
          BY <1>1, <1>7, <4>1, <4>2, <5>3 DEF CallOnTime, FillOnTime
        <5>4. QED
          BY <5>2, <5>3
      <4>4. QED
        BY <1>1, <3>1, <4>1, <4>3 DEF CallOnTime, FillOnTime
    <3>4. QED
      BY <3>2, <3>3
  <2>2. ASSUME NEW k \in Key, cache'[k] # NULL PROVE PageOnTime(k, cache[k])'
    <3>1. PICK e \in Entry : e = cache[k] /\ e = cache'[k]
      BY <1>1, <2>2 DEF IInv, TypeOK
    <3>2. PageOnTime(k, e)
      BY <1>1, <2>2, <3>1 DEF IInv, AllOnTime
    <3>3. e.version \in Number /\ e.ttl \in Int /\ e.ttl <= TTL
      BY Numbers DEF Entry
    <3>4. t + MaxDelay + TTL - e.ttl > 0
      BY <1>3, <3>3, Numbers
    <3>5. QED
      BY <1>7, <3>1, <3>2, <3>3, <3>4 DEF PageOnTime
  <2>3. QED
    BY <2>1, <2>2 DEF AllOnTime
<1>11. AwaitedNoted'
  <2> SUFFICES ASSUME ~ rough, NEW i \in Number, left'[i] # NULL, Awaited(i)'
               PROVE  Noted(i)'
    BY <1>1 DEF AwaitedNoted
  <2>1. CASE i = n
    BY <1>4, <1>6, <2>1 DEF Noted
  <2>2. CASE i # n
    <3>1. left'[i] = left[i]
      BY <1>7, <2>2
    <3>2. Awaited(i)
      BY <1>1, <3>1 DEF Awaited
    <3>3. Noted(i)
      BY <3>1, <3>2 DEF IInv, AwaitedNoted
    <3>4. QED
      BY <1>1, <1>6, <3>1, <3>3 DEF Noted, ScoreFor
  <2>3. QED
    BY <2>1, <2>2
<1>12. QED
  BY <1>8, <1>9, <1>10, <1>11 DEF IInv
-----------------------------------------------------------------------------
(* Cleanups and the clock. *)

LEMMA ScanKeeps == IInv /\ Scan => IInv'
<1> SUFFICES ASSUME IInv, Scan PROVE IInv'
  OBVIOUS
<1>1. /\ UNCHANGED <<counter, left, due, cache, call, owned, rough>>
      /\ MayStart /\ scan' = {m \in Member : due[m] = 0}
  BY DEF Scan
<1>2. TypeOK'
  BY <1>1 DEF IInv, TypeOK
<1>3. AllOnTime' /\ AwaitedNoted'
  BY <1>1
  DEF IInv, AllOnTime, CallOnTime, FillOnTime, PageOnTime,
      AwaitedNoted, Awaited, Noted, ScoreFor
<1>4. OneAtATime'
  BY <1>1 DEF IInv, OneAtATime, MayStart, Quiet
<1>5. QED
  BY <1>2, <1>3, <1>4 DEF IInv

(* A page that is still awaited loses no note: the note in the scan was    *)
(* due, so the page went with it.                                          *)
LEMMA CleanKeeps == IInv /\ Clean => IInv'
<1> SUFFICES ASSUME IInv, Clean PROVE IInv'
  OBVIOUS
<1>1. /\ UNCHANGED <<counter, left, call, owned, rough>>
      /\ scan # NULL /\ scan' = NULL /\ scan \subseteq Member
  BY DEF Clean, IInv, TypeOK
<1>2. CASE UNCHANGED <<due, cache>>
  BY <1>1, <1>2
  DEF IInv, TypeOK, AllOnTime, CallOnTime, FillOnTime, PageOnTime, OneAtATime,
      AwaitedNoted, Awaited, Noted, ScoreFor
<1>3. CASE ~ UNCHANGED <<due, cache>>
  <2>1. /\ due' = [m \in Member |-> IF m \in scan THEN NULL ELSE due[m]]
        /\ cache' = [k \in Key |->
                       IF \E m \in scan : k \in KeysOf(m) THEN NULL
                       ELSE cache[k]]
    BY <1>3 DEF Clean
  <2>2. \A k \in Key : cache'[k] # NULL => cache'[k] = cache[k]
    BY <2>1
  <2>3. TypeOK'
    BY <1>1, <2>1 DEF IInv, TypeOK
  <2>4. AllOnTime'
    BY <1>1, <2>2 DEF IInv, AllOnTime, CallOnTime, FillOnTime, PageOnTime
  <2>5. OneAtATime'
    BY <1>1 DEF IInv, OneAtATime
  <2>6. AwaitedNoted'
    <3> SUFFICES ASSUME ~ rough, NEW n \in Number, left[n] # NULL, Awaited(n)'
                 PROVE  Noted(n)'
      BY <1>1 DEF AwaitedNoted
    <3>1. Awaited(n)
      BY <1>1, <2>2 DEF Awaited
    <3>2. Noted(n)
      BY <3>1 DEF IInv, AwaitedNoted
    <3>3. \A d \in Callers : call[d].pc = "idle"
      BY <1>1 DEF IInv, OneAtATime
    <3>4. PICK m \in Member : m[1] = n /\ ScoreFor(due[m], left[n])
      BY <3>2, <3>3 DEF Noted
    <3>5. m \notin scan
      <4> SUFFICES ASSUME m \in scan PROVE FALSE
        OBVIOUS
      <4>1. due[m] = 0
        BY <1>1 DEF IInv, OneAtATime
      <4>2. ~ (left[n] > Slack)
        BY <3>4, <4>1, LeftType, Numbers DEF IInv, ScoreFor
      <4>3. PICK k \in Key : cache'[k] # NULL /\ cache'[k].version = n
        BY <1>1, <4>2 DEF Awaited
      <4>4. k \in {n, Latest}
        BY <2>2, <4>3 DEF IInv, AllOnTime, PageOnTime
      <4>5. QED
        BY <2>1, <3>4, <4>3, <4>4 DEF KeysOf
    <3>6. QED
      BY <1>1, <2>1, <3>4, <3>5 DEF Noted, ScoreFor
  <2>7. QED
    BY <2>3, <2>4, <2>5, <2>6 DEF IInv
<1>4. QED
  BY <1>2, <1>3

(* One tick less for a link and for its note. *)
LEMMA LessLeft ==
  ASSUME NEW t \in Int, t >= Floor
  PROVE  /\ Less(t, Floor) \in Int /\ Less(t, Floor) >= Floor
         /\ Less(t, Floor) >= t - 1 /\ Less(t, Floor) <= t
         /\ t > Floor => Less(t, Floor) = t - 1
BY Numbers, NullAssumption DEF Less

LEMMA LessDue ==
  ASSUME NEW d \in Nat
  PROVE  Less(d, 0) = IF d = 0 THEN 0 ELSE d - 1
BY NullAssumption DEF Less

LEMMA ScoreAges ==
  ASSUME NEW d \in Nat, NEW t \in Int, t >= Floor, ScoreFor(d, t)
  PROVE  ScoreFor(Less(d, 0), Less(t, Floor))
<1>1. PICK u \in Int : u = Less(t, Floor)
  BY LessLeft
<1>2. u <= t /\ (t > Floor => u = t - 1)
  BY <1>1, LessLeft
<1>3. PICK e \in Nat : e = Less(d, 0) /\ e = IF d = 0 THEN 0 ELSE d - 1
  BY LessDue
<1>4. (d <= t /\ d >= t - 1) \/ (t <= 0 /\ d = 0)
  BY Numbers DEF ScoreFor
<1>5. (e <= u /\ e >= u - 1) \/ (u <= 0 /\ e = 0)
  <2>1. CASE d = 0
    BY <1>2, <1>3, <1>4, <2>1, Numbers
  <2>2. CASE d # 0
    BY <1>2, <1>3, <1>4, <2>2, Numbers
  <2>3. QED
    BY <2>1, <2>2
<1>6. e # NULL
  BY NullAssumption
<1>7. ScoreFor(e, u)
  BY <1>5, <1>6, Numbers DEF ScoreFor
<1>8. QED
  BY <1>1, <1>3, <1>7

(* A tick leaves no version without a link that had one, nor the reverse. *)
LEMMA TickTypes ==
  ASSUME IInv, Tick
  PROVE  /\ left' \in [Number -> Floor..Longest \cup {NULL}]
         /\ due' \in [Member -> 0..Longest \cup {NULL}]
         /\ \A n \in Number : left[n] = NULL <=> left'[n] = NULL
         /\ \A n \in Number : left[n] # NULL => left'[n] = Less(left[n], Floor)
<1>1. /\ left' = [n \in Number |-> Less(left[n], Floor)]
      /\ due' = [m \in Member |-> Less(due[m], 0)]
  BY DEF Tick
<1>2. Less(NULL, Floor) = NULL /\ Less(NULL, 0) = NULL
  BY DEF Less
<1>3. ASSUME NEW n \in Number, left[n] # NULL
      PROVE  Less(left[n], Floor) \in Floor..Longest /\ Less(left[n], Floor) # NULL
  <2>1. left[n] \in Int /\ left[n] >= Floor /\ left[n] <= Longest
    BY <1>3, LeftType DEF IInv
  <2>2. PICK u \in Int : u = Less(left[n], Floor) /\ u >= Floor /\ u <= left[n]
    BY <2>1, LessLeft
  <2>3. u # NULL
    BY NullAssumption
  <2>4. QED
    BY <2>1, <2>2, <2>3, Numbers
<1>4. ASSUME NEW m \in Member, due[m] # NULL
      PROVE  Less(due[m], 0) \in 0..Longest
  <2>1. PICK d \in Nat : d = due[m] /\ d <= Longest
    BY <1>4, DueType DEF IInv
  <2>2. QED
    BY <2>1, LessDue, Numbers
<1>5. QED
  BY <1>1, <1>2, <1>3, <1>4

LEMMA TickCalls ==
  ASSUME IInv, Tick, NEW c \in Callers
  PROVE  call'[c] \in Call /\ CallOnTime(call[c])'
<1>1. PICK q \in Call : q = call[c]
  BY DEF IInv, TypeOK
<1>2. CallOnTime(q) /\ rough' = rough /\ (~ rough => q.pc = "idle")
  BY <1>1 DEF IInv, AllOnTime, Tick, MayStart, Quiet
<1>3. CASE q.pc = "idle"
  <2>1. call'[c] = q
    BY <1>1, <1>3 DEF Tick
  <2>2. QED
    BY <1>2, <1>3, <2>1 DEF CallOnTime
<1>4. CASE q.pc # "idle"
  <2> DEFINE rec == [q EXCEPT !.age = @ + 1, !.exp = Less(@, 0)]
  <2>1. /\ q.age \in Nat /\ q.age < MaxDelay
        /\ q.exp \in Nat /\ q.exp <= Longest /\ q.num \in Number
    <3>1. q.age < MaxDelay
      BY <1>1, <1>4 DEF Tick
    <3>2. /\ q.age \in 0..MaxDelay /\ q.exp \in 0..Longest
          /\ q.num \in Number
      BY DEF Call
    <3>3. QED
      BY <3>1, <3>2, Numbers
  <2>2. Less(q.exp, 0) \in 0..Longest
    BY <2>1, LessDue, Numbers
  <2>3. q.age + 1 \in 0..MaxDelay
    BY <2>1, Numbers
  <2>4. /\ rec \in Call /\ rec.age = q.age + 1 /\ rec.pc = q.pc
        /\ rec.num = q.num /\ rec.seen = q.seen /\ rec.key = q.key
    BY <2>2, <2>3 DEF Call
  <2>5. call'[c] = rec
    BY <1>1, <1>4 DEF Tick
  <2> HIDE DEF rec
  <2>6. ASSUME q.pc = "fill" PROVE FillOnTime(rec)'
    <3>1. FillOnTime(q)
      BY <1>2, <2>6 DEF CallOnTime
    <3>2. CASE left[q.num] = NULL
      <4>1. left'[q.num] = NULL
        BY <2>1, <3>2, TickTypes
      <4>2. QED
        BY <2>4, <3>1, <4>1 DEF FillOnTime
    <3>3. CASE left[q.num] # NULL
      <4>1. left[q.num] \in Int /\ left[q.num] >= Floor
        BY <2>1, <3>3, LeftType DEF IInv
      <4>2. PICK u \in Int : u = left'[q.num] /\ u >= left[q.num] - 1
        BY <2>1, <3>3, <4>1, LessLeft, TickTypes
      <4>3. q.seen # "owner" => u + (q.age + 1) > 0
        BY <2>1, <3>1, <3>3, <4>1, <4>2 DEF FillOnTime
      <4>4. QED
        BY <1>2, <1>4, <2>4, <3>1, <4>2, <4>3 DEF FillOnTime
    <3>4. QED
      BY <3>2, <3>3
  <2>7. QED
    BY <1>2, <1>4, <2>4, <2>5, <2>6 DEF CallOnTime, FillOnTime
<1>5. QED
  BY <1>3, <1>4

LEMMA TickPages ==
  ASSUME IInv, Tick, NEW k \in Key
  PROVE  /\ cache'[k] \in Entry \cup {NULL}
         /\ cache'[k] # NULL =>
              /\ cache[k] # NULL
              /\ cache'[k].version = cache[k].version
              /\ cache'[k].seen = cache[k].seen
              /\ PageOnTime(k, cache[k])'
<1>1. cache'[k] = IF cache[k] = NULL \/ cache[k].ttl = 1 THEN NULL
                  ELSE [cache[k] EXCEPT !.ttl = @ - 1]
  BY DEF Tick
<1>2. CASE cache[k] = NULL \/ cache[k].ttl = 1
  BY <1>1, <1>2
<1>3. CASE ~ (cache[k] = NULL \/ cache[k].ttl = 1)
  <2>1. PICK e \in Entry : e = cache[k] /\ e.ttl # 1
    BY <1>3 DEF IInv, TypeOK
  <2> DEFINE old == [e EXCEPT !.ttl = @ - 1]
  <2>2. /\ e.version \in Number
        /\ e.ttl \in Int /\ e.ttl >= 1 /\ e.ttl <= TTL
    BY Numbers DEF Entry
  <2>3. e.ttl - 1 \in 1..TTL
    BY <2>1, <2>2, Numbers
  <2>4. /\ old \in Entry /\ old.ttl = e.ttl - 1
        /\ old.version = e.version /\ old.seen = e.seen
    BY <2>3 DEF Entry
  <2>5. cache'[k] = old
    BY <1>1, <1>3, <2>1
  <2> HIDE DEF old
  <2>6. PageOnTime(k, e)
    BY <1>3, <2>1 DEF IInv, AllOnTime
  <2>7. PageOnTime(k, old)'
    <3>1. CASE left[e.version] = NULL
      <4>1. left'[e.version] = NULL
        BY <2>2, <3>1, TickTypes
      <4>2. QED
        BY <2>4, <2>6, <4>1 DEF PageOnTime
    <3>2. CASE left[e.version] # NULL
      <4>1. left[e.version] \in Int /\ left[e.version] >= Floor
        BY <2>2, <3>2, LeftType DEF IInv
      <4>2. PICK u \in Int : u = left'[e.version] /\ u >= left[e.version] - 1
        BY <2>2, <3>2, <4>1, LessLeft, TickTypes
      <4>3. e.seen # "owner" => u + MaxDelay + TTL - (e.ttl - 1) > 0
        BY <2>2, <2>6, <3>2, <4>1, <4>2, Numbers DEF PageOnTime
      <4>4. QED
        BY <2>4, <2>6, <4>2, <4>3 DEF PageOnTime
    <3>3. QED
      BY <3>1, <3>2
  <2>8. QED
    BY <1>3, <2>1, <2>4, <2>5, <2>7 DEF PageOnTime
<1>4. QED
  BY <1>2, <1>3

LEMMA TickKeeps == IInv /\ Tick => IInv'
<1> SUFFICES ASSUME IInv, Tick PROVE IInv'
  OBVIOUS
<1>1. /\ UNCHANGED <<counter, scan, owned, rough>>
      /\ DOMAIN call' = Callers /\ DOMAIN cache' = Key
      /\ call' = [c \in Callers |-> call'[c]]
      /\ cache' = [k \in Key |-> cache'[k]]
  BY DEF Tick
<1>2. TypeOK'
  <2>1. call' \in [Callers -> Call]
    BY <1>1, TickCalls
  <2>2. cache' \in [Key -> Entry \cup {NULL}]
    BY <1>1, TickPages
  <2>3. QED
    BY <1>1, <2>1, <2>2, TickTypes DEF IInv, TypeOK
<1>3. AllOnTime'
  BY TickCalls, TickPages DEF AllOnTime
<1>4. ~ rough => scan = NULL /\ \A c \in Callers : call[c].pc = "idle"
  BY DEF Tick, MayStart, Quiet
<1>5. OneAtATime'
  <2>1. \A c \in Callers : call[c].pc = "idle" => call'[c].pc = "idle"
    BY DEF Tick
  <2>2. QED
    BY <1>1, <1>4, <2>1 DEF OneAtATime
<1>6. AwaitedNoted'
  <2> SUFFICES ASSUME ~ rough, NEW n \in Number, left'[n] # NULL, Awaited(n)'
               PROVE  Noted(n)'
    BY <1>1 DEF AwaitedNoted
  <2>1. left[n] # NULL
    BY TickTypes
  <2>2. PICK t \in Int : t = left[n] /\ t >= Floor
    BY <2>1, LeftType DEF IInv
  <2>3. left'[n] = Less(t, Floor) /\ Less(t, Floor) \in Int /\ Less(t, Floor) <= t
    BY <2>1, <2>2, LessLeft, TickTypes
  <2>4. Awaited(n)
    <3>1. left'[n] > Slack => left[n] > Slack
      BY <2>2, <2>3, Numbers
    <3>2. QED
      BY <3>1, TickPages DEF Awaited
  <2>5. PICK m \in Member : m[1] = n /\ ScoreFor(due[m], t)
    BY <1>4, <2>1, <2>2, <2>4 DEF IInv, AwaitedNoted, Noted
  <2>6. PICK d \in Nat : d = due[m]
    BY <2>5, DueType DEF IInv, ScoreFor
  <2>7. due'[m] = Less(d, 0)
    BY <2>6 DEF Tick
  <2>8. ScoreFor(Less(d, 0), Less(t, Floor))
    BY <2>2, <2>5, <2>6, ScoreAges
  <2>9. ScoreFor(due'[m], left'[n])
    BY <2>3, <2>7, <2>8
  <2>10. QED
    BY <2>5, <2>9 DEF Noted, ScoreFor
<1>7. QED
  BY <1>2, <1>3, <1>5, <1>6 DEF IInv
-----------------------------------------------------------------------------
LEMMA NextKeepsIInv == IInv /\ [Next]_vars => IInv'
<1> SUFFICES ASSUME IInv, [Next]_vars PROVE IInv'
  OBVIOUS
<1>1. ASSUME UNCHANGED vars PROVE IInv'
  BY <1>1
  DEF vars, IInv, TypeOK, AllOnTime, CallOnTime, FillOnTime, PageOnTime,
      OneAtATime, AwaitedNoted, Awaited, Noted, ScoreFor
<1>2. ASSUME NEW c \in Callers, NEW k \in Key, ViewHit(c, k) PROVE IInv'
  BY <1>1, <1>2 DEF ViewHit, Hit, vars
<1>3. ASSUME NEW c \in Callers, NEW k \in Key, ViewMiss(c, k) PROVE IInv'
  BY <1>3, ViewMissKeeps
<1>4. ASSUME NEW c \in Callers, Share(c) \/ Update(c) \/ Proceed(c) \/ Abort(c)
      PROVE  IInv'
  BY <1>4, ShareKeeps, UpdateKeeps, SelectKeeps, FillKeeps, ZaddKeeps, AbortKeeps
  DEF Proceed
<1>5. CASE Scan \/ Clean \/ Tick
  BY <1>5, ScanKeeps, CleanKeeps, TickKeeps
<1>6. QED
  BY <1>1, <1>2, <1>3, <1>4, <1>5 DEF Next

(* The inductive invariant holds in every reachable state. *)
THEOREM SharesInvariant == Spec => []IInv
BY InitIInv, NextKeepsIInv, PTL DEF Spec

(* Type correctness of the links, the notes, the pages and the calls. *)
THEOREM TypeCorrect == Spec => []TypeOK
<1>1. IInv => TypeOK
  BY DEF IInv
<1>2. QED
  BY <1>1, SharesInvariant, PTL

(* The hit of get_snippet that nobody checks serves an expired page for a  *)
(* CACHE_TTL and the length of one call at most, in any interleaving and   *)
(* with cleanup_expired dead.                                              *)
THEOREM GraceBounded == Spec => []ServedWithinGrace
<1>1. IInv => ServedWithinGrace
  <2> SUFFICES ASSUME IInv, NEW k \in Key, cache[k] # NULL,
                      cache[k].seen # "owner", Past(cache[k].version)
               PROVE  -left[cache[k].version] < TTL + MaxDelay
    BY DEF ServedWithinGrace
  <2>1. PICK e \in Entry : e = cache[k]
    BY DEF IInv, TypeOK
  <2>2. /\ e.version \in Number /\ e.ttl \in Int /\ e.ttl >= 1
        /\ left[e.version] # NULL /\ e.seen # "owner"
    BY <2>1, Numbers DEF Entry, Past
  <2>3. left[e.version] \in Int
    BY <2>2, LeftType DEF IInv
  <2>4. left[e.version] + MaxDelay + TTL - e.ttl > 0
    BY <2>1, <2>2 DEF IInv, AllOnTime, PageOnTime
  <2>5. QED
    BY <2>1, <2>2, <2>3, <2>4, Numbers
<1>2. QED
  BY <1>1, SharesInvariant, PTL

(* snippet_out_url moves the note of a version with its expiry: between    *)
(* calls a link with time to go has a note that is right to the second.    *)
THEOREM LinksStayTracked == Spec => []LinksTracked
<1>1. IInv => LinksTracked
  <2> SUFFICES ASSUME IInv, ~ rough, Quiet, NEW n \in Number,
                      left[n] # NULL, left[n] > Slack
               PROVE  \E m \in Member : m[1] = n /\ due[m] # NULL
                        /\ due[m] \in left[n] - Slack .. left[n]
    BY DEF LinksTracked
  <2>1. Noted(n)
    BY DEF IInv, AwaitedNoted, Awaited
  <2>2. PICK m \in Member : m[1] = n /\ ScoreFor(due[m], left[n])
    BY <2>1 DEF Noted, Quiet
  <2>3. ~ (left[n] <= 0)
    BY LeftType, Numbers DEF IInv
  <2>4. QED
    BY <2>2, <2>3 DEF ScoreFor
<1>2. QED
  BY <1>1, SharesInvariant, PTL

(* cleanup_expired finds what it is for: between calls, a cached page of   *)
(* an expired link that was read in good time has a due note.              *)
THEOREM CleanupFindsPages == Spec => []ExpiredPagesAwaited
<1>1. IInv => ExpiredPagesAwaited
  <2> SUFFICES ASSUME IInv, ~ rough, Quiet, NEW k \in Key, cache[k] # NULL,
                      cache[k].seen = "alive", Past(cache[k].version)
               PROVE  \E m \in Member : due[m] = 0 /\ k \in {m[1], Latest}
    BY DEF ExpiredPagesAwaited
  <2>1. PICK n \in Number : n = cache[k].version
    BY DEF IInv, TypeOK, Entry
  <2>2. left[n] # NULL /\ left[n] <= 0 /\ Noted(n)
    BY <2>1 DEF IInv, AwaitedNoted, Awaited, Past
  <2>3. PICK m \in Member : m[1] = n /\ ScoreFor(due[m], left[n])
    BY <2>2 DEF Noted, Quiet
  <2>4. left[n] \in Int /\ due[m] \in Nat
    BY <2>2, <2>3, LeftType, DueType DEF IInv, ScoreFor
  <2>5. due[m] = 0
    BY <2>2, <2>3, <2>4, Numbers DEF ScoreFor
  <2>6. k \in {n, Latest}
    BY <2>1 DEF IInv, AllOnTime, PageOnTime
  <2>7. QED
    BY <2>3, <2>5, <2>6
<1>2. QED
  BY <1>1, SharesInvariant, PTL
=============================================================================
