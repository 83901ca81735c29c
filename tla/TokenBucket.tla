----------------------------- MODULE TokenBucket -----------------------------
(***************************************************************************)
(* The rate limiter of the snippet routes, for one key rate_limit:<user>:  *)
(* rate_limiter samples int(time.time()), awaits Redis, and token_bucket   *)
(* .lua runs there atomically.  Calls of one user on different routes      *)
(* share the key but bring the capacity of their own route, and they may   *)
(* reach Redis in another order than the one they read the clock in.       *)
(***************************************************************************)
EXTENDS Integers, Sequences

CONSTANTS Callers,    \* concurrent HTTP calls of the user
          Capacities, \* capacities of the decorated routes (10 and 5)
          Rate,       \* refill_rate, tokens per second
          KeyTTL,     \* EXPIRE of the key, in seconds
          MaxDelay,   \* bound: seconds between time.time() and the script
          MaxClock,   \* bound: seconds modelled
          NULL

ASSUME BucketAssumption ==
    /\ Capacities \subseteq Nat \ {0} /\ Rate \in Nat \ {0}
    /\ KeyTTL \in Nat \ {0} /\ MaxDelay \in Nat /\ MaxClock \in Nat

(* An idle key has refilled before it expires (3600 s against 10 tokens). *)
ASSUME ExpiryAssumption ==
    \A k \in Capacities : k + Rate * MaxDelay <= Rate * KeyTTL

VARIABLES clock,   \* seconds, the same for the API hosts and for Redis
          bucket,  \* the hash at the key and the second it dies
          call,    \* call[c]: where call c is
          grants,  \* history: the seconds at which tokens were taken
          life     \* history: of the present key, its first now and grants

vars == <<clock, bucket, call, grants, life>>
-----------------------------------------------------------------------------
Bucket == [tokens : Nat, last : Nat, dies : Nat]

Call == [pc : {"idle", "sent"}, now : Nat, capacity : Capacities \cup {NULL},
         answer : {"none", "admitted", "denied", "failed"}]

Idle == [pc |-> "idle", now |-> 0, capacity |-> NULL, answer |-> "none"]

Life == [born : Nat, capacity : Capacities, count : Nat]

ASSUME NullAssumption == NULL \notin Bucket \cup Life

Init ==
    /\ clock = 0
    /\ bucket = NULL
    /\ call = [c \in Callers |-> Idle]
    /\ grants = << >>
    /\ life = NULL

Smaller(a, b) == IF a < b THEN a ELSE b

(* now = int(time.time()); the await of the script begins. *)
Sample(c) ==
    /\ call[c].pc = "idle"
    /\ \E k \in Capacities :
          call' = [call EXCEPT ![c] = [pc |-> "sent", now |-> clock,
                                       capacity |-> k, answer |-> "none"]]
    /\ UNCHANGED <<clock, bucket, grants, life>>

Answer(c, a) ==
    call' = [call EXCEPT ![c] = [@ EXCEPT !.pc = "idle", !.answer = a]]

(* Mutant: time never runs backwards. *)
Forward(now, last) == IF now < last THEN 0 ELSE now - last

(* local elapsed = now - last_refill, negative for a call that is late. *)
Elapsed(now, last) == now - last

(* The tokens the script finds for a call of that clock and capacity. *)
Tokens(now, capacity) ==
    IF bucket = NULL THEN capacity
    ELSE Smaller(capacity, bucket.tokens + Rate * Elapsed(now, bucket.last))

(* One token is taken and the clock of the call becomes last_refill, even  *)
(* if it is older than the one it replaces.                                *)
Spend(c) ==
    /\ LET now == call[c].now
           t == Tokens(now, call[c].capacity)
       IN /\ t >= 1
          /\ bucket' = [tokens |-> t - 1, last |-> now, dies |-> clock + KeyTTL]
          /\ life' = IF bucket = NULL
                     THEN [born |-> now, capacity |-> call[c].capacity,
                           count |-> 1]
                     ELSE [life EXCEPT !.count = @ + 1]
    /\ grants' = Append(grants, clock)
    /\ UNCHANGED clock

Admit(c) ==
    /\ call[c].pc = "sent"
    /\ Spend(c)
    /\ Answer(c, "admitted")

(* Mutant: a refused call stores what it computed. *)
StoreRefill(c) ==
    bucket' = [tokens |-> Tokens(call[c].now, call[c].capacity),
               last |-> call[c].now, dies |-> clock + KeyTTL]

(* return 0 before the HSET. *)
NoWrite(c) == UNCHANGED bucket

(* RATE_LIMIT_EXCEEDED *)
Deny(c) ==
    /\ call[c].pc = "sent"
    /\ Tokens(call[c].now, call[c].capacity) < 1
    /\ NoWrite(c)
    /\ Answer(c, "denied")
    /\ UNCHANGED <<clock, grants, life>>

(* Redis does not answer in time and the call ends in a 500: the script    *)
(* has not run, has refused the call, or has taken a token for nothing.    *)
Fail(c) ==
    /\ call[c].pc = "sent"
    /\ Spend(c) \/ UNCHANGED <<clock, bucket, grants, life>>
    /\ Answer(c, "failed")

(* Mutant: the key is dropped at the next second. *)
DiesEarly(t) == TRUE

(* Redis has dropped the key: EXPIRE was set by the last admission. *)
Dead(t) == bucket.dies <= t

(* A second passes.  Calls reach Redis within MaxDelay. *)
Tick ==
    /\ clock < MaxClock
    /\ \A c \in Callers : call[c].pc = "sent" => clock < call[c].now + MaxDelay
    /\ clock' = clock + 1
    /\ bucket' = IF bucket # NULL /\ Dead(clock') THEN NULL ELSE bucket
    /\ life' = IF bucket' = NULL THEN NULL ELSE life
    /\ UNCHANGED <<call, grants>>

Next == Tick \/ \E c \in Callers : Sample(c) \/ Admit(c) \/ Deny(c) \/ Fail(c)

Spec == Init /\ [][Next]_vars
-----------------------------------------------------------------------------
TypeOK ==
    /\ clock \in Nat
    /\ bucket \in Bucket \cup {NULL}
    /\ call \in [Callers -> Call]
    /\ grants \in Seq(Nat)
    /\ life \in Life \cup {NULL}

(* As long as the key lives, the calls admitted and the tokens left are at  *)
(* most the first capacity and the refill of the time between the first     *)
(* and the last admission: a late call, which sets last_refill back, does   *)
(* not make the same second refill the bucket twice.                        *)
NoDoubleRefill ==
    bucket # NULL =>
        /\ life # NULL
        /\ life.count + bucket.tokens
             <= life.capacity + Rate * (bucket.last - life.born)

(* A call on its way carries the capacity of its route and no answer yet. *)
SentCallsWait ==
    \A c \in Callers : call[c].pc = "sent" =>
        call[c].capacity \in Capacities /\ call[c].answer = "none"

FillInv == TypeOK /\ SentCallsWait /\ NoDoubleRefill

(* Over any stretch of time, expiry of the key included, the user gets a    *)
(* burst of the largest capacity and then Rate calls a second, counting the *)
(* delay of the first of them.                                              *)
BurstBounded ==
    \A i, j \in DOMAIN grants : i <= j =>
        \E k \in Capacities :
            j - i + 1 <= k + Rate * (grants[j] - grants[i] + MaxDelay)

(* A call reaches Redis within MaxDelay. *)
CallsTimely ==
    \A c \in Callers : call[c].pc = "sent" =>
        call[c].now <= clock /\ clock <= call[c].now + MaxDelay

(* The newest admission set the key's time to live; counted from any older *)
(* one, the tokens it left over are within the bound as well.              *)
Paced ==
    LET n == Len(grants)
    IN IF bucket = NULL
       THEN n > 0 => clock >= grants[n] + KeyTTL
       ELSE /\ n > 0 /\ bucket.last <= grants[n]
            /\ bucket.dies = grants[n] + KeyTTL
            /\ \A i \in 1..n : \E k \in Capacities :
                  n - i + 1 + bucket.tokens
                    <= k + Rate * (bucket.last - grants[i] + MaxDelay)

IInv == FillInv /\ CallsTimely /\ BurstBounded /\ Paced

(* A call is refused only if no second has passed, by its own clock, since  *)
(* the last admission: refused calls do not push the next admission back.   *)
DeniedOnlyWhenSpent ==
    [][\A c \in Callers :
          call[c].pc = "sent" /\ call'[c].answer = "denied" =>
              bucket # NULL /\ call[c].now <= bucket.last]_vars
=============================================================================
