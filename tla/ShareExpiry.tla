----------------------------- MODULE ShareExpiry -----------------------------
(***************************************************************************)
(* Share links: snippet_out_url sets expires_at of a version and notes it  *)
(* in the sorted set snippets:expiry; a view checks expires_at when it     *)
(* misses the cache, never when it hits; the job cleanup_expired takes due *)
(* notes out of snippets:expiry and deletes the cached pages they name.    *)
(*                                                                         *)
(* One public snippet.  Every time is a timer, the ticks left from now: at *)
(* 0 it is over.  What int() cuts off a score is less than a second, and   *)
(* at most a tick: a tick stands for a second or more.                     *)
(***************************************************************************)
EXTENDS Integers

CONSTANTS Callers,     \* clients, each with one call at a time
          Owners,      \* those logged in as the author of the snippet
          MaxVersions, \* bound: versions the snippet may get
          MaxOwned,    \* bound: calls of Owners
          ShareTTLs,   \* what ttl_seconds may be, in ticks
          TTL,         \* CACHE_TTL_SECONDS, in ticks
          MaxDelay,    \* bound: ticks a call may last
          NULL

ASSUME ShareAssumption ==
    /\ Owners \subseteq Callers
    /\ MaxVersions \in Nat \ {0} /\ MaxOwned \in Nat
    /\ ShareTTLs \subseteq Nat \ {0}
    /\ \E t \in ShareTTLs : \A u \in ShareTTLs : u <= t   \* le=60 * 60 * 24
    /\ TTL \in Nat \ {0} /\ MaxDelay \in Nat

VARIABLES counter, \* version_counter
          left,    \* left[n]: expires_at of version n, NULL if it has none
          due,     \* due[m]: score of member m of snippets:expiry, NULL if absent
          cache,   \* cache[k]: the page under Redis key k, NULL if absent
          call,    \* call[c]: the local state of the call of client c
          scan,    \* members a running cleanup has read, NULL if none runs
          owned,   \* calls Owners have made
          rough    \* whether calls overlap and fail, in this behaviour

vars == <<counter, left, due, cache, call, scan, owned, rough>>
-----------------------------------------------------------------------------
Number == 1..MaxVersions
Latest == 0                      \* _cache_key(short_id, None)
Key == Number \cup {Latest}

(* snippet:<short_id>:<n>, or <uuid>:<n> as an older release wrote it. *)
Member == Number \X {"short", "legacy"}

Floor == -(TTL + MaxDelay)   \* "long past": older times are not told apart
Slack == 1                       \* ticks by which int() may be early
Longest == CHOOSE t \in ShareTTLs : \A u \in ShareTTLs : u <= t

(* What the SELECT of a page found: a link with time to go, one in its     *)
(* last second, a past one, or a past one that its author asked for.       *)
Seen == {"alive", "ending", "past", "owner"}
Entry == [version : Number, seen : Seen, ttl : 1..TTL]

ASSUME NullAssumption ==
    NULL \notin Int \cup Entry /\ \A S \in SUBSET Member : NULL # S

Call == [pc    : {"idle", "select", "fill", "zadd"},
         key   : Key,                  \* the key read or written
         num   : Number,               \* the version read, shared or written
         exp   : 0..Longest,           \* expires_at of the share
         seen  : Seen,
         age   : 0..MaxDelay]          \* ticks since `now` was read

NoCall == [pc |-> "idle", key |-> Latest, num |-> 1, exp |-> 0,
           seen |-> "alive", age |-> 0]

Quiet == scan = NULL /\ \A c \in Callers : call[c].pc = "idle"

(* In a calm behaviour calls and cleanups come one after the other. *)
MayStart == rough \/ Quiet

(* A database may hold a link of the older release (bound: a calm one). *)
Init ==
    /\ counter = 1
    /\ \E t \in {NULL, Longest} :
          /\ left = [n \in Number |-> IF n = 1 THEN t ELSE NULL]
          /\ due = [m \in Member |-> IF m = <<1, "legacy">> THEN t ELSE NULL]
    /\ cache = [k \in Key |-> NULL]
    /\ call = [c \in Callers |-> NoCall]
    /\ scan = NULL /\ owned = 0
    /\ rough \in BOOLEAN /\ (rough => left[1] = NULL)
-----------------------------------------------------------------------------
Goto(c, rec) == call' = [call EXCEPT ![c] = rec]
Return(c) == Goto(c, NoCall)

(* The calls of the author that may change something are counted. *)
Start(c) ==
    /\ call[c].pc = "idle" /\ MayStart
    /\ IF c \in Owners THEN owned < MaxOwned /\ owned' = owned + 1
       ELSE UNCHANGED owned
    /\ UNCHANGED <<scan, rough>>

Continue(c, pc) ==
    /\ call[c].pc = pc
    /\ UNCHANGED <<counter, left, scan, owned, rough>>

(* Mutant: a hit prolongs the life of the entry. *)
HitRefreshes(k) == cache' = [cache EXCEPT ![k].ttl = TTL]

(* A hit serves the entry as it is: nobody looks at expires_at. *)
Hit(k) == UNCHANGED cache

ViewHit(c, k) ==
    /\ call[c].pc = "idle" /\ MayStart
    /\ cache[k] # NULL /\ Hit(k)
    /\ UNCHANGED <<counter, left, due, call, scan, owned, rough>>

(* A miss, or redis.get failing twice; then `now` is read. *)
ViewMiss(c, k) ==
    /\ Start(c)
    /\ cache[k] = NULL \/ rough
    /\ Goto(c, [NoCall EXCEPT !.pc = "select", !.key = k])
    /\ UNCHANGED <<counter, left, due, cache>>

(* The time version n had left when call c read `now`. *)
LeftAt(n, c) == IF left[n] = NULL THEN NULL ELSE left[n] + call[c].age

(* Mutant: expires_at is not checked. *)
ShownToAll(n, c) == n <= counter

(* 404 without such a version, 423 if expires_at < now, except for the author. *)
Shown(n, c) ==
    /\ n <= counter
    /\ LeftAt(n, c) = NULL \/ LeftAt(n, c) > 0 \/ c \in Owners

SeenBy(n, c) ==
    LET t == LeftAt(n, c)
    IN IF t = NULL \/ t > Slack THEN "alive"
       ELSE IF t > 0 THEN "ending"
       ELSE IF c \in Owners THEN "owner" ELSE "past"

Select(c) ==
    /\ Continue(c, "select")
    /\ LET n == IF call[c].key = Latest THEN counter ELSE call[c].key
       IN IF Shown(n, c)
          THEN Goto(c, [call[c] EXCEPT !.pc = "fill", !.num = n,
                                       !.seen = SeenBy(n, c)])
          ELSE Return(c)
    /\ UNCHANGED <<due, cache>>

(* redis.setex, by a view or an update; a failure is swallowed. *)
Fill(c) ==
    /\ Continue(c, "fill")
    /\ \/ cache' = [cache EXCEPT ![call[c].key] =
                      [version |-> call[c].num, seen |-> call[c].seen,
                       ttl |-> TTL]]
       \/ rough /\ UNCHANGED cache
    /\ Return(c)
    /\ UNCHANGED due
-----------------------------------------------------------------------------
(* snippet_out_url commits a new expires_at, later or earlier than the old. *)
(* It is computed before the await of the commit, which in a rough          *)
(* behaviour takes d of its ticks, never all of them (ge=60).               *)
Share(c) ==
    /\ c \in Owners /\ Start(c)
    /\ \E n \in 1..counter, t \in ShareTTLs, d \in 0..MaxDelay :
          /\ d < t /\ (d = 0 \/ rough)
          /\ left' = [left EXCEPT ![n] = t - d]
          /\ Goto(c, [NoCall EXCEPT !.pc = "zadd", !.num = n, !.exp = t - d,
                                    !.age = d])
    /\ UNCHANGED <<counter, due, cache>>

(* Mutant: an existing score is kept (ZADD NX). *)
FirstScore(m, t) == IF due[m] = NULL THEN t ELSE due[m]

(* Mutant: a second is taken off once more. *)
EarlyScore(m, t) == t - Slack

Score(m, t) == t

(* int() drops the fraction of the second.  When ZADD fails the client     *)
(* gets a 500 for a link that is durable.                                  *)
Zadd(c) ==
    /\ Continue(c, "zadd")
    /\ LET m == <<call[c].num, "short">>
       IN \/ \E t \in {call[c].exp, call[c].exp - Slack} :
                t >= 0 /\ due' = [due EXCEPT ![m] = Score(m, t)]
          \/ rough /\ UNCHANGED due
    /\ Return(c)
    /\ UNCHANGED cache

(* update_snippet up to its refresh: a new version has no expires_at; a    *)
(* change of the title shows the latest version, expired or not.           *)
Update(c) ==
    /\ c \in Owners /\ Start(c)
    /\ counter' \in {counter, counter + 1} \cap Number
    /\ Goto(c, [NoCall EXCEPT !.pc = "fill", !.num = counter',
                              !.seen = SeenBy(counter', c)])
    /\ UNCHANGED <<left, due, cache>>

(* PostgreSQL fails or the process dies. *)
Abort(c) ==
    /\ rough /\ call[c].pc # "idle"
    /\ Return(c)
    /\ UNCHANGED <<counter, left, due, cache, scan, owned, rough>>
-----------------------------------------------------------------------------
(* cleanup_expired *)

(* zrangebyscore(0, now) *)
Scan ==
    /\ scan = NULL /\ MayStart
    /\ scan' = {m \in Member : due[m] = 0}
    /\ scan' # {}
    /\ UNCHANGED <<counter, left, due, cache, call, owned, rough>>

(* Mutant: a member of the older release names no key. *)
NumberedOnly(m) == IF m[2] = "short" THEN {m[1], Latest} ELSE {}

(* The keys of one member, a legacy one after its short_id is looked up. *)
KeysOf(m) == {m[1], Latest}

(* One MULTI: zrem whatever the score is by now, and the deletes.  If the  *)
(* lookup or the MULTI fails nothing has happened.                         *)
Clean ==
    /\ scan # NULL
    /\ \/ /\ due' = [m \in Member |-> IF m \in scan THEN NULL ELSE due[m]]
          /\ cache' = [k \in Key |->
                         IF \E m \in scan : k \in KeysOf(m) THEN NULL
                         ELSE cache[k]]
       \/ rough /\ UNCHANGED <<due, cache>>
    /\ scan' = NULL
    /\ UNCHANGED <<counter, left, call, owned, rough>>

Less(t, least) == IF t = NULL \/ t <= least THEN t ELSE t - 1

(* Time passes.  In a calm behaviour calls take no time. *)
Tick ==
    /\ MayStart
    /\ \A c \in Callers : call[c].pc # "idle" => call[c].age < MaxDelay
    /\ left' = [n \in Number |-> Less(left[n], Floor)]
    /\ due' = [m \in Member |-> Less(due[m], 0)]
    /\ cache' = [k \in Key |->
                   IF cache[k] = NULL \/ cache[k].ttl = 1 THEN NULL
                   ELSE [cache[k] EXCEPT !.ttl = @ - 1]]
    /\ call' = [c \in Callers |->
                  IF call[c].pc = "idle" THEN call[c]
                  ELSE [call[c] EXCEPT !.age = @ + 1, !.exp = Less(@, 0)]]
    /\ UNCHANGED <<counter, scan, owned, rough>>

Proceed(c) == Select(c) \/ Fill(c) \/ Zadd(c)

Next ==
    \/ \E c \in Callers :
          \/ \E k \in Key : ViewHit(c, k) \/ ViewMiss(c, k)
          \/ Share(c) \/ Update(c) \/ Proceed(c) \/ Abort(c)
    \/ Scan \/ Clean \/ Tick

Spec == Init /\ [][Next]_vars

(* The event loop resumes a call and a job that has begun.  Time goes on:  *)
(* Tick waits for calls that last too long, so strong fairness says so.    *)
(* No cleanup need begin: its chain may be dead (JobQueue).                *)
FairSpec ==
    /\ Spec /\ SF_vars(Tick) /\ WF_vars(Clean)
    /\ \A c \in Callers : WF_vars(Proceed(c))
-----------------------------------------------------------------------------
TypeOK ==
    /\ counter \in Number
    /\ left \in [Number -> Floor..Longest \cup {NULL}]
    /\ due \in [Member -> 0..Longest \cup {NULL}]
    /\ cache \in [Key -> Entry \cup {NULL}]
    /\ call \in [Callers -> Call]
    /\ scan = NULL \/ scan \subseteq Member
    /\ owned \in 0..MaxOwned /\ rough \in BOOLEAN

Past(n) == left[n] # NULL /\ left[n] <= 0

(* Whatever overlaps and fails, lost notes in snippets:expiry and a dead   *)
(* cleanup included: the cache serves a page past its expires_at for one   *)
(* CACHE_TTL and the length of a call at most, unless the author put it    *)
(* there by viewing or updating an expired snippet.                        *)
ServedWithinGrace ==
    \A k \in Key : cache[k] # NULL /\ cache[k].seen # "owner"
                   /\ Past(cache[k].version)
        => -left[cache[k].version] < TTL + MaxDelay

(* Calls that do not overlap: a link with time to go is in snippets:expiry *)
(* under its newest expiry, so sharing again moves the note.               *)
LinksTracked ==
    ~ rough /\ Quiet => \A n \in Number :
        left[n] # NULL /\ left[n] > Slack =>
            \E m \in Member : m[1] = n /\ due[m] # NULL
                              /\ due[m] \in left[n] - Slack .. left[n]

(* ... and a cached page of an expired link, read while the link had more  *)
(* than a second to go, is one that the next cleanup removes.              *)
ExpiredPagesAwaited ==
    ~ rough /\ Quiet => \A k \in Key :
        cache[k] # NULL /\ cache[k].seen = "alive" /\ Past(cache[k].version)
            => \E m \in Member : due[m] = 0 /\ k \in {m[1], Latest}

(* The inductive invariant behind the three properties. *)

(* Which key a page is for, and that its link had time to go at `now`. *)
FillOnTime(q) ==
    /\ q.key \in {q.num, Latest}
    /\ left[q.num] # NULL =>
         /\ q.seen # "owner" => left[q.num] + q.age > 0
         /\ ~ rough /\ q.seen = "alive" => left[q.num] > Slack

(* A call that began in a calm behaviour takes no time. *)
CallOnTime(q) ==
    /\ q.pc = "fill" => FillOnTime(q)
    /\ ~ rough \/ q.pc = "idle" => q.age = 0
    /\ ~ rough /\ q.pc = "zadd" => left[q.num] = q.exp

PageOnTime(k, e) ==
    /\ k \in {e.version, Latest}
    /\ e.seen # "owner" /\ left[e.version] # NULL
         => left[e.version] + MaxDelay + TTL - e.ttl > 0

AllOnTime ==
    /\ \A c \in Callers : CallOnTime(call[c])
    /\ \A k \in Key : cache[k] # NULL => PageOnTime(k, cache[k])

(* A calm behaviour: a call or a cleanup runs, not both, and nothing       *)
(* becomes due or is put off while a cleanup has its scan.                 *)
OneAtATime ==
    ~ rough =>
        /\ \A c, d \in Callers :
              call[c].pc # "idle" /\ call[d].pc # "idle" => c = d
        /\ scan # NULL =>
              /\ \A c \in Callers : call[c].pc = "idle"
              /\ \A m \in scan : due[m] = 0

(* A score that is right for a link with t ticks to go. *)
ScoreFor(d, t) == d # NULL /\ (d \in t - Slack .. t \/ (t <= 0 /\ d = 0))

Noted(n) ==
    \/ \E m \in Member : m[1] = n /\ ScoreFor(due[m], left[n])
    \/ \E c \in Callers : call[c].pc = "zadd" /\ call[c].num = n

(* The versions a cleanup must come for: their link is alive, or a page    *)
(* that was read while it was is still in the cache.                       *)
Awaited(n) ==
    \/ left[n] > Slack
    \/ \E k \in Key :
          cache[k] # NULL /\ cache[k].seen = "alive" /\ cache[k].version = n

AwaitedNoted ==
    ~ rough => \A n \in Number : left[n] # NULL /\ Awaited(n) => Noted(n)

IInv == TypeOK /\ AllOnTime /\ OneAtATime /\ AwaitedNoted

(* Once the author stops calling, no expired page stays in the cache,      *)
(* though guests go on asking and no cleanup need ever run.                *)
ExpiredPagesGo ==
    <>[](\A k \in Key : cache[k] # NULL => ~ Past(cache[k].version))
=============================================================================
