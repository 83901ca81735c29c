------------------------- MODULE SnippetCacheProofs -------------------------
(* Theorems about SnippetCache, for any clients, titles, numbers of         *)
(* versions and writes, and times to live.                                  *)
EXTENDS SnippetCache, TLAPS

(* What the invariant says of the local state q of a call. *)
Good(q) ==
    /\ q.pc = "fill" =>
         /\ q.page \in Payload /\ Committed(q.page)
         /\ q.key \in {Latest, q.page.version}
         /\ q.key # Latest => q.page.vis = "public"
         /\ ~ rough /\ q.key = Latest => FreshPage(q.page)
    /\ q.pc \in {"loaded", "committed"} => q.key = Latest
    /\ q.pc = "loaded" => q.own = Latest
    /\ q.pc = "committed" => q.own <= Counter
    /\ ~ rough =>
         /\ q.pc \in {"loaded", "committed", "fill", "deleting"} => snip.live
         /\ q.pc = "committed" => q.own \in {Latest, Counter}

Alone == ~ rough => \A c, d \in Busy : c = d

(* What it says of the cache, and of the row. *)
CachedIsGood ==
    /\ <<snip.title, Counter>> \in titled
    /\ \A k \in Key : cache[k] # NULL =>
        /\ Committed(cache[k].page) /\ k \in {Latest, cache[k].page.version}
        /\ k # Latest => snip.versions[k].vis = "public"

(* The invariant, call by call and key by key. *)
GoodInv ==
    /\ TypeOK /\ CachedIsGood /\ Alone /\ CalmLatest /\ CalmRemoval
    /\ \A c \in Callers : Good(call[c])

LEMMA GoodIsIInv == IInv <=> GoodInv
<1>1. Key = Number \cup {0} /\ Latest = 0
  BY DEF Key, Latest
<1>2. 0 \notin Number
  BY DEF Number
<1>3. PagesAreCommitted /\ NumberedArePublic /\ CallsInStep /\ CalmCalls
        <=> CachedIsGood /\ Alone /\ \A c \in Callers : Good(call[c])
  BY <1>1, <1>2
  DEF PagesAreCommitted, NumberedArePublic, CallsInStep, CalmCalls,
      CachedIsGood, Alone, Good
<1>4. QED
  BY <1>3 DEF IInv, GoodInv

LEMMA NoCallIsGood == NoCall \in Call /\ Good(NoCall) /\ NoCall.pc = "idle"
<1>1. NoCall \in Call /\ NoCall.pc = "idle"
  BY DEF NoCall, Call, Key
<1>2. QED
  BY <1>1 DEF Good

LEMMA GotoEffect ==
  ASSUME TypeOK, NEW c \in Callers, NEW rec \in Call, Goto(c, rec)
  PROVE  /\ call' \in [Callers -> Call]
         /\ call'[c] = rec
         /\ \A d \in Callers : d # c => call'[d] = call[d]
  BY DEF TypeOK, Goto

LEMMA CounterType ==
  ASSUME TypeOK
  PROVE  Counter \in Nat /\ Counter >= 1 /\ Counter <= MaxVersions
  BY CacheAssumption DEF TypeOK, Number

(* The response for a version that the snippet has. *)
LEMMA PageShowsVersion ==
  ASSUME TypeOK, NEW n \in 1..Counter
  PROVE  /\ Page(n) \in Payload
         /\ Page(n).version = n /\ Page(n).latest = Counter
         /\ Page(n).title = snip.title
         /\ Page(n).vis = snip.versions[n].vis
         /\ snip.versions[n].text /\ <<snip.title, Counter>> \in titled
               => Committed(Page(n))
<1>1. PICK s \in Snippet : s = snip
  BY DEF TypeOK
<1>2. Counter \in Number /\ Counter \in Nat /\ n \in Number
  BY CounterType, CacheAssumption DEF TypeOK, Number
<1>3. snip.versions[n] \in Version
  BY <1>1 DEF Snippet, Counter
<1>4. snip.versions[n].vis \in Visibility
  BY <1>3 DEF Version
<1>5. snip.title \in Titles
  BY <1>1 DEF Snippet
<1>6. QED
  BY <1>2, <1>4, <1>5 DEF Page, Payload, Committed

(* A step of one call that leaves the snippet and the cache alone. *)
LEMMA CallStep ==
  ASSUME GoodInv, NEW c \in Callers, NEW rec \in Call, Goto(c, rec), Good(rec),
         UNCHANGED <<snip, cache, scanned, titled, rough>>,
         writes' \in 0..MaxWrites, jobs' \in Nat, jobs' >= jobs,
         rough \/ call[c].pc # "idle" \/ Busy = {},
         Overwrites(c) /\ ~ rough =>
            \/ rec.pc = "fill" /\ rec.key = Latest
            \/ ~ snip.versions[Counter].text,
         call[c].pc = "enqueue" => jobs' > 0 \/ rough
  PROVE  GoodInv'
<1>1. TypeOK /\ CachedIsGood /\ Alone /\ CalmLatest /\ CalmRemoval
        /\ \A d \in Callers : Good(call[d])
  BY DEF GoodInv
<1>2. /\ call' \in [Callers -> Call] /\ call'[c] = rec
      /\ \A d \in Callers : d # c => call'[d] = call[d]
  BY <1>1, GotoEffect
<1>3. TypeOK'
  BY <1>1, <1>2 DEF TypeOK, Counter
<1>4. CachedIsGood'
  BY <1>1 DEF CachedIsGood, Committed, Counter
<1>5. Alone'
  BY <1>1, <1>2 DEF Alone, Busy
<1>6. (\A d \in Callers : Good(call[d]))'
  <2>1. \A q : Good(q) <=> Good(q)'
    BY DEF Good, Committed, Counter, FreshPage
  <2>2. QED
    BY <1>1, <1>2, <2>1
<1>7. CalmLatest'
  BY <1>1, <1>2 DEF CalmLatest, Current, Overwrites, Counter
<1>8. CalmRemoval'
  BY <1>1, <1>2 DEF CalmRemoval, TypeOK
<1>9. QED
  BY <1>3, <1>4, <1>5, <1>6, <1>7, <1>8 DEF GoodInv
-----------------------------------------------------------------------------
LEMMA StartKeeps ==
  ASSUME GoodInv, NEW c \in Callers,
         Get(c) \/ LoadForUpdate(c) \/ LoadForDelete(c)
  PROVE  GoodInv'
<1> PICK q \in Call : q = NoCall
  BY NoCallIsGood
<1>1. /\ q.pc = "idle" /\ q.key = Latest /\ q.own = Latest
      /\ call[c].pc = "idle"
  BY DEF NoCall, Get, LoadForUpdate, LoadForDelete, MayStart
<1>2. rough \/ Busy = {}
  BY DEF Get, LoadForUpdate, LoadForDelete, MayStart, Busy
<1>3. /\ jobs \in Nat /\ jobs' = jobs /\ writes' \in 0..MaxWrites
      /\ UNCHANGED <<snip, cache, scanned, titled, rough>>
  <2>1. jobs \in Nat /\ writes \in 0..MaxWrites /\ MaxWrites \in Nat
    BY CacheAssumption DEF GoodInv, TypeOK
  <2>2. jobs' = jobs /\ UNCHANGED <<snip, cache, scanned, titled, rough>>
    BY DEF Get, LoadForUpdate, LoadForDelete
  <2>3. CASE Get(c)
    BY <2>1, <2>2, <2>3 DEF Get
  <2>4. CASE LoadForUpdate(c)
    BY <2>1, <2>2, <2>4 DEF LoadForUpdate
  <2>5. CASE LoadForDelete(c)
    BY <2>1, <2>2, <2>5 DEF LoadForDelete
  <2>6. QED
    BY <2>3, <2>4, <2>5
<1>4. CASE Get(c)
  <2>1. PICK k \in Key : Goto(c, [q EXCEPT !.pc = "get", !.key = k])
    BY <1>4 DEF Get
  <2> DEFINE rec == [q EXCEPT !.pc = "get", !.key = k]
  <2>2. rec \in Call /\ rec.pc = "get"
    BY DEF Call
  <2> HIDE DEF rec
  <2>3. Good(rec)
    BY <2>2 DEF Good
  <2>4. Goto(c, rec)
    BY <2>1 DEF rec
  <2>5. QED
    BY <1>1, <1>2, <1>3, <2>2, <2>3, <2>4, CallStep DEF Overwrites
<1>5. CASE LoadForUpdate(c)
  <2> DEFINE rec == [q EXCEPT !.pc = "loaded"]
  <2>1. rec \in Call /\ rec.pc = "loaded" /\ rec.key = q.key /\ rec.own = q.own
    BY DEF Call
  <2>2. Goto(c, rec) /\ snip.live
    BY <1>5 DEF LoadForUpdate
  <2> HIDE DEF rec
  <2>3. Good(rec)
    BY <1>1, <2>1, <2>2 DEF Good
  <2>4. QED
    BY <1>1, <1>2, <1>3, <2>1, <2>2, <2>3, CallStep DEF Overwrites
<1>6. CASE LoadForDelete(c)
  <2> DEFINE rec == [q EXCEPT !.pc = "deleting"]
  <2>1. rec \in Call /\ rec.pc = "deleting"
    BY DEF Call
  <2>2. Goto(c, rec) /\ snip.live
    BY <1>6 DEF LoadForDelete
  <2> HIDE DEF rec
  <2>3. Good(rec)
    BY <2>1, <2>2 DEF Good
  <2>4. QED
    BY <1>1, <1>2, <1>3, <2>1, <2>2, <2>3, CallStep DEF Overwrites
<1>7. QED
  BY <1>4, <1>5, <1>6

(* A call that ends without having written to the cache. *)
LEMMA ReturnKeeps ==
  ASSUME GoodInv, NEW c \in Callers, Return(c),
         UNCHANGED <<snip, cache, scanned, titled, rough>>,
         writes' = writes, jobs' \in Nat, jobs' >= jobs,
         call[c].pc # "idle",
         Overwrites(c) /\ ~ rough => ~ snip.versions[Counter].text,
         call[c].pc = "enqueue" => jobs' > 0 \/ rough
  PROVE  GoodInv'
<1>1. writes' \in 0..MaxWrites
  BY DEF GoodInv, TypeOK
<1>2. QED
  BY <1>1, NoCallIsGood, CallStep DEF Return

LEMMA ReadKeeps ==
  ASSUME GoodInv, NEW c \in Callers,
         CacheHit(c) \/ CacheMiss(c) \/ Query(c) \/ Enqueue(c) \/ Abort(c)
  PROVE  GoodInv'
<1>1. jobs \in Nat /\ jobs + 1 \in Nat /\ writes \in 0..MaxWrites
  BY DEF GoodInv, TypeOK
<1>2. PICK q \in Call : q = call[c]
  BY DEF GoodInv, TypeOK
<1>3. CASE CacheHit(c) \/ Enqueue(c) \/ Abort(c)
  <2>1. CASE CacheHit(c)
    BY <1>1, <2>1, ReturnKeeps DEF CacheHit, Hit, Overwrites
  <2>2. CASE Enqueue(c)
    BY <1>1, <2>2, ReturnKeeps DEF Enqueue, Overwrites
  <2>3. CASE Abort(c)
    BY <1>1, <2>3, ReturnKeeps DEF Abort
  <2>4. QED
    BY <1>3, <2>1, <2>2, <2>3
<1>4. CASE CacheMiss(c)
  <2> DEFINE rec == [q EXCEPT !.pc = "query"]
  <2>1. rec \in Call /\ rec.pc = "query"
    BY DEF Call
  <2>2. Goto(c, rec) /\ q.pc = "get"
    BY <1>2, <1>4 DEF CacheMiss
  <2> HIDE DEF rec
  <2>3. Good(rec)
    BY <2>1 DEF Good
  <2>4. QED
    BY <1>1, <1>2, <1>4, <2>1, <2>2, <2>3, CallStep DEF CacheMiss, Overwrites
<1>5. CASE Query(c)
  <2> DEFINE n == IF q.key = Latest THEN Counter ELSE q.key
  <2>1. /\ call[c].pc = "query"
        /\ UNCHANGED <<snip, cache, jobs, scanned, writes, titled, rough>>
    BY <1>5 DEF Query
  <2>2. ~ Overwrites(c) /\ call[c].pc # "idle" /\ call[c].pc # "enqueue"
    BY <2>1 DEF Overwrites
  <2>3. /\ jobs' \in Nat /\ jobs' >= jobs /\ writes' = writes
        /\ writes' \in 0..MaxWrites
    BY <1>1, <2>1
  <2>4. CASE Return(c)
    BY <2>1, <2>2, <2>3, <2>4, ReturnKeeps
  <2>5. CASE ~ Return(c)
    <3> DEFINE rec == [q EXCEPT !.pc = "fill", !.page = Page(n)]
    <3>1. /\ snip.live /\ n <= Counter /\ snip.versions[n].text
          /\ snip.versions[n].vis = "public"
          /\ Goto(c, rec)
      BY <1>2, <1>5, <2>5 DEF Query, Cacheable
    <3>2. n \in 1..Counter
      BY <3>1, CounterType DEF GoodInv, Call, Key, Number
    <3>3. /\ Page(n) \in Payload /\ Committed(Page(n))
          /\ Page(n).version = n /\ Page(n).latest = Counter
          /\ Page(n).title = snip.title /\ Page(n).vis = "public"
      BY <3>1, <3>2, PageShowsVersion DEF GoodInv, CachedIsGood
    <3>4. /\ rec \in Call /\ rec.pc = "fill" /\ rec.page = Page(n)
          /\ rec.key = q.key
      BY <3>3 DEF Call
    <3>5. q.key \in {Latest, n} /\ (q.key = Latest => n = Counter)
      OBVIOUS
    <3> HIDE DEF rec, n
    <3>6. Good(rec)
      BY <3>1, <3>3, <3>4, <3>5 DEF Good, FreshPage
    <3>7. QED
      <4>1. rec \in Call /\ Goto(c, rec)
        BY <3>1, <3>4
      <4>2. QED
        BY <2>1, <2>2, <2>3, <3>6, <4>1, CallStep
  <2>6. QED
    BY <2>4, <2>5
<1>6. QED
  BY <1>3, <1>4, <1>5

(* A response is written under its key. *)
LEMMA FillKeeps ==
  ASSUME GoodInv, NEW c \in Callers, Fill(c)
  PROVE  GoodInv'
<1>1. jobs \in Nat
  BY DEF GoodInv, TypeOK
<1>2. PICK q \in Call : q = call[c]
  BY DEF GoodInv, TypeOK
<1>3. CASE UNCHANGED cache /\ rough
  BY <1>1, <1>3, ReturnKeeps DEF Fill
<1>4. CASE Store(q.key, q.page)
  <2> DEFINE k == q.key
             p == q.page
             e == [page |-> p, ttl |-> TTL]
  <2>1. /\ q.pc = "fill" /\ Good(q) /\ k \in Key
        /\ p \in Payload /\ Committed(p) /\ k \in {Latest, p.version}
        /\ k # Latest => p.vis = "public"
        /\ ~ rough /\ k = Latest => FreshPage(p)
        /\ ~ rough => snip.live
    BY <1>2 DEF Fill, GoodInv, Good, Call
  <2>2. e \in Entry /\ e.page = p
    BY <2>1, CacheAssumption DEF Entry
  <2>3. cache' = [cache EXCEPT ![k] = e] /\ UNCHANGED <<snip, jobs, scanned, writes, titled, rough>>
    BY <1>4 DEF Store, Fill
  <2>4. /\ call' \in [Callers -> Call] /\ call'[c] = NoCall
        /\ \A d \in Callers : d # c => call'[d] = call[d]
    BY NoCallIsGood, GotoEffect DEF Fill, Return, GoodInv
  <2> HIDE DEF e, k, p
  <2>5. /\ cache' \in [Key -> Entry \cup {NULL}] /\ cache'[k] = e
        /\ \A m \in Key : m # k => cache'[m] = cache[m]
    BY <2>1, <2>2, <2>3 DEF GoodInv, TypeOK
  <2>6. TypeOK'
    BY <2>3, <2>4, <2>5 DEF GoodInv, TypeOK, Counter
  <2>7. CachedIsGood'
    <3>1. ASSUME NEW m \in Key, cache'[m] # NULL
          PROVE  /\ Committed(cache'[m].page) /\ m \in {Latest, cache'[m].page.version}
                 /\ m # Latest => snip.versions[m].vis = "public"
      <4>1. CASE m = k
        BY <2>1, <2>2, <2>5, <4>1 DEF Committed
      <4>2. CASE m # k
        BY <2>5, <3>1, <4>2 DEF GoodInv, CachedIsGood
      <4>3. QED
        BY <4>1, <4>2
    <3>2. (<<snip.title, Counter>> \in titled)'
      BY <2>3 DEF GoodInv, CachedIsGood, Counter
    <3>3. QED
      BY <2>3, <3>1, <3>2 DEF CachedIsGood, Committed, Counter
  <2>8. Alone'
    BY <2>3, <2>4, NoCallIsGood DEF GoodInv, Alone, Busy
  <2>9. (\A d \in Callers : Good(call[d]))'
    <3>1. \A r : Good(r) <=> Good(r)'
      BY <2>3 DEF Good, Committed, Counter, FreshPage
    <3>2. QED
      BY <2>4, <3>1, NoCallIsGood DEF GoodInv
  <2>10. CalmLatest'
    <3>1. CASE k = Latest
      BY <2>1, <2>2, <2>3, <2>5, <3>1
      DEF CalmLatest, Current, FreshPage, Counter
    <3>2. CASE k # Latest
      <4>1. ~ Overwrites(c) /\ cache'[Latest] = cache[Latest]
        BY <1>2, <2>1, <2>5, <3>2 DEF Overwrites, Key, k
      <4>2. QED
        BY <2>3, <2>4, <4>1
        DEF GoodInv, CalmLatest, Current, Overwrites, Counter
    <3>3. QED
      BY <3>1, <3>2
  <2>11. CalmRemoval'
    BY <2>1, <2>3 DEF CalmRemoval
  <2>12. QED
    BY <2>6, <2>7, <2>8, <2>9, <2>10, <2>11 DEF GoodInv
<1>5. QED
  BY <1>2, <1>3, <1>4 DEF Fill

(* refresh(): the version an update has stored, or the latest. *)
LEMMA RefreshKeeps ==
  ASSUME GoodInv, NEW c \in Callers, Refresh(c)
  PROVE  GoodInv'
<1>1. jobs \in Nat /\ writes \in 0..MaxWrites
  BY DEF GoodInv, TypeOK
<1>2. PICK q \in Call : q = call[c]
  BY DEF GoodInv, TypeOK
<1> DEFINE n == IF q.own = Latest THEN Counter ELSE q.own
<1>3. /\ q.pc = "committed" /\ q.key = Latest /\ q.own <= Counter
      /\ ~ rough => snip.live /\ q.own \in {Latest, Counter}
  BY <1>2 DEF GoodInv, Good, Refresh
<1>4. n \in 1..Counter /\ (~ rough => n = Counter)
  BY <1>3, CounterType DEF GoodInv, Call, Number, Latest
<1>5. CASE snip.live /\ snip.versions[n].text
  <2> DEFINE rec == [q EXCEPT !.pc = "fill", !.page = Page(n)]
  <2>1. Goto(c, rec)
    BY <1>2, <1>5 DEF Refresh, Cached
  <2>2. /\ Page(n) \in Payload /\ Committed(Page(n))
        /\ Page(n).version = n /\ Page(n).latest = Counter
        /\ Page(n).title = snip.title
    BY <1>4, <1>5, PageShowsVersion DEF GoodInv, CachedIsGood
  <2>3. /\ rec \in Call /\ rec.pc = "fill" /\ rec.page = Page(n)
        /\ rec.key = q.key
    BY <2>2 DEF Call
  <2> HIDE DEF rec, n
  <2>4. Good(rec)
    BY <1>3, <1>4, <2>2, <2>3 DEF Good, FreshPage
  <2>5. QED
    BY <1>1, <1>2, <1>3, <2>1, <2>3, <2>4, CallStep DEF Refresh
<1>6. CASE ~ (snip.live /\ snip.versions[n].text)
  <2>1. Return(c)
    BY <1>2, <1>6 DEF Refresh, Cached
  <2>2. ~ rough => ~ snip.versions[Counter].text
    BY <1>3, <1>4, <1>6
  <2> HIDE DEF n
  <2>3. QED
    BY <1>1, <1>2, <1>3, <2>1, <2>2, ReturnKeeps DEF Refresh
<1>7. QED
  BY <1>5, <1>6
-----------------------------------------------------------------------------
(* A commit sets the title and appends at most one version. *)
LEMMA CommitEffect ==
  ASSUME TypeOK, NEW c \in Callers, NEW q \in Call, q = call[c], CommitUpdate(c)
  PROVE  /\ snip' \in Snippet /\ snip'.live = snip.live
         /\ \A n \in 1..Counter : snip'.versions[n] = snip.versions[n]
         /\ \/ /\ Counter' = Counter
               /\ Goto(c, [q EXCEPT !.pc = "committed"])
            \/ /\ Counter' = Counter + 1 /\ Counter < MaxVersions
               /\ Goto(c, [q EXCEPT !.pc = "committed", !.own = Counter + 1])
<1>1. PICK s \in Snippet : s = snip
  BY DEF TypeOK
<1>2. s.versions \in Seq(Version) /\ Counter = Len(s.versions)
  BY <1>1 DEF Snippet, Counter
<1>3. PICK t \in Titles :
        \/ /\ snip' = [s EXCEPT !.title = t]
           /\ Goto(c, [q EXCEPT !.pc = "committed"])
        \/ /\ Counter < MaxVersions
           /\ \E x \in BOOLEAN :
                snip' = [s EXCEPT !.title = t,
                           !.versions = Append(@, [vis |-> "public", text |-> x])]
           /\ Goto(c, [q EXCEPT !.pc = "committed", !.own = Counter + 1])
  BY <1>1 DEF CommitUpdate
<1>4. CASE /\ snip' = [s EXCEPT !.title = t]
           /\ Goto(c, [q EXCEPT !.pc = "committed"])
  <2> DEFINE new == [s EXCEPT !.title = t]
  <2>1. new \in Snippet /\ new.live = s.live /\ new.versions = s.versions
    BY DEF Snippet
  <2> HIDE DEF new
  <2>2. snip' = new
    BY <1>4 DEF new
  <2>3. QED
    BY <1>1, <1>4, <2>1, <2>2 DEF Counter
<1>5. CASE /\ Counter < MaxVersions
           /\ \E x \in BOOLEAN :
                snip' = [s EXCEPT !.title = t,
                           !.versions = Append(@, [vis |-> "public", text |-> x])]
           /\ Goto(c, [q EXCEPT !.pc = "committed", !.own = Counter + 1])
  <2>1. PICK x \in BOOLEAN :
          snip' = [s EXCEPT !.title = t,
                     !.versions = Append(@, [vis |-> "public", text |-> x])]
    BY <1>5
  <2> DEFINE v == [vis |-> "public", text |-> x]
             vs == Append(s.versions, v)
             new == [s EXCEPT !.title = t, !.versions = vs]
  <2>2. v \in Version
    BY DEF Version, Visibility
  <2> HIDE DEF v
  <2>3. /\ vs \in Seq(Version) /\ Len(vs) = Len(s.versions) + 1
        /\ \A n \in 1..Len(s.versions) : vs[n] = s.versions[n]
    BY <1>2, <2>2
  <2> HIDE DEF vs
  <2>4. new \in Snippet /\ new.live = s.live /\ new.versions = vs
    BY <2>3 DEF Snippet
  <2>5. snip' = new
    BY <2>1 DEF v, vs
  <2> HIDE DEF new
  <2>6. QED
    BY <1>1, <1>2, <1>5, <2>3, <2>4, <2>5 DEF Counter
<1>6. QED
  BY <1>3, <1>4, <1>5

LEMMA CommitUpdateKeeps ==
  ASSUME GoodInv, NEW c \in Callers, CommitUpdate(c)
  PROVE  GoodInv'
<1>1. PICK q \in Call : q = call[c]
  BY DEF GoodInv, TypeOK
<1>2. /\ snip' \in Snippet /\ snip'.live = snip.live
      /\ \A n \in 1..Counter : snip'.versions[n] = snip.versions[n]
      /\ \/ /\ Counter' = Counter
            /\ Goto(c, [q EXCEPT !.pc = "committed"])
         \/ /\ Counter' = Counter + 1 /\ Counter < MaxVersions
            /\ Goto(c, [q EXCEPT !.pc = "committed", !.own = Counter + 1])
      /\ titled' = titled \cup {<<snip'.title, Counter'>>}
  BY <1>1, CommitEffect DEF GoodInv, CommitUpdate
<1>3. /\ Counter \in Nat /\ Counter >= 1 /\ Counter <= MaxVersions
      /\ MaxVersions \in Nat
  BY CounterType, CacheAssumption DEF GoodInv
<1>4. /\ UNCHANGED <<cache, jobs, scanned, writes, rough>>
      /\ q.pc = "loaded" /\ q.key = Latest /\ q.own = Latest
      /\ ~ rough => snip.live
  BY <1>1 DEF CommitUpdate, GoodInv, Good
<1>5. PICK rec \in Call : /\ Goto(c, rec) /\ rec.pc = "committed"
                          /\ rec.key = Latest
                          /\ rec.own \in {Latest, Counter'}
  <2>1. CASE /\ Counter' = Counter
             /\ Goto(c, [q EXCEPT !.pc = "committed"])
    <3> DEFINE r == [q EXCEPT !.pc = "committed"]
    <3>1. r \in Call /\ r.pc = "committed" /\ r.key = q.key /\ r.own = q.own
      BY DEF Call
    <3>2. QED
      BY <1>4, <2>1, <3>1
  <2>2. CASE /\ Counter' = Counter + 1 /\ Counter < MaxVersions
             /\ Goto(c, [q EXCEPT !.pc = "committed", !.own = Counter + 1])
    <3> DEFINE r == [q EXCEPT !.pc = "committed", !.own = Counter + 1]
    <3>1. Counter + 1 \in Number
      BY <1>3, <2>2 DEF Number
    <3>2. /\ r \in Call /\ r.pc = "committed" /\ r.key = q.key
          /\ r.own = Counter + 1
      BY <3>1 DEF Call
    <3>3. QED
      BY <1>4, <2>2, <3>2
  <2>3. QED
    BY <1>2, <2>1, <2>2
<1>6. /\ call' \in [Callers -> Call] /\ call'[c] = rec
      /\ \A d \in Callers : d # c => call'[d] = call[d]
  BY <1>5, GotoEffect DEF GoodInv
<1>7. Counter' \in Number /\ Counter' >= Counter /\ Counter' \in Nat
  BY <1>2, <1>3 DEF Number
<1>8. TypeOK'
  <2>1. snip'.title \in Titles
    BY <1>2 DEF Snippet
  <2>2. titled' \subseteq Titles \X Number
    BY <1>2, <1>7, <2>1 DEF GoodInv, TypeOK
  <2>3. QED
    BY <1>2, <1>4, <1>6, <1>7, <2>2 DEF GoodInv, TypeOK
(* What was committed stays. *)
<1>9. ASSUME NEW p \in Payload, Committed(p)
      PROVE  Committed(p)' /\ snip'.versions[p.version] = snip.versions[p.version]
  <2>1. /\ p.version \in 1..Counter /\ p.latest <= Counter
        /\ p.latest \in Nat /\ p.version <= p.latest
    BY <1>3, <1>9 DEF Committed, Payload, Number
  <2>2. QED
    BY <1>2, <1>3, <1>7, <1>9, <2>1 DEF Committed
<1>10. CachedIsGood'
  <2>1. ASSUME NEW k \in Key, cache[k] # NULL
        PROVE  /\ (Committed(cache[k].page))' /\ k \in {Latest, cache[k].page.version}
               /\ k # Latest => snip'.versions[k].vis = "public"
    <3>1. PICK p \in Payload : p = cache[k].page
      BY <2>1 DEF GoodInv, TypeOK, Entry
    <3>2. /\ Committed(p) /\ k \in {Latest, p.version}
          /\ k # Latest => snip.versions[k].vis = "public"
      BY <2>1, <3>1 DEF GoodInv, CachedIsGood
    <3>3. cache'[k] = cache[k]
      BY <1>4
    <3>4. QED
      BY <1>9, <3>1, <3>2, <3>3 DEF Committed
  <2>2. QED
    BY <1>2, <1>4, <2>1 DEF CachedIsGood
<1>11. Alone'
  BY <1>1, <1>4, <1>5, <1>6 DEF GoodInv, Alone, Busy
<1>12. (\A d \in Callers : Good(call[d]))'
  <2>1. Good(rec)'
    <3>1. 0 <= Counter' /\ Counter' <= Counter' /\ Latest = 0
      BY <1>7 DEF Latest
    <3>2. QED
      BY <1>2, <1>4, <1>5, <3>1 DEF Good
  <2>2. ASSUME NEW d \in Callers, d # c
        PROVE  Good(call[d])'
    <3>1. PICK r \in Call : r = call[d]
      BY DEF GoodInv, TypeOK
    <3>2. Good(r) /\ (~ rough => r.pc = "idle")
      BY <1>1, <1>4, <2>2, <3>1 DEF GoodInv, Alone, Busy
    <3>3. CASE rough
      <4>1. r.pc = "committed" => r.own <= Counter'
        BY <1>3, <1>7, <3>2 DEF Good, Call, Key, Number, Latest
      <4>2. r.pc = "fill" => r.page \in Payload /\ Committed(r.page)'
        BY <1>9, <3>2 DEF Good
      <4>3. QED
        BY <1>4, <1>6, <2>2, <3>1, <3>2, <3>3, <4>1, <4>2 DEF Good
    <3>4. CASE ~ rough
      BY <1>4, <1>6, <2>2, <3>1, <3>2, <3>4 DEF Good
    <3>5. QED
      BY <3>3, <3>4
  <2>3. QED
    BY <1>6, <2>1, <2>2
<1>13. CalmLatest'
  BY <1>5, <1>6 DEF CalmLatest, Overwrites
<1>14. CalmRemoval'
  BY <1>2, <1>4 DEF CalmRemoval
<1>15. QED
  BY <1>8, <1>10, <1>11, <1>12, <1>13, <1>14 DEF GoodInv

LEMMA CommitDeleteKeeps ==
  ASSUME GoodInv, NEW c \in Callers, CommitDelete(c)
  PROVE  GoodInv'
<1>1. PICK q \in Call, s \in Snippet : q = call[c] /\ s = snip
  BY DEF GoodInv, TypeOK
<1> DEFINE rec == [q EXCEPT !.pc = "enqueue"]
           new == [s EXCEPT !.live = FALSE]
<1>2. /\ rec \in Call /\ rec.pc = "enqueue"
      /\ new \in Snippet /\ ~ new.live /\ new.versions = s.versions
      /\ new.title = s.title
  BY DEF Call, Snippet
<1>3. /\ Goto(c, rec) /\ snip' = new /\ q.pc = "deleting"
      /\ UNCHANGED <<cache, jobs, scanned, writes, titled, rough>>
  BY <1>1 DEF CommitDelete
<1> HIDE DEF rec, new
<1>4. /\ call' \in [Callers -> Call] /\ call'[c] = rec
      /\ \A d \in Callers : d # c => call'[d] = call[d]
  BY <1>2, <1>3, GotoEffect DEF GoodInv
<1>5. /\ Counter' = Counter /\ snip'.versions = snip.versions
      /\ snip'.title = snip.title
  BY <1>1, <1>2, <1>3 DEF Counter
<1>6. TypeOK'
  BY <1>2, <1>3, <1>4, <1>5 DEF GoodInv, TypeOK
<1>7. CachedIsGood'
  BY <1>3, <1>5 DEF GoodInv, CachedIsGood, Committed
<1>8. Alone'
  BY <1>1, <1>2, <1>3, <1>4 DEF GoodInv, Alone, Busy
<1>9. (\A d \in Callers : Good(call[d]))'
  <2>1. Good(rec)'
    BY <1>2 DEF Good
  <2>2. ASSUME NEW d \in Callers, d # c
        PROVE  Good(call[d])'
    <3>1. Good(call[d]) /\ (~ rough => call[d].pc = "idle")
      BY <1>1, <1>3, <2>2 DEF GoodInv, Alone, Busy
    <3>2. QED
      BY <1>3, <1>4, <1>5, <2>2, <3>1 DEF Good, Committed
  <2>3. QED
    BY <1>4, <2>1, <2>2
<1>10. CalmLatest'
  BY <1>2, <1>3 DEF CalmLatest
<1>11. CalmRemoval'
  BY <1>2, <1>4 DEF CalmRemoval
<1>12. QED
  BY <1>6, <1>7, <1>8, <1>9, <1>10, <1>11 DEF GoodInv

(* What a step leaves of the cache was there before. *)
LEMMA CacheShrinks ==
  ASSUME GoodInv, UNCHANGED <<snip, call, titled, rough>>,
         cache' \in [Key -> Entry \cup {NULL}],
         \A k \in Key :
            \/ cache'[k] = NULL
            \/ cache[k] # NULL /\ cache'[k].page = cache[k].page
  PROVE  /\ CachedIsGood' /\ Alone' /\ CalmLatest'
         /\ (\A c \in Callers : Good(call[c]))'
<1>1. CachedIsGood'
  BY DEF GoodInv, CachedIsGood, Committed, Counter
<1>2. Alone'
  BY DEF GoodInv, Alone, Busy
<1>3. CalmLatest'
  <2>1. Latest \in Key
    BY DEF Key
  <2>2. Current(Latest) => Current(Latest)'
    BY <2>1 DEF Current, Counter
  <2>3. QED
    BY <2>2 DEF GoodInv, CalmLatest, Overwrites, Counter
<1>4. (\A c \in Callers : Good(call[c]))'
  BY DEF GoodInv, Good, Committed, Counter, FreshPage
<1>5. QED
  BY <1>1, <1>2, <1>3, <1>4

LEMMA ScanKeysKeeps ==
  ASSUME GoodInv, ScanKeys
  PROVE  GoodInv'
<1>1. UNCHANGED <<snip, cache, call, writes, titled, rough>> /\ jobs' \in Nat
  BY DEF ScanKeys, GoodInv, TypeOK
<1>2. scanned' = MatchingKeys \/ (rough /\ scanned' = NULL)
  BY DEF ScanKeys
<1>3. MatchingKeys \subseteq Key /\ MatchingKeys # NULL
  <2>1. Key = 0..MaxVersions
    BY CacheAssumption DEF Key, Number, Latest
  <2>2. MatchingKeys \in SUBSET (0..MaxVersions)
    BY <2>1 DEF MatchingKeys
  <2>3. QED
    BY <2>1, <2>2, CacheAssumption
<1>4. TypeOK'
  BY <1>1, <1>2, <1>3 DEF GoodInv, TypeOK, Counter
<1>5. /\ CachedIsGood' /\ Alone' /\ CalmLatest'
      /\ (\A c \in Callers : Good(call[c]))'
  <2>1. cache' \in [Key -> Entry \cup {NULL}]
    BY <1>1 DEF GoodInv, TypeOK
  <2>2. QED
    BY <1>1, <2>1, CacheShrinks
<1>6. CalmRemoval'
  BY <1>1, <1>2, <1>3 DEF CalmRemoval, MatchingKeys
<1>7. QED
  BY <1>4, <1>5, <1>6 DEF GoodInv

LEMMA DeleteKeysKeeps ==
  ASSUME GoodInv, DeleteKeys
  PROVE  GoodInv'
<1>1. UNCHANGED <<snip, call, jobs, writes, titled, rough>> /\ scanned' = NULL
  BY DEF DeleteKeys
<1>2. /\ cache' \in [Key -> Entry \cup {NULL}]
      /\ \A k \in Key : cache'[k] = NULL \/ cache'[k] = cache[k]
      /\ rough \/ \A k \in Key : k \in scanned => cache'[k] = NULL
  BY DEF DeleteKeys, GoodInv, TypeOK
<1>3. TypeOK'
  BY <1>1, <1>2 DEF GoodInv, TypeOK, Counter
<1>4. /\ CachedIsGood' /\ Alone' /\ CalmLatest'
      /\ (\A c \in Callers : Good(call[c]))'
  BY <1>1, <1>2, CacheShrinks
<1>5. CalmRemoval'
  BY <1>1, <1>2 DEF GoodInv, CalmRemoval
<1>6. QED
  BY <1>3, <1>4, <1>5 DEF GoodInv

LEMMA TickKeeps ==
  ASSUME GoodInv, Tick
  PROVE  GoodInv'
<1>1. UNCHANGED <<snip, call, jobs, scanned, writes, titled, rough>>
  BY DEF Tick
<1>2. ASSUME NEW k \in Key
      PROVE  /\ cache'[k] \in Entry \cup {NULL}
             /\ \/ cache'[k] = NULL
                \/ cache[k] # NULL /\ cache'[k].page = cache[k].page
  <2>1. CASE cache[k] = NULL \/ Expires(cache[k])
    BY <2>1 DEF Tick
  <2>2. CASE cache[k] # NULL /\ ~ Expires(cache[k])
    <3>1. PICK e \in Entry : e = cache[k] /\ e.ttl # 1
      BY <2>2 DEF GoodInv, TypeOK, Expires
    <3>2. cache'[k] = [e EXCEPT !.ttl = @ - 1]
      BY <2>2, <3>1 DEF Tick
    <3>3. e.ttl - 1 \in 1..TTL
      BY <3>1, CacheAssumption DEF Entry
    <3>4. [e EXCEPT !.ttl = @ - 1] \in Entry /\ [e EXCEPT !.ttl = @ - 1].page = e.page
      BY <3>3 DEF Entry
    <3>5. QED
      BY <2>2, <3>1, <3>2, <3>4
  <2>3. QED
    BY <2>1, <2>2
<1>3. cache' \in [Key -> Entry \cup {NULL}]
  BY <1>2 DEF Tick
<1>4. TypeOK'
  BY <1>1, <1>3 DEF GoodInv, TypeOK, Counter
<1>5. /\ CachedIsGood' /\ Alone' /\ CalmLatest'
      /\ (\A c \in Callers : Good(call[c]))'
  BY <1>1, <1>2, <1>3, CacheShrinks
<1>6. CalmRemoval'
  BY <1>1, <1>2 DEF GoodInv, CalmRemoval
<1>7. QED
  BY <1>4, <1>5, <1>6 DEF GoodInv
-----------------------------------------------------------------------------
LEMMA InitGood == Init => GoodInv
<1> SUFFICES ASSUME Init PROVE GoodInv
  OBVIOUS
<1>1. PICK v \in Visibility :
        snip = [live |-> TRUE, title |-> FirstTitle,
                versions |-> <<[vis |-> v, text |-> TRUE]>>]
  BY DEF Init
<1>2. /\ cache = [k \in Key |-> NULL] /\ call = [c \in Callers |-> NoCall]
      /\ jobs = 0 /\ scanned = NULL /\ writes = 0 /\ rough \in BOOLEAN
      /\ titled = {<<snip.title, Counter>>}
  BY DEF Init
<1>3. /\ snip \in Snippet /\ snip.live
      /\ Counter = 1
  <2>1. [vis |-> v, text |-> TRUE] \in Version
    BY DEF Version
  <2>2. QED
    BY <1>1, <2>1, CacheAssumption DEF Snippet, Counter
<1>4. TypeOK
  <2>1. Counter \in Number
    BY <1>3, CacheAssumption DEF Number
  <2>2. titled \subseteq Titles \X Number
    BY <1>2, <1>3, <2>1 DEF Snippet
  <2>3. QED
    BY <1>2, <1>3, <2>1, <2>2, NoCallIsGood, CacheAssumption DEF TypeOK
<1>5. Latest \in Key
  BY DEF Key
<1>6. QED
  BY <1>2, <1>3, <1>4, <1>5, NoCallIsGood
  DEF GoodInv, CachedIsGood, Alone, Busy, CalmLatest, Current, CalmRemoval

LEMMA NextKeeps == GoodInv /\ [Next]_vars => GoodInv'
<1> SUFFICES ASSUME GoodInv, [Next]_vars PROVE GoodInv'
  OBVIOUS
<1>1. ASSUME NEW c \in Callers,
             Get(c) \/ LoadForUpdate(c) \/ LoadForDelete(c)
      PROVE  GoodInv'
  BY <1>1, StartKeeps
<1>2. ASSUME NEW c \in Callers,
             CacheHit(c) \/ CacheMiss(c) \/ Query(c) \/ Enqueue(c) \/ Abort(c)
      PROVE  GoodInv'
  BY <1>2, ReadKeeps
<1>3. ASSUME NEW c \in Callers, Fill(c)
      PROVE  GoodInv'
  BY <1>3, FillKeeps
<1>4. ASSUME NEW c \in Callers, CommitUpdate(c)
      PROVE  GoodInv'
  BY <1>4, CommitUpdateKeeps
<1>5. ASSUME NEW c \in Callers, Refresh(c)
      PROVE  GoodInv'
  BY <1>5, RefreshKeeps
<1>6. ASSUME NEW c \in Callers, CommitDelete(c)
      PROVE  GoodInv'
  BY <1>6, CommitDeleteKeeps
<1>7. CASE ScanKeys \/ DeleteKeys \/ Tick
  BY <1>7, ScanKeysKeeps, DeleteKeysKeeps, TickKeeps
<1>8. CASE UNCHANGED vars
  BY <1>8
  DEF vars, GoodInv, TypeOK, CachedIsGood, Alone, Busy, CalmLatest, CalmRemoval,
      Current, Overwrites, Good, Committed, FreshPage, Counter
<1>9. QED
  BY <1>1, <1>2, <1>3, <1>4, <1>5, <1>6, <1>7, <1>8 DEF Next, Proceed

(* The inductive invariant: what the cache and the calls hold was          *)
(* committed, and in a calm behaviour vlatest and the removal of a deleted *)
(* snippet's keys are never forgotten.                                     *)
THEOREM CacheInvariant == Spec => []IInv
<1>1. Spec => []GoodInv
  BY InitGood, NextKeeps, PTL DEF Spec
<1>2. QED
  BY <1>1, GoodIsIInv, PTL

(* Rows, keys, calls and the job keep their types. *)
THEOREM TypeCorrect == Spec => []TypeOK
<1>1. IInv => TypeOK
  BY DEF IInv
<1>2. QED
  BY <1>1, CacheInvariant, PTL

(* However readers, updates, deletes, jobs and expiries interleave and     *)
(* fail, only pages of committed versions are cached, each numbered key    *)
(* with the page of its own version ...                                    *)
THEOREM OnlyCommittedPages == Spec => []PagesAreCommitted
<1>1. IInv => PagesAreCommitted
  BY DEF IInv
<1>2. QED
  BY <1>1, CacheInvariant, PTL

(* ... and no private version is ever under its numbered key.              *)
THEOREM NoPrivateNumberedPage == Spec => []NumberedArePublic
<1>1. IInv => NumberedArePublic
  BY DEF IInv
<1>2. QED
  BY <1>1, CacheInvariant, PTL

(* One call at a time, with Redis up: no read of the latest version after  *)
(* an update is stale.                                                     *)
THEOREM NoStaleRead == Spec => []SequentialReadsFresh
<1>1. IInv => SequentialReadsFresh
  BY DEF IInv, CalmLatest, SequentialReadsFresh, Quiet, Overwrites
<1>2. QED
  BY <1>1, CacheInvariant, PTL

(* One call at a time, with Redis up: once the job of a delete has run, no *)
(* page of the snippet is left.                                            *)
THEOREM DeletedAreGone == Spec => []DeleteCleans
<1>1. IInv => DeleteCleans
  BY DEF IInv, CalmRemoval, DeleteCleans, Quiet, TypeOK
<1>2. QED
  BY <1>1, CacheInvariant, PTL
=============================================================================
