---------------------------- MODULE SnippetCache ----------------------------
(***************************************************************************)
(* The read-through cache of one snippet: get_snippet_cached fills the     *)
(* Redis keys snippet:<short_id>:v<n|latest>, update_snippet overwrites    *)
(* vlatest, and the job remove_snippet_index of delete_snippet removes     *)
(* them, while PostgreSQL holds the truth.                                 *)
(*                                                                         *)
(* The database side of a call is one atomic step here: SnippetStore says  *)
(* why (a commit appends one whole version, VersionLog).  What is left is  *)
(* what happens between the awaits of PostgreSQL and of Redis.             *)
(***************************************************************************)
EXTENDS Naturals, Sequences

CONSTANTS Callers,     \* clients, each with one call at a time
          Titles,      \* titles of the snippet
          FirstTitle,  \* the one it was created with
          MaxVersions, \* bound: versions the snippet may get
          MaxWrites,   \* bound: PUT and DELETE calls
          TTL,         \* CACHE_TTL_SECONDS, in ticks
          NULL

ASSUME CacheAssumption ==
    /\ FirstTitle \in Titles
    /\ MaxVersions \in Nat \ {0}
    /\ MaxWrites \in Nat
    /\ TTL \in Nat \ {0}
    /\ \A S \in SUBSET (0..MaxVersions) : NULL # S

VARIABLES snip,    \* the committed row and its versions
          cache,   \* cache[k]: the value of Redis key k, NULL if absent
          call,    \* call[c]: the local state of the call of client c
          jobs,    \* remove_snippet_index jobs in the queue
          scanned, \* keys the running job has found, NULL if none runs
          writes,  \* PUT and DELETE calls so far
          titled,  \* history: the titles and counters committed together
          rough    \* whether calls overlap, and Redis, PostgreSQL and
                   \* processes fail, in this behaviour

vars == <<snip, cache, call, jobs, scanned, writes, titled, rough>>
-----------------------------------------------------------------------------
Visibility == {"public", "private"}
Number == 1..MaxVersions

Latest == 0                      \* _cache_key(short_id, None)
Key == Number \cup {Latest}

(* A version that an update stored with a null content has no text. *)
Version == [vis : Visibility, text : BOOLEAN]
Snippet == [live : BOOLEAN, title : Titles, versions : Seq(Version)]

(* SnippetResponse: the version it shows (which stands for its content),   *)
(* latest_version, the title and the visibility.                           *)
Payload == [version : Number, latest : Number, title : Titles,
            vis : Visibility]

Entry == [page : Payload, ttl : 1..TTL]

Call == [pc    : {"idle", "get", "query", "loaded", "committed", "fill",
                  "deleting", "enqueue"},
         key   : Key,                   \* the key it reads or writes
         own   : Number \cup {Latest},  \* the version an update created
         page  : Payload \cup {NULL}]   \* the response being built

NoCall == [pc |-> "idle", key |-> Latest, own |-> Latest, page |-> NULL]

Counter == Len(snip.versions)    \* version_counter

(* Mutant: latest_version is the number of the version shown. *)
OwnNumber(n) == [version |-> n, latest |-> n, title |-> snip.title,
                 vis |-> snip.versions[n].vis]

(* The response for version n of the snippet as it is now. *)
Page(n) == [version |-> n, latest |-> Counter, title |-> snip.title,
            vis |-> snip.versions[n].vis]

(* create_snippet has committed; nothing is cached. *)
Init ==
    /\ \E v \in Visibility :
          snip = [live |-> TRUE, title |-> FirstTitle,
                  versions |-> <<[vis |-> v, text |-> TRUE]>>]
    /\ cache = [k \in Key |-> NULL]
    /\ call = [c \in Callers |-> NoCall]
    /\ jobs = 0
    /\ scanned = NULL
    /\ writes = 0
    /\ titled = {<<snip.title, Counter>>}
    /\ rough \in BOOLEAN
-----------------------------------------------------------------------------
Goto(c, rec) == call' = [call EXCEPT ![c] = rec]
Return(c) == Goto(c, NoCall)

(* In a calm behaviour a call begins when no other is in progress. *)
MayStart(c) ==
    /\ call[c].pc = "idle"
    /\ rough \/ \A d \in Callers : call[d].pc = "idle"

Store(k, p) == cache' = [cache EXCEPT ![k] = [page |-> p, ttl |-> TTL]]

(* get_snippet_cached *)

Get(c) ==
    /\ MayStart(c)
    /\ \E k \in Key : Goto(c, [NoCall EXCEPT !.pc = "get", !.key = k])
    /\ UNCHANGED <<snip, cache, jobs, scanned, writes, titled, rough>>

(* Mutant: a hit prolongs the life of the entry. *)
HitRefreshes(k) == cache' = [cache EXCEPT ![k].ttl = TTL]

(* A hit serves the entry as it is and leaves it alone. *)
Hit(k) == UNCHANGED cache

(* redis.get: a hit is the answer, whoever asks.  When both attempts fail  *)
(* the result is None, which counts as a miss.                             *)
CacheHit(c) ==
    /\ call[c].pc = "get"
    /\ cache[call[c].key] # NULL
    /\ Hit(call[c].key)
    /\ Return(c)
    /\ UNCHANGED <<snip, jobs, scanned, writes, titled, rough>>

CacheMiss(c) ==
    /\ call[c].pc = "get"
    /\ cache[call[c].key] = NULL \/ rough
    /\ Goto(c, [call[c] EXCEPT !.pc = "query"])
    /\ UNCHANGED <<snip, cache, jobs, scanned, writes, titled, rough>>

(* Mutant: the response is cached whatever its visibility. *)
AnyPayload(v) == TRUE

(* if snippet.current_version.visibility == VisibilityType.PUBLIC *)
Cacheable(v) == v = "public"

(* snippet_out_view: 404 for a deleted snippet or a version it does not    *)
(* have, 403 for a private version without login, 500 for a version        *)
(* without text (SnippetVersionResponse refuses it), the response          *)
(* otherwise.  Only public responses go on to the cache.  Whether the      *)
(* caller is logged in (optional_user is not None) matters here alone.     *)
Query(c) ==
    /\ call[c].pc = "query"
    /\ \E login \in BOOLEAN :
          LET n == IF call[c].key = Latest THEN Counter ELSE call[c].key
          IN IF /\ snip.live /\ n <= Counter
                /\ snip.versions[n].vis = "public" \/ login
                /\ snip.versions[n].text
                /\ Cacheable(snip.versions[n].vis)
             THEN Goto(c, [call[c] EXCEPT !.pc = "fill", !.page = Page(n)])
             ELSE Return(c)
    /\ UNCHANGED <<snip, cache, jobs, scanned, writes, titled, rough>>

(* redis.setex, by a reader or by an update; a failure is swallowed. *)
Fill(c) ==
    /\ call[c].pc = "fill"
    /\ \/ Store(call[c].key, call[c].page)
       \/ rough /\ UNCHANGED cache
    /\ Return(c)
    /\ UNCHANGED <<snip, jobs, scanned, writes, titled, rough>>
-----------------------------------------------------------------------------
(* update_snippet *)

LoadForUpdate(c) ==
    /\ MayStart(c)
    /\ writes < MaxWrites
    /\ snip.live
    /\ Goto(c, [NoCall EXCEPT !.pc = "loaded"])
    /\ writes' = writes + 1
    /\ UNCHANGED <<snip, cache, jobs, scanned, titled, rough>>

(* The commit sets the title and may add a version, public and possibly    *)
(* without text.  The row may have been soft-deleted since it was loaded.  *)
CommitUpdate(c) ==
    /\ call[c].pc = "loaded"
    /\ \E t \in Titles :
          \/ /\ snip' = [snip EXCEPT !.title = t]
             /\ Goto(c, [call[c] EXCEPT !.pc = "committed"])
          \/ /\ Counter < MaxVersions
             /\ \E x \in BOOLEAN :
                   snip' = [snip EXCEPT
                              !.title = t,
                              !.versions = Append(@, [vis |-> "public",
                                                      text |-> x])]
             /\ Goto(c, [call[c] EXCEPT !.pc = "committed",
                                        !.own = Counter + 1])
    /\ titled' = titled \cup {<<snip'.title, Counter'>>}
    /\ UNCHANGED <<cache, jobs, scanned, writes, rough>>

(* Mutant: the response is not written to vlatest. *)
Responds(x) == FALSE

(* The response of a version that has a text can be built and is cached. *)
Cached(x) == x

(* refresh() reads the row again: title and counter may be those of a      *)
(* later update, while the version shown is the own one, if there is one.  *)
(* It is a SELECT under the soft-delete listener: of a row deleted         *)
(* meanwhile it finds nothing, raises, and the call ends in a 500.         *)
(* Nothing is asked about the visibility.                                  *)
Refresh(c) ==
    /\ call[c].pc = "committed"
    /\ LET n == IF call[c].own = Latest THEN Counter ELSE call[c].own
       IN IF snip.live /\ Cached(snip.versions[n].text)
          THEN Goto(c, [call[c] EXCEPT !.pc = "fill", !.page = Page(n)])
          ELSE Return(c)
    /\ UNCHANGED <<snip, cache, jobs, scanned, writes, titled, rough>>
-----------------------------------------------------------------------------
(* delete_snippet and its job *)

LoadForDelete(c) ==
    /\ MayStart(c)
    /\ writes < MaxWrites
    /\ snip.live
    /\ Goto(c, [NoCall EXCEPT !.pc = "deleting"])
    /\ writes' = writes + 1
    /\ UNCHANGED <<snip, cache, jobs, scanned, titled, rough>>

CommitDelete(c) ==
    /\ call[c].pc = "deleting"
    /\ snip' = [snip EXCEPT !.live = FALSE]
    /\ Goto(c, [call[c] EXCEPT !.pc = "enqueue"])
    /\ UNCHANGED <<cache, jobs, scanned, writes, titled, rough>>

Enqueue(c) ==
    /\ call[c].pc = "enqueue"
    /\ \/ jobs' = jobs + 1
       \/ rough /\ UNCHANGED jobs
    /\ Return(c)
    /\ UNCHANGED <<snip, cache, scanned, writes, titled, rough>>

(* Mutant: the job forgets the numbered keys. *)
LatestOnly == {k \in {Latest} : cache[k] # NULL}

(* scan_iter(match="snippet:<short_id>:v*") *)
MatchingKeys == {k \in Key : cache[k] # NULL}

(* remove_index in a worker: the scan, then the pipeline of deletes.  The  *)
(* job may also be lost or fail for good (JobQueue).                       *)
ScanKeys ==
    /\ jobs > 0 /\ scanned = NULL
    /\ jobs' = jobs - 1
    /\ \/ scanned' = MatchingKeys
       \/ rough /\ UNCHANGED scanned
    /\ UNCHANGED <<snip, cache, call, writes, titled, rough>>

DeleteKeys ==
    /\ scanned # NULL
    /\ \/ cache' = [k \in Key |-> IF k \in scanned THEN NULL ELSE cache[k]]
       \/ rough /\ UNCHANGED cache
    /\ scanned' = NULL
    /\ UNCHANGED <<snip, call, jobs, writes, titled, rough>>

(* Mutant: an entry outlives its time to live by a tick. *)
ExpiresLate(e) == e.ttl = 0

Expires(e) == e.ttl = 1

(* Time passes in Redis: an entry whose time to live is over is gone. *)
Tick ==
    /\ \E k \in Key : cache[k] # NULL
    /\ cache' = [k \in Key |->
                   IF cache[k] = NULL \/ Expires(cache[k]) THEN NULL
                   ELSE [cache[k] EXCEPT !.ttl = @ - 1]]
    /\ UNCHANGED <<snip, call, jobs, scanned, writes, titled, rough>>

(* A statement of PostgreSQL fails (503), the title is null, the process   *)
(* dies: the call ends where it is and rolls back what is not committed.   *)
Abort(c) ==
    /\ rough /\ call[c].pc # "idle"
    /\ Return(c)
    /\ UNCHANGED <<snip, cache, jobs, scanned, writes, titled, rough>>

Proceed(c) ==
    \/ CacheHit(c) \/ CacheMiss(c) \/ Query(c) \/ Fill(c)
    \/ CommitUpdate(c) \/ Refresh(c) \/ CommitDelete(c) \/ Enqueue(c)

Next ==
    \/ \E c \in Callers :
          Get(c) \/ LoadForUpdate(c) \/ LoadForDelete(c) \/ Proceed(c)
          \/ Abort(c)
    \/ ScanKeys \/ DeleteKeys \/ Tick

Spec == Init /\ [][Next]_vars

(* A call in progress goes on, and Redis expires what SETEX gave a time to *)
(* live.  Workers need not run.                                            *)
FairSpec ==
    Spec /\ WF_vars(Tick) /\ \A c \in Callers : WF_vars(Proceed(c))
-----------------------------------------------------------------------------
TypeOK ==
    /\ snip \in Snippet /\ Counter \in Number
    /\ cache \in [Key -> Entry \cup {NULL}]
    /\ call \in [Callers -> Call]
    /\ jobs \in Nat /\ writes \in 0..MaxWrites
    /\ scanned = NULL \/ scanned \subseteq Key
    /\ titled \subseteq Titles \X Number
    /\ rough \in BOOLEAN

(* What the payload p shows was committed: a version the snippet has, with *)
(* that version's visibility, under a title and a latest_version that one  *)
(* commit left in the row together, that commit or a later one.            *)
Committed(p) ==
    /\ p.version <= p.latest /\ p.latest <= Counter
    /\ <<p.title, p.latest>> \in titled
    /\ snip.versions[p.version].vis = p.vis
    /\ snip.versions[p.version].text

(* Every response that is cached or about to be is a committed version     *)
(* beside a title and a counter of one commit: update_snippet may show its *)
(* own version under a later row, never a title of one update beside the   *)
(* counter of another.  And a numbered key shows no version but its own.   *)
(* All this however reads, updates, deletes, jobs and expiries interleave. *)
PagesAreCommitted ==
    /\ \A k \in Key : cache[k] # NULL =>
          Committed(cache[k].page) /\ k \in {Latest, cache[k].page.version}
    /\ \A c \in Callers : call[c].pc = "fill" =>
          /\ Committed(call[c].page)
          /\ call[c].key \in {Latest, call[c].page.version}

(* A shared link ?v=n of a private version never enters the shared cache:  *)
(* only vlatest is written without a look at the visibility.               *)
NumberedArePublic ==
    \A n \in Number : cache[n] # NULL => snip.versions[n].vis = "public"

(* An entry that a reader of the database would still be answered with. *)
Current(k) ==
    \/ cache[k] = NULL
    \/ /\ snip.live
       /\ cache[k].page.title = snip.title
       /\ cache[k].page.latest = Counter
       /\ k = Latest => cache[k].page.version = Counter

(* After the last update or delete every stale entry goes away for good,   *)
(* although hits go on, Redis writes fail, the job of the delete may never *)
(* run and a reader may fill the cache with what it read before.           *)
EventuallyCurrent == <>[](\A k \in Key : Current(k))

(* Nobody is between two awaits, and no job is left. *)
Quiet ==
    /\ \A c \in Callers : call[c].pc = "idle"
    /\ jobs = 0 /\ scanned = NULL

(* Calls that do not overlap, with Redis up: after an update the next read *)
(* of the latest version is not stale, title included.  (An update to a    *)
(* null content fails while it builds its response and leaves vlatest.)    *)
SequentialReadsFresh ==
    ~ rough /\ Quiet /\ snip.live /\ snip.versions[Counter].text =>
        Current(Latest)

(* ... and once its job has run, nothing of a deleted snippet is served.   *)
DeleteCleans ==
    ~ rough /\ Quiet /\ ~ snip.live => \A k \in Key : cache[k] = NULL
-----------------------------------------------------------------------------
(* The inductive invariant behind the safety properties above.             *)

(* What is in the row was committed; what a call between two awaits holds: a page to be written; the version *)
(* an update has committed; no other key than vlatest in an update; and a  *)
(* page for a numbered key was found public.                               *)
CallsInStep ==
    /\ <<snip.title, Counter>> \in titled
    /\ \A c \in Callers :
        /\ call[c].pc = "fill" => call[c].page \in Payload
        /\ call[c].pc \in {"loaded", "committed"} => call[c].key = Latest
        /\ call[c].pc = "loaded" => call[c].own = Latest
        /\ call[c].pc = "committed" => call[c].own <= Counter
        /\ call[c].pc = "fill" /\ call[c].key # Latest =>
              call[c].page.vis = "public"

Busy == {c \in Callers : call[c].pc # "idle"}

(* What a page of the latest version shows now. *)
FreshPage(p) ==
    p.title = snip.title /\ p.latest = Counter /\ p.version = Counter

(* One call at a time: it acts on a live snippet, and what it goes on to   *)
(* write to vlatest is what the database holds.                            *)
CalmCalls ==
    ~ rough =>
        /\ \A c, d \in Busy : c = d
        /\ \A c \in Callers :
              /\ call[c].pc \in {"loaded", "committed", "fill", "deleting"} =>
                    snip.live
              /\ call[c].pc = "committed" => call[c].own \in {Latest, Counter}
              /\ call[c].pc = "fill" /\ call[c].key = Latest =>
                    FreshPage(call[c].page)

(* A call that is about to overwrite vlatest. *)
Overwrites(c) ==
    \/ call[c].pc = "committed"
    \/ call[c].pc = "fill" /\ call[c].key = Latest

(* vlatest is current, or about to be overwritten. *)
CalmLatest ==
    ~ rough /\ snip.live /\ snip.versions[Counter].text =>
        \/ Current(Latest)
        \/ \E c \in Callers : Overwrites(c)

(* A key of a deleted snippet is gone, or its removal is still to come. *)
CalmRemoval ==
    ~ rough /\ ~ snip.live => \A k \in Key :
        \/ cache[k] = NULL
        \/ jobs > 0
        \/ scanned # NULL /\ k \in scanned
        \/ \E c \in Callers : call[c].pc = "enqueue"

IInv ==
    /\ TypeOK /\ CallsInStep /\ PagesAreCommitted /\ NumberedArePublic
    /\ CalmCalls /\ CalmLatest /\ CalmRemoval
-----------------------------------------------------------------------------
(* "Caches public payloads only" (README.md:201): an update writes the     *)
(* response to vlatest without a look at its visibility, so changing the   *)
(* title of a private snippet serves its content to anyone.                *)
CachedOnlyPublic ==
    \A k \in Key : cache[k] # NULL => cache[k].page.vis = "public"
=============================================================================
