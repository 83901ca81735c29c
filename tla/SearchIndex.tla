----------------------------- MODULE SearchIndex -----------------------------
(***************************************************************************)
(* Search: create and delete enqueue jobs that keep the Redis sets         *)
(* search:index:<token>; search_snippets intersects the sets of the words  *)
(* of a query, selects the versions that match it in PostgreSQL, and keeps *)
(* the answer in search:result:<query> for whoever asks next.              *)
(*                                                                         *)
(* A text is its set of words, and titles have none.  What fills           *)
(* search_vector is not in the repository: the words of a content, here.   *)
(* The view counts of the hits are ViewCounter's.                          *)
(***************************************************************************)
EXTENDS Naturals, SequencesExt

CONSTANTS Snippets, Words,
          Texts,      \* contents, as sets of words
          Queries,    \* queries, as sets of words
          Callers,    \* clients, each with one search at a time
          MaxWrites,  \* bound: creates, updates and deletes
          MaxMembers, \* bound: searches by logged-in callers that miss the cache
          ResultTTL,  \* 60 seconds, in ticks
          NULL

ASSUME SearchAssumption ==
    /\ Texts \subseteq SUBSET Words /\ Queries \subseteq (SUBSET Words) \ {{}}
    /\ MaxWrites \in Nat /\ MaxMembers \in Nat /\ ResultTTL \in Nat \ {0}

VARIABLES doc,     \* doc[s]: the committed row and versions of snippet s
          index,   \* index[w]: the set search:index:<w>
          results, \* results[q]: search:result:<q>, NULL if absent
          jobs,    \* QUEUE, oldest first
          lost,    \* snippets a job of which was lost     (history)
          call,    \* call[c]: the local state of the search of client c
          writes, members,
          rough    \* whether jobs run in any order, twice or never, and
                   \* calls fail, in this behaviour

vars == <<doc, index, results, jobs, lost, call, writes, members, rough>>
-----------------------------------------------------------------------------
Visibility == {"public", "private"}
Version == [text : Texts, vis : Visibility]
Doc == [status : {"absent", "live", "deleted"}, versions : Seq(Version)]
Job == [type : {"index", "remove"}, snip : Snippets, text : Texts]

Hit == [snip : Snippets, version : Nat \ {0}]
Result == [hits : SUBSET Hit, ttl : 1..ResultTTL]

Call == [pc    : {"idle", "sinter", "select", "store"},
         query : Queries \cup {{}},
         login : BOOLEAN,            \* optional_user is not None
         ids   : SUBSET Snippets,    \* what SINTER returned
         hits  : SUBSET Hit]

NoCall == [pc |-> "idle", query |-> {}, login |-> FALSE, ids |-> {}, hits |-> {}]

Init ==
    /\ doc = [s \in Snippets |-> [status |-> "absent", versions |-> << >>]]
    /\ index = [w \in Words |-> {}]
    /\ results = [q \in Queries |-> NULL]
    /\ jobs = << >> /\ lost = {}
    /\ call = [c \in Callers |-> NoCall]
    /\ writes = 0 /\ members = 0
    /\ rough \in BOOLEAN
-----------------------------------------------------------------------------
Write ==
    /\ writes < MaxWrites /\ writes' = writes + 1
    /\ UNCHANGED <<index, results, call, members, rough>>

Latest(s) == doc[s].versions[Len(doc[s].versions)]

(* enqueue after the commit; if it fails the row stays and no job comes.   *)
Enqueue(type, s, text) ==
    \/ /\ jobs' = Append(jobs, [type |-> type, snip |-> s, text |-> text])
       /\ UNCHANGED lost
    \/ rough /\ lost' = lost \cup {s} /\ UNCHANGED jobs

Create(s) ==
    /\ Write /\ doc[s].status = "absent"
    /\ \E v \in Version :
          /\ doc' = [doc EXCEPT ![s] = [status |-> "live", versions |-> <<v>>]]
          /\ Enqueue("index", s, v.text)

(* An update adds a public version; nothing indexes its words. *)
Update(s) ==
    /\ Write /\ doc[s].status = "live"
    /\ \E t \in Texts :
          doc' = [doc EXCEPT ![s].versions =
                    Append(@, [text |-> t, vis |-> "public"])]
    /\ UNCHANGED <<jobs, lost>>

(* Mutant: the job is told a text without words. *)
NoText(s) == {}

(* The job is told the text of the latest version.  (An update between     *)
(* the SELECT and the commit of a delete, SnippetStore, would make it the  *)
(* text of the one before.)                                                *)
Removed(s) == Latest(s).text

Delete(s) ==
    /\ Write /\ doc[s].status = "live"
    /\ doc' = [doc EXCEPT ![s].status = "deleted"]
    /\ Enqueue("remove", s, Removed(s))
-----------------------------------------------------------------------------
(* Mutant: the newest job is taken (BRPOPLPUSH became BLPOP). *)
Newest == IF rough THEN DOMAIN jobs ELSE {Len(jobs)} \ {0}

(* One worker without failures takes the oldest job; with several, with    *)
(* retries and recovery (JobQueue) any may be next.                        *)
Runnable == IF rough THEN DOMAIN jobs ELSE {1} \cap DOMAIN jobs

(* Mutant: SREM of one snippet empties the set (DEL). *)
Emptied(w, s) == {}

(* pipe.srem *)
Without(w, s) == index[w] \ {s}

(* index_snippet or remove_index.  The job may stay and be run again, or   *)
(* be given up without having run.                                         *)
RunJob(i) ==
    /\ LET j == jobs[i]
       IN \/ /\ index' = [w \in Words |->
                             IF w \notin j.text THEN index[w]
                             ELSE IF j.type = "index"
                             THEN index[w] \cup {j.snip}
                             ELSE Without(w, j.snip)]
             /\ jobs' \in {RemoveAt(jobs, i)} \cup (IF rough THEN {jobs} ELSE {})
             /\ UNCHANGED lost
          \/ /\ rough
             /\ jobs' = RemoveAt(jobs, i) /\ lost' = lost \cup {j.snip}
             /\ UNCHANGED index
    /\ UNCHANGED <<doc, results, call, writes, members, rough>>
-----------------------------------------------------------------------------
Goto(c, rec) == call' = [call EXCEPT ![c] = rec]

(* Mutant: a hit prolongs the life of the entry. *)
HitRefreshes(q) == results' = [results EXCEPT ![q].ttl = ResultTTL]

(* A cached answer is the answer, whoever asks. *)
Served(q) == UNCHANGED results

(* GET search:result:<query>.  (A query without words has no result.)      *)
Search(c, q, login) ==
    /\ call[c].pc = "idle"
    /\ IF results[q] # NULL THEN Served(q) /\ UNCHANGED <<call, members>>
       ELSE /\ IF login THEN members < MaxMembers /\ members' = members + 1
               ELSE UNCHANGED members
            /\ UNCHANGED results
            /\ Goto(c, [NoCall EXCEPT !.pc = "sinter", !.query = q,
                                      !.login = login])
    /\ UNCHANGED <<doc, index, jobs, lost, writes, rough>>

(* SINTER; nothing found is not cached. *)
Sinter(c) ==
    /\ call[c].pc = "sinter"
    /\ LET ids == {s \in Snippets : \A w \in call[c].query : s \in index[w]}
       IN Goto(c, IF ids = {} THEN NoCall
                  ELSE [call[c] EXCEPT !.pc = "select", !.ids = ids])
    /\ UNCHANGED <<doc, index, results, jobs, lost, writes, members, rough>>

(* A version the SELECT returns and the loop keeps: of a snippet that is   *)
(* not deleted, matching the query, private ones for logged-in callers.    *)
(* Nothing asks for the latest version, or for expires_at.                 *)
Found(s, n, q, login) ==
    /\ doc[s].status = "live" /\ n \in DOMAIN doc[s].versions
    /\ q \subseteq doc[s].versions[n].text
    /\ doc[s].versions[n].vis = "public" \/ login

Hits(ids, q, login) ==
    {h \in [snip : ids, version : 1..MaxWrites] :
        Found(h.snip, h.version, q, login)}

Select(c) ==
    /\ call[c].pc = "select"
    /\ Goto(c, [call[c] EXCEPT !.pc = "store", !.ids = {},
                 !.hits = Hits(call[c].ids, call[c].query, call[c].login)])
    /\ UNCHANGED <<doc, index, results, jobs, lost, writes, members, rough>>

(* SETEX 60 under the query alone, an empty answer too. *)
Store(c) ==
    /\ call[c].pc = "store"
    /\ results' = [results EXCEPT ![call[c].query] =
                     [hits |-> call[c].hits, ttl |-> ResultTTL]]
    /\ Goto(c, NoCall)
    /\ UNCHANGED <<doc, index, jobs, lost, writes, members, rough>>

(* Redis and PostgreSQL are not guarded here: the call ends with an error. *)
Abort(c) ==
    /\ rough /\ call[c].pc # "idle"
    /\ Goto(c, NoCall)
    /\ UNCHANGED <<doc, index, results, jobs, lost, writes, members, rough>>

Tick ==
    /\ results' = [q \in Queries |->
                     IF results[q] = NULL \/ results[q].ttl = 1 THEN NULL
                     ELSE [results[q] EXCEPT !.ttl = @ - 1]]
    /\ UNCHANGED <<doc, index, jobs, lost, call, writes, members, rough>>

Proceed(c) == Sinter(c) \/ Select(c) \/ Store(c)

Next ==
    \/ \E s \in Snippets : Create(s) \/ Update(s) \/ Delete(s)
    \/ \E i \in Runnable : RunJob(i)
    \/ \E c \in Callers :
          \/ \E q \in Queries, l \in BOOLEAN : Search(c, q, l)
          \/ Proceed(c) \/ Abort(c)
    \/ Tick

Spec == Init /\ [][Next]_vars

(* Redis expires keys and the event loop resumes a call; no job need run.  *)
FairSpec ==
    Spec /\ WF_vars(Tick) /\ \A c \in Callers : WF_vars(Proceed(c))
-----------------------------------------------------------------------------
TypeOK ==
    /\ doc \in [Snippets -> Doc]
    /\ index \in [Words -> SUBSET Snippets]
    /\ results \in [Queries -> Result \cup {NULL}]
    /\ jobs \in Seq(Job) /\ lost \subseteq Snippets
    /\ call \in [Callers -> Call]
    /\ writes \in 0..MaxWrites /\ members \in 0..MaxMembers /\ rough \in BOOLEAN

(* However late, out of order and often jobs run: a live snippet is in the *)
(* sets of the words of its first text, or its job is still to run, unless *)
(* a job of it was lost.  Other snippets' removals never take it out.      *)
FirstTextFindable ==
    \A s \in Snippets \ lost : doc[s].status = "live" =>
        \/ \E i \in DOMAIN jobs : jobs[i].type = "index" /\ jobs[i].snip = s
        \/ \A w \in doc[s].versions[1].text : s \in index[w]

(* Jobs that run once and in order: when none is left, the words of its    *)
(* latest text do not lead to a deleted snippet.  (Words that only an      *)
(* earlier text had still do: the SELECT drops what they find.)            *)
DeleteUnindexes ==
    ~ rough /\ jobs = << >> =>
        \A s \in Snippets : doc[s].status = "deleted" =>
            \A w \in Latest(s).text : s \notin index[w]

(* The inductive invariant behind the two properties. *)

(* A job says what its snippet was when it was enqueued, and still is. *)
JobMatches(j) ==
    IF j.type = "index"
    THEN /\ doc[j.snip].status # "absent"
         /\ j.text = doc[j.snip].versions[1].text
    ELSE /\ doc[j.snip].status = "deleted"
         /\ j.text = Latest(j.snip).text

JobsMatchDocs ==
    /\ \A s \in Snippets : doc[s].status # "absent" => doc[s].versions # << >>
    /\ \A i \in DOMAIN jobs : JobMatches(jobs[i])

Indexes(i, s) == jobs[i].type = "index" /\ jobs[i].snip = s

Removes(i, s) == jobs[i].type = "remove" /\ jobs[i].snip = s

(* In order and once: after the removal of a snippet nothing indexes it.   *)
RemovedLast ==
    ~ rough => \A s \in Snippets : doc[s].status = "deleted" =>
        \/ \E k \in DOMAIN jobs :
              /\ Removes(k, s)
              /\ \A m \in DOMAIN jobs : m > k => ~ Indexes(m, s)
        \/ /\ \A m \in DOMAIN jobs : ~ Indexes(m, s)
           /\ \A w \in Latest(s).text : s \notin index[w]

IInv ==
    /\ TypeOK /\ JobsMatchDocs /\ FirstTextFindable /\ RemovedLast

(* What anybody may see: public, and not deleted. *)
Open(h) ==
    doc[h.snip].status = "live" /\ doc[h.snip].versions[h.version].vis = "public"

(* Once writes and the searches of logged-in callers stop, no kept answer  *)
(* lists a deleted snippet or, to everybody, a private version, although   *)
(* searches go on and the removal of the index entries may never run.      *)
KeptAnswersSettle ==
    <>[](\A q \in Queries : results[q] # NULL =>
             \A h \in results[q].hits : Open(h))
=============================================================================
