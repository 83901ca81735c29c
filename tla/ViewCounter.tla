----------------------------- MODULE ViewCounter -----------------------------
(***************************************************************************)
(* View counts: a search INCRs the Redis key snippet:views:<short_id> of   *)
(* every hit, and the periodic job flush_views_to_db adds the counters to  *)
(* snippets.views and deletes the keys.  The job reads, commits and        *)
(* deletes in three places, so views may arrive in between, it may fail in *)
(* between and be retried, and two runs of it may overlap.                 *)
(***************************************************************************)
EXTENDS Integers

CONSTANTS Snippets,
          Flushers,    \* workers that may run the job
          MaxViews,    \* bound: MaxViews[s] views of snippet s
          MaxFailures, \* bound: runs that fail
          NULL

ASSUME CounterAssumption ==
    /\ MaxViews \in [Snippets -> Nat] /\ MaxFailures \in Nat
    /\ NULL \notin Nat

VARIABLES buffer,   \* buffer[s]: the Redis counter, 0 when there is no key
          views,    \* views[s]: the committed column
          live,     \* snippets that are not soft-deleted
          flush,    \* flush[f]: the local state of the job on worker f
          happened, \* happened[s]: views so far                      (history)
          late,     \* late[s]: those between a GET of s and the DELETE  "
          failed,   \* runs that failed                                  "
          recounts, \* ... and had committed                             "
          overlap   \* whether two runs have overlapped                  "

vars == <<buffer, views, live, flush, happened, late, failed, recounts, overlap>>
-----------------------------------------------------------------------------
(* keys: what KEYS returned; todo: those not yet read; got[s]: the counter *)
(* read; sum[s]: the value the ORM holds for views, NULL without a row.    *)
Flush == [pc   : {"idle", "read", "delete"},
          keys : SUBSET Snippets,
          todo : SUBSET Snippets,
          got  : [Snippets -> Nat],
          sum  : [Snippets -> Nat \cup {NULL}]]

NoFlush == [pc |-> "idle", keys |-> {}, todo |-> {},
            got |-> [s \in Snippets |-> 0], sum |-> [s \in Snippets |-> NULL]]

Init ==
    /\ buffer = [s \in Snippets |-> 0] /\ views = [s \in Snippets |-> 0]
    /\ live = Snippets
    /\ flush = [f \in Flushers |-> NoFlush]
    /\ happened = [s \in Snippets |-> 0] /\ late = [s \in Snippets |-> 0]
    /\ failed = 0 /\ recounts = 0
    /\ overlap = FALSE
-----------------------------------------------------------------------------
history == <<happened, late, failed, recounts, overlap>>

Goto(f, rec) == flush' = [flush EXCEPT ![f] = rec]

(* f has read the counter of s and not yet deleted it. *)
HasRead(f, s) == s \in flush[f].keys \ flush[f].todo

(* redis.incr for a hit of search_snippets; a cached result may still list *)
(* a deleted snippet.                                                      *)
View(s) ==
    /\ happened[s] < MaxViews[s]
    /\ buffer' = [buffer EXCEPT ![s] = @ + 1]
    /\ happened' = [happened EXCEPT ![s] = @ + 1]
    /\ late' = IF \E f \in Flushers : HasRead(f, s)
               THEN [late EXCEPT ![s] = @ + 1] ELSE late
    /\ UNCHANGED <<views, live, flush, failed, recounts, overlap>>

SoftDelete(s) ==
    /\ s \in live
    /\ live' = live \ {s}
    /\ UNCHANGED <<buffer, views, flush, history>>

(* redis.keys.  A run that finds none has nothing to do but reschedule. *)
Keys(f) ==
    /\ flush[f].pc = "idle"
    /\ LET ks == {s \in Snippets : buffer[s] > 0}
       IN IF ks = {} THEN UNCHANGED <<flush, overlap>>
          ELSE /\ Goto(f, [NoFlush EXCEPT !.pc = "read", !.keys = ks,
                                          !.todo = ks])
               /\ overlap' = (overlap \/ \E g \in Flushers : flush[g].pc # "idle")
    /\ UNCHANGED <<buffer, views, live, happened, late, failed, recounts>>

(* GET and SELECT of one key.  A key that is gone is skipped; a deleted    *)
(* snippet is not found.  `views += count` is computed here, on the value  *)
(* the SELECT saw.  A view between the two is one after the GET; only a    *)
(* run that overlaps could commit in between, and of such runs no count is *)
(* required.                                                               *)
Read(f) ==
    /\ flush[f].pc = "read"
    /\ \E s \in flush[f].todo :
          Goto(f, [flush[f] EXCEPT
                     !.todo = @ \ {s}, !.got[s] = buffer[s],
                     !.sum[s] = IF buffer[s] > 0 /\ s \in live
                                THEN views[s] + buffer[s] ELSE NULL])
    /\ UNCHANGED <<buffer, views, live, history>>

(* The UPDATEs set absolute values, by primary key, so also on a row that  *)
(* was deleted meanwhile; without a row found there is no commit.  (Row    *)
(* locks only fix the order of two commits.)                               *)
Commit(f) ==
    /\ flush[f].pc = "read" /\ flush[f].todo = {}
    /\ views' = [s \in Snippets |-> IF flush[f].sum[s] = NULL THEN views[s]
                                    ELSE flush[f].sum[s]]
    /\ Goto(f, [flush[f] EXCEPT !.pc = "delete"])
    /\ UNCHANGED <<buffer, live, history>>

(* Mutant: the keys that exist now, not those that were read. *)
PresentKeys(f) == {s \in Snippets : buffer[s] > 0}

(* Mutant: a key that has changed since it was read is kept. *)
UnchangedKeys(f) == {s \in flush[f].keys : buffer[s] = flush[f].got[s]}

(* Mutant: the keys of deleted snippets are kept. *)
FoundKeys(f) == {s \in flush[f].keys : flush[f].sum[s] # NULL}

(* All keys KEYS returned. *)
Dropped(f) == flush[f].keys

(* Mutant: what was read is subtracted (DECRBY). *)
Decrement(f, s) == buffer[s] - flush[f].got[s]

(* DELETE, whatever the counter is by now. *)
Remains(f, s) == 0

Delete(f) ==
    /\ flush[f].pc = "delete"
    /\ buffer' = [s \in Snippets |-> IF s \in Dropped(f) THEN Remains(f, s)
                                     ELSE buffer[s]]
    /\ Goto(f, NoFlush)
    /\ UNCHANGED <<views, live, history>>

(* An await raises or the worker dies: the transaction is rolled back, the *)
(* job is run again later (JobQueue).                                      *)
Fail(f) ==
    /\ flush[f].pc # "idle" /\ failed < MaxFailures
    /\ Goto(f, NoFlush)
    /\ failed' = failed + 1
    /\ recounts' = IF flush[f].pc = "delete" THEN recounts + 1 ELSE recounts
    /\ UNCHANGED <<buffer, views, live, happened, late, overlap>>

Step(f) == Keys(f) \/ Read(f) \/ Commit(f) \/ Delete(f)

Next ==
    \/ \E s \in Snippets : View(s) \/ SoftDelete(s)
    \/ \E f \in Flushers : Step(f) \/ Fail(f)

Spec == Init /\ [][Next]_vars

(* The periodic chain is alive and its jobs end (JobQueue). *)
FairSpec == Spec /\ \A f \in Flushers : WF_vars(Step(f))
-----------------------------------------------------------------------------
TypeOK ==
    /\ buffer \in [Snippets -> Nat]
    /\ views \in [Snippets -> Nat]
    /\ live \subseteq Snippets
    /\ flush \in [Flushers -> Flush]
    /\ happened \in [Snippets -> Nat]
    /\ late \in [Snippets -> Nat]
    /\ failed \in 0..MaxFailures /\ recounts \in 0..failed /\ overlap \in BOOLEAN

(* A view of a snippet that is not deleted is lost only if it came between *)
(* a run's GET and its DELETE: no failure and no retry loses any.          *)
CountedUnlessLate ==
    ~ overlap => \A s \in live : happened[s] <= views[s] + buffer[s] + late[s]

(* A view is counted once, and once more for each run that failed after    *)
(* its commit: the retry cannot tell that the counters are in the table.   *)
CountedOncePerTry ==
    ~ overlap => \A s \in Snippets :
        \/ \E f \in Flushers : flush[f].pc = "delete"
        \/ views[s] + buffer[s] <= happened[s] * (1 + recounts)

(* The inductive invariant behind the two bounds. *)

Busy == {f \in Flushers : flush[f].pc # "idle"}

OneRun == ~ overlap => \A f, g \in Busy : f = g

(* A run knows counters of the keys it has read, and of nothing else. *)
RunsInStep ==
    \A f \in Flushers :
        /\ flush[f].todo \subseteq flush[f].keys
        /\ flush[f].pc = "idle" => flush[f].keys = {}
        /\ flush[f].pc = "delete" => flush[f].todo = {}
        /\ \A s \in Snippets : ~ HasRead(f, s) =>
              flush[f].got[s] = 0 /\ flush[f].sum[s] = NULL

(* What the views of s are, or will be when f commits. *)
Written(f, s) ==
    IF flush[f].sum[s] = NULL THEN views[s] ELSE flush[f].sum[s]

(* Alone, a run stays true to the table and to the buffer: the sum it      *)
(* holds is that of the two, and without the late views nothing is missing *)
(* in it.                                                                  *)
RunsAreTrue ==
    ~ overlap => \A f \in Flushers, s \in Snippets :
        /\ flush[f].got[s] <= buffer[s]
        /\ flush[f].sum[s] # NULL =>
              flush[f].sum[s] = IF flush[f].pc = "read"
                                THEN views[s] + flush[f].got[s] ELSE views[s]
        /\ HasRead(f, s) /\ s \in live =>
              happened[s] <= Written(f, s) + late[s]

(* What is in the table or still to be added to it. *)
NothingTwice ==
    /\ \A s \in Snippets : buffer[s] <= happened[s]
    /\ ~ overlap => \A s \in Snippets :
          /\ \/ \E f \in Flushers : flush[f].pc = "delete"
             \/ views[s] + buffer[s] <= happened[s] * (1 + recounts)
          /\ \A f \in Flushers : flush[f].pc = "delete" =>
                views[s] + buffer[s] - flush[f].got[s]
                  <= happened[s] * (1 + recounts)

IInv ==
    /\ TypeOK /\ OneRun /\ RunsInStep /\ RunsAreTrue
    /\ CountedUnlessLate /\ NothingTwice

(* When views stop the buffer empties, and stays empty: deleted snippets,  *)
(* failed and overlapping runs leave no key behind.                        *)
BufferDrains == <>[](\A s \in Snippets : buffer[s] = 0)
=============================================================================
