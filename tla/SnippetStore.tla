---------------------------- MODULE SnippetStore ----------------------------
(***************************************************************************)
(* The PostgreSQL half of app/services/snippet_service.py: create_snippet, *)
(* update_snippet and delete_snippet as they run for concurrent API calls, *)
(* each in an SQLAlchemy session of its own, at READ COMMITTED.            *)
(*                                                                         *)
(* An element of Requests is one HTTP call.  Between two awaits of a call  *)
(* any other call may run, so each await of the database is a step.  What  *)
(* a transaction writes stays in its req record until the commit publishes *)
(* it; lock[s] is the row lock an UPDATE of snippets takes and the commit  *)
(* (or the rollback of a closed session) releases.                         *)
(***************************************************************************)
EXTENDS Naturals, Sequences

CONSTANTS Requests,  \* API calls
          Users,     \* authenticated users
          Snippets,  \* primary keys (uuid4) of the table snippets
          ShortIds,  \* strings generate_short_id(8) can draw
          Titles,    \* non-empty titles
          Contents,  \* non-empty contents
          NULL       \* JSON null, SQL NULL, "nobody"

ASSUME NullAssumption ==
    NULL \notin Requests \cup Users \cup ShortIds \cup Titles \cup Contents

VARIABLES row,       \* row[s]: the committed row of the table snippets
          versions,  \* versions[s]: the committed rows of snippet_versions
          lock,      \* lock[s]: the call whose open transaction updated the row
          jobs,      \* jobs enqueued for the workers: <<type, snippet>>
          req        \* req[r]: the local state of call r

vars == <<row, versions, lock, jobs, req>>
-----------------------------------------------------------------------------
Visibility == {"public", "private"}
Version == [content : Contents \cup {NULL}, visibility : Visibility]

(* Snippet.version_counter is the number of the latest version. *)
Row == [status  : {"absent", "live", "deleted"},
        short   : ShortIds \cup {NULL},
        author  : Users \cup {NULL},
        title   : Titles \cup {NULL},
        counter : Nat]

NoRow == [status |-> "absent", short |-> NULL, author |-> NULL,
          title |-> NULL, counter |-> 0]

MaxTries == 2   \* for _ in range(2)

(* What the client is told: a success, the codes of AppError, the 503 of   *)
(* db_exception_handler, the 500 of unhandled_error_handler; "lost" when   *)
(* the serving process died.                                               *)
Answer == {"none", "ok", "not_found", "short_id_failed", "unavailable",
           "internal", "lost"}

Request == [pc       : {"idle", "insert", "inserted", "loaded", "locked",
                        "committed", "done"},
            op       : {"none", "create", "update", "delete"},
            user     : Users \cup {NULL},
            snip     : Snippets \cup {NULL},
            short    : ShortIds \cup {NULL},
            title    : Titles \cup {NULL},
            content  : Contents \cup {NULL},
            vis      : Visibility,
            seen     : Titles \cup {NULL},   \* title when the ORM loaded the row
            edits    : BOOLEAN,              \* content_changed or visibility_changed
            next     : Nat,                  \* next_version, 0 before RETURNING
            tries    : 0..MaxTries,
            answer   : Answer]

Idle == [pc |-> "idle", op |-> "none", user |-> NULL, snip |-> NULL,
         short |-> NULL, title |-> NULL, content |-> NULL, vis |-> "public",
         seen |-> NULL, edits |-> FALSE, next |-> 0, tries |-> 0,
         answer |-> "none"]

Init ==
    /\ row = [s \in Snippets |-> NoRow]
    /\ versions = [s \in Snippets |-> << >>]
    /\ lock = [s \in Snippets |-> NULL]
    /\ jobs = {}
    /\ req = [r \in Requests |-> Idle]
-----------------------------------------------------------------------------
Set(r, rec) == req' = [req EXCEPT ![r] = rec]

Finish(r, a) == Set(r, [req[r] EXCEPT !.pc = "done", !.answer = a])

(* Mutant: ownership is not part of the lookup. *)
VisibleToAll(s, u) == row[s].status = "live"

(* The rows the SELECTs of update_snippet and delete_snippet can return:   *)
(* the soft-delete listener hides deleted rows, the WHERE clause the rows  *)
(* of other authors.                                                       *)
Visible(s, u) == row[s].status = "live" /\ row[s].author = u

Present(s) == row[s].status # "absent"

(* Mutant: no transaction waits for another one's row lock. *)
NoRowLock(s) == TRUE

(* PostgreSQL grants the row lock when no open transaction holds it. *)
Unlocked(s) == lock[s] = NULL

(* Mutant: the session of a failed call stays open with its transaction. *)
LeakLocks(r) == lock

(* Closing the session of r ends its transaction and frees what it locked. *)
Unlock(r) == [s \in Snippets |-> IF lock[s] = r THEN NULL ELSE lock[s]]
-----------------------------------------------------------------------------
(* create_snippet *)

(* The body of the POST has been validated: title and content are texts. *)
StartCreate(r) ==
    /\ req[r].pc = "idle"
    /\ \E u \in Users, t \in Titles, c \in Contents, v \in Visibility :
          Set(r, [Idle EXCEPT !.pc = "insert", !.op = "create", !.user = u,
                              !.title = t, !.content = c, !.vis = v])
    /\ UNCHANGED <<row, versions, lock, jobs>>

(* Mutant: uniqueness is looked up, not enforced by the index. *)
UnusedAmongCommitted(i) == \A p \in Snippets : row[p].short # i

(* The unique index on short_id admits i.  An INSERT of a value another    *)
(* open transaction has inserted waits for that transaction.  Deleted rows *)
(* keep their short_id.                                                    *)
ShortIdFree(i) ==
    /\ \A p \in Snippets : row[p].short # i
    /\ \A o \in Requests : req[o].pc = "inserted" => req[o].short # i

(* flush() of a row with a fresh uuid and a short_id nobody has.            *)
InsertSnippet(r) ==
    /\ req[r].pc = "insert"
    /\ \E s \in Snippets, i \in ShortIds :
          /\ ~ Present(s)
          /\ \A o \in Requests : req[o].pc = "inserted" => req[o].snip # s
          /\ ShortIdFree(i)
          /\ Set(r, [req[r] EXCEPT !.pc = "inserted", !.snip = s, !.short = i])
    /\ UNCHANGED <<row, versions, lock, jobs>>

(* The loop is over: SHORT_ID_GENERATION_FAILED. *)
GivesUp(n) == n = MaxTries

(* IntegrityError on short_id: rollback and draw again, or give up. *)
ShortIdCollision(r) ==
    /\ req[r].pc = "insert"
    /\ \E p \in Snippets : Present(p)
    /\ LET n == req[r].tries + 1 IN
       IF GivesUp(n)
       THEN Set(r, [req[r] EXCEPT !.pc = "done", !.tries = n,
                                  !.answer = "short_id_failed"])
       ELSE Set(r, [req[r] EXCEPT !.tries = n])
    /\ UNCHANGED <<row, versions, lock, jobs>>

(* The commit publishes the snippet (version_counter defaults to 1) and    *)
(* its version 1 together.                                                 *)
CommitCreate(r) ==
    /\ req[r].pc = "inserted"
    /\ LET s == req[r].snip IN
       /\ row' = [row EXCEPT ![s] =
                    [status |-> "live", short |-> req[r].short,
                     author |-> req[r].user, title |-> req[r].title,
                     counter |-> 1]]
       /\ versions' = [versions EXCEPT ![s] =
                         <<[content |-> req[r].content,
                            visibility |-> req[r].vis]>>]
    /\ Set(r, [req[r] EXCEPT !.pc = "committed"])
    /\ UNCHANGED <<lock, jobs>>
-----------------------------------------------------------------------------
(* update_snippet *)

(* SELECT the snippet and its latest version.  The body is validated by    *)
(* SnippetUpdate: both fields are required and both may be null; it has no *)
(* visibility.  The second SELECT reads the version the first one named:   *)
(* versions never change, so the two are one step.                         *)
LoadForUpdate(r) ==
    /\ req[r].pc = "idle"
    /\ \E u \in Users, s \in Snippets, t \in Titles \cup {NULL},
          c \in Contents \cup {NULL} :
          LET call == [Idle EXCEPT !.op = "update", !.user = u, !.snip = s,
                                   !.title = t, !.content = c]
          IN IF Visible(s, u)
             THEN Set(r, [call EXCEPT
                            !.pc = "loaded", !.seen = row[s].title,
                            !.edits = c # versions[s][row[s].counter].content])
             ELSE Set(r, [call EXCEPT !.pc = "done", !.answer = "not_found"])
    /\ UNCHANGED <<row, versions, lock, jobs>>

(* The unit of work writes the title only if it differs from the value it  *)
(* loaded.                                                                 *)
TitleDirty(r) == req[r].title # req[r].seen

(* The first UPDATE of the transaction takes the row lock.  The counter it *)
(* increments is the committed one at that time, not the one it loaded,    *)
(* and the UPDATE has no soft-delete filter.                               *)
LockForUpdate(r) ==
    /\ req[r].pc = "loaded" /\ req[r].op = "update"
    /\ TitleDirty(r) \/ req[r].edits
    /\ req[r].title # NULL
    /\ LET s == req[r].snip IN
       /\ Unlocked(s)
       /\ lock' = [lock EXCEPT ![s] = r]
       /\ Set(r, [req[r] EXCEPT
                    !.pc = "locked",
                    !.next = IF req[r].edits THEN row[s].counter + 1 ELSE 0])
    /\ UNCHANGED <<row, versions, jobs>>

(* A null title breaks the NOT NULL constraint: IntegrityError is a        *)
(* DBAPIError, and the session is closed without a commit.                 *)
RejectNullTitle(r) ==
    /\ req[r].pc = "loaded" /\ req[r].op = "update"
    /\ req[r].title = NULL
    /\ Finish(r, "unavailable")
    /\ UNCHANGED <<row, versions, lock, jobs>>

(* Nothing to write: the commit only ends a read-only transaction. *)
CommitUnchanged(r) ==
    /\ req[r].pc = "loaded" /\ req[r].op = "update"
    /\ ~ TitleDirty(r) /\ ~ req[r].edits
    /\ Set(r, [req[r] EXCEPT !.pc = "committed"])
    /\ UNCHANGED <<row, versions, lock, jobs>>

(* Mutant: the latest version is edited in place. *)
Overwrite(s, v) == [versions EXCEPT ![s][Len(versions[s])] = v]

(* INSERT INTO snippet_versions. *)
AddVersion(s, v) == [versions EXCEPT ![s] = Append(@, v)]

(* create_new_version passes visibility=None, which the ORM leaves out of  *)
(* the INSERT: the column default PUBLIC applies.                          *)
CommitUpdate(r) ==
    /\ req[r].pc = "locked" /\ req[r].op = "update"
    /\ LET s == req[r].snip
           q == req[r]
       IN /\ row' = [row EXCEPT
                       ![s].title = IF TitleDirty(r) THEN q.title ELSE @,
                       ![s].counter = IF q.edits THEN q.next ELSE @]
          /\ versions' = IF q.edits
                         THEN AddVersion(s, [content |-> q.content,
                                             visibility |-> "public"])
                         ELSE versions
          /\ lock' = [lock EXCEPT ![s] = NULL]
    /\ Set(r, [req[r] EXCEPT !.pc = "committed"])
    /\ UNCHANGED jobs

(* refresh() and the response.  The refresh is a SELECT, so the soft-delete *)
(* listener applies: of a row deleted meanwhile it finds nothing and raises *)
(* (InvalidRequestError, a 500), after the commit.  A version without       *)
(* content does not fit SnippetVersionResponse: the ValidationError is      *)
(* swallowed by the except that guards the cache write and "return resp"    *)
(* raises.                                                                  *)
RespondUpdate(r) ==
    /\ req[r].pc = "committed" /\ req[r].op = "update"
    /\ LET s == req[r].snip
           n == IF req[r].edits THEN req[r].next ELSE row[s].counter
       IN Finish(r, IF row[s].status = "live" /\ versions[s][n].content # NULL
                    THEN "ok" ELSE "internal")
    /\ UNCHANGED <<row, versions, lock, jobs>>
-----------------------------------------------------------------------------
(* delete_snippet *)

LoadForDelete(r) ==
    /\ req[r].pc = "idle"
    /\ \E u \in Users, s \in Snippets :
          LET call == [Idle EXCEPT !.op = "delete", !.user = u, !.snip = s]
          IN Set(r, IF Visible(s, u)
                    THEN [call EXCEPT !.pc = "loaded"]
                    ELSE [call EXCEPT !.pc = "done", !.answer = "not_found"])
    /\ UNCHANGED <<row, versions, lock, jobs>>

(* _soft_delete_before_flush turns the DELETE into an UPDATE of deleted_at. *)
LockForDelete(r) ==
    /\ req[r].pc = "loaded" /\ req[r].op = "delete"
    /\ Unlocked(req[r].snip)
    /\ lock' = [lock EXCEPT ![req[r].snip] = r]
    /\ Set(r, [req[r] EXCEPT !.pc = "locked"])
    /\ UNCHANGED <<row, versions, jobs>>

CommitDelete(r) ==
    /\ req[r].pc = "locked" /\ req[r].op = "delete"
    /\ row' = [row EXCEPT ![req[r].snip].status = "deleted"]
    /\ lock' = [lock EXCEPT ![req[r].snip] = NULL]
    /\ Set(r, [req[r] EXCEPT !.pc = "committed"])
    /\ UNCHANGED <<versions, jobs>>
-----------------------------------------------------------------------------
(* Mutant: the job is pushed inside the transaction. *)
BeforeCommit(r) == req[r].pc \in {"inserted", "locked"}

(* Where the await of enqueue() stands. *)
AfterCommit(r) == req[r].pc = "committed"

JobOf(op) == IF op = "create" THEN "index_snippet" ELSE "remove_snippet_index"

(* The await of enqueue() after the commit of a create or a delete: the    *)
(* job is pushed and the call succeeds, or Redis fails, with or without    *)
(* having pushed the job (its reply is lost), and the client gets an error *)
(* for a change that is durable.                                           *)
EnqueueJob(r) ==
    /\ AfterCommit(r) /\ req[r].op \in {"create", "delete"}
    /\ \/ /\ jobs' = jobs \cup {<<JobOf(req[r].op), req[r].snip>>}
          /\ Finish(r, "ok") \/ Finish(r, "internal")
       \/ /\ Finish(r, "internal")
          /\ UNCHANGED jobs
    /\ UNCHANGED <<row, versions, lock>>

(* A database call of r fails (statement timeout, lost connection): the    *)
(* open transaction is rolled back and the client gets 503.  create_snippet *)
(* and update_snippet refresh the row after their commit, so the error may *)
(* come when the change is already durable.                                *)
DbError(r) ==
    /\ \/ req[r].pc \in {"insert", "inserted", "loaded", "locked"}
       \/ req[r].pc = "committed" /\ req[r].op # "delete"
    /\ Finish(r, "unavailable")
    /\ lock' = Unlock(r)
    /\ UNCHANGED <<row, versions, jobs>>

(* The API process dies; PostgreSQL rolls the open transaction back. *)
Crash(r) ==
    /\ req[r].pc \notin {"idle", "done"}
    /\ Finish(r, "lost")
    /\ lock' = Unlock(r)
    /\ UNCHANGED <<row, versions, jobs>>

(* The steps the event loop and PostgreSQL owe a call once it has begun. *)
Progress(r) ==
    \/ InsertSnippet(r) \/ ShortIdCollision(r) \/ CommitCreate(r)
    \/ LockForUpdate(r) \/ RejectNullTitle(r) \/ CommitUnchanged(r)
    \/ CommitUpdate(r) \/ RespondUpdate(r)
    \/ LockForDelete(r) \/ CommitDelete(r)
    \/ EnqueueJob(r)

(* No call is in progress and none will come. *)
Quiet == (\A r \in Requests : req[r].pc = "done") /\ UNCHANGED vars

Next ==
    \/ \E r \in Requests :
          \/ StartCreate(r) \/ LoadForUpdate(r) \/ LoadForDelete(r)
          \/ Progress(r) \/ DbError(r) \/ Crash(r)
    \/ Quiet

Spec == Init /\ [][Next]_vars

(* A coroutine that can run is run, and a row lock is released by a call   *)
(* that is itself served, so each call's own steps are weakly fair; errors *)
(* and crashes are not.                                                    *)
FairSpec == Spec /\ \A r \in Requests : WF_vars(Progress(r))
-----------------------------------------------------------------------------
TypeOK ==
    /\ row \in [Snippets -> Row]
    /\ versions \in [Snippets -> Seq(Version)]
    /\ lock \in [Snippets -> Requests \cup {NULL}]
    /\ jobs \subseteq {"index_snippet", "remove_snippet_index"} \X Snippets
    /\ req \in [Requests -> Request]

(* version_counter always names the last row of snippet_versions and the   *)
(* versions are numbered without gap from 1, however edits, deletes,       *)
(* rollbacks and crashes interleave: update_snippet and delete_snippet     *)
(* select "version == version_counter" and rely on finding it.             *)
VersionsMatchCounter ==
    \A s \in Snippets :
        /\ Len(versions[s]) = row[s].counter
        /\ Present(s) <=> row[s].counter > 0

(* Two snippets, deleted ones included, never share a short_id: a share    *)
(* URL and a cache key name one snippet for ever.                          *)
ShortIdsUnique ==
    \A s, p \in Snippets :
        Present(s) /\ Present(p) /\ row[s].short = row[p].short => s = p

(* The calls whose new version is committed. *)
Edited(r) == req[r].op = "update" /\ req[r].edits /\ req[r].next > 0
             /\ (req[r].pc = "committed" \/ req[r].answer = "ok")

(* The version number update_snippet reports holds the text that call      *)
(* sent, for ever, although other edits committed between its load and its *)
(* UPDATE ... RETURNING.                                                   *)
ReportedVersionHolds ==
    \A r \in Requests : Edited(r) =>
        /\ req[r].next \in DOMAIN versions[req[r].snip]
        /\ versions[req[r].snip][req[r].next].content = req[r].content

(* "Locking matters so two edits don't both create version 2"              *)
(* (docs/v0/api_contract.md).                                              *)
NoSharedVersion ==
    \A r, o \in Requests :
        /\ Edited(r) /\ Edited(o)
        /\ req[r].snip = req[o].snip /\ req[r].next = req[o].next
        => r = o

(* A row stays locked only by a transaction that is about to commit: no    *)
(* error path and no crash leaves a lock behind.                           *)
LocksAreLive ==
    \A s \in Snippets : lock[s] # NULL =>
        req[lock[s]].pc = "locked" /\ req[lock[s]].snip = s

(* Workers only ever see jobs about durable changes, and a client that was *)
(* told "ok" has its job in the queue.                                     *)
JobsMatchRows ==
    /\ \A s \in Snippets :
          /\ <<"index_snippet", s>> \in jobs => Present(s)
          /\ <<"remove_snippet_index", s>> \in jobs => row[s].status = "deleted"
    /\ \A r \in Requests :
          req[r].answer = "ok" /\ req[r].op \in {"create", "delete"} =>
              <<JobOf(req[r].op), req[r].snip>> \in jobs

(* A committed row or version changes only by a call of its author.        *)
OnlyAuthorWrites ==
    [][\A s \in Snippets :
          Present(s) /\ (row'[s] # row[s] \/ versions'[s] # versions[s]) =>
              \E r \in Requests :
                  /\ req'[r] # req[r]
                  /\ req[r].snip = s /\ req[r].user = row[s].author]_vars

(* The store implements the log of immutable versions. *)
VL == INSTANCE VersionLog WITH status <- [s \in Snippets |-> row[s].status],
                               log <- versions
ImplementsVersionLog == VL!Spec

(* Every call is answered (or dies with its process): no call waits for a  *)
(* row lock for ever.                                                      *)
EveryCallEnds ==
    \A r \in Requests : req[r].pc # "idle" ~> req[r].pc = "done"
-----------------------------------------------------------------------------
(* What makes the invariants above inductive. *)

(* A call is unanswered until it ends. *)
UnansweredUntilDone ==
    \A r \in Requests : req[r].pc # "done" => req[r].answer = "none"

(* Rows never go away, so what a call has loaded or written is there. *)
RowsOfCallsExist ==
    \A r \in Requests : req[r].pc \in {"loaded", "locked", "committed"} =>
        req[r].snip \in Snippets /\ Present(req[r].snip)

(* Only creates draw a short_id, and a call about to draw has a draw left. *)
DrawsLeft ==
    \A r \in Requests :
        /\ req[r].pc \in {"insert", "inserted"} => req[r].op = "create"
        /\ req[r].pc = "insert" => req[r].tries < MaxTries

(* Flushed INSERTs own their primary key and their short_id. *)
InsertsAreFresh ==
    /\ \A r \in Requests : req[r].pc = "inserted" =>
          /\ req[r].snip \in Snippets /\ ~ Present(req[r].snip)
          /\ \A s \in Snippets : row[s].short # req[r].short
    /\ \A r, o \in Requests :
          /\ req[r].pc = "inserted" /\ req[o].pc = "inserted"
          /\ req[r].snip = req[o].snip \/ req[r].short = req[o].short
          => r = o

(* A transaction past its UPDATE holds the row lock, and the number it was *)
(* returned is still the successor of the committed counter.               *)
LockedCallsOwnNext ==
    \A r \in Requests : req[r].pc = "locked" =>
        /\ lock[req[r].snip] = r
        /\ req[r].op = "update" /\ req[r].edits =>
              req[r].next = row[req[r].snip].counter + 1
        /\ req[r].op \in {"update", "delete"}

(* A committed delete is not undone: no step revives a snippet. *)
DeletesHold ==
    \A r \in Requests : req[r].pc = "committed" =>
        /\ req[r].op \in {"create", "update", "delete"}
        /\ req[r].op = "delete" => row[req[r].snip].status = "deleted"

EditedRowsExist == \A r \in Requests : Edited(r) => req[r].snip \in Snippets

IInv ==
    /\ TypeOK
    /\ VersionsMatchCounter
    /\ ShortIdsUnique
    /\ ReportedVersionHolds
    /\ NoSharedVersion
    /\ LocksAreLive
    /\ JobsMatchRows
    /\ UnansweredUntilDone
    /\ DrawsLeft
    /\ RowsOfCallsExist
    /\ InsertsAreFresh
    /\ LockedCallsOwnNext
    /\ DeletesHold
    /\ EditedRowsExist
-----------------------------------------------------------------------------
(* "Updates snippet title when provided" (README.md:185): an update that   *)
(* commits a new version leaves the title it provided beside it.  The ORM  *)
(* skips the write of a title equal to the one it loaded, even if another  *)
(* update has changed it since, so title and latest version may come from  *)
(* two different updates.                                                  *)
TitleAsProvided ==
    [][\A r \in Requests :
          req[r].op = "update" /\ req[r].edits /\ req[r].pc # "committed"
            /\ req'[r].pc = "committed" =>
              row'[req[r].snip].title = req[r].title]_vars
=============================================================================
