------------------------- MODULE SnippetStoreProofs -------------------------
(* Theorems about SnippetStore, for any sets of calls, users, snippets,     *)
(* short ids and texts.                                                     *)
EXTENDS SnippetStore, TLAPS

LEMMA IdleIsRequest == Idle \in Request
BY DEF Idle, Request, MaxTries, Answer, Visibility

LEMMA InitIInv == Init => IInv
<1> SUFFICES ASSUME Init PROVE IInv
  OBVIOUS
<1>1. TypeOK
  BY IdleIsRequest DEF Init, TypeOK, NoRow, Row
<1>2. VersionsMatchCounter /\ ShortIdsUnique
  BY DEF Init, VersionsMatchCounter, ShortIdsUnique, Present, NoRow
<1>3. QED
  BY <1>1, <1>2 DEF Init, IInv, ReportedVersionHolds, NoSharedVersion,
     LocksAreLive, JobsMatchRows, UnansweredUntilDone, DrawsLeft,
     RowsOfCallsExist, InsertsAreFresh, LockedCallsOwnNext, DeletesHold,
     EditedRowsExist, Edited, Idle
-----------------------------------------------------------------------------
(* What a step does to the record of its call and to those of the others.  *)

Others(r) == \A o \in Requests \ {r} : req'[o] = req[o]

(* The fields the invariants speak of. *)
SameCall(r) ==
    /\ req'[r].op = req[r].op
    /\ req'[r].snip = req[r].snip
    /\ req'[r].short = req[r].short
    /\ req'[r].content = req[r].content
    /\ req'[r].edits = req[r].edits
    /\ req'[r].next = req[r].next

LEMMA SetEffect ==
  ASSUME req \in [Requests -> Request],
         NEW r \in Requests, NEW rec \in Request, Set(r, rec)
  PROVE  /\ req' \in [Requests -> Request]
         /\ req'[r] = rec
         /\ Others(r)
BY DEF Set, Others

(* Ending a call writes pc and answer. *)
LEMMA FinishEffect ==
  ASSUME TypeOK, NEW r \in Requests, NEW a \in Answer, Finish(r, a)
  PROVE  /\ req' \in [Requests -> Request]
         /\ Others(r) /\ SameCall(r)
         /\ req'[r].pc = "done" /\ req'[r].answer = a
<1>1. PICK q \in Request : q = req[r]
  BY DEF TypeOK
<1> DEFINE rec == [q EXCEPT !.pc = "done", !.answer = a]
<1>2. rec \in Request
  BY DEF Request
<1>3. /\ rec.pc = "done" /\ rec.answer = a
      /\ rec.op = q.op /\ rec.snip = q.snip /\ rec.short = q.short
      /\ rec.content = q.content /\ rec.edits = q.edits /\ rec.next = q.next
  BY DEF Request
<1>4. Set(r, rec)
  BY <1>1 DEF Finish
<1> HIDE DEF rec
<1>5. QED
  BY <1>1, <1>2, <1>3, <1>4, SetEffect DEF TypeOK, SameCall

(* Moving on writes pc only. *)
LEMMA MoveEffect ==
  ASSUME TypeOK, NEW r \in Requests, NEW p \in {"locked", "committed"},
         Set(r, [req[r] EXCEPT !.pc = p])
  PROVE  /\ req' \in [Requests -> Request]
         /\ Others(r) /\ SameCall(r)
         /\ req'[r].pc = p /\ req'[r].answer = req[r].answer
<1>1. PICK q \in Request : q = req[r]
  BY DEF TypeOK
<1> DEFINE rec == [q EXCEPT !.pc = p]
<1>2. rec \in Request
  BY DEF Request
<1>3. /\ rec.pc = p /\ rec.answer = q.answer
      /\ rec.op = q.op /\ rec.snip = q.snip /\ rec.short = q.short
      /\ rec.content = q.content /\ rec.edits = q.edits /\ rec.next = q.next
  BY DEF Request
<1>4. Set(r, rec)
  BY <1>1
<1> HIDE DEF rec
<1>5. QED
  BY <1>1, <1>2, <1>3, <1>4, SetEffect DEF TypeOK, SameCall
-----------------------------------------------------------------------------
(* Steps that leave the tables alone. *)

(* A call arrives. *)
LEMMA ArrivalKeeps ==
  ASSUME IInv, NEW r \in Requests, NEW rec \in Request, Set(r, rec),
         req[r].pc = "idle", UNCHANGED <<row, versions, lock, jobs>>,
         rec.pc \in {"insert", "loaded", "done"},
         rec.pc = "insert" => rec.tries = 0 /\ rec.op = "create",
         rec.pc = "loaded" => rec.snip \in Snippets /\ Present(rec.snip),
         rec.answer = IF rec.pc = "done" THEN "not_found" ELSE "none"
  PROVE  IInv'
<1>1. /\ req' \in [Requests -> Request]
      /\ req'[r] = rec
      /\ Others(r)
  BY SetEffect DEF IInv, TypeOK
<1>2. TypeOK'
  BY <1>1 DEF IInv, TypeOK
<1>3. /\ ~ Edited(r)'
      /\ \A o \in Requests \ {r} : Edited(o)' = Edited(o)
  BY <1>1 DEF Others, Edited
<1>4. VersionsMatchCounter' /\ ShortIdsUnique'
  BY DEF IInv, VersionsMatchCounter, ShortIdsUnique, Present
<1>5. ReportedVersionHolds' /\ NoSharedVersion' /\ EditedRowsExist'
  BY <1>1, <1>3
  DEF IInv, ReportedVersionHolds, NoSharedVersion, EditedRowsExist, Others
<1>6. LocksAreLive'
  <2>1. ASSUME NEW s \in Snippets, lock[s] # NULL
        PROVE  lock[s] \in Requests \ {r}
    BY <2>1 DEF IInv, TypeOK, LocksAreLive
  <2>2. QED
    BY <1>1, <2>1 DEF IInv, LocksAreLive, Others
<1>7. JobsMatchRows'
  BY <1>1 DEF IInv, JobsMatchRows, Others, Present
<1>8. UnansweredUntilDone' /\ DrawsLeft' /\ RowsOfCallsExist'
  BY <1>1
  DEF IInv, UnansweredUntilDone, DrawsLeft, RowsOfCallsExist, Others, Present,
      MaxTries
<1>9. InsertsAreFresh' /\ LockedCallsOwnNext' /\ DeletesHold'
  BY <1>1
  DEF IInv, InsertsAreFresh, LockedCallsOwnNext, DeletesHold, Others, Present
<1>10. QED
  BY <1>2, <1>4, <1>5, <1>6, <1>7, <1>8, <1>9 DEF IInv

(* A call ends; if its transaction is still open, its lock goes with it. *)
LEMMA FinishKeeps ==
  ASSUME IInv, NEW r \in Requests, NEW a \in Answer, Finish(r, a),
         UNCHANGED <<row, versions>>,
         TypeOK /\ jobs' \subseteq {"index_snippet", "remove_snippet_index"}
                                     \X Snippets,
         lock' = Unlock(r) \/ (UNCHANGED lock /\ req[r].pc # "locked"),
         a = "ok" => req[r].pc = "committed",
         JobsMatchRows'
  PROVE  IInv'
<1>1. /\ req' \in [Requests -> Request]
      /\ Others(r) /\ SameCall(r)
      /\ req'[r].pc = "done" /\ req'[r].answer = a
  BY FinishEffect DEF IInv
<1>2. /\ lock' \in [Snippets -> Requests \cup {NULL}]
      /\ \A s \in Snippets : lock[s] # r => lock'[s] = lock[s]
      /\ \A s \in Snippets : lock'[s] # r
  <2>1. CASE lock' = Unlock(r)
    BY <2>1, NullAssumption DEF TypeOK, Unlock
  <2>2. CASE UNCHANGED lock /\ req[r].pc # "locked"
    BY <2>2, NullAssumption DEF IInv, TypeOK, LocksAreLive
  <2>3. QED
    BY <2>1, <2>2
<1>3. TypeOK'
  BY <1>1, <1>2 DEF TypeOK
<1>4. /\ Edited(r)' => Edited(r)
      /\ \A o \in Requests \ {r} : Edited(o)' = Edited(o)
  BY <1>1 DEF Others, SameCall, Edited
<1>5. VersionsMatchCounter' /\ ShortIdsUnique'
  BY DEF IInv, VersionsMatchCounter, ShortIdsUnique, Present
<1>6. \A o \in Requests : /\ req'[o].snip = req[o].snip
                          /\ req'[o].next = req[o].next
                          /\ req'[o].content = req[o].content
  BY <1>1 DEF Others, SameCall
<1>7. ReportedVersionHolds' /\ NoSharedVersion' /\ EditedRowsExist'
  BY <1>4, <1>6
  DEF IInv, ReportedVersionHolds, NoSharedVersion, EditedRowsExist
<1>8. LocksAreLive'
  <2>1. ASSUME NEW s \in Snippets, lock'[s] # NULL
        PROVE  lock'[s] \in Requests \ {r} /\ lock'[s] = lock[s]
    <3>1. lock[s] # r
      BY <1>2, <2>1, NullAssumption DEF TypeOK, Unlock, IInv, LocksAreLive
    <3>2. QED
      BY <1>2, <2>1, <3>1
  <2>2. QED
    BY <1>1, <2>1 DEF IInv, LocksAreLive, Others
<1>9. UnansweredUntilDone' /\ DrawsLeft' /\ RowsOfCallsExist'
  BY <1>1
  DEF IInv, UnansweredUntilDone, DrawsLeft, RowsOfCallsExist, Others, Present
<1>10. InsertsAreFresh' /\ DeletesHold'
  BY <1>1 DEF IInv, InsertsAreFresh, DeletesHold, Others, Present
<1>11. LockedCallsOwnNext'
  <2>1. ASSUME NEW o \in Requests, req'[o].pc = "locked"
        PROVE  /\ o # r /\ req'[o] = req[o]
               /\ lock[req[o].snip] = o /\ req[o].snip \in Snippets
    BY <1>1, <2>1 DEF IInv, LockedCallsOwnNext, RowsOfCallsExist, Others
  <2>2. QED
    BY <1>2, <2>1 DEF IInv, LockedCallsOwnNext
<1>12. QED
  BY <1>3, <1>5, <1>7, <1>8, <1>9, <1>10, <1>11 DEF IInv
-----------------------------------------------------------------------------
(* Every action preserves the inductive invariant. *)

LEMMA StartCreateKeeps ==
  ASSUME IInv, NEW r \in Requests, StartCreate(r) PROVE IInv'
<1>1. PICK u \in Users, t \in Titles, c \in Contents, v \in Visibility :
        Set(r, [Idle EXCEPT !.pc = "insert", !.op = "create", !.user = u,
                            !.title = t, !.content = c, !.vis = v])
  BY DEF StartCreate
<1>2. PICK q \in Request : q = Idle
  BY IdleIsRequest
<1> DEFINE rec == [q EXCEPT !.pc = "insert", !.op = "create", !.user = u,
                            !.title = t, !.content = c, !.vis = v]
<1>3. rec \in Request
  BY DEF Request
<1>4. /\ rec.pc = "insert" /\ rec.op = "create"
      /\ rec.tries = q.tries /\ rec.answer = q.answer
  BY DEF Request
<1>5. q.tries = 0 /\ q.answer = "none"
  BY <1>2 DEF Idle
<1>6. Set(r, rec)
  BY <1>1, <1>2
<1> HIDE DEF rec
<1>7. QED
  BY <1>3, <1>4, <1>5, <1>6, ArrivalKeeps DEF StartCreate

LEMMA EndedIsRequest ==
  ASSUME NEW k \in Request, NEW a \in Answer
  PROVE  [k EXCEPT !.pc = "done", !.answer = a] \in Request
BY DEF Request

LEMMA LoadedIsRequest ==
  ASSUME NEW k \in Request, NEW old \in Titles \cup {NULL}, NEW e \in BOOLEAN
  PROVE  [k EXCEPT !.pc = "loaded", !.seen = old, !.edits = e] \in Request
BY DEF Request

LEMMA LoadForUpdateKeeps ==
  ASSUME IInv, NEW r \in Requests, LoadForUpdate(r) PROVE IInv'
<1>1. PICK u \in Users, s \in Snippets, t \in Titles \cup {NULL},
           c \in Contents \cup {NULL} :
        LET call == [Idle EXCEPT !.op = "update", !.user = u, !.snip = s,
                                 !.title = t, !.content = c]
        IN IF Visible(s, u)
           THEN Set(r, [call EXCEPT
                          !.pc = "loaded", !.seen = row[s].title,
                          !.edits = c # versions[s][row[s].counter].content])
           ELSE Set(r, [call EXCEPT !.pc = "done", !.answer = "not_found"])
  BY DEF LoadForUpdate
<1>2. PICK q \in Request : q = Idle
  BY IdleIsRequest
<1>3. q.answer = "none"
  BY <1>2 DEF Idle
<1> DEFINE call == [q EXCEPT !.op = "update", !.user = u, !.snip = s,
                             !.title = t, !.content = c]
<1>4. PICK k \in Request : k = call
  BY DEF Request
<1>5. k.snip = s /\ k.answer = "none"
  BY <1>3, <1>4 DEF Request
<1>6. IF Visible(s, u)
      THEN Set(r, [call EXCEPT
                     !.pc = "loaded", !.seen = row[s].title,
                     !.edits = c # versions[s][row[s].counter].content])
      ELSE Set(r, [call EXCEPT !.pc = "done", !.answer = "not_found"])
  BY <1>1, <1>2
<1> HIDE DEF call
<1>7. CASE Visible(s, u)
  <2>1. row[s].title \in Titles \cup {NULL}
    BY DEF IInv, TypeOK, Row
  <2>2. PICK old \in Titles \cup {NULL} : old = row[s].title
    BY <2>1
  <2>3. PICK e \in BOOLEAN : e = (c # versions[s][row[s].counter].content)
    OBVIOUS
  <2> DEFINE rec == [k EXCEPT !.pc = "loaded", !.seen = old, !.edits = e]
  <2>4. rec \in Request
    BY LoadedIsRequest
  <2>5. rec.pc = "loaded" /\ rec.snip = s /\ rec.answer = "none"
    BY <1>5 DEF Request
  <2>6. Set(r, rec)
    BY <1>4, <1>7, <1>6, <2>2, <2>3
  <2> HIDE DEF rec
  <2>7. QED
    BY <1>7, <2>4, <2>5, <2>6, ArrivalKeeps DEF LoadForUpdate, Visible, Present
<1>8. CASE ~ Visible(s, u)
  <2> DEFINE rec == [k EXCEPT !.pc = "done", !.answer = "not_found"]
  <2>1. rec \in Request
    BY EndedIsRequest DEF Answer
  <2>2. rec.pc = "done" /\ rec.answer = "not_found"
    BY DEF Request
  <2>3. Set(r, rec)
    BY <1>4, <1>8, <1>6
  <2> HIDE DEF rec
  <2>4. QED
    BY <2>1, <2>2, <2>3, ArrivalKeeps DEF LoadForUpdate
<1>9. QED
  BY <1>7, <1>8

LEMMA LoadForDeleteKeeps ==
  ASSUME IInv, NEW r \in Requests, LoadForDelete(r) PROVE IInv'
<1>1. PICK u \in Users, s \in Snippets :
        LET call == [Idle EXCEPT !.op = "delete", !.user = u, !.snip = s]
        IN Set(r, IF Visible(s, u)
                  THEN [call EXCEPT !.pc = "loaded"]
                  ELSE [call EXCEPT !.pc = "done", !.answer = "not_found"])
  BY DEF LoadForDelete
<1>2. PICK q \in Request : q = Idle
  BY IdleIsRequest
<1>3. q.answer = "none"
  BY <1>2 DEF Idle
<1> DEFINE call == [q EXCEPT !.op = "delete", !.user = u, !.snip = s]
<1>4. PICK k \in Request : k = call
  BY DEF Request
<1>5. k.snip = s /\ k.answer = "none"
  BY <1>3, <1>4 DEF Request
<1>6. Set(r, IF Visible(s, u)
             THEN [call EXCEPT !.pc = "loaded"]
             ELSE [call EXCEPT !.pc = "done", !.answer = "not_found"])
  BY <1>1, <1>2
<1> HIDE DEF call
<1>7. CASE Visible(s, u)
  <2> DEFINE rec == [k EXCEPT !.pc = "loaded"]
  <2>1. rec \in Request
    BY DEF Request
  <2>2. rec.pc = "loaded" /\ rec.snip = s /\ rec.answer = "none"
    BY <1>5 DEF Request
  <2>3. Set(r, rec)
    BY <1>4, <1>7, <1>6
  <2> HIDE DEF rec
  <2>4. QED
    BY <1>7, <2>1, <2>2, <2>3, ArrivalKeeps DEF LoadForDelete, Visible, Present
<1>8. CASE ~ Visible(s, u)
  <2> DEFINE rec == [k EXCEPT !.pc = "done", !.answer = "not_found"]
  <2>1. rec \in Request
    BY EndedIsRequest DEF Answer
  <2>2. rec.pc = "done" /\ rec.answer = "not_found"
    BY DEF Request
  <2>3. Set(r, rec)
    BY <1>4, <1>8, <1>6
  <2> HIDE DEF rec
  <2>4. QED
    BY <2>1, <2>2, <2>3, ArrivalKeeps DEF LoadForDelete
<1>9. QED
  BY <1>7, <1>8

LEMMA InsertSnippetKeeps ==
  ASSUME IInv, NEW r \in Requests, InsertSnippet(r) PROVE IInv'
<1>1. PICK s \in Snippets, i \in ShortIds :
        /\ ~ Present(s)
        /\ \A o \in Requests : req[o].pc = "inserted" => req[o].snip # s
        /\ ShortIdFree(i)
        /\ Set(r, [req[r] EXCEPT !.pc = "inserted", !.snip = s, !.short = i])
  BY DEF InsertSnippet
<1>2. PICK q \in Request : q = req[r]
  BY DEF IInv, TypeOK
<1>3. q.pc = "insert" /\ q.answer = "none"
  BY <1>2 DEF InsertSnippet, IInv, UnansweredUntilDone
<1> DEFINE rec == [q EXCEPT !.pc = "inserted", !.snip = s, !.short = i]
<1>4. rec \in Request
  BY DEF Request
<1>5. /\ rec.pc = "inserted" /\ rec.op = q.op /\ rec.answer = q.answer
      /\ rec.snip = s /\ rec.short = i
  BY DEF Request
<1>6. Set(r, rec)
  BY <1>1, <1>2
<1> HIDE DEF rec
<1>7. req' \in [Requests -> Request] /\ req'[r] = rec /\ Others(r)
  BY <1>4, <1>6, SetEffect DEF IInv, TypeOK
<1>8. UNCHANGED <<row, versions, lock, jobs>>
  BY DEF InsertSnippet
<1>9. TypeOK'
  BY <1>7, <1>8 DEF IInv, TypeOK
<1>10. /\ ~ Edited(r)'
       /\ \A o \in Requests \ {r} : Edited(o)' = Edited(o)
  BY <1>3, <1>5, <1>7 DEF Others, Edited
<1>11. VersionsMatchCounter' /\ ShortIdsUnique'
  BY <1>8 DEF IInv, VersionsMatchCounter, ShortIdsUnique, Present
<1>12. ReportedVersionHolds' /\ NoSharedVersion' /\ EditedRowsExist'
  BY <1>7, <1>8, <1>10
  DEF IInv, ReportedVersionHolds, NoSharedVersion, EditedRowsExist, Others
<1>13. LocksAreLive'
  <2>1. ASSUME NEW p \in Snippets, lock[p] # NULL
        PROVE  lock[p] \in Requests \ {r}
    BY <2>1, <1>2, <1>3 DEF IInv, TypeOK, LocksAreLive
  <2>2. QED
    BY <1>7, <1>8, <2>1 DEF IInv, LocksAreLive, Others
<1>14. JobsMatchRows'
  BY <1>3, <1>5, <1>7, <1>8 DEF IInv, JobsMatchRows, Others, Present
<1>15. UnansweredUntilDone' /\ DrawsLeft' /\ RowsOfCallsExist'
  BY <1>2, <1>3, <1>5, <1>7, <1>8
  DEF IInv, UnansweredUntilDone, DrawsLeft, RowsOfCallsExist, Others, Present
<1>16. InsertsAreFresh'
  BY <1>1, <1>3, <1>5, <1>7, <1>8
  DEF IInv, InsertsAreFresh, ShortIdFree, Others, Present
<1>17. LockedCallsOwnNext' /\ DeletesHold'
  BY <1>5, <1>7, <1>8 DEF IInv, LockedCallsOwnNext, DeletesHold, Others
<1>18. QED
  BY <1>9, <1>11, <1>12, <1>13, <1>14, <1>15, <1>16, <1>17 DEF IInv

LEMMA ShortIdCollisionKeeps ==
  ASSUME IInv, NEW r \in Requests, ShortIdCollision(r) PROVE IInv'
<1>1. PICK q \in Request : q = req[r]
  BY DEF IInv, TypeOK
<1>2. q.pc = "insert" /\ q.answer = "none" /\ q.tries \in Nat /\ q.tries < MaxTries
  BY <1>1
  DEF ShortIdCollision, IInv, UnansweredUntilDone, DrawsLeft, Request, MaxTries
<1>3. PICK n \in 0..MaxTries : n = q.tries + 1
  BY <1>2 DEF MaxTries
<1> DEFINE rec == IF n = MaxTries
                  THEN [q EXCEPT !.pc = "done", !.tries = n,
                                 !.answer = "short_id_failed"]
                  ELSE [q EXCEPT !.tries = n]
<1>4. Set(r, rec)
  BY <1>1, <1>3 DEF ShortIdCollision, GivesUp
<1>5. PICK a \in Answer : a = "short_id_failed"
  BY DEF Answer
<1>6. /\ [q EXCEPT !.pc = "done", !.tries = n, !.answer = a] \in Request
      /\ [q EXCEPT !.tries = n] \in Request
  <2>1. \A m \in 0..MaxTries, b \in Answer :
            [q EXCEPT !.pc = "done", !.tries = m, !.answer = b] \in Request
    BY DEF Request
  <2>2. \A m \in 0..MaxTries : [q EXCEPT !.tries = m] \in Request
    BY DEF Request
  <2>3. QED
    BY <1>5, <2>1, <2>2
<1>7. rec \in Request
  BY <1>5, <1>6
<1>8. /\ rec.pc = IF n = MaxTries THEN "done" ELSE "insert"
      /\ rec.answer = IF n = MaxTries THEN "short_id_failed" ELSE "none"
      /\ rec.tries = n /\ rec.op = q.op
  BY <1>2 DEF Request
<1> HIDE DEF rec
<1>9. req' \in [Requests -> Request] /\ req'[r] = rec /\ Others(r)
  BY <1>4, <1>7, SetEffect DEF IInv, TypeOK
<1>10. UNCHANGED <<row, versions, lock, jobs>>
  BY DEF ShortIdCollision
<1>11. TypeOK'
  BY <1>9, <1>10 DEF IInv, TypeOK
<1>12. /\ ~ Edited(r)'
       /\ \A o \in Requests \ {r} : Edited(o)' = Edited(o)
  BY <1>8, <1>9 DEF Others, Edited
<1>13. VersionsMatchCounter' /\ ShortIdsUnique'
  BY <1>10 DEF IInv, VersionsMatchCounter, ShortIdsUnique, Present
<1>14. ReportedVersionHolds' /\ NoSharedVersion' /\ EditedRowsExist'
  BY <1>9, <1>10, <1>12
  DEF IInv, ReportedVersionHolds, NoSharedVersion, EditedRowsExist, Others
<1>15. LocksAreLive'
  <2>1. ASSUME NEW p \in Snippets, lock[p] # NULL
        PROVE  lock[p] \in Requests \ {r}
    BY <2>1, <1>1, <1>2 DEF IInv, TypeOK, LocksAreLive
  <2>2. QED
    BY <1>9, <1>10, <2>1 DEF IInv, LocksAreLive, Others
<1>16. JobsMatchRows'
  BY <1>8, <1>9, <1>10 DEF IInv, JobsMatchRows, Others, Present
<1>17. UnansweredUntilDone' /\ DrawsLeft' /\ RowsOfCallsExist'
  BY <1>1, <1>2, <1>3, <1>8, <1>9, <1>10
  DEF IInv, UnansweredUntilDone, DrawsLeft, RowsOfCallsExist, Others, Present,
      MaxTries
<1>18. InsertsAreFresh' /\ LockedCallsOwnNext' /\ DeletesHold'
  BY <1>8, <1>9, <1>10
  DEF IInv, InsertsAreFresh, LockedCallsOwnNext, DeletesHold, Others, Present
<1>19. QED
  BY <1>11, <1>13, <1>14, <1>15, <1>16, <1>17, <1>18 DEF IInv

(* The commit of an INSERT: a snippet and its version 1 appear.  Freshness *)
(* of the flushed key and short_id is what keeps both unique.              *)
LEMMA CommitCreateKeeps ==
  ASSUME IInv, NEW r \in Requests, CommitCreate(r) PROVE IInv'
<1>1. PICK q \in Request : q = req[r]
  BY DEF IInv, TypeOK
<1> DEFINE s == q.snip
           new == [status |-> "live", short |-> q.short, author |-> q.user,
                   title |-> q.title, counter |-> 1]
           first == [content |-> q.content, visibility |-> q.vis]
<1>2. /\ q.pc = "inserted" /\ q.op = "create" /\ q.answer = "none"
      /\ s \in Snippets /\ row[s].status = "absent"
      /\ \A p \in Snippets : row[p].short # q.short
  BY <1>1
  DEF CommitCreate, IInv, UnansweredUntilDone, DrawsLeft, InsertsAreFresh, Present
<1>3. /\ row' = [row EXCEPT ![s] = new]
      /\ versions' = [versions EXCEPT ![s] = <<first>>]
      /\ UNCHANGED <<lock, jobs>>
  BY <1>1 DEF CommitCreate
<1>4. new \in Row /\ first \in Version
  BY DEF Request, Row, Version
<1>5. new.status = "live" /\ new.short = q.short /\ new.counter = 1
  OBVIOUS
<1>6. <<first>> \in Seq(Version) /\ Len(<<first>>) = 1
  BY <1>4
<1> HIDE DEF new, first
<1>7. /\ req' \in [Requests -> Request]
      /\ Others(r) /\ SameCall(r)
      /\ req'[r].pc = "committed" /\ req'[r].answer = req[r].answer
  BY MoveEffect DEF IInv, CommitCreate
<1>8. TypeOK'
  BY <1>2, <1>3, <1>4, <1>6, <1>7 DEF IInv, TypeOK
<1>9. /\ \A p \in Snippets \ {s} : /\ row'[p] = row[p]
                                   /\ versions'[p] = versions[p]
      /\ row'[s] = new /\ versions'[s] = <<first>>
  BY <1>2, <1>3 DEF IInv, TypeOK
<1>10. VersionsMatchCounter'
  <2> SUFFICES ASSUME NEW p \in Snippets
               PROVE  /\ Len(versions'[p]) = row'[p].counter
                      /\ row'[p].status # "absent" <=> row'[p].counter > 0
    BY DEF VersionsMatchCounter, Present
  <2>1. CASE p = s
    BY <2>1, <1>5, <1>6, <1>9
  <2>2. CASE p # s
    BY <2>2, <1>9 DEF IInv, VersionsMatchCounter, Present
  <2>3. QED
    BY <2>1, <2>2
<1>11. ShortIdsUnique'
  BY <1>2, <1>5, <1>9 DEF IInv, ShortIdsUnique, Present
<1>12. /\ ~ Edited(r)'
       /\ \A o \in Requests \ {r} : Edited(o)' = Edited(o)
  BY <1>1, <1>2, <1>7 DEF SameCall, Others, Edited
<1>13. versions[s] = << >>
  <2>1. versions[s] \in Seq(Version) /\ row[s].counter \in Nat
    BY <1>2 DEF IInv, TypeOK, Row
  <2>2. Len(versions[s]) = 0
    BY <1>2, <2>1 DEF IInv, VersionsMatchCounter, Present
  <2>3. QED
    BY <2>1, <2>2
<1>14. ReportedVersionHolds' /\ NoSharedVersion' /\ EditedRowsExist'
  BY <1>7, <1>9, <1>12, <1>13
  DEF IInv, ReportedVersionHolds, NoSharedVersion, EditedRowsExist, Others
<1>15. LocksAreLive'
  <2>1. ASSUME NEW p \in Snippets, lock[p] # NULL
        PROVE  lock[p] \in Requests \ {r}
    BY <2>1, <1>1, <1>2 DEF IInv, TypeOK, LocksAreLive
  <2>2. QED
    BY <1>3, <1>7, <2>1 DEF IInv, LocksAreLive, Others
<1>16. JobsMatchRows'
  BY <1>1, <1>2, <1>3, <1>5, <1>7, <1>9
  DEF IInv, JobsMatchRows, Others, SameCall, Present
<1>17. UnansweredUntilDone' /\ DrawsLeft'
  BY <1>1, <1>2, <1>7 DEF IInv, UnansweredUntilDone, DrawsLeft, Others
<1>18. RowsOfCallsExist'
  BY <1>1, <1>2, <1>5, <1>7, <1>9
  DEF IInv, RowsOfCallsExist, Others, SameCall, Present
<1>19. InsertsAreFresh'
  BY <1>1, <1>2, <1>5, <1>7, <1>9 DEF IInv, InsertsAreFresh, Others, Present
<1>20. LockedCallsOwnNext'
  BY <1>1, <1>2, <1>3, <1>7, <1>9
  DEF IInv, LockedCallsOwnNext, Others, RowsOfCallsExist, Present
<1>21. DeletesHold'
  BY <1>1, <1>2, <1>7, <1>9
  DEF IInv, DeletesHold, Others, SameCall, RowsOfCallsExist, Present
<1>22. QED
  BY <1>8, <1>10, <1>11, <1>14, <1>15, <1>16, <1>17, <1>18, <1>19, <1>20,
     <1>21 DEF IInv

(* A call takes the row lock.  The number it will use is the successor of  *)
(* the counter committed at that time, and nobody else can change it now.  *)
LEMMA LockTaken ==
  ASSUME IInv, NEW r \in Requests, NEW rec \in Request, Set(r, rec),
         req[r].pc = "loaded", req[r].op \in {"update", "delete"},
         Unlocked(req[r].snip),
         lock' = [lock EXCEPT ![req[r].snip] = r],
         UNCHANGED <<row, versions, jobs>>,
         rec.pc = "locked", rec.op = req[r].op, rec.snip = req[r].snip,
         rec.answer = req[r].answer, rec.edits = req[r].edits,
         rec.op = "update" /\ rec.edits =>
             rec.next = row[rec.snip].counter + 1
  PROVE  IInv'
<1> DEFINE s == req[r].snip
<1>1. req' \in [Requests -> Request] /\ req'[r] = rec /\ Others(r)
  BY SetEffect DEF IInv, TypeOK
<1>2. s \in Snippets /\ Present(s) /\ req[r].answer = "none"
  BY DEF IInv, RowsOfCallsExist, UnansweredUntilDone
<1>3. /\ lock' \in [Snippets -> Requests \cup {NULL}]
      /\ lock'[s] = r
      /\ \A p \in Snippets \ {s} : lock'[p] = lock[p]
  BY <1>2 DEF IInv, TypeOK
<1>4. TypeOK'
  BY <1>1, <1>3 DEF IInv, TypeOK
<1>5. /\ ~ Edited(r)'
      /\ \A o \in Requests \ {r} : Edited(o)' = Edited(o)
  BY <1>1, <1>2 DEF Others, Edited
<1>6. VersionsMatchCounter' /\ ShortIdsUnique'
  BY DEF IInv, VersionsMatchCounter, ShortIdsUnique, Present
<1>7. ReportedVersionHolds' /\ NoSharedVersion' /\ EditedRowsExist'
  BY <1>1, <1>5
  DEF IInv, ReportedVersionHolds, NoSharedVersion, EditedRowsExist, Others
<1>8. LocksAreLive'
  <2>1. ASSUME NEW p \in Snippets, lock'[p] # NULL
        PROVE  req'[lock'[p]].pc = "locked" /\ req'[lock'[p]].snip = p
    <3>1. CASE p = s
      BY <3>1, <1>1, <1>3
    <3>2. CASE p # s
      <4>1. lock'[p] = lock[p] /\ lock[p] \in Requests
        BY <3>2, <2>1, <1>3 DEF IInv, TypeOK
      <4>2. req[lock[p]].pc = "locked" /\ req[lock[p]].snip = p
        BY <2>1, <4>1 DEF IInv, LocksAreLive
      <4>3. QED
        BY <4>1, <4>2, <1>1 DEF Others
    <3>3. QED
      BY <3>1, <3>2
  <2>2. QED
    BY <2>1 DEF LocksAreLive
<1>9. JobsMatchRows'
  BY <1>1, <1>2 DEF IInv, JobsMatchRows, Others, Present
<1>10. UnansweredUntilDone' /\ DrawsLeft' /\ RowsOfCallsExist'
  BY <1>1, <1>2
  DEF IInv, UnansweredUntilDone, DrawsLeft, RowsOfCallsExist, Others, Present
<1>11. InsertsAreFresh' /\ DeletesHold'
  BY <1>1 DEF IInv, InsertsAreFresh, DeletesHold, Others, Present
<1>12. LockedCallsOwnNext'
  BY <1>1, <1>2, <1>3, NullAssumption
  DEF IInv, LockedCallsOwnNext, Others, Unlocked
<1>13. QED
  BY <1>4, <1>6, <1>7, <1>8, <1>9, <1>10, <1>11, <1>12 DEF IInv

LEMMA LockForUpdateKeeps ==
  ASSUME IInv, NEW r \in Requests, LockForUpdate(r) PROVE IInv'
<1>1. PICK q \in Request : q = req[r]
  BY DEF IInv, TypeOK
<1>2. q.snip \in Snippets
  BY <1>1 DEF LockForUpdate, IInv, RowsOfCallsExist
<1>3. PICK n \in Nat : n = IF q.edits THEN row[q.snip].counter + 1 ELSE 0
  BY <1>2 DEF IInv, TypeOK, Row
<1> DEFINE rec == [q EXCEPT !.pc = "locked", !.next = n]
<1>4. rec \in Request
  BY DEF Request
<1>5. /\ rec.pc = "locked" /\ rec.next = n
      /\ rec.op = q.op /\ rec.snip = q.snip
      /\ rec.answer = q.answer /\ rec.edits = q.edits
  BY DEF Request
<1>6. Set(r, rec)
  BY <1>1, <1>3 DEF LockForUpdate
<1> HIDE DEF rec
<1>7. QED
  BY <1>1, <1>3, <1>4, <1>5, <1>6, LockTaken DEF LockForUpdate

LEMMA LockForDeleteKeeps ==
  ASSUME IInv, NEW r \in Requests, LockForDelete(r) PROVE IInv'
<1>1. PICK q \in Request : q = req[r]
  BY DEF IInv, TypeOK
<1> DEFINE rec == [q EXCEPT !.pc = "locked"]
<1>2. rec \in Request
  BY DEF Request
<1>3. /\ rec.pc = "locked" /\ rec.next = q.next
      /\ rec.op = q.op /\ rec.snip = q.snip
      /\ rec.answer = q.answer /\ rec.edits = q.edits
  BY DEF Request
<1>4. Set(r, rec)
  BY <1>1 DEF LockForDelete
<1> HIDE DEF rec
<1>5. QED
  BY <1>1, <1>2, <1>3, <1>4, LockTaken DEF LockForDelete

(* The commit of an UPDATE. *)
LEMMA CommitUpdateKeeps ==
  ASSUME IInv, NEW r \in Requests, CommitUpdate(r) PROVE IInv'
<1>1. PICK q \in Request : q = req[r]
  BY DEF IInv, TypeOK
<1> DEFINE s == q.snip
           v == [content |-> q.content, visibility |-> "public"]
<1>2. /\ q.pc = "locked" /\ q.op = "update" /\ q.answer = "none"
      /\ s \in Snippets /\ Present(s) /\ lock[s] = r
      /\ q.edits => q.next = row[s].counter + 1
  BY <1>1
  DEF CommitUpdate, IInv, UnansweredUntilDone, RowsOfCallsExist,
      LockedCallsOwnNext
<1>3. PICK t \in Titles \cup {NULL} :
        t = IF TitleDirty(r) THEN q.title ELSE row[s].title
  BY <1>2 DEF IInv, TypeOK, Row, Request
<1>4. PICK n \in Nat : n = IF q.edits THEN q.next ELSE row[s].counter
  BY <1>2 DEF IInv, TypeOK, Row, Request
<1>5. PICK old \in Row : old = row[s]
  BY <1>2 DEF IInv, TypeOK
<1> DEFINE new == [old EXCEPT !.title = t, !.counter = n]
<1>6. /\ new \in Row /\ new.status = old.status /\ new.short = old.short
      /\ new.author = old.author /\ new.counter = n
  BY DEF Row
<1>7. row' = [row EXCEPT ![s] = new]
  BY <1>1, <1>2, <1>3, <1>4, <1>5 DEF CommitUpdate, IInv, TypeOK
<1> HIDE DEF new
<1>8. v \in Version
  BY DEF Request, Version, Visibility
<1>9. v.content = q.content
  OBVIOUS
<1> HIDE DEF v
<1>10. /\ versions' = IF q.edits
                      THEN [versions EXCEPT ![s] = Append(@, v)]
                      ELSE versions
       /\ lock' = [lock EXCEPT ![s] = NULL]
       /\ UNCHANGED jobs
  BY <1>1 DEF CommitUpdate, AddVersion, v
<1>11. /\ req' \in [Requests -> Request]
       /\ Others(r) /\ SameCall(r)
       /\ req'[r].pc = "committed" /\ req'[r].answer = req[r].answer
  BY MoveEffect DEF IInv, CommitUpdate
<1>12. /\ row' \in [Snippets -> Row]
       /\ row'[s] = new
       /\ \A p \in Snippets \ {s} : row'[p] = row[p]
  BY <1>2, <1>6, <1>7 DEF IInv, TypeOK
<1>13. /\ lock' \in [Snippets -> Requests \cup {NULL}]
       /\ lock'[s] = NULL
       /\ \A p \in Snippets \ {s} : lock'[p] = lock[p]
  BY <1>2, <1>10 DEF IInv, TypeOK
<1>14. /\ versions' \in [Snippets -> Seq(Version)]
       /\ \A p \in Snippets \ {s} : versions'[p] = versions[p]
       /\ q.edits => versions'[s] = Append(versions[s], v)
       /\ ~ q.edits => versions'[s] = versions[s]
  BY <1>2, <1>8, <1>10 DEF IInv, TypeOK
<1>15. versions[s] \in Seq(Version) /\ Len(versions[s]) = row[s].counter
       /\ row[s].counter \in Nat /\ row[s].counter > 0
  BY <1>2 DEF IInv, TypeOK, Row, VersionsMatchCounter
<1>16. TypeOK'
  BY <1>10, <1>11, <1>12, <1>13, <1>14 DEF IInv, TypeOK
<1>17. \A p \in Snippets : /\ row'[p].short = row[p].short
                           /\ row'[p].status = row[p].status
  BY <1>5, <1>6, <1>12
<1>18. VersionsMatchCounter'
  <2> SUFFICES ASSUME NEW p \in Snippets
               PROVE  /\ Len(versions'[p]) = row'[p].counter
                      /\ row'[p].status # "absent" <=> row'[p].counter > 0
    BY DEF VersionsMatchCounter, Present
  <2>1. CASE p = s /\ q.edits
    <3>1. Len(Append(versions[s], v)) = Len(versions[s]) + 1
      BY <1>8, <1>15
    <3>2. QED
      BY <2>1, <3>1, <1>2, <1>4, <1>6, <1>12, <1>14, <1>15, <1>17 DEF Present
  <2>2. CASE p = s /\ ~ q.edits
    BY <2>2, <1>2, <1>4, <1>6, <1>12, <1>14, <1>15, <1>17 DEF Present
  <2>3. CASE p # s
    BY <2>3, <1>12, <1>14 DEF IInv, VersionsMatchCounter, Present
  <2>4. QED
    BY <2>1, <2>2, <2>3
<1>19. ShortIdsUnique'
  BY <1>17 DEF IInv, ShortIdsUnique, Present
<1>20. /\ Edited(r)' <=> q.edits /\ q.next > 0
       /\ ~ Edited(r)
       /\ \A o \in Requests \ {r} : Edited(o)' = Edited(o)
  BY <1>1, <1>2, <1>11 DEF SameCall, Others, Edited
<1>21. \A o \in Requests : /\ req'[o].snip = req[o].snip
                           /\ req'[o].next = req[o].next
                           /\ req'[o].content = req[o].content
  BY <1>11 DEF Others, SameCall
<1>22. ReportedVersionHolds'
  <2> SUFFICES ASSUME NEW o \in Requests, Edited(o)'
               PROVE  /\ req[o].next \in DOMAIN versions'[req[o].snip]
                      /\ versions'[req[o].snip][req[o].next].content
                           = req[o].content
    BY <1>21 DEF ReportedVersionHolds
  <2>1. CASE o = r
    <3>1. q.edits /\ req[o].next = q.next /\ req[o].snip = s
      BY <1>1, <1>2, <1>20, <2>1
    <3>2. versions'[s] = Append(versions[s], v)
      BY <1>14, <3>1
    <3>3. QED
      <4>1. /\ DOMAIN versions'[s] = 1..(Len(versions[s]) + 1)
            /\ versions'[s][Len(versions[s]) + 1] = v
        BY <1>8, <1>15, <3>2
      <4>2. /\ q.next = Len(versions[s]) + 1
            /\ q.next \in 1..(Len(versions[s]) + 1)
        BY <1>2, <1>15, <3>1
      <4>3. req[o].content = v.content
        BY <2>1, <1>1, <1>9
      <4>4. QED
        BY <3>1, <4>1, <4>2, <4>3
  <2>2. CASE o # r
    <3>1. /\ req[o].snip \in Snippets
          /\ req[o].next \in DOMAIN versions[req[o].snip]
          /\ versions[req[o].snip][req[o].next].content = req[o].content
      BY <2>2, <1>20 DEF IInv, ReportedVersionHolds, EditedRowsExist
    <3>2. CASE req[o].snip = s /\ q.edits
      <4>1. versions'[s] = Append(versions[s], v)
        BY <1>14, <3>2
      <4>2. QED
        BY <1>8, <1>15, <3>1, <3>2, <4>1
    <3>3. CASE ~ (req[o].snip = s /\ q.edits)
      BY <3>1, <3>3, <1>14
    <3>4. QED
      BY <3>2, <3>3
  <2>3. QED
    BY <2>1, <2>2
<1>23. NoSharedVersion'
  <2>1. ASSUME NEW o \in Requests \ {r}, Edited(o), Edited(r)',
               req[o].snip = s
        PROVE  req[o].next # q.next
    BY <2>1, <1>2, <1>15, <1>20 DEF IInv, ReportedVersionHolds
  <2>2. QED
    BY <2>1, <1>1, <1>20, <1>21 DEF IInv, NoSharedVersion
<1>24. EditedRowsExist'
  BY <1>1, <1>2, <1>20, <1>21 DEF IInv, EditedRowsExist
<1>25. LocksAreLive'
  <2>1. ASSUME NEW p \in Snippets, lock'[p] # NULL
        PROVE  p # s /\ lock'[p] = lock[p] /\ lock[p] \in Requests \ {r}
    BY <2>1, <1>1, <1>13 DEF IInv, TypeOK, LocksAreLive
  <2>2. QED
    BY <2>1, <1>11 DEF IInv, LocksAreLive, Others
<1>26. JobsMatchRows'
  BY <1>1, <1>2, <1>10, <1>11, <1>17
  DEF IInv, JobsMatchRows, Others, SameCall, Present
<1>27. UnansweredUntilDone' /\ DrawsLeft'
  BY <1>1, <1>2, <1>11 DEF IInv, UnansweredUntilDone, DrawsLeft, Others
<1>28. RowsOfCallsExist'
  BY <1>1, <1>2, <1>11, <1>17, <1>21
  DEF IInv, RowsOfCallsExist, Others, Present
<1>29. InsertsAreFresh'
  BY <1>1, <1>2, <1>11, <1>17 DEF IInv, InsertsAreFresh, Others, Present
<1>30. LockedCallsOwnNext'
  <2>1. ASSUME NEW o \in Requests, req'[o].pc = "locked"
        PROVE  /\ o # r /\ req'[o] = req[o]
               /\ lock[req[o].snip] = o /\ req[o].snip \in Snippets \ {s}
    BY <2>1, <1>1, <1>2, <1>11
    DEF IInv, LockedCallsOwnNext, RowsOfCallsExist, Others
  <2>2. QED
    BY <2>1, <1>12, <1>13 DEF IInv, LockedCallsOwnNext
<1>31. DeletesHold'
  BY <1>1, <1>2, <1>11, <1>17
  DEF IInv, DeletesHold, Others, SameCall, RowsOfCallsExist
<1>32. QED
  BY <1>16, <1>18, <1>19, <1>22, <1>23, <1>24, <1>25, <1>26, <1>27, <1>28,
     <1>29, <1>30, <1>31 DEF IInv

LEMMA CommitUnchangedKeeps ==
  ASSUME IInv, NEW r \in Requests, CommitUnchanged(r) PROVE IInv'
<1>1. /\ req[r].pc = "loaded" /\ req[r].op = "update" /\ ~ req[r].edits
      /\ req[r].answer = "none"
  BY DEF CommitUnchanged, IInv, UnansweredUntilDone
<1>2. UNCHANGED <<row, versions, lock, jobs>>
  BY DEF CommitUnchanged
<1>3. /\ req' \in [Requests -> Request]
      /\ Others(r) /\ SameCall(r)
      /\ req'[r].pc = "committed" /\ req'[r].answer = req[r].answer
  BY MoveEffect DEF IInv, CommitUnchanged
<1>4. TypeOK'
  BY <1>2, <1>3 DEF IInv, TypeOK
<1>5. /\ ~ Edited(r)'
      /\ \A o \in Requests \ {r} : Edited(o)' = Edited(o)
  BY <1>1, <1>3 DEF SameCall, Others, Edited
<1>6. VersionsMatchCounter' /\ ShortIdsUnique'
  BY <1>2 DEF IInv, VersionsMatchCounter, ShortIdsUnique, Present
<1>7. ReportedVersionHolds' /\ NoSharedVersion' /\ EditedRowsExist'
  BY <1>2, <1>3, <1>5
  DEF IInv, ReportedVersionHolds, NoSharedVersion, EditedRowsExist, Others
<1>8. LocksAreLive'
  <2>1. ASSUME NEW p \in Snippets, lock[p] # NULL
        PROVE  lock[p] \in Requests \ {r}
    BY <2>1, <1>1 DEF IInv, TypeOK, LocksAreLive
  <2>2. QED
    BY <1>2, <1>3, <2>1 DEF IInv, LocksAreLive, Others
<1>9. JobsMatchRows'
  BY <1>1, <1>2, <1>3 DEF IInv, JobsMatchRows, Others, SameCall, Present
<1>10. UnansweredUntilDone' /\ DrawsLeft' /\ RowsOfCallsExist'
  BY <1>1, <1>2, <1>3
  DEF IInv, UnansweredUntilDone, DrawsLeft, RowsOfCallsExist, Others, SameCall,
      Present
<1>11. InsertsAreFresh' /\ LockedCallsOwnNext' /\ DeletesHold'
  BY <1>1, <1>2, <1>3
  DEF IInv, InsertsAreFresh, LockedCallsOwnNext, DeletesHold, Others, SameCall,
      Present
<1>12. QED
  BY <1>4, <1>6, <1>7, <1>8, <1>9, <1>10, <1>11 DEF IInv

(* The commit of a DELETE: the row stays, with its short_id and versions.  *)
LEMMA CommitDeleteKeeps ==
  ASSUME IInv, NEW r \in Requests, CommitDelete(r) PROVE IInv'
<1> DEFINE s == req[r].snip
<1>1. /\ req[r].pc = "locked" /\ req[r].op = "delete" /\ req[r].answer = "none"
      /\ s \in Snippets /\ Present(s) /\ lock[s] = r
  BY DEF CommitDelete, IInv, UnansweredUntilDone, RowsOfCallsExist,
         LockedCallsOwnNext
<1>2. PICK old \in Row : old = row[s]
  BY <1>1 DEF IInv, TypeOK
<1> DEFINE new == [old EXCEPT !.status = "deleted"]
<1>3. /\ new \in Row /\ new.status = "deleted" /\ new.short = old.short
      /\ new.counter = old.counter
  BY DEF Row
<1>4. row' = [row EXCEPT ![s] = new]
  BY <1>1, <1>2 DEF CommitDelete, IInv, TypeOK
<1> HIDE DEF new
<1>5. lock' = [lock EXCEPT ![s] = NULL] /\ UNCHANGED <<versions, jobs>>
  BY DEF CommitDelete
<1>6. /\ req' \in [Requests -> Request]
      /\ Others(r) /\ SameCall(r)
      /\ req'[r].pc = "committed" /\ req'[r].answer = req[r].answer
  BY MoveEffect DEF IInv, CommitDelete
<1>7. /\ row' \in [Snippets -> Row]
      /\ row'[s] = new
      /\ \A p \in Snippets \ {s} : row'[p] = row[p]
  BY <1>1, <1>3, <1>4 DEF IInv, TypeOK
<1>8. /\ lock' \in [Snippets -> Requests \cup {NULL}]
      /\ lock'[s] = NULL
      /\ \A p \in Snippets \ {s} : lock'[p] = lock[p]
  BY <1>1, <1>5 DEF IInv, TypeOK
<1>9. TypeOK'
  BY <1>5, <1>6, <1>7, <1>8 DEF IInv, TypeOK
<1>10. \A p \in Snippets : /\ row'[p].short = row[p].short
                           /\ row'[p].counter = row[p].counter
                           /\ Present(p)' = Present(p)
  BY <1>1, <1>2, <1>3, <1>7 DEF Present
<1>11. VersionsMatchCounter' /\ ShortIdsUnique'
  BY <1>5, <1>10 DEF IInv, VersionsMatchCounter, ShortIdsUnique
<1>12. /\ ~ Edited(r)'
       /\ \A o \in Requests \ {r} : Edited(o)' = Edited(o)
  BY <1>1, <1>6 DEF SameCall, Others, Edited
<1>13. ReportedVersionHolds' /\ NoSharedVersion' /\ EditedRowsExist'
  BY <1>5, <1>6, <1>12
  DEF IInv, ReportedVersionHolds, NoSharedVersion, EditedRowsExist, Others
<1>14. LocksAreLive'
  <2>1. ASSUME NEW p \in Snippets, lock'[p] # NULL
        PROVE  p # s /\ lock'[p] = lock[p] /\ lock[p] \in Requests \ {r}
    BY <2>1, <1>1, <1>8 DEF IInv, TypeOK, LocksAreLive
  <2>2. QED
    BY <2>1, <1>6 DEF IInv, LocksAreLive, Others
<1>15. JobsMatchRows'
  BY <1>1, <1>3, <1>5, <1>6, <1>7, <1>10
  DEF IInv, JobsMatchRows, Others, SameCall
<1>16. UnansweredUntilDone' /\ DrawsLeft'
  BY <1>1, <1>6 DEF IInv, UnansweredUntilDone, DrawsLeft, Others
<1>17. RowsOfCallsExist'
  BY <1>1, <1>6, <1>10 DEF IInv, RowsOfCallsExist, Others, SameCall
<1>18. InsertsAreFresh'
  BY <1>1, <1>6, <1>10 DEF IInv, InsertsAreFresh, Others
<1>19. LockedCallsOwnNext'
  <2>1. ASSUME NEW o \in Requests, req'[o].pc = "locked"
        PROVE  /\ o # r /\ req'[o] = req[o]
               /\ lock[req[o].snip] = o /\ req[o].snip \in Snippets \ {s}
    BY <2>1, <1>1, <1>6
    DEF IInv, LockedCallsOwnNext, RowsOfCallsExist, Others
  <2>2. QED
    BY <2>1, <1>7, <1>8 DEF IInv, LockedCallsOwnNext
<1>20. DeletesHold'
  BY <1>1, <1>3, <1>6, <1>7
  DEF IInv, DeletesHold, Others, SameCall, RowsOfCallsExist
<1>21. QED
  BY <1>9, <1>11, <1>13, <1>14, <1>15, <1>16, <1>17, <1>18, <1>19, <1>20
  DEF IInv

LEMMA RejectNullTitleKeeps ==
  ASSUME IInv, NEW r \in Requests, RejectNullTitle(r) PROVE IInv'
<1>1. /\ req' \in [Requests -> Request] /\ Others(r) /\ SameCall(r)
      /\ req'[r].pc = "done" /\ req'[r].answer = "unavailable"
  BY FinishEffect DEF IInv, RejectNullTitle, Answer
<1>2. JobsMatchRows'
  BY <1>1 DEF RejectNullTitle, IInv, JobsMatchRows, Others, Present
<1>3. QED
  BY <1>2, FinishKeeps DEF RejectNullTitle, Answer, IInv, TypeOK

LEMMA RespondUpdateKeeps ==
  ASSUME IInv, NEW r \in Requests, RespondUpdate(r) PROVE IInv'
<1>1. PICK a \in Answer : a \in {"ok", "internal"} /\ Finish(r, a)
  BY DEF RespondUpdate, Answer
<1>2. /\ req' \in [Requests -> Request] /\ Others(r) /\ SameCall(r)
      /\ req'[r].pc = "done" /\ req'[r].answer = a
  BY <1>1, FinishEffect DEF IInv
<1>3. JobsMatchRows'
  BY <1>2 DEF RespondUpdate, IInv, JobsMatchRows, Others, SameCall, Present
<1>4. QED
  BY <1>1, <1>3, FinishKeeps DEF RespondUpdate, IInv, TypeOK

LEMMA EnqueueJobKeeps ==
  ASSUME IInv, NEW r \in Requests, EnqueueJob(r) PROVE IInv'
<1> DEFINE job == <<JobOf(req[r].op), req[r].snip>>
<1>1. PICK a \in Answer :
        /\ Finish(r, a)
        /\ \/ a \in {"ok", "internal"} /\ jobs' = jobs \cup {job}
           \/ a = "internal" /\ UNCHANGED jobs
  BY DEF EnqueueJob, Answer
<1>2. /\ req' \in [Requests -> Request] /\ Others(r) /\ SameCall(r)
      /\ req'[r].pc = "done" /\ req'[r].answer = a
  BY <1>1, FinishEffect DEF IInv
<1>3. /\ req[r].pc = "committed" /\ req[r].op \in {"create", "delete"}
      /\ req[r].snip \in Snippets /\ Present(req[r].snip)
      /\ req[r].op = "delete" => row[req[r].snip].status = "deleted"
  BY DEF EnqueueJob, AfterCommit, IInv, RowsOfCallsExist, DeletesHold
<1>4. UNCHANGED <<row, versions, lock>>
  BY DEF EnqueueJob
<1>5. job \in {"index_snippet", "remove_snippet_index"} \X Snippets
  BY <1>3 DEF JobOf
<1>6. JobsMatchRows'
  BY <1>1, <1>2, <1>3, <1>4
  DEF IInv, JobsMatchRows, JobOf, Others, SameCall, Present
<1> HIDE DEF job
<1>7. QED
  BY <1>1, <1>3, <1>4, <1>5, <1>6, FinishKeeps DEF IInv, TypeOK

LEMMA FailureKeeps ==
  ASSUME IInv, NEW r \in Requests, DbError(r) \/ Crash(r) PROVE IInv'
<1>1. PICK a \in Answer : a \in {"unavailable", "lost"} /\ Finish(r, a)
  BY DEF DbError, Crash, Answer
<1>2. /\ req' \in [Requests -> Request] /\ Others(r) /\ SameCall(r)
      /\ req'[r].pc = "done" /\ req'[r].answer = a
  BY <1>1, FinishEffect DEF IInv
<1>3. UNCHANGED <<row, versions, jobs>> /\ lock' = Unlock(r)
  BY DEF DbError, Crash
<1>4. JobsMatchRows'
  BY <1>1, <1>2, <1>3 DEF IInv, JobsMatchRows, Others, Present
<1>5. QED
  BY <1>1, <1>3, <1>4, FinishKeeps DEF IInv, TypeOK

LEMMA NextKeepsIInv == IInv /\ [Next]_vars => IInv'
<1> SUFFICES ASSUME IInv, [Next]_vars PROVE IInv'
  OBVIOUS
<1>1. CASE UNCHANGED vars
  BY <1>1
  DEF vars, IInv, TypeOK, VersionsMatchCounter, ShortIdsUnique,
      ReportedVersionHolds, NoSharedVersion, LocksAreLive, JobsMatchRows,
      UnansweredUntilDone, DrawsLeft, RowsOfCallsExist, InsertsAreFresh,
      LockedCallsOwnNext, DeletesHold, EditedRowsExist, Edited, Present
<1>2. ASSUME NEW r \in Requests,
             \/ StartCreate(r) \/ LoadForUpdate(r) \/ LoadForDelete(r)
             \/ Progress(r) \/ DbError(r) \/ Crash(r)
      PROVE  IInv'
  BY <1>2, StartCreateKeeps, LoadForUpdateKeeps, LoadForDeleteKeeps,
     InsertSnippetKeeps, ShortIdCollisionKeeps, CommitCreateKeeps,
     LockForUpdateKeeps, LockForDeleteKeeps, CommitUnchangedKeeps,
     CommitUpdateKeeps, CommitDeleteKeeps, RejectNullTitleKeeps,
     RespondUpdateKeeps, EnqueueJobKeeps, FailureKeeps DEF Progress
<1>3. QED
  BY <1>1, <1>2 DEF Next, Quiet
-----------------------------------------------------------------------------
(* The theorems. *)

(* The strengthening is an invariant of every execution. *)
THEOREM StoreInvariant == Spec => []IInv
<1>1. QED
  BY InitIInv, NextKeepsIInv, PTL DEF Spec

(* Every variable keeps its type: rows, versions, locks, jobs and the       *)
(* calls of the service functions.                                          *)
THEOREM TypeCorrect == Spec => []TypeOK
<1>1. IInv => TypeOK
  BY DEF IInv
<1>2. QED
  BY <1>1, StoreInvariant, PTL

(* version_counter is the number of committed versions, whatever overlaps,  *)
(* fails or crashes in create_snippet, update_snippet and delete_snippet.   *)
THEOREM CounterCorrect == Spec => []VersionsMatchCounter
<1>1. IInv => VersionsMatchCounter
  BY DEF IInv
<1>2. QED
  BY <1>1, StoreInvariant, PTL

(* A short_id names one snippet for ever, deleted snippets included.        *)
THEOREM ShortIdsCorrect == Spec => []ShortIdsUnique
<1>1. IInv => ShortIdsUnique
  BY DEF IInv
<1>2. QED
  BY <1>1, StoreInvariant, PTL

(* No edit is lost: the version number an update reports holds what it      *)
(* sent ...                                                                 *)
THEOREM NoLostEdit == Spec => []ReportedVersionHolds
<1>1. IInv => ReportedVersionHolds
  BY DEF IInv
<1>2. QED
  BY <1>1, StoreInvariant, PTL

(* ... and no two updates of a snippet report the same version.             *)
THEOREM NumbersNotShared == Spec => []NoSharedVersion
<1>1. IInv => NoSharedVersion
  BY DEF IInv
<1>2. QED
  BY <1>1, StoreInvariant, PTL

(* A row lock is held by a transaction on its way to a commit.              *)
THEOREM NoLeakedLock == Spec => []LocksAreLive
<1>1. IInv => LocksAreLive
  BY DEF IInv
<1>2. QED
  BY <1>1, StoreInvariant, PTL

(* Jobs are about durable changes; a create or delete answered with success *)
(* has its job.                                                             *)
THEOREM JobsCorrect == Spec => []JobsMatchRows
<1>1. IInv => JobsMatchRows
  BY DEF IInv
<1>2. QED
  BY <1>1, StoreInvariant, PTL
-----------------------------------------------------------------------------
(* Ownership: the WHERE clause of a SELECT is the only place that asks who  *)
(* the author is; the UPDATE some awaits later does not.                    *)

(* A call that may still write has loaded a row of its own user. *)
WritersOwnRows ==
    \A r \in Requests : req[r].pc \in {"loaded", "locked"} =>
        req[r].user = row[req[r].snip].author

(* Once a call has begun, its user and its snippet stay. *)
LEMMA ProgressKeepsUser ==
  ASSUME TypeOK, NEW r \in Requests, Progress(r) \/ DbError(r) \/ Crash(r)
  PROVE  /\ Others(r)
         /\ req'[r].pc \in {"loaded", "locked"} =>
              /\ req[r].pc \in {"loaded", "locked"}
              /\ req'[r].user = req[r].user /\ req'[r].snip = req[r].snip
<1>1. PICK q \in Request : q = req[r]
  BY DEF TypeOK
<1>2. ASSUME NEW rec, Set(r, rec)
      PROVE  Others(r) /\ req'[r] = rec
  BY <1>2 DEF TypeOK, Set, Others
<1>3. ASSUME NEW a, Finish(r, a)
      PROVE  Others(r) /\ req'[r].pc = "done"
  <2>1. [q EXCEPT !.pc = "done", !.answer = a].pc = "done"
    BY DEF Request
  <2>2. QED
    BY <1>1, <1>2, <1>3, <2>1 DEF Finish
<1>4. CASE InsertSnippet(r)
  <2>1. \A s, i : [q EXCEPT !.pc = "inserted", !.snip = s, !.short = i].pc
                    = "inserted"
    BY DEF Request
  <2>2. PICK s, i : Set(r, [q EXCEPT !.pc = "inserted", !.snip = s,
                                     !.short = i])
    BY <1>1, <1>4 DEF InsertSnippet
  <2>3. Others(r) /\ req'[r] = [q EXCEPT !.pc = "inserted", !.snip = s,
                                         !.short = i]
    BY <1>2, <2>2
  <2>4. QED
    BY <2>1, <2>3
<1>5. CASE ShortIdCollision(r)
  <2>1. \A n : [q EXCEPT !.pc = "done", !.tries = n,
                         !.answer = "short_id_failed"].pc = "done"
    BY DEF Request
  <2>2. \A n : [q EXCEPT !.tries = n].pc = q.pc
    BY DEF Request
  <2>3. q.pc = "insert"
    BY <1>1, <1>5 DEF ShortIdCollision
  <2>4. PICK n : \/ Set(r, [q EXCEPT !.pc = "done", !.tries = n,
                                     !.answer = "short_id_failed"])
                 \/ Set(r, [q EXCEPT !.tries = n])
    BY <1>1, <1>5 DEF ShortIdCollision
  <2>5. CASE Set(r, [q EXCEPT !.pc = "done", !.tries = n,
                              !.answer = "short_id_failed"])
    <3>1. /\ Others(r)
          /\ req'[r] = [q EXCEPT !.pc = "done", !.tries = n,
                                 !.answer = "short_id_failed"]
      BY <1>2, <2>5
    <3>2. QED
      BY <2>1, <3>1
  <2>6. CASE Set(r, [q EXCEPT !.tries = n])
    <3>1. Others(r) /\ req'[r] = [q EXCEPT !.tries = n]
      BY <1>2, <2>6
    <3>2. QED
      BY <2>2, <2>3, <3>1
  <2>7. QED
    BY <2>4, <2>5, <2>6
<1>6. CASE CommitCreate(r) \/ CommitUnchanged(r) \/ CommitUpdate(r)
             \/ CommitDelete(r)
  <2>1. [q EXCEPT !.pc = "committed"].pc = "committed"
    BY DEF Request
  <2>2. Set(r, [q EXCEPT !.pc = "committed"])
    BY <1>1, <1>6
    DEF CommitCreate, CommitUnchanged, CommitUpdate, CommitDelete
  <2>3. QED
    BY <1>2, <2>1, <2>2
<1>7. CASE LockForUpdate(r)
  <2>1. \A n : LET rec == [q EXCEPT !.pc = "locked", !.next = n]
               IN rec.user = q.user /\ rec.snip = q.snip
    BY DEF Request
  <2>2. PICK n : Set(r, [q EXCEPT !.pc = "locked", !.next = n])
    BY <1>1, <1>7 DEF LockForUpdate
  <2>3. q.pc = "loaded"
    BY <1>1, <1>7 DEF LockForUpdate
  <2>4. Others(r) /\ req'[r] = [q EXCEPT !.pc = "locked", !.next = n]
    BY <1>2, <2>2
  <2>5. req'[r].user = q.user /\ req'[r].snip = q.snip
    BY <2>1, <2>4
  <2>6. QED
    BY <1>1, <2>3, <2>4, <2>5
<1>8. CASE LockForDelete(r)
  <2>1. LET rec == [q EXCEPT !.pc = "locked"]
        IN rec.user = q.user /\ rec.snip = q.snip
    BY DEF Request
  <2>2. Set(r, [q EXCEPT !.pc = "locked"]) /\ q.pc = "loaded"
    BY <1>1, <1>8 DEF LockForDelete
  <2>3. QED
    BY <1>1, <1>2, <2>1, <2>2
<1>9. CASE RejectNullTitle(r) \/ RespondUpdate(r) \/ EnqueueJob(r)
             \/ DbError(r) \/ Crash(r)
  BY <1>3, <1>9
  DEF RejectNullTitle, RespondUpdate, EnqueueJob, DbError, Crash
<1>10. QED
  BY <1>4, <1>5, <1>6, <1>7, <1>8, <1>9 DEF Progress

(* No step gives a snippet another author. *)
LEMMA AuthorsStay ==
  ASSUME IInv, [Next]_vars, NEW s \in Snippets, Present(s)
  PROVE  row'[s].author = row[s].author
<1>1. PICK old \in Row : old = row[s]
  BY DEF IInv, TypeOK
<1>2. ASSUME NEW r \in Requests, CommitCreate(r)
      PROVE  row'[s].author = row[s].author
  <2>1. req[r].snip # s
    BY <1>2 DEF CommitCreate, IInv, InsertsAreFresh
  <2>2. QED
    BY <1>2, <2>1 DEF CommitCreate, IInv, TypeOK
<1>3. ASSUME NEW r \in Requests, CommitUpdate(r)
      PROVE  row'[s].author = row[s].author
  <2>1. PICK t, n : row' = [row EXCEPT ![req[r].snip].title = t,
                                       ![req[r].snip].counter = n]
    BY <1>3 DEF CommitUpdate
  <2>2. [old EXCEPT !.title = t, !.counter = n].author = old.author
    BY DEF Row
  <2>3. row'[s] = old \/ row'[s] = [old EXCEPT !.title = t, !.counter = n]
    BY <1>1, <2>1 DEF IInv, TypeOK
  <2>4. QED
    BY <1>1, <2>2, <2>3
<1>4. ASSUME NEW r \in Requests, CommitDelete(r)
      PROVE  row'[s].author = row[s].author
  <2>1. [old EXCEPT !.status = "deleted"].author = old.author
    BY DEF Row
  <2>2. row'[s] = old \/ row'[s] = [old EXCEPT !.status = "deleted"]
    BY <1>1, <1>4 DEF CommitDelete, IInv, TypeOK
  <2>3. QED
    BY <1>1, <2>1, <2>2
<1>5. CASE UNCHANGED row
  BY <1>5
<1>6. QED
  BY <1>2, <1>3, <1>4, <1>5
  DEF Next, Quiet, vars, StartCreate, LoadForUpdate, LoadForDelete, Progress,
      InsertSnippet, ShortIdCollision, LockForUpdate, RejectNullTitle,
      CommitUnchanged, RespondUpdate, LockForDelete, EnqueueJob, DbError, Crash

(* A call arrives: it has nothing to write, or has found its user's row. *)
LEMMA ArrivalOwns ==
  ASSUME TypeOK, NEW r \in Requests,
         StartCreate(r) \/ LoadForUpdate(r) \/ LoadForDelete(r)
  PROVE  /\ Others(r) /\ UNCHANGED row
         /\ req'[r].pc \in {"loaded", "locked"} =>
              req'[r].user = row[req'[r].snip].author
<1>1. PICK q \in Request : q = Idle
  BY IdleIsRequest
<1>2. ASSUME NEW rec, Set(r, rec)
      PROVE  Others(r) /\ req'[r] = rec
  BY <1>2 DEF TypeOK, Set, Others
<1>3. CASE StartCreate(r)
  <2>1. \A u, t, c, v : [q EXCEPT !.pc = "insert", !.op = "create", !.user = u,
                           !.title = t, !.content = c, !.vis = v].pc = "insert"
    BY DEF Request
  <2>2. PICK u, t, c, v :
          Set(r, [q EXCEPT !.pc = "insert", !.op = "create", !.user = u,
                           !.title = t, !.content = c, !.vis = v])
    BY <1>1, <1>3 DEF StartCreate
  <2>3. /\ Others(r)
        /\ req'[r] = [q EXCEPT !.pc = "insert", !.op = "create", !.user = u,
                               !.title = t, !.content = c, !.vis = v]
    BY <1>2, <2>2
  <2>4. UNCHANGED row
    BY <1>3 DEF StartCreate
  <2>5. QED
    BY <2>1, <2>3, <2>4
<1>4. CASE LoadForUpdate(r)
  <2>1. PICK u \in Users, s \in Snippets, t \in Titles \cup {NULL},
             c \in Contents \cup {NULL} :
          LET call == [Idle EXCEPT !.op = "update", !.user = u, !.snip = s,
                                   !.title = t, !.content = c]
          IN IF Visible(s, u)
             THEN Set(r, [call EXCEPT
                            !.pc = "loaded", !.seen = row[s].title,
                            !.edits = c # versions[s][row[s].counter].content])
             ELSE Set(r, [call EXCEPT !.pc = "done", !.answer = "not_found"])
    BY <1>4 DEF LoadForUpdate
  <2> DEFINE call == [Idle EXCEPT !.op = "update", !.user = u, !.snip = s,
                                  !.title = t, !.content = c]
  <2>2. /\ [call EXCEPT !.pc = "done", !.answer = "not_found"].pc = "done"
        /\ \A x, e : LET rec == [call EXCEPT !.pc = "loaded", !.seen = x,
                                             !.edits = e]
                     IN rec.user = u /\ rec.snip = s
    BY IdleIsRequest DEF Request
  <2> HIDE DEF call
  <2>3. CASE Visible(s, u)
    <3>1. PICK x, e : Set(r, [call EXCEPT !.pc = "loaded", !.seen = x,
                                          !.edits = e])
      BY <2>1, <2>3 DEF call
    <3>2. Others(r) /\ req'[r] = [call EXCEPT !.pc = "loaded", !.seen = x,
                                              !.edits = e]
      BY <1>2, <3>1
    <3>3. req'[r].user = u /\ req'[r].snip = s
      BY <2>2, <3>2
    <3>4. UNCHANGED row /\ row[s].author = u
      BY <1>4, <2>3 DEF LoadForUpdate, Visible
    <3>5. QED
      BY <3>2, <3>3, <3>4
  <2>4. CASE ~ Visible(s, u)
    <3>1. Set(r, [call EXCEPT !.pc = "done", !.answer = "not_found"])
      BY <2>1, <2>4 DEF call
    <3>2. QED
      BY <1>2, <1>4, <2>2, <3>1 DEF LoadForUpdate
  <2>5. QED
    BY <2>3, <2>4
<1>5. CASE LoadForDelete(r)
  <2>1. PICK u \in Users, s \in Snippets :
          LET call == [q EXCEPT !.op = "delete", !.user = u, !.snip = s]
          IN Set(r, IF Visible(s, u)
                    THEN [call EXCEPT !.pc = "loaded"]
                    ELSE [call EXCEPT !.pc = "done", !.answer = "not_found"])
    BY <1>1, <1>5 DEF LoadForDelete
  <2> DEFINE call == [q EXCEPT !.op = "delete", !.user = u, !.snip = s]
             found == [call EXCEPT !.pc = "loaded"]
             other == [call EXCEPT !.pc = "done", !.answer = "not_found"]
  <2>2. other.pc = "done" /\ found.user = u /\ found.snip = s
    BY DEF Request
  <2>3. Set(r, IF Visible(s, u) THEN found ELSE other)
    BY <2>1
  <2> HIDE DEF call, found, other
  <2>4. QED
    BY <1>2, <1>5, <2>2, <2>3 DEF LoadForDelete, Visible
<1>6. QED
  BY <1>3, <1>4, <1>5

LEMMA WritersOwnInvariant == Spec => []WritersOwnRows
<1>1. Init => WritersOwnRows
  BY DEF Init, WritersOwnRows, Idle
<1>2. IInv /\ WritersOwnRows /\ [Next]_vars => WritersOwnRows'
  <2> SUFFICES ASSUME IInv, WritersOwnRows, [Next]_vars PROVE WritersOwnRows'
    OBVIOUS
  <2>1. CASE UNCHANGED vars
    BY <2>1 DEF vars, WritersOwnRows
  <2>2. ASSUME NEW r \in Requests, Others(r),
               req'[r].pc \in {"loaded", "locked"} =>
                 req'[r].user = row'[req'[r].snip].author
        PROVE  WritersOwnRows'
    <3>1. ASSUME NEW o \in Requests \ {r}, req'[o].pc \in {"loaded", "locked"}
          PROVE  req'[o].user = row'[req'[o].snip].author
      <4>1. req'[o] = req[o]
        BY <2>2 DEF Others
      <4>2. req[o].snip \in Snippets /\ Present(req[o].snip)
        BY <3>1, <4>1 DEF IInv, RowsOfCallsExist
      <4>3. QED
        BY <3>1, <4>1, <4>2, AuthorsStay DEF WritersOwnRows
    <3>2. QED
      BY <2>2, <3>1 DEF WritersOwnRows
  <2>3. ASSUME NEW r \in Requests,
               StartCreate(r) \/ LoadForUpdate(r) \/ LoadForDelete(r)
        PROVE  WritersOwnRows'
    BY <2>2, <2>3, ArrivalOwns DEF IInv
  <2>4. ASSUME NEW r \in Requests, Progress(r) \/ DbError(r) \/ Crash(r)
        PROVE  WritersOwnRows'
    <3>1. /\ Others(r)
          /\ req'[r].pc \in {"loaded", "locked"} =>
               /\ req[r].pc \in {"loaded", "locked"}
               /\ req'[r].user = req[r].user /\ req'[r].snip = req[r].snip
      BY <2>4, ProgressKeepsUser DEF IInv
    <3>2. req[r].pc \in {"loaded", "locked"} =>
            req[r].snip \in Snippets /\ Present(req[r].snip)
      BY DEF IInv, RowsOfCallsExist
    <3>3. QED
      BY <2>2, <3>1, <3>2, AuthorsStay DEF WritersOwnRows
  <2>5. QED
    BY <2>1, <2>3, <2>4 DEF Next, Quiet
<1>3. QED
  BY <1>1, <1>2, StoreInvariant, PTL DEF Spec

(* What a commit writes to a row that was there belongs to its own author. *)
LEMMA WritesAreOwn ==
  ASSUME IInv, WritersOwnRows, NEW r \in Requests, NEW s \in Snippets,
         Present(s), row'[s] # row[s] \/ versions'[s] # versions[s],
         CommitCreate(r) \/ CommitUpdate(r) \/ CommitDelete(r)
  PROVE  /\ req'[r] # req[r]
         /\ req[r].snip = s /\ req[r].user = row[s].author
<1>1. CASE CommitCreate(r)
  <2>1. req[r].snip # s
    BY <1>1 DEF CommitCreate, IInv, InsertsAreFresh
  <2>2. QED
    BY <1>1, <2>1 DEF CommitCreate, IInv, TypeOK
<1>2. CASE CommitUpdate(r) \/ CommitDelete(r)
  <2>1. PICK q \in Request : q = req[r]
    BY DEF IInv, TypeOK
  <2>2. [q EXCEPT !.pc = "committed"].pc = "committed"
    BY DEF Request
  <2>3. Set(r, [q EXCEPT !.pc = "committed"]) /\ q.pc = "locked"
    BY <1>2, <2>1 DEF CommitUpdate, CommitDelete
  <2>4. req'[r].pc = "committed"
    BY <2>2, <2>3 DEF Set, IInv, TypeOK
  <2>5. req[r].snip = s
    <3>1. ASSUME req[r].snip # s
          PROVE  row'[s] = row[s] /\ versions'[s] = versions[s]
      BY <1>2, <3>1 DEF CommitUpdate, AddVersion, CommitDelete, IInv, TypeOK
    <3>2. QED
      BY <3>1
  <2>6. QED
    BY <2>1, <2>3, <2>4, <2>5 DEF WritersOwnRows
<1>3. QED
  BY <1>1, <1>2

(* update_snippet and delete_snippet change a committed row or version only *)
(* in a call of its author, although its UPDATE asks for the row alone.     *)
THEOREM AuthorsWrite == Spec => OnlyAuthorWrites
<1> DEFINE Written(s) == Present(s) /\ (row'[s] # row[s]
                                          \/ versions'[s] # versions[s])
<1>1. ASSUME IInv, WritersOwnRows, [Next]_vars, NEW s \in Snippets, Written(s)
      PROVE  \E r \in Requests : /\ req'[r] # req[r]
                                 /\ req[r].snip = s
                                 /\ req[r].user = row[s].author
  <2>1. PICK r \in Requests : CommitCreate(r) \/ CommitUpdate(r) \/ CommitDelete(r)
    BY <1>1
    DEF Next, Quiet, vars, StartCreate, LoadForUpdate, LoadForDelete, Progress,
        InsertSnippet, ShortIdCollision, LockForUpdate, RejectNullTitle,
        CommitUnchanged, RespondUpdate, LockForDelete, EnqueueJob, DbError, Crash
  <2>2. QED
    BY <1>1, <2>1, WritesAreOwn
<1>2. IInv /\ WritersOwnRows /\ [Next]_vars =>
        [\A s \in Snippets :
            Present(s) /\ (row'[s] # row[s] \/ versions'[s] # versions[s]) =>
                \E r \in Requests :
                    /\ req'[r] # req[r]
                    /\ req[r].snip = s /\ req[r].user = row[s].author]_vars
  BY <1>1
<1>3. QED
  BY <1>2, StoreInvariant, WritersOwnInvariant, PTL
  DEF Spec, OnlyAuthorWrites
-----------------------------------------------------------------------------
(* SnippetStore implements VersionLog: only the three commits are visible. *)

statuses == [s \in Snippets |-> row[s].status]

LEMMA CreateImplements ==
  ASSUME IInv, NEW r \in Requests, CommitCreate(r)
  PROVE  \E s \in Snippets : VL!Create(s)
<1> DEFINE first == [content |-> req[r].content, visibility |-> req[r].vis]
<1>1. PICK s \in Snippets : s = req[r].snip /\ row[s].status = "absent"
  BY DEF CommitCreate, IInv, InsertsAreFresh, Present
<1>2. req[r] \in Request
  BY DEF IInv, TypeOK
<1>3. first \in VL!Version
  BY <1>2 DEF Request, VL!Version, VL!Visibility, Visibility
<1>4. versions' = [versions EXCEPT ![s] = <<first>>]
  BY <1>1 DEF CommitCreate
<1>5. statuses' = [statuses EXCEPT ![s] = "live"]
  BY <1>1 DEF statuses, CommitCreate, IInv, TypeOK
<1> HIDE DEF first
<1>6. VL!Create(s)
  BY <1>1, <1>3, <1>4, <1>5 DEF VL!Create, statuses
<1>7. QED
  BY <1>6

LEMMA UpdateImplements ==
  ASSUME IInv, NEW r \in Requests, CommitUpdate(r)
  PROVE  (\E s \in Snippets : VL!Edit(s)) \/ UNCHANGED <<statuses, versions>>
<1> DEFINE s == req[r].snip
           v == [content |-> req[r].content, visibility |-> "public"]
<1>1. s \in Snippets /\ Present(s)
  BY DEF CommitUpdate, IInv, RowsOfCallsExist
<1>2. req[r] \in Request /\ row \in [Snippets -> Row]
  BY DEF IInv, TypeOK
<1>3. v \in VL!Version
  BY <1>2 DEF Request, VL!Version, VL!Visibility
<1>4. \A p \in Snippets : row'[p].status = row[p].status
  <2>1. PICK t, n : row' = [row EXCEPT ![s].title = t, ![s].counter = n]
    BY DEF CommitUpdate
  <2>2. PICK old \in Row : old = row[s]
    BY <1>1, <1>2
  <2>3. [old EXCEPT !.title = t, !.counter = n].status = old.status
    BY DEF Row
  <2>4. row' = [row EXCEPT ![s] = [old EXCEPT !.title = t, !.counter = n]]
    BY <1>1, <1>2, <2>1, <2>2
  <2>5. QED
    BY <1>1, <1>2, <2>2, <2>3, <2>4
<1>5. UNCHANGED statuses
  BY <1>4 DEF statuses
<1>6. \/ versions' = [versions EXCEPT ![s] = Append(@, v)]
      \/ UNCHANGED versions
  BY DEF CommitUpdate, AddVersion
<1> HIDE DEF v
<1>7. CASE versions' = [versions EXCEPT ![s] = Append(@, v)]
  BY <1>1, <1>3, <1>5, <1>7 DEF VL!Edit, Present, statuses
<1>8. CASE UNCHANGED versions
  BY <1>5, <1>8
<1>9. QED
  BY <1>6, <1>7, <1>8

LEMMA DeleteImplements ==
  ASSUME IInv, NEW r \in Requests, CommitDelete(r)
  PROVE  \E s \in Snippets : VL!Delete(s)
<1> DEFINE s == req[r].snip
<1>1. s \in Snippets /\ Present(s)
  BY DEF CommitDelete, IInv, RowsOfCallsExist
<1>2. statuses' = [statuses EXCEPT ![s] = "deleted"]
  <2>1. PICK old \in Row : old = row[s]
    BY <1>1 DEF IInv, TypeOK
  <2>2. [old EXCEPT !.status = "deleted"].status = "deleted"
    BY DEF Row
  <2>3. row' = [row EXCEPT ![s] = [old EXCEPT !.status = "deleted"]]
    BY <1>1, <2>1 DEF CommitDelete, IInv, TypeOK
  <2>4. QED
    BY <1>1, <2>2, <2>3 DEF statuses, IInv, TypeOK
<1>3. QED
  BY <1>1, <1>2 DEF VL!Delete, Present, statuses, CommitDelete

(* The store promises its clients a log of immutable versions and keeps it: *)
(* a snippet appears with version 1, grows by whole versions, and no        *)
(* committed version ever changes.                                          *)
THEOREM StoreImplementsLog == Spec => ImplementsVersionLog
<1>1. Init => VL!Init
  BY DEF Init, VL!Init, NoRow
<1>2. IInv /\ [Next]_vars => [VL!Next]_<<statuses, versions>>
  <2> SUFFICES ASSUME IInv, [Next]_vars
               PROVE  VL!Next \/ UNCHANGED <<statuses, versions>>
    OBVIOUS
  <2>1. CASE UNCHANGED <<row, versions>>
    BY <2>1 DEF statuses
  <2>2. CASE \E r \in Requests : CommitCreate(r)
    BY <2>2, CreateImplements DEF VL!Next
  <2>3. CASE \E r \in Requests : CommitUpdate(r)
    BY <2>3, UpdateImplements DEF VL!Next
  <2>4. CASE \E r \in Requests : CommitDelete(r)
    BY <2>4, DeleteImplements DEF VL!Next
  <2>5. QED
    BY <2>1, <2>2, <2>3, <2>4
    DEF Next, Quiet, vars, StartCreate, LoadForUpdate, LoadForDelete, Progress,
        InsertSnippet, ShortIdCollision, LockForUpdate, RejectNullTitle,
        CommitUnchanged, RespondUpdate, LockForDelete, EnqueueJob, DbError, Crash
<1>3. IInv /\ [Next]_vars => [VL!Next]_(VL!vars)
  BY <1>2 DEF VL!vars, statuses
<1>4. QED
  BY <1>1, <1>3, StoreInvariant, PTL DEF Spec, ImplementsVersionLog, VL!Spec
=============================================================================
