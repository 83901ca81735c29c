-------------------------- MODULE ViewCounterProofs --------------------------
(* Theorems about ViewCounter, for any snippets, workers, views and failing *)
(* runs.                                                                    *)
EXTENDS ViewCounter, TLAPS

LEMMA NoFlushType ==
  /\ NoFlush \in Flush /\ NoFlush.pc = "idle"
  /\ NoFlush.keys = {} /\ NoFlush.todo = {}
  /\ \A s \in Snippets : NoFlush.got[s] = 0 /\ NoFlush.sum[s] = NULL
  BY DEF NoFlush, Flush

LEMMA GotoEffect ==
  ASSUME TypeOK, NEW f \in Flushers, NEW rec \in Flush, Goto(f, rec)
  PROVE  /\ flush' \in [Flushers -> Flush]
         /\ flush'[f] = rec
         /\ \A g \in Flushers : g # f => flush'[g] = flush[g]
  BY DEF TypeOK, Goto

(* Numbers of the counters and of the local state of a run. *)
LEMMA Numbers ==
  ASSUME TypeOK, NEW s \in Snippets
  PROVE  /\ buffer[s] \in Nat /\ views[s] \in Nat
         /\ happened[s] \in Nat /\ late[s] \in Nat
         /\ failed \in Nat /\ recounts \in Nat /\ recounts <= failed
         /\ \A f \in Flushers :
              /\ flush[f] \in Flush /\ flush[f].got[s] \in Nat
              /\ flush[f].sum[s] \in Nat \cup {NULL}
              /\ Written(f, s) \in Nat
  BY CounterAssumption DEF TypeOK, Flush, Written

(* One more view, and one more run that failed, on the bound. *)
LEMMA Bound ==
  ASSUME NEW h \in Nat, NEW r \in Nat
  PROVE  /\ h * (1 + r) \in Nat
         /\ h * (1 + r) + 1 <= (h + 1) * (1 + r)
         /\ h * (1 + (r + 1)) = h * (1 + r) + h
         /\ h <= h * (1 + r)
<1>1. h * r \in Nat /\ h * (1 + r) = h + h * r
  OBVIOUS
<1>2. (h + 1) * (1 + r) = h + h * r + 1 + r
  BY <1>1
<1>3. h * (1 + (r + 1)) = h + h * r + h
  BY <1>1
<1>4. QED
  BY <1>1, <1>2, <1>3

LEMMA InitIInv == Init => IInv
<1> SUFFICES ASSUME Init PROVE IInv
  OBVIOUS
<1>1. TypeOK
  <2>1. flush \in [Flushers -> Flush]
    BY NoFlushType DEF Init
  <2>2. /\ buffer \in [Snippets -> Nat] /\ views \in [Snippets -> Nat]
        /\ happened \in [Snippets -> Nat] /\ late \in [Snippets -> Nat]
    BY DEF Init
  <2>3. live \subseteq Snippets /\ overlap \in BOOLEAN
    BY DEF Init
  <2>4. failed = 0 /\ recounts = 0 /\ MaxFailures \in Nat
    BY CounterAssumption DEF Init
  <2>5. failed \in 0..MaxFailures /\ recounts \in 0..failed
    BY <2>4
  <2>6. QED
    BY <2>1, <2>2, <2>3, <2>5 DEF TypeOK
<1>2. OneRun /\ RunsInStep /\ RunsAreTrue
  BY NoFlushType DEF Init, OneRun, Busy, RunsInStep, RunsAreTrue, HasRead
<1>3. CountedUnlessLate
  <2>1. \A s \in live : happened[s] = 0 /\ views[s] = 0 /\ buffer[s] = 0 /\ late[s] = 0
    BY DEF Init
  <2>2. QED
    BY <2>1 DEF CountedUnlessLate
<1>4. NothingTwice
  BY NoFlushType DEF Init, NothingTwice
<1>5. QED
  BY <1>1, <1>2, <1>3, <1>4 DEF IInv
-----------------------------------------------------------------------------
LEMMA ViewKeeps ==
  ASSUME IInv, NEW s \in Snippets, View(s)
  PROVE  IInv'
<1>1. /\ buffer' = [buffer EXCEPT ![s] = @ + 1]
      /\ happened' = [happened EXCEPT ![s] = @ + 1]
      /\ UNCHANGED <<views, live, flush, failed, recounts, overlap>>
  BY DEF View
<1>2. \A x \in Snippets :
        /\ late'[x] = late[x]
           \/ late'[x] = late[x] + 1
        /\ x = s /\ (\E f \in Flushers : HasRead(f, s)) => late'[x] = late[x] + 1
  BY DEF View, IInv, TypeOK
<1>3. late' \in [Snippets -> Nat]
  BY DEF View, IInv, TypeOK
<1>4. TypeOK'
  <2>1. buffer' \in [Snippets -> Nat] /\ happened' \in [Snippets -> Nat]
    BY <1>1 DEF IInv, TypeOK
  <2>2. QED
    BY <1>1, <1>3, <2>1 DEF IInv, TypeOK
<1>5. \A x \in Snippets :
        /\ buffer'[x] = IF x = s THEN buffer[x] + 1 ELSE buffer[x]
        /\ happened'[x] = IF x = s THEN happened[x] + 1 ELSE happened[x]
  BY <1>1 DEF IInv, TypeOK
<1>6. OneRun' /\ RunsInStep'
  BY <1>1 DEF IInv, OneRun, Busy, RunsInStep, HasRead
<1>7. RunsAreTrue'
  <2> SUFFICES ASSUME ~ overlap, NEW f \in Flushers, NEW x \in Snippets
               PROVE  /\ flush[f].got[x] <= buffer'[x]
                      /\ flush[f].sum[x] # NULL =>
                           flush[f].sum[x] = IF flush[f].pc = "read"
                                THEN views[x] + flush[f].got[x] ELSE views[x]
                      /\ HasRead(f, x) /\ x \in live =>
                           happened'[x] <= Written(f, x) + late'[x]
    BY <1>1 DEF RunsAreTrue, HasRead, Written
  <2>1. /\ flush[f].got[x] <= buffer[x]
        /\ flush[f].sum[x] # NULL =>
             flush[f].sum[x] = IF flush[f].pc = "read"
                  THEN views[x] + flush[f].got[x] ELSE views[x]
        /\ HasRead(f, x) /\ x \in live => happened[x] <= Written(f, x) + late[x]
    BY DEF IInv, RunsAreTrue
  <2>2. QED
    BY <1>2, <1>5, <2>1, Numbers DEF IInv
<1>8. CountedUnlessLate'
  <2>1. \A x \in live : x \in Snippets
    BY DEF IInv, TypeOK
  <2>2. QED
    BY <1>1, <1>2, <1>5, <2>1, Numbers DEF IInv, CountedUnlessLate
<1>9. NothingTwice'
  <2>1. ASSUME NEW x \in Snippets
        PROVE  buffer'[x] <= happened'[x]
    BY <1>5, Numbers DEF IInv, NothingTwice
  <2>2. ASSUME NEW x \in Snippets
        PROVE  /\ happened[x] * (1 + recounts) \in Nat
               /\ happened'[x] * (1 + recounts)
                    >= happened[x] * (1 + recounts) + (buffer'[x] - buffer[x])
    <3>1. happened[x] \in Nat /\ recounts \in Nat /\ buffer[x] \in Nat
      BY Numbers DEF IInv
    <3>2. /\ happened[x] * (1 + recounts) \in Nat
          /\ (happened[x] + 1) * (1 + recounts)
               >= happened[x] * (1 + recounts) + 1
      BY <3>1, Bound
    <3>3. CASE x = s
      <4>1. happened'[x] = happened[x] + 1 /\ buffer'[x] - buffer[x] = 1
        BY <1>5, <3>1, <3>3
      <4>2. QED
        BY <3>2, <4>1
    <3>4. CASE x # s
      <4>1. happened'[x] = happened[x] /\ buffer'[x] - buffer[x] = 0
        BY <1>5, <3>1, <3>4
      <4>2. QED
        BY <3>2, <4>1
    <3>5. QED
      BY <3>3, <3>4
  <2>3. ASSUME ~ overlap, NEW x \in Snippets
        PROVE  /\ \/ \E f \in Flushers : flush[f].pc = "delete"
                  \/ views[x] + buffer'[x] <= happened'[x] * (1 + recounts)
               /\ \A f \in Flushers : flush[f].pc = "delete" =>
                    views[x] + buffer'[x] - flush[f].got[x]
                      <= happened'[x] * (1 + recounts)
    <3> DEFINE b == happened[x] * (1 + recounts)
               c == happened'[x] * (1 + recounts)
    <3>1. b \in Nat /\ c >= b + (buffer'[x] - buffer[x])
      BY <2>2
    <3>2. c \in Int
      BY <1>5, Numbers, Bound DEF IInv
    <3>3. /\ \/ \E f \in Flushers : flush[f].pc = "delete"
             \/ views[x] + buffer[x] <= b
          /\ \A f \in Flushers : flush[f].pc = "delete" =>
               views[x] + buffer[x] - flush[f].got[x] <= b
      BY <2>3 DEF IInv, NothingTwice
    <3> HIDE DEF b, c
    <3>4. buffer[x] \in Nat /\ buffer'[x] \in Nat /\ views[x] \in Nat
      BY <1>5, Numbers DEF IInv
    <3>5. \A f \in Flushers : flush[f].got[x] \in Nat
      BY Numbers DEF IInv
    <3>6. QED
      BY <3>1, <3>2, <3>3, <3>4, <3>5 DEF c
  <2>4. QED
    BY <1>1, <2>1, <2>3 DEF NothingTwice
<1>10. QED
  BY <1>4, <1>6, <1>7, <1>8, <1>9 DEF IInv

LEMMA SoftDeleteKeeps ==
  ASSUME IInv, NEW s \in Snippets, SoftDelete(s)
  PROVE  IInv'
<1>1. /\ live' \subseteq live
      /\ UNCHANGED <<buffer, views, flush, happened, late, failed, recounts, overlap>>
  BY DEF SoftDelete, history
<1>2. TypeOK'
  BY <1>1 DEF IInv, TypeOK
<1>3. OneRun' /\ RunsInStep' /\ NothingTwice'
  BY <1>1 DEF IInv, OneRun, Busy, RunsInStep, HasRead, NothingTwice
<1>4. RunsAreTrue' /\ CountedUnlessLate'
  BY <1>1 DEF IInv, RunsAreTrue, HasRead, Written, CountedUnlessLate
<1>5. QED
  BY <1>2, <1>3, <1>4 DEF IInv
-----------------------------------------------------------------------------
(* A run that begins or ends knows nothing; the others go on. *)
LEMMA Forgets ==
  ASSUME IInv, NEW f \in Flushers, NEW rec \in Flush, Goto(f, rec),
         UNCHANGED <<happened, late, live>>,
         rec.todo \subseteq rec.keys, rec.keys = rec.todo,
         rec.pc = "idle" => rec.keys = {},
         rec.pc # "delete",
         \A s \in Snippets : rec.got[s] = 0 /\ rec.sum[s] = NULL
  PROVE  RunsInStep'
<1>1. /\ flush' \in [Flushers -> Flush] /\ flush'[f] = rec
      /\ \A g \in Flushers : g # f => flush'[g] = flush[g]
  BY GotoEffect DEF IInv
<1>2. QED
  BY <1>1 DEF IInv, RunsInStep, HasRead

LEMMA KeysKeeps ==
  ASSUME IInv, NEW f \in Flushers, Keys(f)
  PROVE  IInv'
<1> DEFINE ks == {s \in Snippets : buffer[s] > 0}
           rec == [NoFlush EXCEPT !.pc = "read", !.keys = ks, !.todo = ks]
<1>1. flush[f].pc = "idle"
      /\ UNCHANGED <<buffer, views, live, happened, late, failed, recounts>>
  BY DEF Keys
<1>2. CASE UNCHANGED <<flush, overlap>>
  BY <1>1, <1>2
  DEF IInv, TypeOK, OneRun, Busy, RunsInStep, HasRead, RunsAreTrue, Written,
      CountedUnlessLate, NothingTwice
<1>3. CASE /\ Goto(f, rec)
           /\ overlap' = (overlap \/ \E g \in Flushers : flush[g].pc # "idle")
  <2>1. /\ rec \in Flush /\ rec.pc = "read" /\ rec.keys = ks /\ rec.todo = ks
        /\ \A s \in Snippets : rec.got[s] = 0 /\ rec.sum[s] = NULL
    <3>1. ks \in SUBSET Snippets
      OBVIOUS
    <3>2. PICK q \in Flush : q = NoFlush
      BY NoFlushType
    <3> HIDE DEF ks
    <3>3. LET r == [q EXCEPT !.pc = "read", !.keys = ks, !.todo = ks]
          IN r \in Flush /\ r.pc = "read" /\ r.keys = ks /\ r.todo = ks
             /\ r.got = q.got /\ r.sum = q.sum
      BY <3>1 DEF Flush
    <3>4. QED
      BY <3>2, <3>3, NoFlushType
  <2> HIDE DEF rec, ks
  <2>2. /\ flush' \in [Flushers -> Flush] /\ flush'[f] = rec
        /\ \A g \in Flushers : g # f => flush'[g] = flush[g]
    BY <1>3, <2>1, GotoEffect DEF IInv
  <2>3. RunsInStep'
    BY <1>1, <1>3, <2>1, Forgets
  <2>4. overlap' \in BOOLEAN /\ (overlap => overlap')
    BY <1>3 DEF IInv, TypeOK
  <2>5. TypeOK'
    BY <1>1, <2>2, <2>4 DEF IInv, TypeOK
  <2>6. OneRun'
    BY <1>3, <2>2 DEF OneRun, Busy
  <2>7. RunsAreTrue'
    <3>1. ASSUME NEW s \in Snippets
          PROVE  rec.got[s] <= buffer[s]
      BY <2>1, Numbers DEF IInv
    <3>2. QED
      BY <1>1, <2>1, <2>2, <2>4, <3>1 DEF IInv, RunsAreTrue, HasRead, Written
  <2>8. CountedUnlessLate'
    BY <1>1, <2>4 DEF IInv, CountedUnlessLate
  <2>9. NothingTwice'
    BY <1>1, <2>1, <2>2, <2>4 DEF IInv, NothingTwice
  <2>10. QED
    BY <2>3, <2>5, <2>6, <2>7, <2>8, <2>9 DEF IInv
<1>4. QED
  BY <1>2, <1>3 DEF Keys

LEMMA ReadKeeps ==
  ASSUME IInv, NEW f \in Flushers, Read(f)
  PROVE  IInv'
<1>1. PICK q \in Flush : q = flush[f]
  BY DEF IInv, TypeOK
<1>2. PICK s \in q.todo :
        Goto(f, [q EXCEPT
                   !.todo = @ \ {s}, !.got[s] = buffer[s],
                   !.sum[s] = IF buffer[s] > 0 /\ s \in live
                              THEN views[s] + buffer[s] ELSE NULL])
  BY <1>1 DEF Read
<1> DEFINE x == IF buffer[s] > 0 /\ s \in live THEN views[s] + buffer[s] ELSE NULL
           rec == [q EXCEPT !.todo = @ \ {s}, !.got[s] = buffer[s], !.sum[s] = x]
<1>3. s \in Snippets /\ buffer[s] \in Nat /\ x \in Nat \cup {NULL}
  BY Numbers DEF IInv, Flush
<1>4. /\ rec \in Flush /\ rec.pc = q.pc /\ rec.keys = q.keys
      /\ rec.todo = q.todo \ {s}
      /\ rec.got = [q.got EXCEPT ![s] = buffer[s]]
      /\ rec.sum = [q.sum EXCEPT ![s] = x]
  <2> HIDE DEF x
  <2>1. /\ [q.got EXCEPT ![s] = buffer[s]] \in [Snippets -> Nat]
        /\ [q.sum EXCEPT ![s] = x] \in [Snippets -> Nat \cup {NULL}]
    BY <1>3 DEF Flush
  <2>2. QED
    BY <2>1 DEF Flush
<1>5. Goto(f, rec) /\ q.pc = "read"
      /\ UNCHANGED <<buffer, views, live, happened, late, failed, recounts, overlap>>
  BY <1>1, <1>2 DEF Read, history
<1> HIDE DEF rec, x
<1>6. /\ flush' \in [Flushers -> Flush] /\ flush'[f] = rec
      /\ \A g \in Flushers : g # f => flush'[g] = flush[g]
  BY <1>4, <1>5, GotoEffect DEF IInv
<1>7. /\ rec.got[s] = buffer[s] /\ rec.sum[s] = x
      /\ \A y \in Snippets : y # s =>
            rec.got[y] = q.got[y] /\ rec.sum[y] = q.sum[y]
  BY <1>3, <1>4 DEF Flush
<1>8. TypeOK'
  BY <1>5, <1>6 DEF IInv, TypeOK
<1>9. OneRun'
  BY <1>1, <1>4, <1>5, <1>6 DEF IInv, OneRun, Busy
<1>10. RunsInStep'
  <2>1. /\ q.todo \subseteq q.keys
        /\ \A y \in Snippets : y \notin q.keys \ q.todo =>
             q.got[y] = 0 /\ q.sum[y] = NULL
    BY <1>1 DEF IInv, RunsInStep, HasRead
  <2>2. /\ rec.todo \subseteq rec.keys /\ rec.pc = "read"
        /\ \A y \in Snippets : y \notin rec.keys \ rec.todo =>
             rec.got[y] = 0 /\ rec.sum[y] = NULL
    BY <1>2, <1>4, <1>5, <1>7, <2>1
  <2>3. QED
    BY <1>6, <2>2 DEF IInv, RunsInStep, HasRead
<1>11. RunsAreTrue'
  <2> SUFFICES ASSUME ~ overlap, NEW g \in Flushers, NEW y \in Snippets
               PROVE  /\ flush'[g].got[y] <= buffer[y]
                      /\ flush'[g].sum[y] # NULL =>
                           flush'[g].sum[y] = IF flush'[g].pc = "read"
                                THEN views[y] + flush'[g].got[y] ELSE views[y]
                      /\ HasRead(g, y)' /\ y \in live =>
                           happened[y] <= Written(g, y)' + late[y]
    BY <1>5 DEF RunsAreTrue
  <2>1. /\ flush[g].got[y] <= buffer[y]
        /\ flush[g].sum[y] # NULL =>
             flush[g].sum[y] = IF flush[g].pc = "read"
                  THEN views[y] + flush[g].got[y] ELSE views[y]
        /\ HasRead(g, y) /\ y \in live => happened[y] <= Written(g, y) + late[y]
    BY DEF IInv, RunsAreTrue
  <2>2. CASE g # f
    BY <1>5, <1>6, <2>1, <2>2 DEF HasRead, Written
  <2>3. CASE g = f /\ y # s
    BY <1>1, <1>4, <1>5, <1>6, <1>7, <2>1, <2>3 DEF HasRead, Written
  <2>4. CASE g = f /\ y = s
    <3>1. /\ happened[s] \in Nat /\ views[s] \in Nat /\ late[s] \in Nat
          /\ buffer[s] \in Nat
      BY <1>3, Numbers DEF IInv
    <3>2. s \in live => happened[s] <= views[s] + buffer[s] + late[s]
      BY DEF IInv, CountedUnlessLate
    <3>3. x = NULL \/ (x = views[s] + buffer[s] /\ x # NULL)
      BY <3>1, CounterAssumption DEF x
    <3>4. s \in live /\ x = NULL => buffer[s] = 0
      BY <3>1, CounterAssumption DEF x
    <3>5. Written(f, s)' = IF x = NULL THEN views[s] ELSE x
      BY <1>5, <1>6, <1>7 DEF Written
    <3>6. /\ flush'[f].got[s] = buffer[s] /\ flush'[f].sum[s] = x
          /\ flush'[f].pc = "read"
      BY <1>4, <1>5, <1>6, <1>7
    <3>7. s \in live => happened[s] <= Written(f, s)' + late[s]
      <4>1. CASE x = NULL
        BY <3>1, <3>2, <3>4, <3>5, <4>1
      <4>2. CASE x # NULL
        BY <3>1, <3>2, <3>3, <3>5, <4>2
      <4>3. QED
        BY <4>1, <4>2
    <3>8. QED
      BY <2>4, <3>1, <3>3, <3>6, <3>7
  <2>5. QED
    BY <2>2, <2>3, <2>4
<1>12. CountedUnlessLate'
  BY <1>5 DEF IInv, CountedUnlessLate
<1>13. NothingTwice'
  BY <1>1, <1>4, <1>5, <1>6 DEF IInv, NothingTwice
<1>14. QED
  BY <1>8, <1>9, <1>10, <1>11, <1>12, <1>13 DEF IInv

(* Alone, the other workers are idle and know nothing. *)
LEMMA OthersIdle ==
  ASSUME IInv, ~ overlap, NEW f \in Flushers, flush[f].pc # "idle",
         NEW g \in Flushers, g # f, NEW s \in Snippets
  PROVE  /\ flush[g].pc = "idle" /\ ~ HasRead(g, s)
         /\ flush[g].got[s] = 0 /\ flush[g].sum[s] = NULL
  BY DEF IInv, OneRun, Busy, RunsInStep, HasRead

LEMMA CommitKeeps ==
  ASSUME IInv, NEW f \in Flushers, Commit(f)
  PROVE  IInv'
<1>1. PICK q \in Flush : q = flush[f]
  BY DEF IInv, TypeOK
<1> DEFINE rec == [q EXCEPT !.pc = "delete"]
<1>2. /\ rec \in Flush /\ rec.pc = "delete" /\ rec.keys = q.keys
      /\ rec.todo = q.todo /\ rec.got = q.got /\ rec.sum = q.sum
  BY DEF Flush
<1>3. /\ Goto(f, rec) /\ q.pc = "read" /\ q.todo = {}
      /\ UNCHANGED <<buffer, live, happened, late, failed, recounts, overlap>>
  BY <1>1 DEF Commit, history
<1> HIDE DEF rec
<1>4. /\ flush' \in [Flushers -> Flush] /\ flush'[f] = rec
      /\ \A g \in Flushers : g # f => flush'[g] = flush[g]
  BY <1>2, <1>3, GotoEffect DEF IInv
<1>5. \A s \in Snippets : views'[s] = Written(f, s)
  BY DEF Commit, Written
<1>6. views' \in [Snippets -> Nat]
  <2>1. \A s \in Snippets : Written(f, s) \in Nat
    BY Numbers DEF IInv
  <2>2. views' = [s \in Snippets |-> Written(f, s)]
    BY DEF Commit, Written
  <2>3. QED
    BY <2>1, <2>2
<1>7. TypeOK'
  BY <1>3, <1>4, <1>6 DEF IInv, TypeOK
<1>8. OneRun'
  BY <1>1, <1>2, <1>3, <1>4 DEF IInv, OneRun, Busy
<1>9. RunsInStep'
  BY <1>1, <1>2, <1>3, <1>4 DEF IInv, RunsInStep, HasRead
<1>10. ASSUME ~ overlap, NEW s \in Snippets
       PROVE  /\ \A g \in Flushers :
                   /\ flush'[g].got[s] <= buffer[s]
                   /\ flush'[g].sum[s] # NULL =>
                        flush'[g].sum[s] = IF flush'[g].pc = "read"
                             THEN views'[s] + flush'[g].got[s] ELSE views'[s]
                   /\ HasRead(g, s)' /\ s \in live =>
                        happened[s] <= Written(g, s)' + late[s]
              /\ s \in live => happened[s] <= views'[s] + buffer[s] + late[s]
              /\ views'[s] + buffer[s] - q.got[s] <= happened[s] * (1 + recounts)
  <2>1. /\ q.got[s] <= buffer[s]
        /\ q.sum[s] # NULL => q.sum[s] = views[s] + q.got[s]
        /\ HasRead(f, s) /\ s \in live => happened[s] <= Written(f, s) + late[s]
        /\ ~ HasRead(f, s) => q.got[s] = 0 /\ q.sum[s] = NULL
    BY <1>1, <1>3, <1>10 DEF IInv, RunsAreTrue, RunsInStep
  <2>2. /\ q.got[s] \in Nat /\ buffer[s] \in Nat /\ views[s] \in Nat
        /\ happened[s] \in Nat /\ late[s] \in Nat /\ recounts \in Nat
        /\ Written(f, s) \in Nat
    BY <1>1, Numbers DEF IInv
  <2>3. Written(f, s)' = Written(f, s) /\ (HasRead(f, s)' <=> HasRead(f, s))
    BY <1>1, <1>2, <1>4, <1>5 DEF Written, HasRead
  <2>4. Written(f, s) = IF q.sum[s] = NULL THEN views[s] ELSE q.sum[s]
    BY <1>1 DEF Written
  <2>5. ASSUME NEW g \in Flushers
        PROVE  /\ flush'[g].got[s] <= buffer[s]
               /\ flush'[g].sum[s] # NULL =>
                    flush'[g].sum[s] = IF flush'[g].pc = "read"
                         THEN views'[s] + flush'[g].got[s] ELSE views'[s]
               /\ HasRead(g, s)' /\ s \in live =>
                    happened[s] <= Written(g, s)' + late[s]
    <3>1. CASE g = f
      BY <1>2, <1>4, <1>5, <2>1, <2>2, <2>3, <2>4, <3>1
    <3>2. CASE g # f
      <4>1. /\ flush'[g] = flush[g]
            /\ flush[g].got[s] = 0 /\ flush[g].sum[s] = NULL /\ ~ HasRead(g, s)
        BY <1>1, <1>3, <1>4, <1>10, <3>2, OthersIdle
      <4>2. ~ HasRead(g, s)'
        BY <4>1 DEF HasRead
      <4>3. QED
        BY <2>2, <4>1, <4>2
    <3>3. QED
      BY <3>1, <3>2
  <2>6. s \in live => happened[s] <= views'[s] + buffer[s] + late[s]
    <3>1. s \in live => happened[s] <= views[s] + buffer[s] + late[s]
      BY <1>10 DEF IInv, CountedUnlessLate
    <3>2. QED
      BY <1>5, <2>1, <2>2, <2>4, <3>1
  <2>7. views'[s] + buffer[s] - q.got[s] <= happened[s] * (1 + recounts)
    <3>1. \A g \in Flushers : flush[g].pc # "delete"
      BY <1>1, <1>3, <1>10, OthersIdle
    <3>2. views[s] + buffer[s] <= happened[s] * (1 + recounts)
      BY <1>10, <3>1 DEF IInv, NothingTwice
    <3> DEFINE b == happened[s] * (1 + recounts)
    <3>3. b \in Nat
      BY <2>2, Bound
    <3> HIDE DEF b
    <3>4. views[s] + buffer[s] <= b
      BY <3>2 DEF b
    <3>5. views'[s] + buffer[s] - q.got[s] <= b
      BY <1>5, <2>1, <2>2, <2>4, <3>3, <3>4
    <3>6. QED
      BY <3>5 DEF b
  <2>8. QED
    BY <2>5, <2>6, <2>7
<1>11. RunsAreTrue' /\ CountedUnlessLate'
  <2>1. \A s \in live : s \in Snippets
    BY DEF IInv, TypeOK
  <2>2. QED
    BY <1>3, <1>10, <2>1 DEF RunsAreTrue, CountedUnlessLate
<1>12. NothingTwice'
  <2>1. ASSUME ~ overlap
        PROVE  \A g \in Flushers : g # f => flush'[g].pc # "delete"
    BY <1>1, <1>3, <1>4, <2>1 DEF IInv, OneRun, Busy
  <2>2. flush'[f].pc = "delete" /\ flush'[f].got = q.got
    BY <1>2, <1>4
  <2>3. QED
    BY <1>3, <1>10, <2>1, <2>2 DEF IInv, NothingTwice
<1>13. QED
  BY <1>7, <1>8, <1>9, <1>11, <1>12 DEF IInv

LEMMA DeleteKeeps ==
  ASSUME IInv, NEW f \in Flushers, Delete(f)
  PROVE  IInv'
<1>1. PICK q \in Flush : q = flush[f]
  BY DEF IInv, TypeOK
<1>2. /\ Goto(f, NoFlush) /\ q.pc = "delete"
      /\ UNCHANGED <<views, live, happened, late, failed, recounts, overlap>>
  BY <1>1 DEF Delete, history
<1>3. /\ flush' \in [Flushers -> Flush] /\ flush'[f] = NoFlush
      /\ \A g \in Flushers : g # f => flush'[g] = flush[g]
  BY <1>2, NoFlushType, GotoEffect DEF IInv
<1>4. buffer' = [s \in Snippets |-> IF s \in q.keys THEN 0 ELSE buffer[s]]
  BY <1>1 DEF Delete, Dropped, Remains
<1>5. TypeOK'
  <2>1. buffer' \in [Snippets -> Nat]
    BY <1>4, Numbers DEF IInv
  <2>2. QED
    BY <1>2, <1>3, <2>1 DEF IInv, TypeOK
<1>6. OneRun' /\ RunsInStep'
  <2>1. RunsInStep'
    BY <1>2, NoFlushType, Forgets
  <2>2. QED
    BY <1>1, <1>2, <1>3, <2>1, NoFlushType DEF IInv, OneRun, Busy
<1>7. ASSUME ~ overlap, NEW s \in Snippets
      PROVE  /\ \A g \in Flushers :
                   /\ flush'[g].pc # "delete" /\ ~ HasRead(g, s)'
                   /\ flush'[g].got[s] = 0 /\ flush'[g].sum[s] = NULL
             /\ buffer'[s] \in Nat
             /\ s \in live => happened[s] <= views[s] + buffer'[s] + late[s]
             /\ views[s] + buffer'[s] <= happened[s] * (1 + recounts)
  <2>1. /\ q.got[s] <= buffer[s] /\ (q.sum[s] # NULL => q.sum[s] = views[s])
        /\ HasRead(f, s) /\ s \in live => happened[s] <= Written(f, s) + late[s]
        /\ ~ HasRead(f, s) => q.got[s] = 0
        /\ HasRead(f, s) <=> s \in q.keys
    BY <1>1, <1>2, <1>7 DEF IInv, RunsAreTrue, RunsInStep, HasRead
  <2>2. /\ q.got[s] \in Nat /\ buffer[s] \in Nat /\ views[s] \in Nat
        /\ happened[s] \in Nat /\ late[s] \in Nat /\ recounts \in Nat
    BY <1>1, Numbers DEF IInv
  <2>3. Written(f, s) = views[s]
    BY <1>1, <2>1 DEF Written
  <2>4. ASSUME NEW g \in Flushers
        PROVE  /\ flush'[g].pc # "delete" /\ ~ HasRead(g, s)'
               /\ flush'[g].got[s] = 0 /\ flush'[g].sum[s] = NULL
    <3>1. CASE g = f
      BY <1>3, <3>1, NoFlushType DEF HasRead
    <3>2. CASE g # f
      BY <1>1, <1>2, <1>3, <1>7, <3>2, OthersIdle DEF HasRead
    <3>3. QED
      BY <3>1, <3>2
  <2>5. buffer'[s] = IF s \in q.keys THEN 0 ELSE buffer[s]
    BY <1>4
  <2>6. s \in live => happened[s] <= views[s] + buffer'[s] + late[s]
    <3>1. s \in live => happened[s] <= views[s] + buffer[s] + late[s]
      BY <1>7 DEF IInv, CountedUnlessLate
    <3>2. QED
      BY <2>1, <2>2, <2>3, <2>5, <3>1
  <2>7. views[s] + buffer'[s] <= happened[s] * (1 + recounts)
    <3> DEFINE b == happened[s] * (1 + recounts)
    <3>1. views[s] + buffer[s] - q.got[s] <= b
      BY <1>1, <1>2, <1>7 DEF IInv, NothingTwice
    <3>2. b \in Nat
      BY <2>2, Bound
    <3> HIDE DEF b
    <3>3. views[s] + buffer'[s] <= b
      BY <2>1, <2>2, <2>5, <3>1, <3>2
    <3>4. QED
      BY <3>3 DEF b
  <2>8. QED
    BY <2>2, <2>4, <2>5, <2>6, <2>7
<1>8. RunsAreTrue' /\ CountedUnlessLate'
  <2>1. \A s \in live : s \in Snippets
    BY DEF IInv, TypeOK
  <2>2. ASSUME ~ overlap, NEW s \in Snippets
        PROVE  0 <= buffer'[s]
    BY <1>7, <2>2
  <2>3. QED
    BY <1>2, <1>7, <2>1, <2>2 DEF RunsAreTrue, CountedUnlessLate
<1>9. NothingTwice'
  <2>1. ASSUME NEW s \in Snippets
        PROVE  buffer'[s] <= happened[s]
    BY <1>4, Numbers DEF IInv, NothingTwice
  <2>2. QED
    BY <1>2, <1>7, <2>1 DEF NothingTwice
<1>10. QED
  BY <1>5, <1>6, <1>8, <1>9 DEF IInv

LEMMA FailKeeps ==
  ASSUME IInv, NEW f \in Flushers, Fail(f)
  PROVE  IInv'
<1>1. PICK q \in Flush : q = flush[f]
  BY DEF IInv, TypeOK
<1>2. /\ Goto(f, NoFlush) /\ q.pc # "idle" /\ failed < MaxFailures
      /\ UNCHANGED <<buffer, views, live, happened, late, overlap>>
      /\ failed' = failed + 1
      /\ recounts' = IF q.pc = "delete" THEN recounts + 1 ELSE recounts
  BY <1>1 DEF Fail
<1>3. /\ flush' \in [Flushers -> Flush] /\ flush'[f] = NoFlush
      /\ \A g \in Flushers : g # f => flush'[g] = flush[g]
  BY <1>2, NoFlushType, GotoEffect DEF IInv
<1>4. TypeOK'
  <2>1. failed \in Nat /\ recounts \in 0..failed /\ MaxFailures \in Nat
    BY CounterAssumption DEF IInv, TypeOK
  <2>2. failed' \in 0..MaxFailures /\ recounts' \in 0..failed'
    BY <1>2, <2>1
  <2>3. QED
    BY <1>2, <1>3, <2>2 DEF IInv, TypeOK
<1>5. OneRun' /\ RunsInStep'
  <2>1. RunsInStep'
    BY <1>2, NoFlushType, Forgets
  <2>2. QED
    BY <1>1, <1>2, <1>3, <2>1, NoFlushType DEF IInv, OneRun, Busy
<1>6. ASSUME ~ overlap, NEW s \in Snippets
      PROVE  /\ \A g \in Flushers :
                   /\ flush'[g].pc # "delete" /\ ~ HasRead(g, s)'
                   /\ flush'[g].got[s] = 0 /\ flush'[g].sum[s] = NULL
             /\ views[s] + buffer[s] <= happened[s] * (1 + recounts')
  <2>1. ASSUME NEW g \in Flushers
        PROVE  /\ flush'[g].pc # "delete" /\ ~ HasRead(g, s)'
               /\ flush'[g].got[s] = 0 /\ flush'[g].sum[s] = NULL
    <3>1. CASE g = f
      BY <1>3, <3>1, NoFlushType DEF HasRead
    <3>2. CASE g # f
      BY <1>1, <1>2, <1>3, <1>6, <3>2, OthersIdle DEF HasRead
    <3>3. QED
      BY <3>1, <3>2
  <2>2. /\ q.got[s] \in Nat /\ buffer[s] \in Nat /\ views[s] \in Nat
        /\ happened[s] \in Nat /\ recounts \in Nat
    BY <1>1, Numbers DEF IInv
  <2>3. q.got[s] <= buffer[s] /\ buffer[s] <= happened[s]
    BY <1>1, <1>6 DEF IInv, RunsAreTrue, NothingTwice
  <2> DEFINE b == happened[s] * (1 + recounts)
             c == happened[s] * (1 + recounts')
  <2>4. CASE q.pc = "delete"
    <3>1. views[s] + buffer[s] - q.got[s] <= b
      BY <1>1, <1>6, <2>4 DEF IInv, NothingTwice
    <3>2. b \in Nat /\ c = b + happened[s]
      BY <1>2, <2>2, <2>4, Bound
    <3> HIDE DEF b, c
    <3>3. views[s] + buffer[s] <= c
      BY <2>2, <2>3, <3>1, <3>2
    <3>4. QED
      BY <2>1, <3>3 DEF c
  <2>5. CASE q.pc # "delete"
    <3>1. \A g \in Flushers : flush[g].pc # "delete"
      BY <1>1, <1>2, <1>6, <2>5, OthersIdle
    <3>2. views[s] + buffer[s] <= b
      BY <1>6, <3>1 DEF IInv, NothingTwice
    <3>3. QED
      BY <1>2, <2>1, <2>5, <3>2
  <2>6. QED
    BY <2>4, <2>5
<1>7. RunsAreTrue' /\ CountedUnlessLate'
  <2>1. \A s \in Snippets : 0 <= buffer[s]
    BY DEF IInv, TypeOK
  <2>2. RunsAreTrue'
    BY <1>2, <1>6, <2>1 DEF RunsAreTrue
  <2>3. CountedUnlessLate'
    BY <1>2 DEF IInv, CountedUnlessLate
  <2>4. QED
    BY <2>2, <2>3
<1>8. NothingTwice'
  BY <1>2, <1>6 DEF IInv, NothingTwice
<1>9. QED
  BY <1>4, <1>5, <1>7, <1>8 DEF IInv
-----------------------------------------------------------------------------
LEMMA NextKeepsIInv == IInv /\ [Next]_vars => IInv'
<1> SUFFICES ASSUME IInv, [Next]_vars PROVE IInv'
  OBVIOUS
<1>1. ASSUME NEW s \in Snippets, View(s) \/ SoftDelete(s)
      PROVE  IInv'
  BY <1>1, ViewKeeps, SoftDeleteKeeps
<1>2. ASSUME NEW f \in Flushers, Step(f) \/ Fail(f)
      PROVE  IInv'
  BY <1>2, KeysKeeps, ReadKeeps, CommitKeeps, DeleteKeeps, FailKeeps DEF Step
<1>3. CASE UNCHANGED vars
  BY <1>3
  DEF vars, IInv, TypeOK, OneRun, Busy, RunsInStep, HasRead, RunsAreTrue,
      Written, CountedUnlessLate, NothingTwice
<1>4. QED
  BY <1>1, <1>2, <1>3 DEF Next

(* The inductive invariant of the counters: what a run holds is true to    *)
(* the buffer and to the table as long as it is alone.                     *)
THEOREM CounterInvariant == Spec => []IInv
  BY InitIInv, NextKeepsIInv, PTL DEF Spec

(* Counters, runs and histories keep their types. *)
THEOREM TypeCorrect == Spec => []TypeOK
<1>1. IInv => TypeOK
  BY DEF IInv
<1>2. QED
  BY <1>1, CounterInvariant, PTL

(* Runs that do not overlap, whatever fails and is retried: a view of a    *)
(* snippet that is not deleted is lost only between a GET and its DELETE.  *)
THEOREM NoViewLost == Spec => []CountedUnlessLate
<1>1. IInv => CountedUnlessLate
  BY DEF IInv
<1>2. QED
  BY <1>1, CounterInvariant, PTL

(* Runs that do not overlap: each view is counted at most once, and once   *)
(* more for each run that failed after its commit.                         *)
THEOREM NoViewTwice == Spec => []CountedOncePerTry
<1>1. IInv => CountedOncePerTry
  BY DEF IInv, NothingTwice, CountedOncePerTry
<1>2. QED
  BY <1>1, CounterInvariant, PTL
=============================================================================
