-------------------------- MODULE SearchIndexProofs --------------------------
(* Theorems about SearchIndex, for any snippets, words, texts, queries and  *)
(* clients.                                                                 *)
EXTENDS SearchIndex, SequenceFacts, TLAPS
-----------------------------------------------------------------------------
LEMMA NoCallType == NoCall \in Call
  BY DEF NoCall, Call

LEMMA JobType ==
  ASSUME TypeOK, NEW i \in DOMAIN jobs
  PROVE  jobs[i] \in Job /\ jobs[i].snip \in Snippets
<1>1. jobs[i] \in Job
  BY DEF TypeOK
<1>2. QED
  BY <1>1 DEF Job

LEMMA InitIInv == Init => IInv
<1> SUFFICES ASSUME Init PROVE IInv
  OBVIOUS
<1>1. doc \in [Snippets -> Doc] /\ \A s \in Snippets : doc[s].status = "absent"
  <2>1. [status |-> "absent", versions |-> << >>] \in Doc
    BY DEF Doc
  <2>2. QED
    BY <2>1 DEF Init
<1>2. /\ index \in [Words -> SUBSET Snippets]
      /\ results \in [Queries -> Result \cup {NULL}]
      /\ jobs = << >> /\ lost = {}
      /\ call \in [Callers -> Call]
      /\ rough \in BOOLEAN
  BY NoCallType DEF Init
<1>3. writes \in 0..MaxWrites /\ members \in 0..MaxMembers
  BY SearchAssumption DEF Init
<1>4. TypeOK
  BY <1>1, <1>2, <1>3 DEF TypeOK
<1>5. QED
  BY <1>1, <1>2, <1>4 DEF IInv, JobsMatchDocs, FirstTextFindable, RemovedLast

(* A search changes nothing the invariant is about but the type of call,    *)
(* results and members.                                                     *)
LEMMA SearchesKeep ==
  ASSUME IInv, UNCHANGED <<doc, index, jobs, lost, writes, rough>>,
         call' \in [Callers -> Call],
         results' \in [Queries -> Result \cup {NULL}],
         members' \in 0..MaxMembers
  PROVE  IInv'
<1>1. TypeOK'
  BY DEF IInv, TypeOK
<1>2. JobsMatchDocs' /\ FirstTextFindable' /\ RemovedLast'
  BY DEF IInv, JobsMatchDocs, JobMatches, FirstTextFindable, RemovedLast,
         Latest, Indexes, Removes
<1>3. QED
  BY <1>1, <1>2 DEF IInv

LEMMA GotoType ==
  ASSUME TypeOK, NEW c \in Callers, NEW rec \in Call, Goto(c, rec)
  PROVE  call' \in [Callers -> Call]
  BY DEF TypeOK, Goto

LEMMA SearchKeeps ==
  ASSUME IInv, NEW c \in Callers,
         \/ \E q \in Queries, l \in BOOLEAN : Search(c, q, l)
         \/ Proceed(c) \/ Abort(c)
  PROVE  IInv'
<1>1. /\ TypeOK /\ UNCHANGED <<doc, index, jobs, lost, writes, rough>>
      /\ call \in [Callers -> Call] /\ results \in [Queries -> Result \cup {NULL}]
      /\ members \in 0..MaxMembers
  BY DEF IInv, TypeOK, Search, Proceed, Sinter, Select, Store, Abort
<1>2. PICK q \in Call : q = call[c]
  BY <1>1
<1>3. CASE \E y \in Queries, l \in BOOLEAN : Search(c, y, l)
  <2>1. PICK y \in Queries, l \in BOOLEAN : Search(c, y, l)
    BY <1>3
  <2>2. results' = results
    BY <2>1 DEF Search, Served
  <2>3. members' \in 0..MaxMembers
    <3>1. members' = members \/ (members < MaxMembers /\ members' = members + 1)
      BY <2>1 DEF Search
    <3>2. MaxMembers \in Nat
      BY SearchAssumption
    <3>3. QED
      BY <1>1, <3>1, <3>2
  <2>4. call' \in [Callers -> Call]
    <3> DEFINE rec == [NoCall EXCEPT !.pc = "sinter", !.query = y, !.login = l]
    <3>1. rec \in Call
      BY DEF NoCall, Call
    <3>2. call' = call \/ Goto(c, rec)
      BY <2>1 DEF Search
    <3>3. QED
      BY <1>1, <3>1, <3>2, GotoType
  <2>5. QED
    BY <1>1, <2>2, <2>3, <2>4, SearchesKeep
<1>4. CASE Sinter(c)
  <2> DEFINE ids == {s \in Snippets : \A w \in q.query : s \in index[w]}
             rec == [q EXCEPT !.pc = "select", !.ids = ids]
  <2>1. rec \in Call
    <3>1. ids \in SUBSET Snippets
      OBVIOUS
    <3> HIDE DEF ids
    <3>2. QED
      BY <3>1 DEF Call
  <2>2. Goto(c, rec) \/ Goto(c, NoCall)
    BY <1>2, <1>4 DEF Sinter
  <2>3. call' \in [Callers -> Call]
    BY <1>1, <2>1, <2>2, GotoType, NoCallType
  <2>4. QED
    BY <1>1, <1>4, <2>3, SearchesKeep DEF Sinter
<1>5. CASE Select(c)
  <2> DEFINE hits == Hits(q.ids, q.query, q.login)
             rec == [q EXCEPT !.pc = "store", !.ids = {}, !.hits = hits]
  <2>1. hits \in SUBSET Hit
    BY SearchAssumption DEF Hits, Hit, Call
  <2>2. rec \in Call
    <3> HIDE DEF hits
    <3>1. QED
      BY <2>1 DEF Call
  <2>3. Goto(c, rec)
    BY <1>2, <1>5 DEF Select
  <2>4. call' \in [Callers -> Call]
    BY <1>1, <2>2, <2>3, GotoType
  <2>5. QED
    BY <1>1, <1>5, <2>4, SearchesKeep DEF Select
<1>6. CASE Store(c)
  <2> DEFINE e == [hits |-> q.hits, ttl |-> ResultTTL]
  <2>1. e \in Result
    BY SearchAssumption DEF Result, Call
  <2>2. results' = [results EXCEPT ![q.query] = e]
    BY <1>2, <1>6 DEF Store
  <2>3. results' \in [Queries -> Result \cup {NULL}]
    BY <1>1, <2>1, <2>2
  <2>4. call' \in [Callers -> Call]
    BY <1>1, <1>6, GotoType, NoCallType DEF Store
  <2>5. QED
    BY <1>1, <1>6, <2>3, <2>4, SearchesKeep DEF Store
<1>7. CASE Abort(c)
  BY <1>1, <1>7, GotoType, NoCallType, SearchesKeep DEF Abort
<1>8. QED
  BY <1>3, <1>4, <1>5, <1>6, <1>7 DEF Proceed

LEMMA TickKeeps ==
  ASSUME IInv, Tick
  PROVE  IInv'
<1>1. /\ UNCHANGED <<doc, index, jobs, lost, writes, rough, call, members>>
      /\ call \in [Callers -> Call] /\ results \in [Queries -> Result \cup {NULL}]
      /\ members \in 0..MaxMembers
  BY DEF IInv, TypeOK, Tick
<1>2. ASSUME NEW y \in Queries
      PROVE  results'[y] \in Result \cup {NULL}
  <2>1. CASE results[y] = NULL \/ results[y].ttl = 1
    BY <2>1 DEF Tick
  <2>2. CASE results[y] # NULL /\ results[y].ttl # 1
    <3>1. PICK e \in Result : e = results[y] /\ e.ttl # 1
      BY <1>1, <2>2
    <3>2. results'[y] = [e EXCEPT !.ttl = @ - 1]
      BY <2>2, <3>1 DEF Tick
    <3>3. e.ttl - 1 \in 1..ResultTTL
      BY <3>1, SearchAssumption DEF Result
    <3>4. [e EXCEPT !.ttl = @ - 1] \in Result
      BY <3>3 DEF Result
    <3>5. QED
      BY <3>2, <3>4
  <2>3. QED
    BY <2>1, <2>2
<1>3. results' \in [Queries -> Result \cup {NULL}]
  BY <1>2 DEF Tick
<1>4. QED
  BY <1>1, <1>3, SearchesKeep
-----------------------------------------------------------------------------
LEMMA WriteType ==
  ASSUME TypeOK, Write
  PROVE  /\ writes' \in 0..MaxWrites
         /\ UNCHANGED <<index, results, call, members, rough>>
<1>1. writes \in 0..MaxWrites /\ MaxWrites \in Nat
  BY SearchAssumption DEF TypeOK
<1>2. QED
  BY <1>1 DEF Write

(* enqueue() adds the job at the end, or the snippet is one that lost a job. *)
LEMMA EnqueueEffect ==
  ASSUME TypeOK, NEW s \in Snippets, NEW j \in Job,
         Enqueue(j.type, s, j.text), j.snip = s
  PROVE  /\ jobs' \in Seq(Job) /\ lost \subseteq lost' /\ lost' \subseteq Snippets
         /\ \A k \in DOMAIN jobs : k \in DOMAIN jobs' /\ jobs'[k] = jobs[k]
         /\ \A m \in DOMAIN jobs' :
              m \in DOMAIN jobs \/ (jobs'[m] = j /\ \A k \in DOMAIN jobs : k < m)
         /\ s \in lost' \/ (\E m \in DOMAIN jobs' : jobs'[m] = j)
         /\ ~ rough => \E m \in DOMAIN jobs' :
              jobs'[m] = j /\ \A k \in DOMAIN jobs' : k <= m
<1>1. j = [type |-> j.type, snip |-> s, text |-> j.text]
  BY DEF Job
<1>2. jobs \in Seq(Job) /\ lost \subseteq Snippets
  BY DEF TypeOK
<1>3. CASE jobs' = Append(jobs, j) /\ lost' = lost
  <2>1. /\ jobs' \in Seq(Job) /\ Len(jobs) + 1 \in DOMAIN jobs'
        /\ DOMAIN jobs' = DOMAIN jobs \cup {Len(jobs) + 1}
        /\ \A k \in DOMAIN jobs : jobs'[k] = jobs[k] /\ k < Len(jobs) + 1
        /\ jobs'[Len(jobs) + 1] = j
    BY <1>2, <1>3, AppendKeeps
  <2>2. \A k \in DOMAIN jobs' : k <= Len(jobs) + 1
    BY <1>2, <2>1
  <2>3. QED
    BY <1>2, <1>3, <2>1, <2>2
<1>4. CASE rough /\ lost' = lost \cup {s} /\ jobs' = jobs
  BY <1>2, <1>4
<1>5. QED
  BY <1>1, <1>3, <1>4 DEF Enqueue

LEMMA CreateKeeps ==
  ASSUME IInv, NEW s \in Snippets, Create(s)
  PROVE  IInv'
<1>1. PICK v \in Version :
        /\ doc' = [doc EXCEPT ![s] = [status |-> "live", versions |-> <<v>>]]
        /\ Enqueue("index", s, v.text)
  BY DEF Create
<1> DEFINE j == [type |-> "index", snip |-> s, text |-> v.text]
<1>2. j \in Job /\ j.type = "index" /\ j.snip = s /\ j.text = v.text
  BY DEF Job, Version
<1> HIDE DEF j
<1>3. /\ writes' \in 0..MaxWrites /\ doc[s].status = "absent" /\ rough' = rough
      /\ index' = index /\ UNCHANGED <<results, call, members>>
  BY WriteType DEF Create, IInv
<1>4. /\ jobs' \in Seq(Job) /\ lost \subseteq lost' /\ lost' \subseteq Snippets
      /\ \A k \in DOMAIN jobs : k \in DOMAIN jobs' /\ jobs'[k] = jobs[k]
      /\ \A m \in DOMAIN jobs' :
           m \in DOMAIN jobs \/ (jobs'[m] = j /\ \A k \in DOMAIN jobs : k < m)
      /\ s \in lost' \/ (\E m \in DOMAIN jobs' : jobs'[m] = j)
  BY <1>1, <1>2, EnqueueEffect DEF IInv
<1>5. /\ doc'[s].status = "live" /\ doc'[s].versions = <<v>>
      /\ \A t \in Snippets : t # s => doc'[t] = doc[t]
  BY <1>1 DEF IInv, TypeOK
<1>6. doc' \in [Snippets -> Doc]
  <2>1. [status |-> "live", versions |-> <<v>>] \in Doc
    BY DEF Doc
  <2>2. QED
    BY <1>1, <2>1 DEF IInv, TypeOK
<1>7. TypeOK'
  BY <1>3, <1>4, <1>6 DEF IInv, TypeOK
<1>8. \A t \in Snippets : t # s => Latest(t)' = Latest(t)
  BY <1>5 DEF Latest
<1>9. ASSUME NEW i \in DOMAIN jobs
      PROVE  JobMatches(jobs[i])'
  <2>1. PICK o \in Job : o = jobs[i] /\ o.snip \in Snippets
    BY JobType DEF IInv
  <2>2. JobMatches(o)
    BY <2>1 DEF IInv, JobsMatchDocs
  <2>3. o.snip # s
    BY <1>3, <2>2 DEF JobMatches
  <2>4. JobMatches(o)'
    BY <1>5, <1>8, <2>1, <2>2, <2>3 DEF JobMatches
  <2>5. QED
    BY <1>4, <2>1, <2>4
<1>10. JobsMatchDocs'
  <2>1. <<v>> # << >> /\ <<v>>[1] = v
    OBVIOUS
  <2>2. JobMatches(j)'
    BY <1>2, <1>5, <2>1 DEF JobMatches
  <2>3. \A i \in DOMAIN jobs' : JobMatches(jobs[i])'
    BY <1>4, <1>9, <2>2
  <2>4. QED
    BY <1>5, <2>1, <2>3 DEF IInv, JobsMatchDocs
<1>11. FirstTextFindable'
  BY <1>2, <1>3, <1>4, <1>5 DEF IInv, FirstTextFindable
<1>12. RemovedLast'
  <2> SUFFICES ASSUME ~ rough, NEW t \in Snippets, t # s,
                      doc[t].status = "deleted"
               PROVE  \/ \E k \in DOMAIN jobs' :
                           /\ Removes(k, t)'
                           /\ \A m \in DOMAIN jobs' : m > k => ~ Indexes(m, t)'
                      \/ /\ \A m \in DOMAIN jobs' : ~ Indexes(m, t)'
                         /\ \A w \in Latest(t).text : t \notin index[w]
    BY <1>3, <1>5, <1>8 DEF RemovedLast
  <2>1. \A m \in DOMAIN jobs' :
          Indexes(m, t)' => m \in DOMAIN jobs /\ Indexes(m, t)
    BY <1>2, <1>4 DEF Indexes
  <2>2. \A k \in DOMAIN jobs : Removes(k, t) => Removes(k, t)'
    BY <1>4 DEF Removes
  <2>3. QED
    BY <1>4, <2>1, <2>2 DEF IInv, RemovedLast
<1>13. QED
  BY <1>7, <1>10, <1>11, <1>12 DEF IInv

LEMMA UpdateKeeps ==
  ASSUME IInv, NEW s \in Snippets, Update(s)
  PROVE  IInv'
<1>1. PICK t \in Texts :
        doc' = [doc EXCEPT ![s].versions =
                  Append(@, [text |-> t, vis |-> "public"])]
  BY DEF Update
<1>2. PICK d \in Doc : d = doc[s]
  BY DEF IInv, TypeOK
<1> DEFINE v == [text |-> t, vis |-> "public"]
           vs == Append(d.versions, v)
           new == [d EXCEPT !.versions = vs]
<1>3. v \in Version
  BY DEF Version, Visibility
<1>4. /\ writes' \in 0..MaxWrites /\ d.status = "live"
      /\ UNCHANGED <<index, jobs, lost, results, call, members, rough>>
  BY <1>2, WriteType DEF Update, IInv
<1>5. d.versions \in Seq(Version) /\ d.versions # << >>
  BY <1>2, <1>4 DEF Doc, IInv, JobsMatchDocs
<1> HIDE DEF v
<1>6. vs \in Seq(Version) /\ vs # << >> /\ vs[1] = d.versions[1]
  BY <1>3, <1>5
<1> HIDE DEF vs
<1>7. new \in Doc /\ new.status = "live" /\ new.versions = vs
  BY <1>4, <1>6 DEF Doc
<1>8. doc' = [doc EXCEPT ![s] = new]
  BY <1>1, <1>2 DEF v, vs
<1> HIDE DEF new
<1>9. /\ doc' \in [Snippets -> Doc] /\ doc'[s] = new
      /\ \A x \in Snippets : x # s => doc'[x] = doc[x] /\ Latest(x)' = Latest(x)
  BY <1>7, <1>8 DEF IInv, TypeOK, Latest
<1>10. TypeOK'
  BY <1>4, <1>9 DEF IInv, TypeOK
<1>11. JobsMatchDocs'
  <2>1. ASSUME NEW i \in DOMAIN jobs
        PROVE  JobMatches(jobs[i])'
    <3>1. PICK o \in Job : o = jobs[i] /\ o.snip \in Snippets
      BY JobType DEF IInv
    <3>2. JobMatches(o)
      BY <3>1 DEF IInv, JobsMatchDocs
    <3>3. JobMatches(o)'
      BY <1>2, <1>4, <1>6, <1>7, <1>9, <3>1, <3>2 DEF JobMatches
    <3>4. QED
      BY <1>4, <3>1, <3>3
  <2>2. QED
    BY <1>4, <1>6, <1>7, <1>9, <2>1 DEF IInv, JobsMatchDocs
<1>12. FirstTextFindable'
  BY <1>2, <1>4, <1>6, <1>7, <1>9 DEF IInv, FirstTextFindable
<1>13. RemovedLast'
  BY <1>4, <1>7, <1>9 DEF IInv, RemovedLast, Indexes, Removes
<1>14. QED
  BY <1>10, <1>11, <1>12, <1>13 DEF IInv

LEMMA DeleteKeeps ==
  ASSUME IInv, NEW s \in Snippets, Delete(s)
  PROVE  IInv'
<1>1. PICK d \in Doc : d = doc[s]
  BY DEF IInv, TypeOK
<1> DEFINE new == [d EXCEPT !.status = "deleted"]
<1>2. new \in Doc /\ new.status = "deleted" /\ new.versions = d.versions
  BY DEF Doc
<1>3. /\ writes' \in 0..MaxWrites /\ d.status = "live" /\ rough' = rough
      /\ index' = index /\ UNCHANGED <<results, call, members>>
  BY <1>1, WriteType DEF Delete, IInv
<1>4. doc' = [doc EXCEPT ![s] = new]
  BY <1>1 DEF Delete
<1> HIDE DEF new
<1>5. /\ doc' \in [Snippets -> Doc] /\ doc'[s] = new
      /\ \A x \in Snippets : x # s => doc'[x] = doc[x]
      /\ \A x \in Snippets : Latest(x)' = Latest(x)
  BY <1>1, <1>2, <1>4 DEF IInv, TypeOK, Latest
<1>6. PICK j \in Job : j.type = "remove" /\ j.snip = s /\ j.text = Latest(s).text
  <2>1. d.versions \in Seq(Version) /\ d.versions # << >>
    BY <1>1, <1>3 DEF Doc, IInv, JobsMatchDocs
  <2>2. d.versions[Len(d.versions)] \in Version
    BY <2>1
  <2>3. Latest(s) \in Version
    BY <1>1, <2>2 DEF Latest
  <2> DEFINE o == [type |-> "remove", snip |-> s, text |-> Latest(s).text]
  <2>4. o \in Job /\ o.type = "remove" /\ o.snip = s /\ o.text = Latest(s).text
    BY <2>3 DEF Job, Version
  <2>5. QED
    BY <2>4
<1>7. Enqueue(j.type, s, j.text)
  BY <1>6 DEF Delete, Removed
<1>8. /\ jobs' \in Seq(Job) /\ lost \subseteq lost' /\ lost' \subseteq Snippets
      /\ \A k \in DOMAIN jobs : k \in DOMAIN jobs' /\ jobs'[k] = jobs[k]
      /\ \A m \in DOMAIN jobs' :
           m \in DOMAIN jobs \/ (jobs'[m] = j /\ \A k \in DOMAIN jobs : k < m)
      /\ ~ rough => \E m \in DOMAIN jobs' :
           jobs'[m] = j /\ \A k \in DOMAIN jobs' : k <= m
  BY <1>6, <1>7, EnqueueEffect DEF IInv
<1>9. TypeOK'
  BY <1>3, <1>5, <1>8 DEF IInv, TypeOK
<1>10. ASSUME NEW i \in DOMAIN jobs
       PROVE  JobMatches(jobs[i])'
  <2>1. PICK o \in Job : o = jobs[i] /\ o.snip \in Snippets
    BY JobType DEF IInv
  <2>2. JobMatches(o)
    BY <2>1 DEF IInv, JobsMatchDocs
  <2>3. JobMatches(o)'
    BY <1>1, <1>2, <1>3, <1>5, <2>1, <2>2 DEF JobMatches
  <2>4. QED
    BY <1>8, <2>1, <2>3
<1>11. JobsMatchDocs'
  <2>1. d.versions # << >>
    BY <1>1, <1>3 DEF IInv, JobsMatchDocs
  <2>2. JobMatches(j)'
    BY <1>2, <1>5, <1>6 DEF JobMatches
  <2>3. \A i \in DOMAIN jobs' : JobMatches(jobs[i])'
    BY <1>8, <1>10, <2>2
  <2>4. QED
    BY <1>1, <1>2, <1>5, <2>1, <2>3 DEF IInv, JobsMatchDocs
<1>12. FirstTextFindable'
  BY <1>2, <1>3, <1>5, <1>8 DEF IInv, FirstTextFindable
<1>13. RemovedLast'
  <2> SUFFICES ASSUME ~ rough, NEW t \in Snippets, doc'[t].status = "deleted"
               PROVE  \/ \E k \in DOMAIN jobs' :
                           /\ Removes(k, t)'
                           /\ \A m \in DOMAIN jobs' : m > k => ~ Indexes(m, t)'
                      \/ /\ \A m \in DOMAIN jobs' : ~ Indexes(m, t)'
                         /\ \A w \in Latest(t).text : t \notin index[w]
    BY <1>3, <1>5 DEF RemovedLast
  <2>1. CASE t = s
    <3>1. PICK k \in DOMAIN jobs' : jobs'[k] = j /\ \A m \in DOMAIN jobs' : m <= k
      BY <1>8
    <3>2. \A m \in DOMAIN jobs' : ~ (m > k)
      BY <1>8, <3>1
    <3>3. QED
      BY <1>6, <2>1, <3>1, <3>2 DEF Removes
  <2>2. CASE t # s
    <3>1. \A m \in DOMAIN jobs' :
            Indexes(m, t)' => m \in DOMAIN jobs /\ Indexes(m, t)
      BY <1>6, <1>8 DEF Indexes
    <3>2. \A k \in DOMAIN jobs : Removes(k, t) => Removes(k, t)'
      BY <1>8 DEF Removes
    <3>3. doc[t].status = "deleted"
      BY <1>5, <2>2
    <3>4. QED
      BY <1>8, <3>1, <3>2, <3>3 DEF IInv, RemovedLast
  <2>3. QED
    BY <2>1, <2>2
<1>14. QED
  BY <1>9, <1>11, <1>12, <1>13 DEF IInv
-----------------------------------------------------------------------------
(* What a job does to the index; it goes, stays or is lost. *)
LEMMA RunJobEffect ==
  ASSUME IInv, NEW i \in Runnable, RunJob(i), NEW j, j = jobs[i]
  PROVE  /\ i \in DOMAIN jobs /\ j \in Job /\ j.text \subseteq Words
         /\ UNCHANGED <<doc, results, call, writes, members, rough>>
         /\ jobs' = RemoveAt(jobs, i) \/ (rough /\ jobs' = jobs)
         /\ \/ /\ lost' = lost
               /\ \A w \in Words :
                    index'[w] = IF w \notin j.text THEN index[w]
                                ELSE IF j.type = "index"
                                THEN index[w] \cup {j.snip}
                                ELSE index[w] \ {j.snip}
            \/ rough /\ lost' = lost \cup {j.snip} /\ index' = index
         /\ lost' \subseteq Snippets /\ lost \subseteq lost'
         /\ index' \in [Words -> SUBSET Snippets]
<1>1. i \in DOMAIN jobs
  BY DEF Runnable
<1>2. j \in Job /\ j.snip \in Snippets /\ j.text \subseteq Words
  BY <1>1, JobType, SearchAssumption DEF IInv, Job
<1>3. /\ UNCHANGED <<doc, results, call, writes, members, rough>>
      /\ jobs' = RemoveAt(jobs, i) \/ (rough /\ jobs' = jobs)
  BY DEF RunJob
<1> DEFINE New(w) == IF w \notin j.text THEN index[w]
                     ELSE IF j.type = "index" THEN index[w] \cup {j.snip}
                     ELSE index[w] \ {j.snip}
<1>4. \/ lost' = lost /\ index' = [w \in Words |-> New(w)]
      \/ rough /\ lost' = lost \cup {j.snip} /\ index' = index
  BY DEF RunJob, Without
<1>5. lost \subseteq Snippets /\ index \in [Words -> SUBSET Snippets]
  BY DEF IInv, TypeOK
<1>6. \A w \in Words : New(w) \in SUBSET Snippets
  BY <1>2, <1>5
<1>7. index' \in [Words -> SUBSET Snippets]
  <2> HIDE DEF New
  <2>1. QED
    BY <1>4, <1>5, <1>6
<1>8. lost' \subseteq Snippets /\ lost \subseteq lost'
  BY <1>2, <1>4, <1>5
<1>9. QED
  BY <1>1, <1>2, <1>3, <1>4, <1>7, <1>8

(* No other job goes, and none comes. *)
LEMMA RunJobQueue ==
  ASSUME TypeOK, NEW i \in DOMAIN jobs,
         jobs' = RemoveAt(jobs, i) \/ jobs' = jobs
  PROVE  /\ jobs' \in Seq(Job)
         /\ \A k \in DOMAIN jobs : k # i =>
              \E m \in DOMAIN jobs' : jobs'[m] = jobs[k]
         /\ \A m \in DOMAIN jobs' : \E k \in DOMAIN jobs : jobs'[m] = jobs[k]
<1>1. jobs \in Seq(Job)
  BY DEF TypeOK
<1>2. CASE jobs' = jobs
  BY <1>1, <1>2
<1>3. CASE jobs' = RemoveAt(jobs, i)
  <2> DEFINE r == RemoveAt(jobs, i)
  <2>1. /\ r \in Seq(Job)
        /\ \A k \in DOMAIN jobs : k < i => k \in DOMAIN r /\ r[k] = jobs[k]
        /\ \A k \in DOMAIN jobs : k > i =>
             k - 1 \in DOMAIN r /\ r[k - 1] = jobs[k]
        /\ \A m \in DOMAIN r :
             IF m < i THEN m \in DOMAIN jobs /\ r[m] = jobs[m]
             ELSE m + 1 \in DOMAIN jobs /\ r[m] = jobs[m + 1]
    BY <1>1, RemoveAtKeeps
  <2> HIDE DEF r
  <2>2. ASSUME NEW k \in DOMAIN jobs, k # i
        PROVE  \E m \in DOMAIN r : r[m] = jobs[k]
    <3>1. k < i \/ k > i
      BY <1>1, <2>2
    <3>2. QED
      BY <2>1, <2>2, <3>1
  <2>3. ASSUME NEW m \in DOMAIN r
        PROVE  \E k \in DOMAIN jobs : r[m] = jobs[k]
    BY <2>1, <2>3
  <2>4. jobs' = r
    BY <1>3 DEF r
  <2>5. QED
    BY <2>1, <2>2, <2>3, <2>4
<1>4. QED
  BY <1>2, <1>3

LEMMA RunJobKeeps ==
  ASSUME IInv, NEW i \in Runnable, RunJob(i)
  PROVE  IInv'
<1>1. PICK j : j = jobs[i]
  OBVIOUS
<1>2. /\ i \in DOMAIN jobs /\ j \in Job /\ j.text \subseteq Words
      /\ UNCHANGED <<doc, results, call, writes, members, rough>>
      /\ jobs' = RemoveAt(jobs, i) \/ (rough /\ jobs' = jobs)
      /\ \/ /\ lost' = lost
            /\ \A w \in Words :
                 index'[w] = IF w \notin j.text THEN index[w]
                             ELSE IF j.type = "index"
                             THEN index[w] \cup {j.snip}
                             ELSE index[w] \ {j.snip}
         \/ rough /\ lost' = lost \cup {j.snip} /\ index' = index
      /\ lost' \subseteq Snippets /\ lost \subseteq lost'
      /\ index' \in [Words -> SUBSET Snippets]
  BY <1>1, RunJobEffect
<1>3. /\ jobs' \in Seq(Job)
      /\ \A k \in DOMAIN jobs : k # i =>
           \E m \in DOMAIN jobs' : jobs'[m] = jobs[k]
      /\ \A m \in DOMAIN jobs' : \E k \in DOMAIN jobs : jobs'[m] = jobs[k]
  BY <1>2, RunJobQueue DEF IInv
<1>4. TypeOK'
  BY <1>2, <1>3 DEF IInv, TypeOK
<1>5. JobMatches(j) /\ j.snip \in Snippets /\ j.type \in {"index", "remove"}
  BY <1>1, <1>2 DEF IInv, JobsMatchDocs, Job
<1>6. \A t \in Snippets : Latest(t)' = Latest(t)
  BY <1>2 DEF Latest
<1>7. JobsMatchDocs'
  <2>1. ASSUME NEW m \in DOMAIN jobs'
        PROVE  JobMatches(jobs[m])'
    <3>1. PICK k \in DOMAIN jobs : jobs'[m] = jobs[k]
      BY <1>3
    <3>2. PICK o \in Job : o = jobs[k]
      BY JobType DEF IInv
    <3>3. JobMatches(o)
      BY <3>2 DEF IInv, JobsMatchDocs
    <3>4. JobMatches(o)'
      BY <1>2, <3>3 DEF JobMatches, Latest
    <3>5. QED
      BY <3>1, <3>2, <3>4
  <2>2. QED
    BY <1>2, <2>1 DEF IInv, JobsMatchDocs
<1>8. FirstTextFindable'
  <2> SUFFICES ASSUME NEW s \in Snippets \ lost', doc[s].status = "live"
               PROVE  \/ \E m \in DOMAIN jobs' :
                           jobs'[m].type = "index" /\ jobs'[m].snip = s
                      \/ \A w \in doc[s].versions[1].text : s \in index'[w]
    BY <1>2 DEF FirstTextFindable
  <2>1. s \in Snippets \ lost
    BY <1>2
  <2>2. ~ (j.type = "remove" /\ j.snip = s)
    BY <1>5 DEF JobMatches
  <2>3. CASE \E k \in DOMAIN jobs : /\ jobs[k].type = "index"
                                   /\ jobs[k].snip = s /\ k # i
    BY <1>3, <2>3
  <2>4. CASE j.type = "index" /\ j.snip = s
    <3>1. j.text = doc[s].versions[1].text
      BY <1>5, <2>4 DEF JobMatches
    <3>2. lost' = lost
      BY <1>2, <2>4
    <3>3. \A w \in j.text : s \in index'[w]
      BY <1>2, <2>4, <3>2
    <3>4. QED
      BY <3>1, <3>3
  <2>5. CASE \A w \in doc[s].versions[1].text : s \in index[w]
    <3>1. \A w \in Words : s \in index[w] => s \in index'[w]
      BY <1>2, <1>5, <2>2
    <3>2. doc[s].versions[1].text \subseteq Words
      <4>1. /\ doc[s].versions \in Seq(Version) /\ doc[s].versions # << >>
        BY DEF IInv, TypeOK, Doc, JobsMatchDocs
      <4>2. doc[s].versions[1] \in Version
        BY <4>1
      <4>3. QED
        BY <4>2, SearchAssumption DEF Version
    <3>3. QED
      BY <2>5, <3>1, <3>2
  <2>6. QED
    BY <1>1, <2>1, <2>3, <2>4, <2>5 DEF IInv, FirstTextFindable
<1>9. RemovedLast'
  <2> SUFFICES ASSUME ~ rough, NEW s \in Snippets, doc[s].status = "deleted"
               PROVE  \/ \E k \in DOMAIN jobs' :
                           /\ Removes(k, s)'
                           /\ \A m \in DOMAIN jobs' : m > k => ~ Indexes(m, s)'
                      \/ /\ \A m \in DOMAIN jobs' : ~ Indexes(m, s)'
                         /\ \A w \in Latest(s).text : s \notin index'[w]
    BY <1>2, <1>6 DEF RemovedLast
  <2> DEFINE r == RemoveAt(jobs, i)
  <2>1. i = 1 /\ jobs' = r
    BY <1>2 DEF Runnable
  <2>2. \A w \in Words :
          index'[w] = IF w \notin j.text THEN index[w]
                      ELSE IF j.type = "index" THEN index[w] \cup {j.snip}
                      ELSE index[w] \ {j.snip}
    BY <1>2
  <2>3. /\ \A k \in DOMAIN jobs : k > 1 =>
             k - 1 \in DOMAIN r /\ r[k - 1] = jobs[k]
        /\ \A m \in DOMAIN r :
             m \in Nat /\ m + 1 > 1 /\ m + 1 \in DOMAIN jobs /\ r[m] = jobs[m + 1]
    <3>1. /\ r \in Seq(Job) /\ jobs \in Seq(Job)
          /\ \A k \in DOMAIN jobs : k > i =>
               k - 1 \in DOMAIN r /\ r[k - 1] = jobs[k]
          /\ \A m \in DOMAIN r :
               IF m < i THEN m \in DOMAIN jobs /\ r[m] = jobs[m]
               ELSE m + 1 \in DOMAIN jobs /\ r[m] = jobs[m + 1]
      BY <1>2, RemoveAtKeeps DEF IInv, TypeOK
    <3> HIDE DEF r
    <3>2. \A m \in DOMAIN r : m \in Nat /\ ~ (m < 1) /\ m + 1 > 1
      BY <3>1
    <3>3. QED
      BY <2>1, <3>1, <3>2
  <2> HIDE DEF r
  <2>4. CASE \E k \in DOMAIN jobs :
               /\ Removes(k, s)
               /\ \A m \in DOMAIN jobs : m > k => ~ Indexes(m, s)
    <3>1. PICK k \in DOMAIN jobs :
            /\ Removes(k, s)
            /\ \A m \in DOMAIN jobs : m > k => ~ Indexes(m, s)
      BY <2>4
    <3>2. k \in Nat /\ k >= 1
      BY DEF IInv, TypeOK
    <3>3. CASE k = 1
      <4>1. j.type = "remove" /\ j.snip = s /\ j.text = Latest(s).text
        BY <1>1, <1>5, <2>1, <3>1, <3>3 DEF Removes, JobMatches
      <4>2. \A w \in Latest(s).text : s \notin index'[w]
        BY <1>2, <2>2, <4>1
      <4>3. \A m \in DOMAIN jobs' : ~ Indexes(m, s)'
        BY <2>1, <2>3, <3>1, <3>3 DEF Indexes
      <4>4. QED
        BY <4>2, <4>3
    <3>4. CASE k > 1
      <4>1. k - 1 \in DOMAIN jobs' /\ Removes(k - 1, s)'
        BY <2>1, <2>3, <3>1, <3>4 DEF Removes
      <4>2. ASSUME NEW m \in DOMAIN jobs', m > k - 1
            PROVE  ~ Indexes(m, s)'
        <5>1. m + 1 \in DOMAIN jobs /\ m + 1 > k /\ jobs'[m] = jobs[m + 1]
          BY <2>1, <2>3, <3>2, <4>2
        <5>2. QED
          BY <3>1, <5>1 DEF Indexes
      <4>3. QED
        BY <4>1, <4>2
    <3>5. QED
      BY <3>2, <3>3, <3>4
  <2>5. CASE /\ \A m \in DOMAIN jobs : ~ Indexes(m, s)
             /\ \A w \in Latest(s).text : s \notin index[w]
    <3>1. ~ (j.type = "index" /\ j.snip = s)
      BY <1>1, <1>2, <2>5 DEF Indexes
    <3>2. Latest(s).text \subseteq Words
      <4>1. doc[s].versions \in Seq(Version) /\ doc[s].versions # << >>
        BY DEF IInv, TypeOK, Doc, JobsMatchDocs
      <4>2. doc[s].versions[Len(doc[s].versions)] \in Version
        BY <4>1
      <4>3. QED
        BY <4>2, SearchAssumption DEF Version, Latest
    <3>3. \A w \in Latest(s).text : s \notin index'[w]
      BY <2>2, <2>5, <3>1, <3>2
    <3>4. \A m \in DOMAIN jobs' : ~ Indexes(m, s)'
      BY <2>1, <2>3, <2>5 DEF Indexes
    <3>5. QED
      BY <3>3, <3>4
  <2>6. QED
    BY <2>4, <2>5 DEF IInv, RemovedLast
<1>10. QED
  BY <1>4, <1>7, <1>8, <1>9 DEF IInv
-----------------------------------------------------------------------------
LEMMA NextKeepsIInv == IInv /\ [Next]_vars => IInv'
<1> SUFFICES ASSUME IInv, [Next]_vars PROVE IInv'
  OBVIOUS
<1>1. ASSUME NEW s \in Snippets, Create(s) \/ Update(s) \/ Delete(s)
      PROVE  IInv'
  BY <1>1, CreateKeeps, UpdateKeeps, DeleteKeeps
<1>2. ASSUME NEW i \in Runnable, RunJob(i)
      PROVE  IInv'
  BY <1>2, RunJobKeeps
<1>3. ASSUME NEW c \in Callers,
             \/ \E q \in Queries, l \in BOOLEAN : Search(c, q, l)
             \/ Proceed(c) \/ Abort(c)
      PROVE  IInv'
  BY <1>3, SearchKeeps
<1>4. CASE Tick
  BY <1>4, TickKeeps
<1>5. CASE UNCHANGED vars
  <2>1. /\ UNCHANGED <<doc, index, jobs, lost, writes, rough>>
        /\ call' \in [Callers -> Call]
        /\ results' \in [Queries -> Result \cup {NULL}]
        /\ members' \in 0..MaxMembers
    BY <1>5 DEF vars, IInv, TypeOK
  <2>2. QED
    BY <2>1, SearchesKeep
<1>6. QED
  BY <1>1, <1>2, <1>3, <1>4, <1>5 DEF Next
-----------------------------------------------------------------------------
(* The inductive invariant holds in every reachable state. *)
THEOREM IndexInvariant == Spec => []IInv
BY InitIInv, NextKeepsIInv, PTL DEF Spec

(* Type correctness of the rows, the index, the answers and the jobs. *)
THEOREM TypeCorrect == Spec => []TypeOK
<1>1. IInv => TypeOK
  BY DEF IInv
<1>2. QED
  BY <1>1, IndexInvariant, PTL

(* index_snippet and remove_index run late, in any order, twice or never:  *)
(* a live snippet is found by the words of its first text, or its job is   *)
(* still queued, or one of its jobs was lost.                              *)
THEOREM FirstTextStaysFindable == Spec => []FirstTextFindable
<1>1. IInv => FirstTextFindable
  BY DEF IInv
<1>2. QED
  BY <1>1, IndexInvariant, PTL

(* remove_index, when jobs run once and in the order of the queue: with    *)
(* the queue empty no word of its last text leads to a deleted snippet.    *)
THEOREM DeletedUnindexed == Spec => []DeleteUnindexes
<1>1. IInv => DeleteUnindexes
  <2> SUFFICES ASSUME IInv, ~ rough, jobs = << >>,
                      NEW s \in Snippets, doc[s].status = "deleted"
               PROVE  \A w \in Latest(s).text : s \notin index[w]
    BY DEF DeleteUnindexes
  <2>1. DOMAIN jobs = {}
    OBVIOUS
  <2>2. QED
    BY <2>1 DEF IInv, RemovedLast
<1>2. QED
  BY <1>1, IndexInvariant, PTL
=============================================================================
