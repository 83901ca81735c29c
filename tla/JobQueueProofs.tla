--------------------------- MODULE JobQueueProofs ---------------------------
(* Theorems about JobQueue, for any number of workers, jobs and retries,    *)
(* any delays, and any errors and crashes.                                  *)
EXTENDS JobQueue, SequenceFacts, TLAPS

LEMMA Numbers ==
  /\ Retries \in Nat /\ Retries >= 1 /\ Delay \in Nat /\ MaxJobs \in Nat
  /\ MaxClock \in Nat /\ Seeds \in Seq(Periodic) /\ Scheduler \in Workers
  /\ Periodic \subseteq Type /\ "index_snippet" \in Type
  /\ "index_snippet" \notin Periodic
BY QueueAssumption DEF Periodic, Type

LEMMA JobFields ==
  ASSUME NEW j \in Job
  PROVE  /\ j.id \in Id /\ j.id \in Nat /\ j.type \in Type
         /\ j.text \in Texts \cup {NULL} /\ j.since \in Nat
         /\ j.retries \in Nat /\ j.retries >= 1 /\ j.retries <= Retries
<1>1. /\ j.id \in Id /\ j.type \in Type /\ j.text \in Texts \cup {NULL}
      /\ j.since \in Nat /\ j.retries \in 1..Retries
  BY DEF Job
<1>2. QED
  BY <1>1, Numbers DEF Id

LEMMA ListTypes ==
  ASSUME QueueInv
  PROVE  /\ ToSet(queue) \subseteq Job /\ ToSet(processing) \subseteq Job
         /\ {e.job : e \in scheduled} \subseteq Job /\ failed \subseteq FailedJob
         /\ Running \subseteq Job /\ Found \subseteq Job
         /\ queue \in Seq(Job) /\ processing \in Seq(Job)
<1>1. ToSet(queue) \subseteq Job /\ ToSet(processing) \subseteq Job
  BY DEF QueueInv, TypeOK, ToSet
<1>2. {e.job : e \in scheduled} \subseteq Job
  BY DEF QueueInv, TypeOK
<1>3. Running \subseteq Job
  BY DEF QueueInv, Running, LoopOK, Busy
<1>4. ASSUME NEW w \in Workers PROVE ToSet(worker[w].todo) \subseteq Job
  <2>1. worker[w].todo \in Seq(Job)
    BY DEF QueueInv, TypeOK, Loop
  <2>2. QED
    BY <2>1 DEF ToSet
<1>5. QED
  BY <1>1, <1>2, <1>3, <1>4 DEF QueueInv, TypeOK, Found

LEMMA IdleType == Idle \in Loop /\ Idle.pc = "idle" /\ Idle.todo = << >>
BY DEF Idle, Loop

LEMMA GotoEffect ==
  ASSUME TypeOK, NEW w \in Workers, NEW rec \in Loop, Goto(w, rec)
  PROVE  /\ worker' \in [Workers -> Loop]
         /\ worker'[w] = rec
         /\ \A v \in Workers : v # w => worker'[v] = worker[v]
BY DEF TypeOK, Goto

(* A job as enqueue() makes it. *)
LEMMA NewJobType ==
  ASSUME TypeOK, issued < MaxJobs, NEW type \in Type, NEW text \in Texts \cup {NULL}
  PROVE  /\ NewJob(type, text) \in Job
         /\ NewJob(type, text).id = issued + 1
         /\ NewJob(type, text).type = type
         /\ NewJob(type, text).text = text
         /\ NewJob(type, text).retries = Retries
         /\ issued + 1 \in 0..MaxJobs /\ issued + 1 \in Id
<1>1. issued \in Nat /\ clock \in Nat
  BY Numbers DEF TypeOK
<1>2. issued + 1 \in Id /\ issued + 1 \in 0..MaxJobs
  BY <1>1, Numbers DEF Id
<1>3. Retries \in 1..Retries
  BY Numbers
<1>4. QED
  BY <1>1, <1>2, <1>3 DEF NewJob, Job

(* What is left of a list from the next stuck job on is part of it. *)
LEMMA FromStuckElements ==
  ASSUME NEW s \in Seq(Job), NEW now
  PROVE  /\ FromStuck(s, now) \in Seq(Job)
         /\ ToSet(FromStuck(s, now)) \subseteq ToSet(s)
<1> DEFINE found == {n \in DOMAIN s : Stuck(s[n], now)}
<1>1. CASE found = {}
  <2>1. FromStuck(s, now) = << >>
    BY <1>1 DEF FromStuck
  <2>2. QED
    BY <2>1 DEF ToSet
<1>2. CASE found # {}
  <2>1. found \in SUBSET Nat
    OBVIOUS
  <2>2. PICK i \in DOMAIN s : i = Min(found)
    BY <1>2, <2>1, MinIsLeast
  <2>3. FromStuck(s, now) = SubSeq(s, i, Len(s))
    BY <1>2, <2>2 DEF FromStuck
  <2>4. QED
    BY <2>3, SuffixElements
<1>3. QED
  BY <1>1, <1>2
-----------------------------------------------------------------------------
(* What the step of a worker does to the sets the invariant is about. *)

LEMMA RunningEffect ==
  ASSUME TypeOK, NEW w \in Workers, NEW rec \in Loop, Goto(w, rec)
  PROVE  /\ \A j \in Running' : j \in Running \/ (rec.pc # "idle" /\ j = rec.job)
         /\ \A j \in Found' : j \in Found \/ j \in ToSet(rec.todo)
<1>1. /\ worker'[w] = rec
      /\ \A v \in Workers : v # w => worker'[v] = worker[v]
  BY GotoEffect
<1>2. ASSUME NEW j \in Running'
      PROVE  j \in Running \/ (rec.pc # "idle" /\ j = rec.job)
  <2>1. PICK v \in Workers : worker'[v].pc # "idle" /\ j = worker'[v].job
    BY <1>2 DEF Running, Busy
  <2>2. QED
    BY <1>1, <2>1 DEF Running, Busy
<1>3. ASSUME NEW j \in Found'
      PROVE  j \in Found \/ j \in ToSet(rec.todo)
  <2>1. PICK v \in Workers : j \in ToSet(worker'[v].todo)
    BY <1>3 DEF Found
  <2>2. QED
    BY <1>1, <2>1 DEF Found
<1>4. QED
  BY <1>2, <1>3

LEMMA LoopsStep ==
  ASSUME QueueInv, NEW w \in Workers, NEW rec \in Loop, Goto(w, rec),
         done \subseteq done', LoopOK(rec)'
  PROVE  \A v \in Workers : LoopOK(worker[v])'
<1>1. /\ worker'[w] = rec
      /\ \A v \in Workers : v # w => worker'[v] = worker[v]
  BY GotoEffect DEF QueueInv
<1>2. ASSUME NEW v \in Workers PROVE LoopOK(worker[v])'
  <2>1. CASE v = w
    BY <1>1, <2>1 DEF LoopOK
  <2>2. CASE v # w
    <3>1. PICK q \in Loop : q = worker[v] /\ q = worker'[v] /\ LoopOK(q)
      BY <1>1, <2>2 DEF QueueInv, TypeOK
    <3>2. LoopOK(q)'
      BY <3>1 DEF LoopOK
    <3>3. QED
      BY <3>1, <3>2 DEF LoopOK
  <2>3. QED
    BY <2>1, <2>2
<1>3. QED
  BY <1>2

(* The tries are counted if they are for what the step adds. *)
LEMMA TriesStep ==
  ASSUME QueueInv, NEW w \in Workers, NEW rec \in Loop, Goto(w, rec),
         \A i \in Id : starts[i] \in Nat /\ starts'[i] \in Nat
                       /\ starts'[i] >= starts[i],
         \A j \in ToSet(queue') \cup {e.job : e \in scheduled'} :
            \/ j \in ToSet(queue) \cup {e.job : e \in scheduled}
            \/ starts'[j.id] + j.retries >= Retries,
         \A j \in ToSet(processing') :
            \/ j \in ToSet(processing)
            \/ starts'[j.id] + j.retries > Retries,
         rec.pc # "idle" => \/ rec.job \in Running
                            \/ starts'[rec.job.id] + rec.job.retries > Retries,
         \A j \in ToSet(rec.todo) : j \in ToSet(processing) \cup Found,
         \A j \in failed' : j \in failed \/ starts'[j.id] >= Retries
  PROVE  TriesCounted' /\ FailedHadTries'
<1>1. ASSUME NEW j \in ToSet(queue') \cup {e.job : e \in scheduled'}
      PROVE  starts'[j.id] + j.retries >= Retries
  <2>1. CASE j \in ToSet(queue) \cup {e.job : e \in scheduled}
    <3>1. j \in Job /\ starts[j.id] + j.retries >= Retries
      BY <2>1, ListTypes DEF QueueInv, TriesCounted
    <3>2. QED
      BY <3>1, JobFields, Numbers
  <2>2. QED
    BY <1>1, <2>1
<1>2. ASSUME NEW j \in ToSet(processing) \cup Running \cup Found
      PROVE  starts'[j.id] + j.retries > Retries
  <2>1. j \in Job /\ starts[j.id] + j.retries > Retries
    BY <1>2, ListTypes DEF QueueInv, TriesCounted
  <2>2. QED
    BY <2>1, JobFields, Numbers
<1>3. ASSUME NEW j \in ToSet(processing') \cup Running' \cup Found'
      PROVE  starts'[j.id] + j.retries > Retries
  <2>1. \/ j \in ToSet(processing) \cup Running \cup Found
        \/ starts'[j.id] + j.retries > Retries
    BY <1>3, RunningEffect DEF QueueInv
  <2>2. QED
    BY <1>2, <2>1
<1>4. ASSUME NEW j \in failed' PROVE starts'[j.id] >= Retries
  <2>1. CASE j \in failed
    <3>1. j.id \in Id
      BY <2>1, ListTypes DEF FailedJob
    <3>2. starts[j.id] >= Retries
      BY <2>1 DEF QueueInv, FailedHadTries
    <3>3. QED
      BY <3>1, <3>2, Numbers
  <2>2. QED
    BY <1>4, <2>1
<1>5. QED
  BY <1>1, <1>3, <1>4 DEF TriesCounted, FailedHadTries
-----------------------------------------------------------------------------
(* The tags of the jobs, and what a step may do to them. *)

Lists ==
  ToSet(queue) \cup ToSet(processing) \cup failed \cup {e.job : e \in scheduled}

(* InHand, as an operator on what a loop remembers. *)
Hand(q) ==
  CASE q.pc = "push" -> {q.job}
    [] q.pc = "give" -> {Head(q.todo)}
    [] OTHER -> {}

LEMMA HeldMembers ==
  /\ \A x : x \in Held <=>
       \/ \E j \in Lists \cup dropped : x = Tag(j)
       \/ \E v \in Workers : \E j \in Hand(worker[v]) : x = Tag(j)
  /\ \A x : x \in Held' <=>
       \/ \E j \in Lists' \cup dropped' : x = Tag(j)
       \/ \E v \in Workers : \E j \in Hand(worker'[v]) : x = Tag(j)
<1>1. /\ \A v : InHand(v) = Hand(worker[v])
      /\ \A v : InHand(v)' = Hand(worker'[v])
  BY DEF InHand, Hand
<1>2. ASSUME NEW x
      PROVE  x \in Held <=>
               \/ \E j \in Lists \cup dropped : x = Tag(j)
               \/ \E v \in Workers : \E j \in InHand(v) : x = Tag(j)
  BY DEF Held, Kept, Lists
<1>3. ASSUME NEW x
      PROVE  x \in Held' <=>
               \/ \E j \in Lists' \cup dropped' : x = Tag(j)
               \/ \E v \in Workers : \E j \in InHand(v)' : x = Tag(j)
  BY DEF Held, Kept, Lists, Tag
<1>4. QED
  BY <1>1, <1>2, <1>3

LEMMA SeenMembers ==
  /\ \A x : x \in Seen <=>
       \/ x \in Held
       \/ \E v \in Workers : worker[v].pc # "idle" /\ x = Tag(worker[v].job)
       \/ \E v \in Workers : \E j \in ToSet(worker[v].todo) : x = Tag(j)
  /\ \A x : x \in Seen' <=>
       \/ x \in Held'
       \/ \E v \in Workers : worker'[v].pc # "idle" /\ x = Tag(worker'[v].job)
       \/ \E v \in Workers : \E j \in ToSet(worker'[v].todo) : x = Tag(j)
<1>1. ASSUME NEW x
      PROVE  x \in Seen <=>
               \/ x \in Held
               \/ \E v \in Workers : worker[v].pc # "idle" /\ x = Tag(worker[v].job)
               \/ \E v \in Workers : \E j \in ToSet(worker[v].todo) : x = Tag(j)
  BY DEF Seen, Running, Found, Busy
<1>2. ASSUME NEW x
      PROVE  x \in Seen' <=>
               \/ x \in Held'
               \/ \E v \in Workers : worker'[v].pc # "idle" /\ x = Tag(worker'[v].job)
               \/ \E v \in Workers : \E j \in ToSet(worker'[v].todo) : x = Tag(j)
  BY DEF Seen, Running, Found, Busy, Tag
<1>3. QED
  BY <1>1, <1>2

(* Every job somewhere in the lists or in a worker has its id and its type  *)
(* from enqueue().                                                          *)
LEMMA SeenJobs ==
  ASSUME QueueInv
  PROVE  /\ \A j \in Lists \cup Running \cup Found : Tag(j) \in Seen /\ j.id \in 1..issued
         /\ \A j \in dropped : Tag(j) \in Seen
         /\ \A v \in Workers : \A j \in Hand(worker[v]) : Tag(j) \in Held
         /\ issued \in Nat
<1>1. \A j \in Lists \cup Running \cup Found : Tag(j) \in Seen
  BY HeldMembers DEF Seen
<1>2. \A x \in Seen : x.id \in 1..issued
  BY DEF QueueInv, TagsOK
<1>3. \A j : Tag(j).id = j.id
  BY DEF Tag
<1>4. \A j \in Lists \cup Running \cup Found : j.id \in 1..issued
  BY <1>1, <1>2, <1>3
<1>5. issued \in Nat
  BY Numbers DEF QueueInv, TypeOK
<1>6. (\A j \in dropped : Tag(j) \in Seen)
        /\ \A v \in Workers : \A j \in Hand(worker[v]) : Tag(j) \in Held
  BY HeldMembers DEF Seen
<1>7. QED
  BY <1>1, <1>4, <1>5, <1>6

(* What it takes to keep every job. *)
LEMMA TagsStep ==
  ASSUME QueueInv, NEW N, Seen' \subseteq Seen \cup N, N \subseteq Held',
         \A x \in Held : x \in Held' \/ x.id \in done,
         \/ issued' = issued /\ N = {}
         \/ issued' = issued + 1 /\ \E x \in N : x.id = issued + 1 /\ N = {x},
         done \subseteq done', done' \subseteq 1..issued
  PROVE  TagsOK' /\ NoJobLost'
<1>1. issued \in Nat /\ issued' \in Nat /\ 1..issued \subseteq 1..issued'
      /\ issued + 1 \notin 1..issued
      /\ \A i \in 1..issued' : i \in 1..issued \/ (N # {} /\ i = issued + 1)
  BY SeenJobs
<1>2. \A x \in N : x.id = issued + 1 /\ x.id \notin done' /\ x.id \in 1..issued' /\ N = {x}
  BY <1>1
<1>3. /\ \A x \in Seen : x.id \in 1..issued
      /\ \A x, y \in Seen : x.id = y.id => x = y
  BY DEF QueueInv, TagsOK
<1>4. \A x \in Seen' : x.id \in 1..issued'
  BY <1>1, <1>2, <1>3
<1>5. ASSUME NEW x \in Seen', NEW y \in Seen', x.id = y.id PROVE x = y
  BY <1>1, <1>2, <1>3, <1>5
<1>6. TagsOK'
  BY <1>4, <1>5 DEF TagsOK
<1>7. ASSUME NEW i \in 1..issued' PROVE i \in done' \/ \E x \in Held' : x.id = i
  <2>1. CASE i \in 1..issued
    <3>1. i \in done \/ \E j \in Kept \cup dropped : j.id = i
      BY <2>1 DEF QueueInv, NoJobLost, Ids
    <3>2. ASSUME NEW j \in Kept \cup dropped
          PROVE  Tag(j) \in Held /\ Tag(j).id = j.id
      BY DEF Held, Tag
    <3>3. QED
      BY <3>1, <3>2
  <2>2. CASE i = issued + 1 /\ N # {}
    BY <1>2, <2>2
  <2>3. QED
    BY <1>1, <2>1, <2>2
<1>8. NoJobLost'
  <2>1. ASSUME NEW x \in Held' PROVE x.id \in Ids(Kept \cup dropped)'
    BY DEF Held, Tag, Ids
  <2>2. QED
    BY <1>7, <2>1 DEF NoJobLost
<1>9. QED
  BY <1>6, <1>8

(* The same for the step of one worker. *)
LEMMA WorkerTags ==
  ASSUME QueueInv, NEW w \in Workers, NEW rec \in Loop, Goto(w, rec), NEW N,
         \A j \in Lists \cup dropped \cup Hand(worker[w]) :
            \/ j.id \in done
            \/ \E k \in Lists' \cup dropped' \cup Hand(rec) : Tag(k) = Tag(j),
         \A k \in Lists' \cup dropped' \cup Hand(rec) \cup ToSet(rec.todo) :
            Tag(k) \in Seen \cup N,
         rec.pc # "idle" => Tag(rec.job) \in Seen
  PROVE  /\ Seen' \subseteq Seen \cup N
         /\ \A x \in Held : x \in Held' \/ x.id \in done
<1>1. /\ worker'[w] = rec
      /\ \A v \in Workers : v # w => worker'[v] = worker[v]
  BY GotoEffect DEF QueueInv
<1>2. \A j : Tag(j).id = j.id
  BY DEF Tag
<1>3. ASSUME NEW x \in Held PROVE x \in Held' \/ x.id \in done
  <2>1. CASE \E j \in Lists \cup dropped \cup Hand(worker[w]) : x = Tag(j)
    BY <1>1, <1>2, <2>1, HeldMembers
  <2>2. CASE \E v \in Workers : v # w /\ \E j \in Hand(worker[v]) : x = Tag(j)
    BY <1>1, <2>2, HeldMembers
  <2>3. QED
    BY <2>1, <2>2, HeldMembers
<1>4. ASSUME NEW x \in Held' PROVE x \in Seen \cup N
  <2>1. CASE \E j \in Lists' \cup dropped' \cup Hand(rec) : x = Tag(j)
    BY <2>1
  <2>2. CASE \E v \in Workers : v # w /\ \E j \in Hand(worker'[v]) : x = Tag(j)
    BY <1>1, <2>2, SeenJobs DEF Seen
  <2>3. QED
    BY <1>1, <2>1, <2>2, HeldMembers
<1>5. ASSUME NEW x \in Seen' PROVE x \in Seen \cup N
  <2>1. CASE \E v \in Workers : worker'[v].pc # "idle" /\ x = Tag(worker'[v].job)
    BY <1>1, <2>1, SeenMembers
  <2>2. CASE \E v \in Workers : \E j \in ToSet(worker'[v].todo) : x = Tag(j)
    BY <1>1, <2>2, SeenMembers
  <2>3. QED
    BY <1>4, <1>5, <2>1, <2>2, SeenMembers
<1>6. QED
  BY <1>3, <1>5
-----------------------------------------------------------------------------
(* Where the copies of one job are. *)

(* A step that only takes places away leaves a job in one place. *)
LEMMA FewerPlaces ==
  ASSUME NEW i, OnePlace(i), AtMostOnce(queue', i), AtMostOnce(processing', i),
         \A n \in DOMAIN queue' : queue'[n].id = i => Queued(i),
         \A e \in scheduled' : e.job.id = i => e \in scheduled,
         \A j \in failed' : j.id = i => j \in failed,
         \A n \in DOMAIN processing' : processing'[n].id = i =>
            \E m \in DOMAIN processing : processing[m] = processing'[n],
         \A v \in Workers : (worker'[v].pc # "idle" /\ worker'[v].job.id = i) =>
            /\ Runs(v, i) /\ worker'[v].job = worker[v].job
            /\ \/ worker'[v].pc # "push"
               \/ worker[v].pc = "push"
               \/ \A n \in DOMAIN processing' : processing'[n].id # i
  PROVE  OnePlace(i)'
<1>1. AtMostOnce(queue, i)' /\ AtMostOnce(processing, i)'
  BY DEF AtMostOnce
<1>2. Queued(i)' => Queued(i)
  BY DEF Queued
<1>3. Scheduled(i)' => Scheduled(i)
  BY DEF Scheduled
<1>4. Failed(i)' => Failed(i)
  BY DEF Failed
<1>5. ASSUME NEW v \in Workers, Runs(v, i)'
      PROVE  /\ Runs(v, i) /\ worker'[v].job = worker[v].job
             /\ \/ worker'[v].pc # "push"
                \/ worker[v].pc = "push"
                \/ \A n \in DOMAIN processing' : processing'[n].id # i
  BY <1>5 DEF Runs, Busy
<1>6. ASSUME NEW n \in DOMAIN processing', processing'[n].id = i
      PROVE  /\ ~ Queued(i)' /\ ~ Scheduled(i)' /\ ~ Failed(i)'
             /\ \A v \in Workers : Runs(v, i)' =>
                   worker'[v].pc # "push" /\ worker'[v].job = processing'[n]
  <2>1. PICK m \in DOMAIN processing : processing[m] = processing'[n]
    BY <1>6
  <2>2. /\ ~ Queued(i) /\ ~ Scheduled(i) /\ ~ Failed(i)
        /\ \A v \in Workers : Runs(v, i) =>
              worker[v].pc # "push" /\ worker[v].job = processing[m]
    BY <1>6, <2>1 DEF OnePlace
  <2>3. QED
    BY <1>2, <1>3, <1>4, <1>5, <1>6, <2>1, <2>2
<1>7. /\ \A e, f \in scheduled' : e.job.id = i /\ f.job.id = i => e = f
      /\ \A j, k \in failed' : j.id = i /\ k.id = i => j = k
  BY DEF OnePlace
<1>8. \A v, w \in Workers : Runs(v, i)' /\ Runs(w, i)' => v = w
  BY <1>5 DEF OnePlace
<1>9. /\ Queued(i)' => ~ Scheduled(i)' /\ ~ Failed(i)'
      /\ Scheduled(i)' => ~ Failed(i)'
      /\ \A w \in Workers : Runs(w, i)' =>
            ~ Queued(i)' /\ ~ Scheduled(i)' /\ ~ Failed(i)'
  BY <1>2, <1>3, <1>4, <1>5 DEF OnePlace
<1>10. QED
  BY <1>1, <1>6, <1>7, <1>8, <1>9 DEF OnePlace

(* The next id is nowhere yet. *)
LEMMA NewIdNowhere ==
  ASSUME QueueInv, NEW i, i \notin 1..issued
  PROVE  /\ \A n \in DOMAIN queue : queue[n].id # i
         /\ \A n \in DOMAIN processing : processing[n].id # i
         /\ \A e \in scheduled : e.job.id # i
         /\ \A j \in failed : j.id # i
         /\ \A v \in Workers : worker[v].pc # "idle" => worker[v].job.id # i
<1>1. \A j \in Lists \cup Running : j.id # i
  BY SeenJobs
<1>2. QED
  BY <1>1 DEF Lists, Running, Busy, ToSet

(* What AtMostOnce says of the lists, as a set of elements. *)
LEMMA OnceAsSet ==
  ASSUME NEW i, NEW s \in Seq(Job)
  PROVE  AtMostOnce(s, i) <=>
           \A m, n \in DOMAIN s : s[m] \in {j \in Job : j.id = i}
                                  /\ s[n] \in {j \in Job : j.id = i} => m = n
<1> DEFINE T == {j \in Job : j.id = i}
<1>1. \A n \in DOMAIN s : s[n] \in Job
  OBVIOUS
<1>2. \A n \in DOMAIN s : s[n] \in T <=> s[n].id = i
  BY <1>1
<1> HIDE DEF T
<1>3. AtMostOnce(s, i) <=>
        \A m, n \in DOMAIN s : s[m] \in T /\ s[n] \in T => m = n
  BY <1>2 DEF AtMostOnce
<1>4. QED
  BY <1>3 DEF T

LEMMA OncePushed ==
  ASSUME NEW i, NEW s \in Seq(Job), NEW j \in Job, AtMostOnce(s, i),
         j.id = i => \A n \in DOMAIN s : s[n].id # i
  PROVE  /\ AtMostOnce(<<j>> \o s, i)
         /\ \A n \in DOMAIN (<<j>> \o s) : (<<j>> \o s)[n].id = i =>
              \/ (<<j>> \o s)[n] = j
              \/ \E m \in DOMAIN s : s[m] = (<<j>> \o s)[n]
<1> DEFINE T == {k \in Job : k.id = i}
<1>1. \A m, n \in DOMAIN s : s[m] \in T /\ s[n] \in T => m = n
  BY OnceAsSet
<1>2. j \in T => \A m \in DOMAIN s : s[m] \notin T
  OBVIOUS
<1> HIDE DEF T
<1>3. PICK r : r = <<j>> \o s
  OBVIOUS
<1>4. /\ r \in Seq(Job)
      /\ \A m \in DOMAIN r :
           \/ m = 1 /\ r[m] = j
           \/ m > 1 /\ m - 1 \in DOMAIN s /\ r[m] = s[m - 1]
  BY <1>3, PushElements
<1>5. \A m, n \in DOMAIN r : r[m] \in T /\ r[n] \in T => m = n
  BY <1>1, <1>2, <1>3, PushPlaces
<1>6. AtMostOnce(r, i)
  BY <1>4, <1>5, OnceAsSet DEF T
<1>7. QED
  BY <1>3, <1>4, <1>6

LEMMA OnceRemoved ==
  ASSUME NEW i, NEW s \in Seq(Job), NEW j, AtMostOnce(s, i)
  PROVE  /\ RemoveFirst(s, j) \in Seq(Job)
         /\ AtMostOnce(RemoveFirst(s, j), i)
         /\ \A n \in DOMAIN RemoveFirst(s, j) :
              \E m \in DOMAIN s : s[m] = RemoveFirst(s, j)[n]
         /\ (\E m \in DOMAIN s : s[m] = j /\ j.id = i) =>
              \A n \in DOMAIN RemoveFirst(s, j) : RemoveFirst(s, j)[n].id # i
<1> DEFINE T == {k \in Job : k.id = i}
<1>1. \A m, n \in DOMAIN s : s[m] \in T /\ s[n] \in T => m = n
  BY OnceAsSet
<1>2. \A k \in Job : k \in T <=> k.id = i
  OBVIOUS
<1> HIDE DEF T
<1>3. PICK r : r = RemoveFirst(s, j)
  OBVIOUS
<1>4. /\ r \in Seq(Job) /\ ToSet(r) \subseteq ToSet(s)
  BY <1>3, RemoveFirstElements
<1>5. /\ \A m, n \in DOMAIN r : r[m] \in T /\ r[n] \in T => m = n
      /\ j \in T /\ j \in ToSet(s) => \A m \in DOMAIN r : r[m] \notin T
  BY <1>1, <1>3, RemoveFirstPlaces
<1>6. AtMostOnce(r, i)
  BY <1>4, <1>5, OnceAsSet DEF T
<1>7. \A n \in DOMAIN r : r[n] \in ToSet(s) /\ r[n] \in Job
  <2>1. \A n \in DOMAIN r : r[n] \in ToSet(r)
    BY DEF ToSet
  <2>2. QED
    BY <1>4, <2>1
<1>8. \A n \in DOMAIN r : \E m \in DOMAIN s : s[m] = r[n]
  BY <1>7 DEF ToSet
<1>9. (\E m \in DOMAIN s : s[m] = j /\ j.id = i) => j \in T /\ j \in ToSet(s)
  BY <1>2 DEF ToSet
<1>10. (\E m \in DOMAIN s : s[m] = j /\ j.id = i) => \A n \in DOMAIN r : r[n].id # i
  BY <1>2, <1>5, <1>7, <1>9
<1>11. QED
  BY <1>3, <1>4, <1>6, <1>8, <1>10
-----------------------------------------------------------------------------
(* The steps of a worker. *)

LEMMA LoopFields ==
  ASSUME NEW q \in Loop
  PROVE  /\ q.job \in Job \cup {NULL} /\ q.todo \in Seq(Job) /\ q.now \in Nat
         /\ q.pc \in {"idle", "run", "take", "give", "remove", "retract", "push"}
BY DEF Loop

(* A step that at most takes a job out of PROCESSING: all but those that    *)
(* start a job, push one or enqueue one.                                    *)
LEMMA QuietStep ==
  ASSUME QueueInv, NEW w \in Workers, NEW rec \in Loop, Goto(w, rec), NEW gone,
         UNCHANGED <<queue, failed, scheduled, issued, starts, recovered>>,
         clock' \in 0..MaxClock,
         \/ processing' = processing
         \/ /\ processing' = RemoveFirst(processing, gone)
            /\ gone.id \in done \/ gone \in Hand(rec),
         rec.pc # "idle" => worker[w].pc # "idle" /\ rec.job = worker[w].job,
         rec.pc = "push" => \/ worker[w].pc = "push"
                            \/ processing' = RemoveFirst(processing, rec.job),
         LoopOK(rec)', ToSet(rec.todo) \subseteq ToSet(processing) \cup Found,
         done \subseteq done', done' \subseteq 1..issued,
         dropped \subseteq dropped', dropped' \subseteq [id : Id, type : Type],
         \A k \in dropped' : Tag(k) \in Seen,
         \A j \in Hand(worker[w]) : \E k \in Hand(rec) \cup dropped' : Tag(k) = Tag(j),
         boot' \in Boot, broken' \subseteq Periodic
  PROVE  QueueInv'
<1>1. /\ worker' \in [Workers -> Loop] /\ worker'[w] = rec
      /\ \A v \in Workers : v # w => worker'[v] = worker[v]
  BY GotoEffect DEF QueueInv
<1>2. /\ processing' \in Seq(Job) /\ ToSet(processing') \subseteq ToSet(processing)
      /\ \A j \in ToSet(processing) :
           \/ j \in ToSet(processing')
           \/ j.id \in done
           \/ j \in Hand(rec)
  <2>1. CASE processing' = processing
    BY <2>1 DEF QueueInv, TypeOK
  <2>2. CASE /\ processing' = RemoveFirst(processing, gone)
             /\ gone.id \in done \/ gone \in Hand(rec)
    BY <2>2, RemoveFirstElements DEF QueueInv, TypeOK
  <2>3. QED
    BY <2>1, <2>2
<1>3. TypeOK' /\ IsFiniteSet(scheduled)'
  BY <1>1, <1>2 DEF QueueInv, TypeOK
<1>4. \A v \in Workers : LoopOK(worker[v])'
  BY LoopsStep
<1>5. rec.pc # "idle" => rec.job \in Running /\ Tag(rec.job) \in Seen
  <2>1. rec.pc # "idle" => rec.job \in Running
    BY DEF Running, Busy
  <2>2. QED
    BY <2>1, SeenJobs
<1>6. TriesCounted' /\ FailedHadTries'
  <2>1. \A i \in Id : starts[i] \in Nat /\ starts'[i] \in Nat /\ starts'[i] >= starts[i]
    BY DEF QueueInv, TypeOK
  <2>2. QED
    BY <1>2, <1>5, <2>1, TriesStep
<1>7. \A k \in Hand(rec) \cup ToSet(rec.todo) : Tag(k) \in Seen
  <2>1. \A k \in ToSet(rec.todo) : Tag(k) \in Seen
    BY SeenJobs DEF Lists
  <2>2. rec.pc = "push" => Hand(rec) = {rec.job}
    BY DEF Hand
  <2>3. rec.pc = "give" => Hand(rec) = {Head(rec.todo)} /\ rec.todo # << >>
    BY DEF Hand, LoopOK
  <2>4. rec.pc \notin {"push", "give"} => Hand(rec) = {}
    BY DEF Hand
  <2>5. rec.pc = "give" => Head(rec.todo) \in ToSet(rec.todo)
    BY <2>3, LoopFields, TailElements
  <2>6. QED
    BY <1>5, <2>1, <2>2, <2>3, <2>4, <2>5
<1>8. TagsOK' /\ NoJobLost'
  <2>1. \A j \in Lists \cup dropped \cup Hand(worker[w]) :
          \/ j.id \in done
          \/ \E k \in Lists' \cup dropped' \cup Hand(rec) : Tag(k) = Tag(j)
    BY <1>2 DEF Lists
  <2>2. PICK N : N = {}
    OBVIOUS
  <2>3. \A k \in Lists' \cup dropped' \cup Hand(rec) \cup ToSet(rec.todo) :
          Tag(k) \in Seen \cup N
    <3>1. Lists' \subseteq Lists
      BY <1>2 DEF Lists
    <3>2. QED
      BY <1>7, <3>1, SeenJobs
  <2>4. /\ Seen' \subseteq Seen \cup N
        /\ \A x \in Held : x \in Held' \/ x.id \in done
    BY <1>5, <2>1, <2>3, WorkerTags
  <2>5. issued' = issued /\ N = {} /\ N \subseteq Held'
    BY <2>2
  <2>6. QED
    BY <2>4, <2>5, TagsStep
<1>9. ASSUME NEW i \in Id, recovered'[i] = 0 PROVE OnePlace(i)'
  <2>1. OnePlace(i) /\ AtMostOnce(queue, i) /\ AtMostOnce(processing, i)
    BY <1>9 DEF QueueInv, OnePlace
  <2>2. AtMostOnce(processing', i)
    <3>1. PICK s \in Seq(Job) : s = processing
      BY ListTypes
    <3>2. AtMostOnce(s, i) /\ AtMostOnce(RemoveFirst(s, gone), i)
      BY <2>1, <3>1, OnceRemoved
    <3>3. QED
      BY <3>1, <3>2
  <2>3. \A n \in DOMAIN processing' : \E m \in DOMAIN processing :
           processing[m] = processing'[n]
    BY <1>2 DEF ToSet
  <2>4. ASSUME NEW v \in Workers, worker'[v].pc # "idle", worker'[v].job.id = i
        PROVE  /\ Runs(v, i) /\ worker'[v].job = worker[v].job
               /\ \/ worker'[v].pc # "push"
                  \/ worker[v].pc = "push"
                  \/ \A n \in DOMAIN processing' : processing'[n].id # i
    <3>1. CASE v # w
      BY <1>1, <2>4, <3>1 DEF Runs, Busy
    <3>2. CASE v = w
      <4>1. Runs(w, i) /\ worker'[w].job = worker[w].job
        BY <1>1, <2>4, <3>2 DEF Runs, Busy
      <4>2. ASSUME rec.pc = "push", worker[w].pc # "push", NEW n \in DOMAIN processing', processing'[n].id = i
            PROVE  FALSE
        <5>1. PICK m \in DOMAIN processing : processing[m] = processing'[n]
          BY <2>3
        <5>2. processing[m] = worker[w].job
          BY <2>1, <4>1, <4>2, <5>1 DEF OnePlace
        <5>3. rec.job = worker[w].job /\ rec.job.id = i
          BY <1>1, <2>4, <3>2, <4>2
        <5>4. PICK s \in Seq(Job) : s = processing
          BY ListTypes
        <5>5. /\ AtMostOnce(s, i) /\ m \in DOMAIN s
              /\ s[m] = rec.job /\ rec.job.id = i
          BY <2>1, <5>1, <5>2, <5>3, <5>4
        <5>6. \A k \in DOMAIN RemoveFirst(s, rec.job) : RemoveFirst(s, rec.job)[k].id # i
          BY <5>5, OnceRemoved
        <5>7. QED
          BY <4>2, <5>4, <5>6
      <4>3. QED
        BY <1>1, <3>2, <4>1, <4>2
    <3>3. QED
      BY <3>1, <3>2
  <2>5. \A n \in DOMAIN queue' : queue'[n].id = i => Queued(i)
    BY DEF Queued
  <2>6. QED
    BY <2>1, <2>2, <2>3, <2>4, <2>5, FewerPlaces
<1>10. QED
  BY <1>3, <1>4, <1>6, <1>8, <1>9 DEF QueueInv

LEMMA LoopOfWorker ==
  ASSUME QueueInv, NEW w \in Workers
  PROVE  \E q \in Loop : /\ q = worker[w] /\ LoopOK(q)
                         /\ ToSet(q.todo) \subseteq Found
                         /\ q.pc # "idle" => q.job \in Running /\ q.job \in Job
                                             /\ Tag(q.job) \in Seen
                                             /\ q.job.id \in 1..issued
<1>1. worker[w] \in Loop /\ LoopOK(worker[w])
  BY DEF QueueInv, TypeOK
<1>2. ToSet(worker[w].todo) \subseteq Found
  BY DEF Found
<1>3. worker[w].pc # "idle" => worker[w].job \in Running
  BY DEF Running, Busy
<1>4. QED
  BY <1>1, <1>2, <1>3, SeenJobs, ListTypes

(* Nothing changes but what the worker remembers and what is done. *)
LEMMA HistoryTypes ==
  ASSUME QueueInv
  PROVE  /\ done \subseteq 1..issued /\ boot \in Boot /\ broken \subseteq Periodic
         /\ dropped \subseteq [id : Id, type : Type]
         /\ \A k \in dropped : Tag(k) \in Seen
         /\ 1..issued \subseteq Id /\ clock \in 0..MaxClock
<1>1. 1..issued \subseteq Id
  <2>1. issued \in Nat /\ issued <= MaxJobs /\ MaxJobs \in Nat
    BY Numbers DEF QueueInv, TypeOK
  <2>2. QED
    BY <2>1 DEF Id
<1>2. QED
  BY <1>1, SeenJobs DEF QueueInv, TypeOK

LEMMA KeepsHandle ==
  ASSUME QueueInv, NEW w \in Workers, Handle(w)
  PROVE  QueueInv'
<1>1. PICK q \in Loop : /\ q = worker[w] /\ LoopOK(q)
                        /\ ToSet(q.todo) \subseteq Found
                        /\ q.pc # "idle" => q.job \in Running /\ q.job \in Job
                                            /\ Tag(q.job) \in Seen
                                            /\ q.job.id \in 1..issued
  BY LoopOfWorker
<1> DEFINE rec == [q EXCEPT !.pc = "remove"]
<1>2. /\ q.pc = "run" /\ q.job.type = "index_snippet" /\ Goto(w, rec)
      /\ UNCHANGED <<lists, boot, clock, issued, starts, recovered, dropped,
                     broken>>
      /\ done' = done \cup {q.job.id}
  BY <1>1 DEF Handle
<1>3. /\ rec \in Loop /\ rec.pc = "remove" /\ rec.job = q.job /\ rec.todo = q.todo
  BY DEF Loop
<1> HIDE DEF rec
<1>4. LoopOK(rec)'
  BY <1>1, <1>2, <1>3 DEF LoopOK
<1>5. Hand(q) = {}
  BY <1>2 DEF Hand
<1>6. done \subseteq done' /\ done' \subseteq 1..issued
  BY <1>1, <1>2, HistoryTypes
<1>7. UNCHANGED <<queue, failed, scheduled, clock, issued, starts, recovered,
                  processing, boot, dropped, broken>>
  BY <1>2 DEF lists
<1>8. ToSet(rec.todo) \subseteq ToSet(processing) \cup Found
  BY <1>1, <1>3
<1>9. QED
  BY <1>1, <1>2, <1>3, <1>4, <1>5, <1>6, <1>7, <1>8, HistoryTypes, QuietStep

LEMMA KeepsScan ==
  ASSUME QueueInv, NEW w \in Workers, Scan(w)
  PROVE  QueueInv'
<1>1. PICK q \in Loop : /\ q = worker[w] /\ LoopOK(q)
                        /\ ToSet(q.todo) \subseteq Found
                        /\ q.pc # "idle" => q.job \in Running /\ q.job \in Job
                                            /\ Tag(q.job) \in Seen
                                            /\ q.job.id \in 1..issued
  BY LoopOfWorker
<1>2. PICK s \in Seq(Job) : /\ ToSet(s) \subseteq ToSet(processing)
                            /\ s = IF q.job.type = "recover_stuck_jobs"
                                   THEN FromStuck(processing, clock) ELSE << >>
  <2>1. FromStuck(processing, clock) \in Seq(Job)
          /\ ToSet(FromStuck(processing, clock)) \subseteq ToSet(processing)
    BY ListTypes, FromStuckElements
  <2>2. << >> \in Seq(Job) /\ ToSet(<< >>) = {}
    BY DEF ToSet
  <2>3. QED
    BY <2>1, <2>2
<1>3. PICK now \in Nat : now = clock
  BY Numbers DEF QueueInv, TypeOK
<1> DEFINE rec == [q EXCEPT !.pc = "take", !.now = now, !.todo = s]
<1>4. /\ q.pc = "run" /\ Goto(w, rec)
      /\ UNCHANGED <<lists, boot, clock, issued, history>>
  BY <1>1, <1>2, <1>3 DEF Scan
<1>5. /\ rec \in Loop /\ rec.pc = "take" /\ rec.job = q.job /\ rec.todo = s
  BY DEF Loop
<1> HIDE DEF rec
<1>6. LoopOK(rec)'
  BY <1>1, <1>4, <1>5 DEF LoopOK
<1>7. Hand(q) = {}
  BY <1>4 DEF Hand
<1>8. UNCHANGED <<queue, failed, scheduled, clock, issued, starts, recovered,
                  processing, boot, dropped, done, broken>>
  BY <1>4 DEF lists, history
<1>9. ToSet(rec.todo) \subseteq ToSet(processing) \cup Found
  BY <1>2, <1>5
<1>10. QED
  BY <1>1, <1>4, <1>5, <1>6, <1>7, <1>8, <1>9, HistoryTypes, QuietStep

LEMMA KeepsTake ==
  ASSUME QueueInv, NEW w \in Workers, Take(w)
  PROVE  QueueInv'
<1>1. PICK q \in Loop : /\ q = worker[w] /\ LoopOK(q)
                        /\ ToSet(q.todo) \subseteq Found
                        /\ q.pc # "idle" => q.job \in Running /\ q.job \in Job
                                            /\ Tag(q.job) \in Seen
                                            /\ q.job.id \in 1..issued
  BY LoopOfWorker
<1> DEFINE rec == [q EXCEPT !.pc = "give"]
<1>2. /\ q.pc = "take" /\ q.todo # << >> /\ Goto(w, rec)
      /\ processing' = RemoveFirst(processing, Head(q.todo))
      /\ UNCHANGED <<queue, failed, scheduled, boot, clock, issued, history>>
  BY <1>1 DEF Take, Lrem
<1>3. /\ rec \in Loop /\ rec.pc = "give" /\ rec.job = q.job /\ rec.todo = q.todo
  BY DEF Loop
<1> HIDE DEF rec
<1>4. LoopOK(rec)'
  BY <1>1, <1>2, <1>3 DEF LoopOK
<1>5. Hand(q) = {} /\ Hand(rec) = {Head(q.todo)}
  BY <1>2, <1>3 DEF Hand
<1>6. UNCHANGED <<queue, failed, scheduled, clock, issued, starts, recovered,
                  boot, dropped, done, broken>>
  BY <1>2 DEF history
<1>7. ToSet(rec.todo) \subseteq ToSet(processing) \cup Found
  BY <1>1, <1>3
<1>8. PICK gone : gone = Head(q.todo)
  OBVIOUS
<1>9. processing' = RemoveFirst(processing, gone) /\ gone \in Hand(rec)
  BY <1>2, <1>5, <1>8
<1>10. QED
  BY <1>1, <1>2, <1>3, <1>4, <1>5, <1>6, <1>7, <1>9, HistoryTypes, QuietStep

LEMMA KeepsFinishJob ==
  ASSUME QueueInv, NEW w \in Workers, FinishJob(w)
  PROVE  QueueInv'
<1>1. PICK q \in Loop : /\ q = worker[w] /\ LoopOK(q)
                        /\ ToSet(q.todo) \subseteq Found
                        /\ q.pc # "idle" => q.job \in Running /\ q.job \in Job
                                            /\ Tag(q.job) \in Seen
                                            /\ q.job.id \in 1..issued
  BY LoopOfWorker
<1>2. /\ q.pc = "remove" /\ Goto(w, Idle)
      /\ processing' = RemoveFirst(processing, q.job)
      /\ UNCHANGED <<queue, failed, scheduled, boot, clock, issued, history>>
  BY <1>1 DEF FinishJob, Lrem
<1>3. PICK rec \in Loop : rec = Idle /\ rec.pc = "idle" /\ rec.todo = << >>
  BY IdleType
<1>4. LoopOK(rec)' /\ q.job.id \in done
  BY <1>1, <1>2, <1>3 DEF LoopOK
<1>5. Hand(q) = {} /\ Goto(w, rec)
  BY <1>2, <1>3 DEF Hand
<1>6. UNCHANGED <<queue, failed, scheduled, clock, issued, starts, recovered,
                  boot, dropped, done, broken>>
  BY <1>2 DEF history
<1>7. ToSet(rec.todo) \subseteq ToSet(processing) \cup Found
  BY <1>3 DEF ToSet
<1>8. PICK gone : gone = q.job
  OBVIOUS
<1>9. processing' = RemoveFirst(processing, gone) /\ gone.id \in done
  BY <1>2, <1>4, <1>8
<1>10. QED
  BY <1>1, <1>3, <1>4, <1>5, <1>6, <1>7, <1>9, HistoryTypes, QuietStep

LEMMA KeepsRetract ==
  ASSUME QueueInv, NEW w \in Workers, Retract(w)
  PROVE  QueueInv'
<1>1. PICK q \in Loop : /\ q = worker[w] /\ LoopOK(q)
                        /\ ToSet(q.todo) \subseteq Found
                        /\ q.pc # "idle" => q.job \in Running /\ q.job \in Job
                                            /\ Tag(q.job) \in Seen
                                            /\ q.job.id \in 1..issued
  BY LoopOfWorker
<1> DEFINE rec == [q EXCEPT !.pc = "push"]
<1>2. /\ q.pc = "retract" /\ Goto(w, rec)
      /\ processing' = RemoveFirst(processing, q.job)
      /\ UNCHANGED <<queue, failed, scheduled, boot, clock, issued, history>>
  BY <1>1 DEF Retract, Lrem, Entry
<1>3. /\ rec \in Loop /\ rec.pc = "push" /\ rec.job = q.job /\ rec.todo = q.todo
  BY DEF Loop
<1> HIDE DEF rec
<1>4. LoopOK(rec)'
  BY <1>1, <1>2, <1>3 DEF LoopOK
<1>5. Hand(q) = {} /\ Hand(rec) = {q.job}
  BY <1>2, <1>3 DEF Hand
<1>6. UNCHANGED <<queue, failed, scheduled, clock, issued, starts, recovered,
                  boot, dropped, done, broken>>
  BY <1>2 DEF history
<1>7. ToSet(rec.todo) \subseteq ToSet(processing) \cup Found
  BY <1>1, <1>3
<1>8. PICK gone : gone = q.job
  OBVIOUS
<1>9. /\ processing' = RemoveFirst(processing, gone) /\ gone \in Hand(rec)
      /\ processing' = RemoveFirst(processing, rec.job)
  BY <1>2, <1>3, <1>5, <1>8
<1>10. QED
  BY <1>1, <1>2, <1>3, <1>4, <1>5, <1>6, <1>7, <1>9, HistoryTypes, QuietStep

(* What a crash or an error forgets is remembered as dropped. *)
LEMMA DroppedTags ==
  ASSUME QueueInv, NEW w \in Workers, dropped' = dropped \cup Dropped(w)
  PROVE  /\ dropped \subseteq dropped' /\ dropped' \subseteq [id : Id, type : Type]
         /\ \A k \in dropped' : Tag(k) \in Seen
         /\ \A j \in Hand(worker[w]) : \E k \in dropped' : Tag(k) = Tag(j)
<1>1. Dropped(w) = {[id |-> j.id, type |-> j.type] : j \in Hand(worker[w])}
  BY DEF Dropped, InHand, Hand
<1>2. Hand(worker[w]) \subseteq Job
  <2>1. PICK q \in Loop : q = worker[w] /\ LoopOK(q)
    BY LoopOfWorker
  <2>2. q.pc = "push" => Hand(q) = {q.job} /\ q.job \in Job
    BY <2>1 DEF Hand, LoopOK
  <2>3. q.pc = "give" => Hand(q) = {Head(q.todo)} /\ Head(q.todo) \in Job
    BY <2>1, LoopFields, TailElements DEF Hand, LoopOK
  <2>4. q.pc \notin {"push", "give"} => Hand(q) = {}
    BY DEF Hand
  <2>5. QED
    BY <2>1, <2>2, <2>3, <2>4
<1>3. ASSUME NEW j \in Hand(worker[w])
      PROVE  /\ Tag(j) \in [id : Id, type : Type] /\ Tag(j) \in Seen
             /\ Tag(Tag(j)) = Tag(j) /\ Tag(j) \in Dropped(w)
  BY <1>1, <1>2, JobFields, SeenJobs DEF Tag, Seen
<1>4. \A k \in Dropped(w) : \E j \in Hand(worker[w]) : k = Tag(j)
  BY <1>1 DEF Tag
<1>5. QED
  BY <1>3, <1>4, HistoryTypes

LEMMA KeepsRaise ==
  ASSUME QueueInv, NEW w \in Workers, Raise(w)
  PROVE  QueueInv'
<1>1. PICK q \in Loop : /\ q = worker[w] /\ LoopOK(q)
                        /\ ToSet(q.todo) \subseteq Found
                        /\ q.pc # "idle" => q.job \in Running /\ q.job \in Job
                                            /\ Tag(q.job) \in Seen
                                            /\ q.job.id \in 1..issued
  BY LoopOfWorker
<1>2. PICK s \in Seq(Job) : s = << >>
  <2>1. << >> \in Seq(Job)
    OBVIOUS
  <2>2. QED
    BY <2>1
<1> DEFINE rec == [q EXCEPT !.pc = "retract", !.todo = s, !.now = 0]
<1>3. /\ q.pc \in {"run", "take", "give", "remove"} /\ Goto(w, rec)
      /\ \/ processing' = processing
         \/ q.pc = "remove" /\ processing' = RemoveFirst(processing, q.job)
      /\ dropped' = dropped \cup Dropped(w) /\ Breaks(InHand(w))
      /\ UNCHANGED <<queue, failed, scheduled, boot, clock, issued, starts,
                     recovered, done>>
  BY <1>1, <1>2 DEF Raise, Lrem
<1>4. /\ rec \in Loop /\ rec.pc = "retract" /\ rec.job = q.job /\ rec.todo = << >>
  BY <1>2 DEF Loop
<1> HIDE DEF rec
<1>5. LoopOK(rec)' /\ (q.pc = "remove" => q.job.id \in done)
  BY <1>1, <1>3, <1>4 DEF LoopOK
<1>6. PICK gone : gone = q.job
  OBVIOUS
<1>7. \/ processing' = processing
      \/ processing' = RemoveFirst(processing, gone) /\ gone.id \in done
  BY <1>3, <1>5, <1>6
<1>8. ToSet(rec.todo) \subseteq ToSet(processing) \cup Found
  BY <1>4 DEF ToSet
<1>9. /\ dropped \subseteq dropped' /\ dropped' \subseteq [id : Id, type : Type]
      /\ \A k \in dropped' : Tag(k) \in Seen
      /\ \A j \in Hand(worker[w]) : \E k \in dropped' : Tag(k) = Tag(j)
  BY <1>3, DroppedTags
<1>10. broken' \subseteq Periodic
  BY <1>3, HistoryTypes DEF Breaks
<1>11. QED
  BY <1>1, <1>3, <1>4, <1>5, <1>7, <1>8, <1>9, <1>10, HistoryTypes, QuietStep

LEMMA KeepsCrash ==
  ASSUME QueueInv, NEW w \in Workers, Crash(w)
  PROVE  QueueInv'
<1>1. /\ Goto(w, Idle)
      /\ \/ boot' = Booting /\ broken' = {}
         \/ boot' = boot /\ Breaks(AtWork(w) \cup InHand(w))
      /\ dropped' = dropped \cup Dropped(w)
      /\ UNCHANGED <<lists, clock, issued, starts, recovered, done>>
  BY DEF Crash
<1>2. PICK rec \in Loop : rec = Idle /\ rec.pc = "idle" /\ rec.todo = << >>
  BY IdleType
<1>3. LoopOK(rec)' /\ ToSet(rec.todo) \subseteq ToSet(processing) \cup Found
  BY <1>2 DEF LoopOK, ToSet
<1>4. /\ dropped \subseteq dropped' /\ dropped' \subseteq [id : Id, type : Type]
      /\ \A k \in dropped' : Tag(k) \in Seen
      /\ \A j \in Hand(worker[w]) : \E k \in dropped' : Tag(k) = Tag(j)
  BY <1>1, DroppedTags
<1>5. Booting \in Boot
  BY Numbers DEF Booting, Boot
<1>6. boot' \in Boot /\ broken' \subseteq Periodic
  BY <1>1, <1>5, HistoryTypes DEF Breaks
<1>7. UNCHANGED <<queue, processing, failed, scheduled, clock, issued, starts,
                  recovered, done>>
  BY <1>1 DEF lists
<1>8. Goto(w, rec)
  BY <1>1, <1>2
<1>9. QED
  BY <1>2, <1>3, <1>4, <1>6, <1>7, <1>8, HistoryTypes, QuietStep

LEMMA OncePopped ==
  ASSUME NEW i, NEW s \in Seq(Job), s # << >>, AtMostOnce(s, i)
  PROVE  /\ AtMostOnce(Front(s), i)
         /\ \A n \in DOMAIN Front(s) : \E m \in DOMAIN s : s[m] = Front(s)[n]
         /\ Last(s).id = i => \A n \in DOMAIN Front(s) : Front(s)[n].id # i
         /\ \E m \in DOMAIN s : s[m] = Last(s)
<1>1. PICK f : f = Front(s)
  OBVIOUS
<1>2. /\ Len(s) \in DOMAIN s /\ s[Len(s)] = Last(s)
      /\ \A m \in DOMAIN f : m \in DOMAIN s /\ m # Len(s) /\ f[m] = s[m]
  BY <1>1, PopElements
<1>3. /\ AtMostOnce(f, i)
      /\ Last(s).id = i => \A n \in DOMAIN f : f[n].id # i
  BY <1>2 DEF AtMostOnce
<1>4. QED
  BY <1>1, <1>2, <1>3

LEMMA KeepsPop ==
  ASSUME QueueInv, NEW w \in Workers, Pop(w)
  PROVE  QueueInv'
<1>1. PICK q \in Loop : q = worker[w] /\ ToSet(q.todo) \subseteq Found
  BY LoopOfWorker
<1>2. PICK s \in Seq(Job) : s = queue
  BY ListTypes
<1>3. PICK j \in Job : j = Last(s)
  BY <1>2, PopElements DEF Pop
<1>4. PICK rec \in Loop : rec = [Idle EXCEPT !.pc = "run", !.job = j]
  <2>1. [Idle EXCEPT !.pc = "run", !.job = j] \in Loop
    BY IdleType DEF Loop
  <2>2. QED
    BY <2>1
<1>5. /\ q.pc = "idle" /\ s # << >> /\ queue' = Front(s)
      /\ processing' = <<j>> \o processing /\ Goto(w, rec)
      /\ starts' = [starts EXCEPT ![j.id] = @ + 1]
      /\ UNCHANGED <<failed, scheduled, boot, clock, issued, recovered, done,
                     dropped, broken>>
  BY <1>1, <1>2, <1>3, <1>4 DEF Pop, Claimed
<1>6. rec.pc = "run" /\ rec.job = j /\ ToSet(rec.todo) = {}
  BY <1>4 DEF Idle, ToSet
<1>7. /\ queue' \in Seq(Job) /\ ToSet(s) = ToSet(queue') \cup {j}
      /\ processing' \in Seq(Job) /\ ToSet(processing') = ToSet(processing) \cup {j}
  BY <1>2, <1>3, <1>5, PopElements, PushElements, ListTypes
<1>8. j.id \in Id /\ starts \in [Id -> Nat] /\ starts' \in [Id -> Nat]
      /\ starts'[j.id] = starts[j.id] + 1
      /\ \A i \in Id : starts[i] \in Nat /\ starts'[i] \in Nat /\ starts'[i] >= starts[i]
  BY <1>5, JobFields DEF QueueInv, TypeOK
<1>9. worker' \in [Workers -> Loop] /\ worker'[w] = rec
      /\ \A v \in Workers : v # w => worker'[v] = worker[v]
  BY <1>5, GotoEffect DEF QueueInv
<1>10. TypeOK' /\ IsFiniteSet(scheduled)'
  BY <1>5, <1>7, <1>8, <1>9 DEF QueueInv, TypeOK
<1>11. \A v \in Workers : LoopOK(worker[v])'
  <2>1. LoopOK(rec)'
    BY <1>6 DEF LoopOK
  <2>2. QED
    BY <1>5, <2>1, LoopsStep
<1>12. TriesCounted' /\ FailedHadTries'
  <2>1. starts[j.id] + j.retries >= Retries
    BY <1>2, <1>7 DEF QueueInv, TriesCounted
  <2>2. starts'[j.id] + j.retries > Retries
    BY <1>8, <2>1, JobFields, Numbers
  <2>3. QED
    BY <1>2, <1>5, <1>6, <1>7, <1>8, <2>2, TriesStep
<1>13. j \in Lists /\ Tag(j) \in Seen
  BY <1>2, <1>7, SeenJobs DEF Lists
<1>14. TagsOK' /\ NoJobLost'
  <2>1. PICK N : N = {}
    OBVIOUS
  <2>2. Hand(q) = {} /\ Hand(rec) = {} /\ Lists' = Lists
    BY <1>2, <1>5, <1>6, <1>7 DEF Hand, Lists
  <2>3. /\ Seen' \subseteq Seen \cup N
        /\ \A x \in Held : x \in Held' \/ x.id \in done
    BY <1>1, <1>5, <1>6, <1>13, <2>2, SeenJobs, WorkerTags
  <2>4. issued' = issued /\ N = {} /\ N \subseteq Held'
    BY <1>5, <2>1
  <2>5. done \subseteq done' /\ done' \subseteq 1..issued
    BY <1>5, HistoryTypes
  <2>6. QED
    BY <2>3, <2>4, <2>5, TagsStep
<1>15. ASSUME NEW i \in Id, recovered'[i] = 0 PROVE OnePlace(i)'
  <2>1. OnePlace(i) /\ AtMostOnce(s, i) /\ AtMostOnce(processing, i)
    BY <1>2, <1>5, <1>15 DEF QueueInv, OnePlace
  <2>2. /\ AtMostOnce(queue', i)
        /\ \A n \in DOMAIN queue' : \E m \in DOMAIN s : s[m] = queue'[n]
        /\ j.id = i => \A n \in DOMAIN queue' : queue'[n].id # i
        /\ \E m \in DOMAIN s : s[m] = j
    BY <1>3, <1>5, <2>1, OncePopped
  <2>3. j.id = i => /\ Queued(i) /\ ~ Scheduled(i) /\ ~ Failed(i)
                    /\ \A v \in Workers : ~ Runs(v, i)
                    /\ \A n \in DOMAIN processing : processing[n].id # i
    BY <1>2, <2>1, <2>2 DEF OnePlace, Queued
  <2>4. /\ AtMostOnce(processing', i)
        /\ \A n \in DOMAIN processing' : processing'[n].id = i =>
             \/ processing'[n] = j
             \/ \E m \in DOMAIN processing : processing[m] = processing'[n]
    <3>1. PICK p \in Seq(Job) : p = processing
      BY ListTypes
    <3>2. /\ AtMostOnce(<<j>> \o p, i)
          /\ \A n \in DOMAIN (<<j>> \o p) : (<<j>> \o p)[n].id = i =>
               \/ (<<j>> \o p)[n] = j
               \/ \E m \in DOMAIN p : p[m] = (<<j>> \o p)[n]
      BY <2>1, <2>3, <3>1, OncePushed
    <3>3. QED
      BY <1>5, <3>1, <3>2
  <2>5. CASE j.id # i
    <3>1. \A v \in Workers : (worker'[v].pc # "idle" /\ worker'[v].job.id = i) =>
            Runs(v, i) /\ worker'[v] = worker[v]
      BY <1>6, <1>9, <2>5 DEF Runs, Busy
    <3>2. \A n \in DOMAIN queue' : queue'[n].id = i => Queued(i)
      BY <1>2, <2>2 DEF Queued
    <3>3. QED
      BY <1>5, <2>1, <2>2, <2>4, <2>5, <3>1, <3>2, FewerPlaces
  <2>6. CASE j.id = i
    <3>1. ~ Queued(i)' /\ ~ Scheduled(i)' /\ ~ Failed(i)'
      BY <1>5, <2>2, <2>3, <2>6 DEF Queued, Scheduled, Failed
    <3>2. \A v \in Workers : Runs(v, i)' => v = w
      BY <1>9, <2>3, <2>6 DEF Runs, Busy
    <3>3. \A n \in DOMAIN processing' : processing'[n].id = i => processing'[n] = j
      BY <2>3, <2>4, <2>6
    <3>4. worker'[w].pc # "push" /\ worker'[w].job = j
      BY <1>6, <1>9
    <3>5. /\ \A e, f \in scheduled' : e.job.id = i /\ f.job.id = i => e = f
          /\ \A k, l \in failed' : k.id = i /\ l.id = i => k = l
      BY <1>5, <2>1 DEF OnePlace
    <3>6. AtMostOnce(queue, i)' /\ AtMostOnce(processing, i)'
      BY <2>2, <2>4 DEF AtMostOnce
    <3>7. QED
      BY <3>1, <3>2, <3>3, <3>4, <3>5, <3>6 DEF OnePlace
  <2>7. QED
    BY <2>5, <2>6
<1>16. QED
  BY <1>10, <1>11, <1>12, <1>14, <1>15 DEF QueueInv

LEMMA KeepsGive ==
  ASSUME QueueInv, NEW w \in Workers, Give(w)
  PROVE  QueueInv'
<1>1. PICK q \in Loop : /\ q = worker[w] /\ LoopOK(q)
                        /\ ToSet(q.todo) \subseteq Found
                        /\ q.pc # "idle" => q.job \in Running /\ q.job \in Job
                                            /\ Tag(q.job) \in Seen
                                            /\ q.job.id \in 1..issued
  BY LoopOfWorker
<1>2. q.pc = "give" /\ q.todo \in Seq(Job) /\ q.todo # << >> /\ q.now \in Nat
  BY <1>1, LoopFields DEF Give, LoopOK
<1>3. PICK h \in Job : h = Head(q.todo) /\ h \in Found
  BY <1>1, <1>2, TailElements
<1>4. PICK j \in Job : /\ j = [h EXCEPT !.since = q.now]
                       /\ j.id = h.id /\ j.retries = h.retries /\ Tag(j) = Tag(h)
  <2>1. [h EXCEPT !.since = q.now] \in Job
    BY <1>2 DEF Job
  <2>2. /\ [h EXCEPT !.since = q.now].id = h.id
        /\ [h EXCEPT !.since = q.now].type = h.type
        /\ [h EXCEPT !.since = q.now].retries = h.retries
    BY DEF Job
  <2>3. QED
    BY <2>1, <2>2 DEF Tag
<1>5. PICK t \in Seq(Job) : /\ t = FromStuck(Tail(q.todo), q.now)
                            /\ ToSet(t) \subseteq Found
  <2>1. Tail(q.todo) \in Seq(Job) /\ ToSet(Tail(q.todo)) \subseteq Found
    BY <1>1, <1>2, TailElements
  <2>2. QED
    BY <2>1, FromStuckElements
<1> DEFINE rec == [q EXCEPT !.pc = "take", !.todo = t]
<1>6. /\ queue' = <<j>> \o queue /\ Goto(w, rec)
      /\ recovered' = [recovered EXCEPT ![h.id] = @ + 1]
      /\ UNCHANGED <<processing, failed, scheduled, boot, clock, issued, starts,
                     done, dropped, broken>>
  BY <1>1, <1>3, <1>4, <1>5 DEF Give, Lpush
<1>7. rec \in Loop /\ rec.pc = "take" /\ rec.job = q.job /\ rec.todo = t
  BY DEF Loop
<1> HIDE DEF rec
<1>8. queue' \in Seq(Job) /\ ToSet(queue') = ToSet(queue) \cup {j}
  BY <1>6, PushElements, ListTypes
<1>9. /\ h.id \in Id /\ recovered \in [Id -> Nat] /\ recovered' \in [Id -> Nat]
      /\ recovered'[h.id] # 0
      /\ \A i \in Id : i # h.id => recovered'[i] = recovered[i]
  BY <1>6, JobFields DEF QueueInv, TypeOK
<1>10. worker' \in [Workers -> Loop] /\ worker'[w] = rec
       /\ \A v \in Workers : v # w => worker'[v] = worker[v]
  BY <1>6, <1>7, GotoEffect DEF QueueInv
<1>11. TypeOK' /\ IsFiniteSet(scheduled)'
  BY <1>6, <1>8, <1>9, <1>10 DEF QueueInv, TypeOK
<1>12. \A v \in Workers : LoopOK(worker[v])'
  <2>1. LoopOK(rec)'
    BY <1>1, <1>2, <1>7 DEF LoopOK
  <2>2. QED
    BY <1>6, <1>7, <2>1, LoopsStep
<1>13. TriesCounted' /\ FailedHadTries'
  <2>1. starts[h.id] + h.retries > Retries
    BY <1>3 DEF QueueInv, TriesCounted
  <2>2. \A i \in Id : starts[i] \in Nat /\ starts'[i] \in Nat /\ starts'[i] >= starts[i]
    BY <1>6 DEF QueueInv, TypeOK
  <2>3. starts'[j.id] + j.retries >= Retries
    <3>1. h.id \in Id /\ h.retries \in Nat /\ Retries \in Nat
      BY JobFields, Numbers
    <3>2. starts[h.id] \in Nat /\ starts'[h.id] \in Nat /\ starts'[h.id] >= starts[h.id]
      BY <2>2, <3>1
    <3>3. starts'[h.id] + h.retries >= Retries
      BY <2>1, <3>1, <3>2
    <3>4. QED
      BY <1>4, <3>3
  <2>4. QED
    BY <1>1, <1>2, <1>5, <1>6, <1>7, <1>8, <2>2, <2>3, TriesStep
<1>14. TagsOK' /\ NoJobLost'
  <2>1. PICK N : N = {}
    OBVIOUS
  <2>2. /\ Hand(q) = {h} /\ Hand(rec) = {} /\ Lists' = Lists \cup {j}
        /\ Tag(h) \in Seen
    BY <1>2, <1>3, <1>6, <1>7, <1>8, SeenJobs DEF Hand, Lists
  <2>3. /\ Seen' \subseteq Seen \cup N
        /\ \A x \in Held : x \in Held' \/ x.id \in done
    <3>1. \A x \in Lists \cup dropped \cup Hand(q) :
             \E k \in Lists' \cup dropped' \cup Hand(rec) : Tag(k) = Tag(x)
      BY <1>4, <1>6, <2>2
    <3>2. \A k \in Lists' \cup dropped' \cup Hand(rec) \cup ToSet(rec.todo) :
             Tag(k) \in Seen \cup N
      BY <1>4, <1>5, <1>6, <1>7, <2>2, SeenJobs
    <3>3. Tag(rec.job) \in Seen
      BY <1>1, <1>2, <1>7
    <3>4. QED
      <4>1. Hand(worker[w]) = Hand(q)
        BY <1>1
      <4>2. \A x \in Lists \cup dropped \cup Hand(worker[w]) :
               \/ x.id \in done
               \/ \E k \in Lists' \cup dropped' \cup Hand(rec) : Tag(k) = Tag(x)
        BY <3>1, <4>1
      <4>3. rec \in Loop /\ Goto(w, rec)
        BY <1>6, <1>7
      <4>4. QED
        BY <3>2, <3>3, <4>2, <4>3, WorkerTags
  <2>4. issued' = issued /\ N = {} /\ N \subseteq Held'
    BY <1>6, <2>1
  <2>5. done \subseteq done' /\ done' \subseteq 1..issued
    BY <1>6, HistoryTypes
  <2>6. QED
    BY <2>3, <2>4, <2>5, TagsStep
<1>15. ASSUME NEW i \in Id, recovered'[i] = 0 PROVE OnePlace(i)'
  <2>1. /\ i # h.id /\ OnePlace(i) /\ AtMostOnce(queue, i) /\ AtMostOnce(processing, i)
    BY <1>9, <1>15 DEF QueueInv, OnePlace
  <2>2. PICK s \in Seq(Job) : s = queue /\ AtMostOnce(s, i)
    BY <2>1, ListTypes
  <2>3. j.id # i
    BY <1>4, <2>1
  <2>4. /\ AtMostOnce(queue', i)
        /\ \A n \in DOMAIN queue' : queue'[n].id = i => Queued(i)
    <3>1. /\ AtMostOnce(<<j>> \o s, i)
          /\ \A n \in DOMAIN (<<j>> \o s) : (<<j>> \o s)[n].id = i =>
               \/ (<<j>> \o s)[n] = j
               \/ \E m \in DOMAIN s : s[m] = (<<j>> \o s)[n]
      BY <2>2, <2>3, OncePushed
    <3>2. queue' = <<j>> \o s
      BY <1>6, <2>2
    <3>3. QED
      BY <2>2, <2>3, <3>1, <3>2 DEF Queued
  <2>5. \A v \in Workers : (worker'[v].pc # "idle" /\ worker'[v].job.id = i) =>
          Runs(v, i) /\ worker'[v].job = worker[v].job /\
          (worker'[v].pc # "push" \/ worker[v].pc = "push")
    BY <1>1, <1>2, <1>7, <1>10 DEF Runs, Busy
  <2>6. AtMostOnce(processing', i)
    BY <1>6, <2>1
  <2>7. QED
    BY <1>6, <2>1, <2>4, <2>5, <2>6, FewerPlaces
<1>16. QED
  BY <1>11, <1>12, <1>13, <1>14, <1>15 DEF QueueInv

LEMMA KeepsPush ==
  ASSUME QueueInv, NEW w \in Workers, Push(w)
  PROVE  QueueInv'
<1>1. PICK q \in Loop : /\ q = worker[w] /\ LoopOK(q)
                        /\ ToSet(q.todo) \subseteq Found
                        /\ q.pc # "idle" => q.job \in Running /\ q.job \in Job
                                            /\ Tag(q.job) \in Seen
                                            /\ q.job.id \in 1..issued
  BY LoopOfWorker
<1>2. q.pc = "push" /\ q.job \in Job /\ q.job \in Running /\ Tag(q.job) \in Seen
  BY <1>1 DEF Push
<1>3. PICK n \in Nat : n = q.job.retries - 1 /\ n < Retries
  BY <1>2, JobFields, Numbers
<1>4. PICK j : j = [q.job EXCEPT !.retries = n]
  OBVIOUS
<1>5. /\ j.id = q.job.id /\ j.retries = n /\ Tag(j) = Tag(q.job)
      /\ n > 0 => j \in Job
      /\ ~ (n > 0) => j \in FailedJob
  <2>1. n > 0 => n \in 1..Retries
    BY <1>3, Numbers
  <2>2. n \in Nat /\ (~ (n > 0) => n = 0)
    OBVIOUS
  <2>3. j.id = q.job.id /\ j.type = q.job.type /\ j.retries = n
    BY <1>2, <1>4 DEF Job
  <2>4. n > 0 => j \in Job
    <3>1. \A m \in 1..Retries : [q.job EXCEPT !.retries = m] \in Job
      BY <1>2 DEF Job
    <3>2. QED
      BY <1>4, <2>1, <3>1
  <2>5. ~ (n > 0) => j \in FailedJob
    BY <1>2, <1>4, <2>2 DEF Job, FailedJob
  <2>6. QED
    BY <2>3, <2>4, <2>5 DEF Tag
<1>6. PICK rec \in Loop : rec = Idle /\ rec.pc = "idle" /\ rec.todo = << >>
  BY IdleType
<1>7. /\ \/ n > 0 /\ queue' = <<j>> \o queue /\ failed' = failed
         \/ ~ (n > 0) /\ queue' = queue /\ failed' = failed \cup {j}
      /\ processing' = processing /\ Goto(w, rec)
      /\ UNCHANGED <<scheduled, boot, clock, issued, starts, recovered, done, dropped>>
      /\ broken' \subseteq Periodic
  <2>1. worker[w] = q /\ broken \subseteq Periodic
    BY <1>1, HistoryTypes
  <2>2. QED
    BY <1>3, <1>4, <1>6, <2>1 DEF Push, CountDown, MayRetry, Retry, Lpush, Breaks
<1>8. /\ queue' \in Seq(Job) /\ failed' \subseteq FailedJob
      /\ ToSet(queue') \cup failed' = ToSet(queue) \cup failed \cup {j}
      /\ \A k \in ToSet(queue') : k \in ToSet(queue) \/ (n > 0 /\ k = j)
      /\ \A k \in failed' : k \in failed \/ (~ (n > 0) /\ k = j)
  <2>1. CASE n > 0
    <3>1. PICK s \in Seq(Job) : s = queue
      BY ListTypes
    <3>2. <<j>> \o s \in Seq(Job) /\ ToSet(<<j>> \o s) = ToSet(s) \cup {j}
      BY <1>5, <2>1, PushElements
    <3>3. QED
      BY <1>7, <2>1, <3>1, <3>2, ListTypes
  <2>2. CASE ~ (n > 0)
    BY <1>5, <1>7, <2>2, ListTypes
  <2>3. QED
    BY <2>1, <2>2
<1>9. worker' \in [Workers -> Loop] /\ worker'[w] = rec
      /\ \A v \in Workers : v # w => worker'[v] = worker[v]
  BY <1>7, GotoEffect DEF QueueInv
<1>10. TypeOK' /\ IsFiniteSet(scheduled)'
  BY <1>7, <1>8, <1>9 DEF QueueInv, TypeOK
<1>11. \A v \in Workers : LoopOK(worker[v])'
  <2>1. LoopOK(rec)'
    BY <1>6 DEF LoopOK
  <2>2. QED
    BY <1>7, <2>1, LoopsStep
<1>12. TriesCounted' /\ FailedHadTries'
  <2>1. \A i \in Id : starts[i] \in Nat /\ starts'[i] \in Nat /\ starts'[i] >= starts[i]
    BY <1>7 DEF QueueInv, TypeOK
  <2>2. starts[q.job.id] + q.job.retries > Retries
    BY <1>2 DEF QueueInv, TriesCounted
  <2>3. starts'[j.id] + j.retries >= Retries
    <3>1. q.job.id \in Id /\ q.job.retries \in Nat /\ Retries \in Nat
      BY <1>2, JobFields, Numbers
    <3>2. /\ starts[q.job.id] \in Nat /\ starts'[q.job.id] \in Nat
          /\ starts'[q.job.id] >= starts[q.job.id]
      BY <2>1, <3>1
    <3>3. starts'[q.job.id] + n >= Retries
      BY <1>3, <2>2, <3>1, <3>2
    <3>4. QED
      BY <1>5, <3>3
  <2>4. ~ (n > 0) => starts'[j.id] >= Retries
    BY <1>2, <1>3, <1>5, <2>1, <2>3, JobFields, Numbers
  <2>5. ToSet(rec.todo) = {}
    BY <1>6 DEF ToSet
  <2>6. /\ \A k \in ToSet(queue') : k \in ToSet(queue) \/ k = j
        /\ \A k \in failed' : k \in failed \/ starts'[k.id] >= Retries
    BY <1>8, <2>4
  <2>7. \A k \in ToSet(queue') \cup {e.job : e \in scheduled'} :
            \/ k \in ToSet(queue) \cup {e.job : e \in scheduled}
            \/ starts'[k.id] + k.retries >= Retries
    BY <1>7, <2>3, <2>6
  <2>8. /\ ToSet(processing') = ToSet(processing)
        /\ \A k \in ToSet(rec.todo) : k \in ToSet(processing) \cup Found
    BY <1>7, <2>5
  <2>9. QED
    BY <1>6, <1>7, <2>1, <2>6, <2>7, <2>8, TriesStep
<1>13. TagsOK' /\ NoJobLost'
  <2>1. PICK N : N = {}
    OBVIOUS
  <2>2. /\ Hand(q) = {q.job} /\ Hand(rec) = {} /\ Lists' = Lists \cup {j}
        /\ ToSet(rec.todo) = {}
    BY <1>2, <1>6, <1>7, <1>8 DEF Hand, Lists, ToSet
  <2>3. /\ Seen' \subseteq Seen \cup N
        /\ \A x \in Held : x \in Held' \/ x.id \in done
    <3>1. \A x \in Lists \cup dropped \cup Hand(q) :
             \E k \in Lists' \cup dropped' \cup Hand(rec) : Tag(k) = Tag(x)
      BY <1>5, <1>7, <2>2
    <3>2. \A k \in Lists' \cup dropped' \cup Hand(rec) \cup ToSet(rec.todo) :
             Tag(k) \in Seen \cup N
      BY <1>2, <1>5, <1>7, <2>2, SeenJobs
    <3>3. QED
      BY <1>1, <1>6, <1>7, <3>1, <3>2, WorkerTags
  <2>4. issued' = issued /\ N = {} /\ N \subseteq Held'
    BY <1>7, <2>1
  <2>5. done \subseteq done' /\ done' \subseteq 1..issued
    BY <1>7, HistoryTypes
  <2>6. QED
    BY <2>3, <2>4, <2>5, TagsStep
<1>14. ASSUME NEW i \in Id, recovered'[i] = 0 PROVE OnePlace(i)'
  <2>1. OnePlace(i) /\ AtMostOnce(queue, i) /\ AtMostOnce(processing, i)
    BY <1>7, <1>14 DEF QueueInv, OnePlace
  <2>2. PICK s \in Seq(Job) : s = queue
    BY ListTypes
  <2>3. AtMostOnce(processing', i)
    BY <1>7, <2>1
  <2>4. \A v \in Workers : (worker'[v].pc # "idle" /\ worker'[v].job.id = i) =>
          v # w /\ Runs(v, i) /\ worker'[v] = worker[v]
    BY <1>6, <1>9 DEF Runs, Busy
  <2>5. CASE j.id # i
    <3>1. /\ AtMostOnce(queue', i)
          /\ \A m \in DOMAIN queue' : queue'[m].id = i => Queued(i)
      <4>1. CASE n > 0
        <5>1. /\ AtMostOnce(<<j>> \o s, i)
              /\ \A m \in DOMAIN (<<j>> \o s) : (<<j>> \o s)[m].id = i =>
                   \/ (<<j>> \o s)[m] = j
                   \/ \E l \in DOMAIN s : s[l] = (<<j>> \o s)[m]
          BY <1>5, <2>1, <2>2, <2>5, <4>1, OncePushed
        <5>2. queue' = <<j>> \o s
          BY <1>7, <2>2, <4>1
        <5>3. QED
          BY <2>2, <2>5, <5>1, <5>2 DEF Queued
      <4>2. CASE ~ (n > 0)
        BY <1>7, <2>1, <4>2 DEF Queued
      <4>3. QED
        BY <4>1, <4>2
    <3>2. \A k \in failed' : k.id = i => k \in failed
      BY <1>8, <2>5
    <3>3. QED
      BY <1>7, <2>1, <2>3, <2>4, <3>1, <3>2, FewerPlaces
  <2>6. CASE j.id = i
    <3>1. Runs(w, i)
      BY <1>1, <1>2, <1>5, <2>6 DEF Runs, Busy
    <3>2. /\ ~ Queued(i) /\ ~ Scheduled(i) /\ ~ Failed(i)
          /\ \A v \in Workers : Runs(v, i) => v = w
          /\ \A m \in DOMAIN processing : processing[m].id # i
      BY <1>1, <1>2, <2>1, <3>1 DEF OnePlace
    <3>3. \A v \in Workers : ~ Runs(v, i)'
      BY <2>4, <3>2 DEF Runs, Busy
    <3>4. ~ Scheduled(i)' /\ \A m \in DOMAIN processing' : processing'[m].id # i
      BY <1>7, <3>2 DEF Scheduled
    <3>5. AtMostOnce(processing, i)' /\ AtMostOnce(queue, i)'
      <4>1. CASE n > 0
        <5>1. \A m \in DOMAIN s : s[m].id # i
          BY <2>2, <3>2 DEF Queued
        <5>2. AtMostOnce(<<j>> \o s, i)
          BY <1>5, <2>1, <2>2, <4>1, <5>1, OncePushed
        <5>3. QED
          BY <1>7, <2>2, <2>3, <4>1, <5>2 DEF AtMostOnce
      <4>2. CASE ~ (n > 0)
        BY <1>7, <2>1, <2>3, <4>2 DEF AtMostOnce
      <4>3. QED
        BY <4>1, <4>2
    <3>6. ~ (Queued(i)' /\ Failed(i)')
      <4>1. CASE n > 0
        BY <1>7, <3>2, <4>1 DEF Failed
      <4>2. CASE ~ (n > 0)
        BY <1>7, <3>2, <4>2 DEF Queued
      <4>3. QED
        BY <4>1, <4>2
    <3>7. \A k, l \in failed' : k.id = i /\ l.id = i => k = l
      BY <1>8, <3>2 DEF Failed
    <3>8. \A e \in scheduled' : e.job.id # i
      BY <3>4 DEF Scheduled
    <3>9. QED
      BY <3>3, <3>4, <3>5, <3>6, <3>7, <3>8 DEF OnePlace
  <2>7. QED
    BY <2>5, <2>6
<1>15. QED
  BY <1>10, <1>11, <1>12, <1>13, <1>14 DEF QueueInv

(* A step that enqueues a job, now or for later. *)
LEMMA AddedJob ==
  ASSUME QueueInv, NEW w \in Workers, NEW rec \in Loop, Goto(w, rec),
         NEW j \in Job, j.id = issued + 1, j.retries = Retries,
         issued + 1 \in 0..MaxJobs, issued' = issued + 1,
         UNCHANGED <<processing, failed, clock, starts, recovered, dropped, broken>>,
         \/ queue' = <<j>> \o queue /\ scheduled' = scheduled
         \/ /\ queue' = queue
            /\ \E e \in [job : Job, at : Nat] :
                  e.job = j /\ scheduled' = scheduled \cup {e},
         LoopOK(rec)', ToSet(rec.todo) \subseteq Found,
         rec.pc # "idle" => worker[w].pc # "idle" /\ rec.job = worker[w].job,
         rec.pc = "push" => worker[w].pc = "push",
         Hand(rec) = Hand(worker[w]),
         done \subseteq done', done' \subseteq 1..issued,
         boot' \in Boot
  PROVE  QueueInv'
<1>1. worker' \in [Workers -> Loop] /\ worker'[w] = rec
      /\ \A v \in Workers : v # w => worker'[v] = worker[v]
  BY GotoEffect DEF QueueInv
<1>2. /\ queue' \in Seq(Job) /\ scheduled' \subseteq [job : Job, at : Nat]
      /\ IsFiniteSet(scheduled')
      /\ \A k \in ToSet(queue) : k \in ToSet(queue')
      /\ \A k \in ToSet(queue') : k \in ToSet(queue) \/ k = j
      /\ \A e \in scheduled : e \in scheduled'
      /\ \A e \in scheduled' : e \in scheduled \/ e.job = j
      /\ j \in ToSet(queue') \cup {e.job : e \in scheduled'}
  <2>1. CASE queue' = <<j>> \o queue /\ scheduled' = scheduled
    BY <2>1, PushElements, ListTypes DEF QueueInv, TypeOK
  <2>2. CASE /\ queue' = queue
             /\ \E e \in [job : Job, at : Nat] :
                   e.job = j /\ scheduled' = scheduled \cup {e}
    <3>1. PICK e \in [job : Job, at : Nat] :
                   e.job = j /\ scheduled' = scheduled \cup {e}
      BY <2>2
    <3>2. IsFiniteSet(scheduled')
      BY <3>1, FS_AddElement DEF QueueInv
    <3>3. QED
      BY <2>2, <3>1, <3>2 DEF QueueInv, TypeOK
  <2>3. QED
    BY <2>1, <2>2
<1>3. done' \subseteq 1..issued'
  BY SeenJobs
<1>4. TypeOK' /\ IsFiniteSet(scheduled)'
  BY <1>1, <1>2, <1>3 DEF QueueInv, TypeOK
<1>5. \A v \in Workers : LoopOK(worker[v])'
  BY LoopsStep
<1>6. rec.pc # "idle" => rec.job \in Running /\ Tag(rec.job) \in Seen
  <2>1. rec.pc # "idle" => rec.job \in Running
    BY DEF Running, Busy
  <2>2. QED
    BY <2>1, SeenJobs
<1>7. TriesCounted' /\ FailedHadTries'
  <2>1. \A i \in Id : starts[i] \in Nat /\ starts'[i] \in Nat /\ starts'[i] >= starts[i]
    BY DEF QueueInv, TypeOK
  <2>2. starts'[j.id] + j.retries >= Retries
    BY <2>1, JobFields, Numbers
  <2>3. \A k \in ToSet(queue') \cup {e.job : e \in scheduled'} :
           k \in ToSet(queue) \cup {e.job : e \in scheduled} \/ k = j
    BY <1>2
  <2>4. QED
    BY <1>6, <2>1, <2>2, <2>3, TriesStep
<1>8. PICK N : N = {Tag(j)}
  OBVIOUS
<1>9. Lists' = Lists \cup {j} /\ Tag(j).id = issued + 1
  BY <1>2 DEF Lists, Tag
<1>10. /\ Seen' \subseteq Seen \cup N
       /\ \A x \in Held : x \in Held' \/ x.id \in done
  <2>1. \A x \in Lists \cup dropped \cup Hand(worker[w]) :
           \E k \in Lists' \cup dropped' \cup Hand(rec) : Tag(k) = Tag(x)
    BY <1>9
  <2>2. \A k \in Lists' \cup dropped' \cup Hand(rec) \cup ToSet(rec.todo) :
           Tag(k) \in Seen \cup N
    BY <1>8, <1>9, SeenJobs DEF Seen
  <2>3. \A x \in Lists \cup dropped \cup Hand(worker[w]) :
           \/ x.id \in done
           \/ \E k \in Lists' \cup dropped' \cup Hand(rec) : Tag(k) = Tag(x)
    BY <2>1
  <2>4. rec.pc # "idle" => Tag(rec.job) \in Seen
    BY <1>6
  <2>5. QED
    BY <2>2, <2>3, <2>4, WorkerTags
<1>11. N \subseteq Held'
  BY <1>8, <1>9, HeldMembers
<1>12. TagsOK' /\ NoJobLost'
  <2>1. \E x \in N : x.id = issued + 1 /\ N = {x}
    BY <1>8, <1>9
  <2>2. QED
    BY <1>10, <1>11, <2>1, TagsStep
<1>13. ASSUME NEW i \in Id, recovered'[i] = 0 PROVE OnePlace(i)'
  <2>1. OnePlace(i) /\ AtMostOnce(queue, i) /\ AtMostOnce(processing, i)
    BY <1>13 DEF QueueInv, OnePlace
  <2>2. AtMostOnce(processing', i)
    BY <2>1
  <2>3. \A v \in Workers : (worker'[v].pc # "idle" /\ worker'[v].job.id = i) =>
          /\ Runs(v, i) /\ worker'[v].job = worker[v].job
          /\ worker'[v].pc # "push" \/ worker[v].pc = "push"
    BY <1>1 DEF Runs, Busy
  <2>4. i = j.id => /\ \A n \in DOMAIN queue : queue[n].id # i
                    /\ \A n \in DOMAIN processing : processing[n].id # i
                    /\ \A e \in scheduled : e.job.id # i
                    /\ \A k \in failed : k.id # i
                    /\ \A v \in Workers : worker[v].pc # "idle" => worker[v].job.id # i
    <3>1. issued + 1 \notin 1..issued
      BY SeenJobs
    <3>2. QED
      BY <3>1, NewIdNowhere
  <2>5. /\ AtMostOnce(queue', i)
        /\ \A n \in DOMAIN queue' : queue'[n].id = i =>
             queue'[n] = j \/ \E m \in DOMAIN queue : queue[m] = queue'[n]
    <3>1. CASE queue' = <<j>> \o queue
      <4>1. PICK s \in Seq(Job) : s = queue /\ AtMostOnce(s, i)
        BY <2>1, ListTypes
      <4>2. j.id = i => \A n \in DOMAIN s : s[n].id # i
        BY <2>4, <4>1
      <4>3. /\ AtMostOnce(<<j>> \o s, i)
            /\ \A n \in DOMAIN (<<j>> \o s) : (<<j>> \o s)[n].id = i =>
                 \/ (<<j>> \o s)[n] = j
                 \/ \E m \in DOMAIN s : s[m] = (<<j>> \o s)[n]
        BY <4>1, <4>2, OncePushed
      <4>4. QED
        BY <3>1, <4>1, <4>3
    <3>2. CASE queue' = queue
      BY <2>1, <3>2
    <3>3. QED
      BY <3>1, <3>2
  <2>6. CASE j.id # i
    <3>1. /\ \A n \in DOMAIN queue' : queue'[n].id = i => Queued(i)
          /\ \A e \in scheduled' : e.job.id = i => e \in scheduled
      BY <1>2, <2>5, <2>6 DEF Queued
    <3>2. QED
      BY <2>1, <2>2, <2>3, <2>5, <3>1, FewerPlaces
  <2>7. CASE j.id = i
    <3>1. /\ \A v \in Workers : ~ Runs(v, i)'
          /\ \A n \in DOMAIN processing' : processing'[n].id # i
          /\ \A k \in failed' : k.id # i
          /\ ~ Failed(i)'
      BY <2>3, <2>4, <2>7 DEF Runs, Busy, Failed
    <3>2. ~ (Queued(i)' /\ Scheduled(i)')
          /\ \A e, f \in scheduled' : e.job.id = i /\ f.job.id = i => e = f
      <4>1. CASE queue' = <<j>> \o queue /\ scheduled' = scheduled
        BY <2>4, <2>7, <4>1 DEF Scheduled
      <4>2. CASE /\ queue' = queue
                 /\ \E e \in [job : Job, at : Nat] :
                       e.job = j /\ scheduled' = scheduled \cup {e}
        BY <2>4, <2>7, <4>2 DEF Queued
      <4>3. QED
        BY <4>1, <4>2
    <3>3. AtMostOnce(queue, i)' /\ AtMostOnce(processing, i)'
      BY <2>2, <2>5 DEF AtMostOnce
    <3>4. QED
      BY <3>1, <3>2, <3>3 DEF OnePlace
  <2>8. QED
    BY <2>6, <2>7
<1>14. QED
  BY <1>4, <1>5, <1>7, <1>12, <1>13 DEF QueueInv

LEMMA KeepsReschedule ==
  ASSUME QueueInv, NEW w \in Workers, Reschedule(w)
  PROVE  QueueInv'
<1>1. PICK q \in Loop : /\ q = worker[w] /\ LoopOK(q)
                        /\ ToSet(q.todo) \subseteq Found
                        /\ q.pc # "idle" => q.job \in Running /\ q.job \in Job
                                            /\ Tag(q.job) \in Seen
                                            /\ q.job.id \in 1..issued
  BY LoopOfWorker
<1>2. q.pc = "take" /\ q.job \in Job /\ Tag(q.job) \in Seen /\ q.job.id \in 1..issued
  BY <1>1 DEF Reschedule
<1>3. PICK j \in Job : /\ j = NewJob(q.job.type, NULL) /\ j.id = issued + 1
                       /\ j.retries = Retries
  <2>1. q.job.type \in Type /\ NULL \in Texts \cup {NULL} /\ TypeOK /\ issued < MaxJobs
    BY <1>2, JobFields DEF QueueInv, Reschedule
  <2>2. QED
    BY <2>1, NewJobType
<1>4. PICK e \in [job : Job, at : Nat] : e = [job |-> j, at |-> clock + Delay]
  <2>1. clock + Delay \in Nat
    BY Numbers DEF QueueInv, TypeOK
  <2>2. QED
    BY <2>1
<1> DEFINE rec == [q EXCEPT !.pc = "remove", !.now = 0]
<1>5. /\ issued < MaxJobs /\ scheduled' = scheduled \cup {e} /\ e.job = j
      /\ issued' = issued + 1 /\ done' = done \cup {q.job.id} /\ Goto(w, rec)
      /\ UNCHANGED <<queue, processing, failed, boot, clock, starts, recovered,
                     dropped, broken>>
  BY <1>1, <1>3, <1>4 DEF Reschedule, Again
<1>6. rec \in Loop /\ rec.pc = "remove" /\ rec.job = q.job /\ rec.todo = q.todo
  BY DEF Loop
<1> HIDE DEF rec
<1>7. LoopOK(rec)'
  BY <1>1, <1>2, <1>5, <1>6 DEF LoopOK
<1>8. Hand(rec) = {} /\ Hand(q) = {}
  BY <1>2, <1>6 DEF Hand
<1>9. done \subseteq done' /\ done' \subseteq 1..issued
  BY <1>2, <1>5, HistoryTypes
<1>10. issued + 1 \in 0..MaxJobs
  BY <1>5, NewJobType, Numbers DEF QueueInv, TypeOK
<1>11. boot' = boot /\ boot' \in Boot
  BY <1>5, HistoryTypes
<1>12. /\ queue' = queue
       /\ \E x \in [job : Job, at : Nat] :
             x.job = j /\ scheduled' = scheduled \cup {x}
  BY <1>5
<1>13. /\ rec.pc # "idle" => worker[w].pc # "idle" /\ rec.job = worker[w].job
       /\ rec.pc = "push" => worker[w].pc = "push"
       /\ Hand(rec) = Hand(worker[w]) /\ ToSet(rec.todo) \subseteq Found
  BY <1>1, <1>2, <1>6, <1>8
<1>14. /\ UNCHANGED <<processing, failed, clock, starts, recovered, dropped, broken>>
       /\ issued' = issued + 1 /\ Goto(w, rec)
  BY <1>5
<1>15. j.id = issued + 1 /\ j.retries = Retries
  BY <1>3
<1>16. QED
  BY <1>6, <1>7, <1>9, <1>10, <1>11, <1>12, <1>13, <1>14, <1>15, AddedJob
-----------------------------------------------------------------------------
(* The steps of the API, the scheduler and the clock: no worker moves. *)

LEMMA Stands ==
  ASSUME QueueInv, worker' = worker
  PROVE  \E w \in Workers : \E rec \in Loop :
           /\ rec = worker[w] /\ Goto(w, rec) /\ LoopOK(rec)
           /\ ToSet(rec.todo) \subseteq Found
<1>1. PICK w \in Workers : w = Scheduler
  BY Numbers
<1>2. PICK rec \in Loop : /\ rec = worker[w] /\ LoopOK(rec)
                          /\ ToSet(rec.todo) \subseteq Found
  BY LoopOfWorker
<1>3. worker \in [Workers -> Loop]
  BY DEF QueueInv, TypeOK
<1>4. Goto(w, rec)
  BY <1>2, <1>3 DEF Goto
<1>5. QED
  BY <1>2, <1>4

LEMMA KeepsEnqueue ==
  ASSUME QueueInv, Enqueue
  PROVE  QueueInv'
<1>1. PICK x \in Texts : Lpush(NewJob("index_snippet", x))
  BY DEF Enqueue
<1>2. PICK j \in Job : /\ j = NewJob("index_snippet", x) /\ j.id = issued + 1
                       /\ j.retries = Retries /\ issued + 1 \in 0..MaxJobs
  <2>1. /\ "index_snippet" \in Type /\ x \in Texts \cup {NULL}
        /\ TypeOK /\ issued < MaxJobs
    BY Numbers DEF QueueInv, Enqueue
  <2>2. QED
    BY <2>1, NewJobType
<1>3. /\ queue' = <<j>> \o queue /\ issued' = issued + 1
      /\ UNCHANGED <<processing, failed, scheduled, worker, boot, clock, starts,
                     recovered, done, dropped, broken>>
  BY <1>1, <1>2 DEF Enqueue, Lpush, history
<1>4. PICK w \in Workers, rec \in Loop :
        /\ rec = worker[w] /\ Goto(w, rec) /\ LoopOK(rec)
        /\ ToSet(rec.todo) \subseteq Found
  BY <1>3, Stands
<1>5. LoopOK(rec)'
  BY <1>3, <1>4 DEF LoopOK
<1>6. done' \subseteq 1..issued /\ done \subseteq done' /\ boot' \in Boot
  BY <1>3, HistoryTypes
<1>7. QED
  BY <1>2, <1>3, <1>4, <1>5, <1>6, AddedJob

LEMMA BootFields ==
  ASSUME QueueInv
  PROVE  /\ boot.todo \in Seq(Periodic) /\ boot.found \in BOOLEAN
         /\ boot.todo # << >> =>
              /\ Head(boot.todo) \in Periodic
              /\ Tail(boot.todo) \in Seq(Periodic)
              /\ ToSet(boot.todo) = {Head(boot.todo)} \cup ToSet(Tail(boot.todo))
         /\ ToSet(Seeds) \subseteq Periodic
<1>1. boot.todo \in Seq(Periodic) /\ boot.found \in BOOLEAN
  BY DEF QueueInv, TypeOK, Boot
<1>2. PICK t \in Seq(Periodic) : t = boot.todo
  BY <1>1
<1>3. t # << >> => /\ Head(t) \in Periodic /\ Tail(t) \in Seq(Periodic)
                   /\ ToSet(t) = {Head(t)} \cup ToSet(Tail(t))
  BY TailElements
<1>4. ToSet(Seeds) \subseteq Periodic
  BY Numbers DEF ToSet
<1>5. QED
  BY <1>1, <1>2, <1>3, <1>4

(* A step of the seeding that only reads. *)
LEMMA ReadingStep ==
  ASSUME QueueInv, UNCHANGED <<lists, worker, issued, history>>,
         clock' \in 0..MaxClock, boot' \in Boot
  PROVE  QueueInv'
<1>1. UNCHANGED <<queue, processing, failed, scheduled, worker, issued, starts,
                  recovered, done, dropped, broken>>
  BY DEF lists, history
<1>2. PICK w \in Workers, rec \in Loop :
        /\ rec = worker[w] /\ Goto(w, rec) /\ LoopOK(rec)
        /\ ToSet(rec.todo) \subseteq Found
  BY <1>1, Stands
<1>3. LoopOK(rec)'
  BY <1>1, <1>2 DEF LoopOK
<1>4. \A j \in Hand(worker[w]) : \E k \in Hand(rec) \cup dropped' : Tag(k) = Tag(j)
  BY <1>2
<1>5. /\ done' \subseteq 1..issued /\ dropped' \subseteq [id : Id, type : Type]
      /\ \A k \in dropped' : Tag(k) \in Seen
      /\ broken' \subseteq Periodic
  BY <1>1, HistoryTypes
<1>6. QED
  BY <1>1, <1>2, <1>3, <1>4, <1>5, QuietStep

LEMMA KeepsTick ==
  ASSUME QueueInv, Tick
  PROVE  QueueInv'
<1>1. clock' \in 0..MaxClock
  BY Numbers DEF QueueInv, TypeOK, Tick
<1>2. QED
  BY <1>1, HistoryTypes, ReadingStep DEF Tick

LEMMA KeepsSeedReadQueue ==
  ASSUME QueueInv, SeedReadQueue
  PROVE  QueueInv'
<1>1. PICK found \in BOOLEAN :
        found = \E j \in ToSet(queue) : Mentions(j, Head(boot.todo))
  OBVIOUS
<1>2. /\ boot' = [boot EXCEPT !.pc = "scheduled", !.found = found]
      /\ UNCHANGED <<lists, worker, clock, issued, history>>
  BY <1>1 DEF SeedReadQueue
<1>3. boot' \in Boot
  BY <1>2, HistoryTypes DEF Boot
<1>4. QED
  BY <1>2, <1>3, HistoryTypes, ReadingStep

LEMMA KeepsSeedReadScheduled ==
  ASSUME QueueInv, SeedReadScheduled
  PROVE  QueueInv'
<1>1. /\ boot.todo # << >>
      /\ \/ boot' = [Booting EXCEPT !.todo = Tail(boot.todo)]
         \/ boot' = [boot EXCEPT !.pc = "push"]
      /\ UNCHANGED <<lists, worker, clock, issued, history>>
  BY DEF SeedReadScheduled
<1>2. PICK t \in Seq(Periodic) : t = Tail(boot.todo)
  BY <1>1, BootFields
<1>3. boot' \in Boot
  <2>1. [Booting EXCEPT !.todo = t] \in Boot
    BY DEF Booting, Boot
  <2>2. [boot EXCEPT !.pc = "push"] \in Boot
    BY HistoryTypes DEF Boot
  <2>3. QED
    BY <1>1, <1>2, <2>1, <2>2
<1>4. QED
  BY <1>1, <1>3, HistoryTypes, ReadingStep

LEMMA KeepsSeedPush ==
  ASSUME QueueInv, SeedPush
  PROVE  QueueInv'
<1>1. boot.todo # << >>
  BY DEF SeedPush
<1>2. PICK type \in Periodic : type = Head(boot.todo)
  BY <1>1, BootFields
<1>3. PICK j \in Job : /\ j = NewJob(type, NULL) /\ j.id = issued + 1
                       /\ j.retries = Retries /\ issued + 1 \in 0..MaxJobs
  <2>1. /\ type \in Type /\ NULL \in Texts \cup {NULL} /\ TypeOK /\ issued < MaxJobs
    BY Numbers DEF QueueInv, SeedPush
  <2>2. QED
    BY <2>1, NewJobType
<1>4. PICK t \in Seq(Periodic) : t = Tail(boot.todo)
  BY <1>1, BootFields
<1>5. /\ queue' = <<j>> \o queue /\ issued' = issued + 1
      /\ boot' = [Booting EXCEPT !.todo = t]
      /\ UNCHANGED <<processing, failed, scheduled, worker, clock, starts,
                     recovered, done, dropped, broken>>
  BY <1>2, <1>3, <1>4 DEF SeedPush, Lpush, history
<1>6. boot' \in Boot
  BY <1>5 DEF Booting, Boot
<1>7. PICK w \in Workers, rec \in Loop :
        /\ rec = worker[w] /\ Goto(w, rec) /\ LoopOK(rec)
        /\ ToSet(rec.todo) \subseteq Found
  BY <1>5, Stands
<1>8. LoopOK(rec)'
  BY <1>5, <1>7 DEF LoopOK
<1>9. done' \subseteq 1..issued /\ done \subseteq done'
  BY <1>5, HistoryTypes
<1>10. QED
  BY <1>3, <1>5, <1>6, <1>7, <1>8, <1>9, AddedJob

(* Two lists, one before the other. *)
LEMMA OnceJoined ==
  ASSUME NEW i, NEW r \in Seq(Job), NEW s \in Seq(Job)
  PROVE  /\ r \o s \in Seq(Job) /\ ToSet(r \o s) = ToSet(r) \cup ToSet(s)
         /\ (/\ AtMostOnce(r, i) /\ AtMostOnce(s, i)
             /\ (\E m \in DOMAIN r : r[m].id = i) => \A n \in DOMAIN s : s[n].id # i)
            => AtMostOnce(r \o s, i)
<1>1. PICK t \in Seq(Job) : t = r \o s
  <2>1. r \o s \in Seq(Job)
    OBVIOUS
  <2>2. QED
    BY <2>1
<1>2. PICK k \in Nat : k = Len(r)
  OBVIOUS
<1>3. /\ DOMAIN r = 1..k /\ DOMAIN t = 1..(k + Len(s)) /\ DOMAIN s = 1..Len(s)
      /\ Len(s) \in Nat
      /\ \A n \in DOMAIN t : t[n] = IF n <= k THEN r[n] ELSE s[n - k]
  BY <1>1, <1>2
<1>4. /\ \A n \in DOMAIN t : \/ n \in DOMAIN r /\ t[n] = r[n]
                             \/ n - k \in DOMAIN s /\ t[n] = s[n - k] /\ n > k
      /\ \A n \in DOMAIN r : n \in DOMAIN t /\ t[n] = r[n]
      /\ \A n \in DOMAIN s : n + k \in DOMAIN t /\ t[n + k] = s[n]
  <2>1. \A n \in DOMAIN t :
            IF n <= k THEN n \in DOMAIN r /\ t[n] = r[n]
            ELSE n - k \in DOMAIN s /\ t[n] = s[n - k] /\ n > k
    <3>1. TAKE n \in DOMAIN t
    <3>2. n \in Nat /\ 1 <= n /\ n <= k + Len(s)
      BY <1>3
    <3>3. CASE n <= k
      BY <1>3, <3>2, <3>3
    <3>4. CASE ~(n <= k)
      <4>1. n - k \in 1..Len(s) /\ n > k
        BY <1>3, <3>2, <3>4
      <4>2. QED
        BY <1>3, <3>4, <4>1
    <3>5. QED
      BY <3>3, <3>4
  <2>2. \A n \in DOMAIN r : n \in DOMAIN t /\ t[n] = r[n]
    <3>1. TAKE n \in DOMAIN r
    <3>2. n \in DOMAIN t /\ n <= k
      BY <1>3
    <3>3. QED
      BY <1>3, <3>2
  <2>3. \A n \in DOMAIN s : n + k \in DOMAIN t /\ t[n + k] = s[n]
    <3>1. TAKE n \in DOMAIN s
    <3>2. n + k \in DOMAIN t /\ ~(n + k <= k) /\ (n + k) - k = n
      BY <1>3
    <3>3. QED
      BY <1>3, <3>2
  <2>4. QED
    BY <2>1, <2>2, <2>3
<1>5. ToSet(t) = ToSet(r) \cup ToSet(s)
  <2>1. ToSet(t) \subseteq ToSet(r) \cup ToSet(s)
    BY <1>4 DEF ToSet
  <2>2. ToSet(r) \subseteq ToSet(t)
    BY <1>4 DEF ToSet
  <2>3. ToSet(s) \subseteq ToSet(t)
    BY <1>4 DEF ToSet
  <2>4. QED
    BY <2>1, <2>2, <2>3
<1>6. ASSUME AtMostOnce(r, i), AtMostOnce(s, i),
             (\E m \in DOMAIN r : r[m].id = i) => \A n \in DOMAIN s : s[n].id # i,
             NEW m \in DOMAIN t, NEW n \in DOMAIN t, t[m].id = i, t[n].id = i
      PROVE  m = n
  <2>1. m \in Nat /\ n \in Nat
    BY <1>3
  <2>2. CASE m \in DOMAIN r /\ t[m] = r[m]
    <3>1. n \in DOMAIN r /\ t[n] = r[n]
      BY <1>4, <1>6, <2>2
    <3>2. QED
      BY <1>6, <2>2, <3>1 DEF AtMostOnce
  <2>3. CASE m - k \in DOMAIN s /\ t[m] = s[m - k]
    <3>1. n - k \in DOMAIN s /\ t[n] = s[n - k]
      BY <1>4, <1>6, <2>3
    <3>2. m - k = n - k
      BY <1>6, <2>3, <3>1 DEF AtMostOnce
    <3>3. QED
      BY <2>1, <3>2
  <2>4. QED
    BY <1>4, <2>2, <2>3
<1>7. QED
  BY <1>1, <1>5, <1>6 DEF AtMostOnce

(* What a dispatch pushes: the jobs of the entries that are due, once each. *)
LEMMA DispatchedJobs ==
  ASSUME QueueInv, NEW order \in SetToSeqs(Due)
  PROVE  LET r == Reverse([n \in DOMAIN order |-> order[n].job]) IN
         /\ r \in Seq(Job)
         /\ ToSet(r) = {e.job : e \in Due}
         /\ \A i : (\A e, f \in Due : e.job.id = i /\ f.job.id = i => e = f)
                      => AtMostOnce(r, i)
         /\ \E p \in Injection(DOMAIN r, Due) :
               \A n \in DOMAIN r : r[n] = p[n].job
<1>1. IsFiniteSet(Due) /\ Due \subseteq [job : Job, at : Nat]
  BY FS_Subset DEF QueueInv, TypeOK, Due
<1>2. /\ order \in Seq(Due)
      /\ \A x \in Due : \E n \in DOMAIN order : order[n] = x
      /\ \A m, n \in DOMAIN order : order[m] = order[n] => m = n
  BY <1>1, OrdersElements
<1>3. PICK k \in Nat : DOMAIN order = 1..k /\ \A n \in 1..k : order[n] \in Due
  BY <1>2
<1>4. PICK d : d = [n \in DOMAIN order |-> order[n].job]
  OBVIOUS
<1>5. DOMAIN d = 1..k /\ \A n \in 1..k : d[n] = order[n].job /\ d[n] \in Job
  BY <1>1, <1>3, <1>4
<1>6. d \in Seq(Job) /\ Len(d) = k
  <2>1. d \in [1..k -> Job]
    BY <1>3, <1>4, <1>5
  <2>2. QED
    BY <2>1
<1>7. PICK r : r = Reverse(d)
  OBVIOUS
<1>8. r = [n \in 1..k |-> d[(k - n) + 1]]
  BY <1>6, <1>7 DEF Reverse
<1>9. \A n \in 1..k : (k - n) + 1 \in 1..k
  OBVIOUS
<1>10. DOMAIN r = 1..k /\ \A n \in 1..k : r[n] = order[(k - n) + 1].job
  BY <1>5, <1>8, <1>9
<1>11. r \in Seq(Job)
  <2>1. r \in [1..k -> Job]
    BY <1>5, <1>8, <1>9
  <2>2. QED
    BY <2>1
<1>12. ToSet(r) = {e.job : e \in Due}
  <2>1. ASSUME NEW n \in DOMAIN r PROVE \E e \in Due : r[n] = e.job
    BY <1>3, <1>9, <1>10
  <2>2. ASSUME NEW e \in Due PROVE \E n \in DOMAIN r : r[n] = e.job
    <3>1. PICK m \in 1..k : order[m] = e
      BY <1>2, <1>3
    <3>2. (k - m) + 1 \in 1..k /\ (k - ((k - m) + 1)) + 1 = m
      OBVIOUS
    <3>3. QED
      BY <1>10, <3>1, <3>2
  <2>3. QED
    BY <2>1, <2>2 DEF ToSet
<1>13. ASSUME NEW i, \A e, f \in Due : e.job.id = i /\ f.job.id = i => e = f
       PROVE  AtMostOnce(r, i)
  <2>1. ASSUME NEW m \in DOMAIN r, NEW n \in DOMAIN r, r[m].id = i, r[n].id = i
        PROVE  m = n
    <3>1. /\ (k - m) + 1 \in 1..k /\ (k - n) + 1 \in 1..k
          /\ m \in 1..k /\ n \in 1..k
      BY <1>9, <1>10
    <3>2. order[(k - m) + 1] = order[(k - n) + 1]
      BY <1>3, <1>10, <1>13, <2>1, <3>1
    <3>3. (k - m) + 1 = (k - n) + 1
      BY <1>2, <1>3, <3>1, <3>2
    <3>4. QED
      BY <3>1, <3>3
  <2>2. QED
    BY <2>1 DEF AtMostOnce
<1>14. \E p \in Injection(DOMAIN r, Due) : \A n \in DOMAIN r : r[n] = p[n].job
  <2>1. PICK p : p = [n \in 1..k |-> order[(k - n) + 1]]
    OBVIOUS
  <2>2. p \in [1..k -> Due]
    BY <1>3, <1>9, <2>1
  <2>3. ASSUME NEW m \in 1..k, NEW n \in 1..k, p[m] = p[n] PROVE m = n
    <3>1. (k - m) + 1 \in 1..k /\ (k - n) + 1 \in 1..k
      BY <1>9
    <3>2. (k - m) + 1 = (k - n) + 1
      BY <1>2, <1>3, <2>1, <2>3, <3>1
    <3>3. QED
      BY <3>2
  <2>4. p \in Injection(1..k, Due)
    BY <2>2, <2>3 DEF Injection, IsInjective
  <2>5. \A n \in 1..k : r[n] = p[n].job
    BY <1>10, <2>1
  <2>6. QED
    BY <1>10, <2>4, <2>5
<1>15. QED
  BY <1>4, <1>7, <1>11, <1>12, <1>13, <1>14

LEMMA KeepsDispatch ==
  ASSUME QueueInv, Dispatch
  PROVE  QueueInv'
<1>1. PICK order \in SetToSeqs(Due) :
        queue' = Reverse([n \in DOMAIN order |-> order[n].job]) \o queue
  BY DEF Dispatch
<1>2. PICK r \in Seq(Job) :
        /\ queue' = r \o queue /\ ToSet(r) = {e.job : e \in Due}
        /\ \A i : (\A e, f \in Due : e.job.id = i /\ f.job.id = i => e = f)
                    => AtMostOnce(r, i)
  BY <1>1, DispatchedJobs
<1>3. PICK s \in Seq(Job) : s = queue
  BY ListTypes
<1>4. /\ scheduled' = scheduled \ Due /\ Due \subseteq scheduled
      /\ UNCHANGED <<processing, failed, worker, boot, clock, issued, starts,
                     recovered, done, dropped, broken>>
  BY DEF Dispatch, Due, history
<1>5. queue' \in Seq(Job) /\ ToSet(queue') = {e.job : e \in Due} \cup ToSet(queue)
  BY <1>2, <1>3, OnceJoined
<1>6. IsFiniteSet(scheduled')
  BY <1>4, FS_Subset DEF QueueInv
<1>7. TypeOK' /\ IsFiniteSet(scheduled)'
  BY <1>4, <1>5, <1>6 DEF QueueInv, TypeOK
<1>8. PICK w \in Workers, rec \in Loop :
        /\ rec = worker[w] /\ Goto(w, rec) /\ LoopOK(rec)
        /\ ToSet(rec.todo) \subseteq Found
  BY <1>4, Stands
<1>9. \A v \in Workers : LoopOK(worker[v])'
  <2>1. LoopOK(rec)'
    BY <1>4, <1>8 DEF LoopOK
  <2>2. QED
    BY <1>4, <1>8, <2>1, LoopsStep
<1>10. ToSet(queue') \cup {e.job : e \in scheduled'}
         = ToSet(queue) \cup {e.job : e \in scheduled}
  BY <1>4, <1>5
<1>11. rec.pc # "idle" => rec.job \in Running /\ Tag(rec.job) \in Seen
  <2>1. rec.pc # "idle" => rec.job \in Running
    BY <1>8 DEF Running, Busy
  <2>2. QED
    BY <2>1, SeenJobs
<1>12. TriesCounted' /\ FailedHadTries'
  <2>1. \A i \in Id : starts[i] \in Nat /\ starts'[i] \in Nat /\ starts'[i] >= starts[i]
    BY <1>4 DEF QueueInv, TypeOK
  <2>2. QED
    BY <1>4, <1>8, <1>10, <1>11, <2>1, TriesStep
<1>13. TagsOK' /\ NoJobLost'
  <2>1. PICK N : N = {}
    OBVIOUS
  <2>2. Lists' = Lists
    BY <1>4, <1>10 DEF Lists
  <2>3. /\ Seen' \subseteq Seen \cup N
        /\ \A x \in Held : x \in Held' \/ x.id \in done
    <3>1. \A x \in Lists \cup dropped \cup Hand(worker[w]) :
             \E k \in Lists' \cup dropped' \cup Hand(rec) : Tag(k) = Tag(x)
      BY <1>4, <1>8, <2>2
    <3>2. \A k \in Lists' \cup dropped' \cup Hand(rec) \cup ToSet(rec.todo) :
             Tag(k) \in Seen \cup N
      BY <1>4, <1>8, <2>2, SeenJobs DEF Seen
    <3>3. QED
      BY <1>8, <1>11, <3>1, <3>2, WorkerTags
  <2>4. issued' = issued /\ N = {} /\ N \subseteq Held'
    BY <1>4, <2>1
  <2>5. done \subseteq done' /\ done' \subseteq 1..issued
    BY <1>4, HistoryTypes
  <2>6. QED
    BY <2>3, <2>4, <2>5, TagsStep
<1>14. ASSUME NEW i \in Id, recovered'[i] = 0 PROVE OnePlace(i)'
  <2>1. OnePlace(i) /\ AtMostOnce(s, i) /\ AtMostOnce(processing, i)
    BY <1>3, <1>4, <1>14 DEF QueueInv, OnePlace
  <2>2. AtMostOnce(r, i)
    <3>1. \A e, f \in Due : e.job.id = i /\ f.job.id = i => e = f
      BY <1>4, <2>1 DEF OnePlace
    <3>2. QED
      BY <1>2, <3>1
  <2>3. (\E m \in DOMAIN r : r[m].id = i) => \E e \in Due : e.job.id = i
    BY <1>2 DEF ToSet
  <2>4. (\E e \in Due : e.job.id = i) =>
          /\ \A n \in DOMAIN s : s[n].id # i
          /\ ~ Failed(i)
          /\ \A v \in Workers : ~ Runs(v, i)
          /\ \A n \in DOMAIN processing : processing[n].id # i
          /\ \A e \in scheduled \ Due : e.job.id # i
    <3>1. (\E e \in Due : e.job.id = i) => Scheduled(i)
      BY <1>4 DEF Scheduled
    <3>2. Scheduled(i) => /\ ~ Queued(i) /\ ~ Failed(i)
                          /\ \A v \in Workers : ~ Runs(v, i)
                          /\ \A n \in DOMAIN processing : processing[n].id # i
      BY <2>1 DEF OnePlace
    <3>3. (\E e \in Due : e.job.id = i) => \A e \in scheduled \ Due : e.job.id # i
      BY <1>4, <2>1 DEF OnePlace
    <3>4. QED
      BY <1>3, <3>1, <3>2, <3>3 DEF Queued
  <2>5. AtMostOnce(queue', i) /\ AtMostOnce(processing', i)
    <3>1. AtMostOnce(r \o s, i)
      BY <2>1, <2>2, <2>3, <2>4, OnceJoined
    <3>2. QED
      BY <1>2, <1>3, <1>4, <2>1, <3>1
  <2>6. CASE \E e \in Due : e.job.id = i
    <3>1. /\ \A e \in scheduled' : e.job.id # i
          /\ ~ Failed(i)'
          /\ \A v \in Workers : ~ Runs(v, i)'
          /\ \A n \in DOMAIN processing' : processing'[n].id # i
      BY <1>4, <2>4, <2>6 DEF Failed, Runs, Busy
    <3>2. AtMostOnce(queue, i)' /\ AtMostOnce(processing, i)' /\ ~ Scheduled(i)'
      BY <2>5, <3>1 DEF AtMostOnce, Scheduled
    <3>3. \A k, l \in failed' : k.id = i /\ l.id = i => k = l
      BY <1>4, <2>1 DEF OnePlace
    <3>4. QED
      BY <3>1, <3>2, <3>3 DEF OnePlace
  <2>7. CASE ~ \E e \in Due : e.job.id = i
    <3>1. \A n \in DOMAIN queue' : queue'[n].id = i => Queued(i)
      <4>1. ASSUME NEW n \in DOMAIN queue', queue'[n].id = i
            PROVE  \E m \in DOMAIN s : s[m] = queue'[n]
        <5>1. queue'[n] \in {e.job : e \in Due} \cup ToSet(queue)
          BY <1>5 DEF ToSet
        <5>2. queue'[n] \in ToSet(s)
          BY <1>3, <2>7, <4>1, <5>1
        <5>3. QED
          BY <5>2 DEF ToSet
      <4>2. QED
        BY <1>3, <4>1 DEF Queued
    <3>2. \A v \in Workers : (worker'[v].pc # "idle" /\ worker'[v].job.id = i) =>
            Runs(v, i) /\ worker'[v] = worker[v]
      BY <1>4 DEF Runs, Busy
    <3>3. QED
      BY <1>4, <2>1, <2>5, <3>1, <3>2, FewerPlaces
  <2>8. QED
    BY <2>6, <2>7
<1>15. QED
  BY <1>7, <1>9, <1>12, <1>13, <1>14 DEF QueueInv
-----------------------------------------------------------------------------
LEMMA InitQueueInv == Init => QueueInv
<1> SUFFICES ASSUME Init PROVE QueueInv
  OBVIOUS
<1>1. /\ queue = << >> /\ processing = << >> /\ failed = {} /\ scheduled = {}
      /\ worker = [w \in Workers |-> Idle] /\ boot = Booting
      /\ clock = 0 /\ issued = 0
      /\ starts = [i \in Id |-> 0] /\ recovered = [i \in Id |-> 0]
      /\ done = {} /\ dropped = {} /\ broken = {}
  BY DEF Init
<1>2. /\ \A w \in Workers : worker[w] = Idle /\ worker[w].pc = "idle"
      /\ \A w \in Workers : worker[w].todo = << >>
      /\ worker \in [Workers -> Loop]
  BY <1>1, IdleType
<1>3. Booting \in Boot
  BY Numbers DEF Booting, Boot
<1>4. ToSet(<< >>) = {}
  BY DEF ToSet
<1>5. Running = {} /\ Found = {} /\ Lists = {}
  BY <1>1, <1>2, <1>4 DEF Running, Found, Busy, Lists
<1>6. Held = {} /\ Seen = {}
  <2>1. \A w \in Workers : Hand(worker[w]) = {}
    BY <1>2 DEF Hand
  <2>2. Held = {}
    BY <1>1, <1>5, <2>1, HeldMembers
  <2>3. QED
    BY <1>5, <2>2 DEF Seen
<1>7. TypeOK
  <2>1. << >> \in Seq(Job) /\ 0 \in 0..MaxClock /\ 0 \in 0..MaxJobs
    BY Numbers
  <2>2. QED
    BY <1>1, <1>2, <1>3, <2>1 DEF TypeOK
<1>8. IsFiniteSet(scheduled)
  BY <1>1, FS_EmptySet
<1>9. \A w \in Workers : LoopOK(worker[w])
  BY <1>2 DEF LoopOK
<1>10. TriesCounted /\ FailedHadTries
  BY <1>1, <1>4, <1>5 DEF TriesCounted, FailedHadTries
<1>11. TagsOK
  BY <1>6 DEF TagsOK
<1>12. NoJobLost
  <2>1. 1..issued = {}
    BY <1>1
  <2>2. QED
    BY <2>1 DEF NoJobLost
<1>13. ASSUME NEW i \in Id PROVE OnePlace(i)
  <2>1. AtMostOnce(queue, i) /\ AtMostOnce(processing, i)
    BY <1>1 DEF AtMostOnce
  <2>2. \A w \in Workers : ~ Runs(w, i)
    BY <1>2 DEF Runs, Busy
  <2>3. ~ Queued(i) /\ ~ Scheduled(i) /\ ~ Failed(i)
    BY <1>1 DEF Queued, Scheduled, Failed
  <2>4. QED
    BY <1>1, <2>1, <2>2, <2>3 DEF OnePlace
<1>14. QED
  BY <1>7, <1>8, <1>9, <1>10, <1>11, <1>12, <1>13 DEF QueueInv

LEMMA NextKeepsQueueInv == QueueInv /\ [Next]_vars => QueueInv'
<1> SUFFICES ASSUME QueueInv, [Next]_vars PROVE QueueInv'
  OBVIOUS
<1>1. CASE Enqueue
  BY <1>1, KeepsEnqueue
<1>2. CASE Seed
  BY <1>2, KeepsSeedReadQueue, KeepsSeedReadScheduled, KeepsSeedPush DEF Seed
<1>3. CASE Dispatch
  BY <1>3, KeepsDispatch
<1>4. CASE Tick
  BY <1>4, KeepsTick
<1>5. ASSUME UNCHANGED vars PROVE QueueInv'
  <2>1. /\ UNCHANGED <<lists, worker, issued, history>>
        /\ clock' = clock /\ boot' = boot
    BY <1>5 DEF vars
  <2>2. QED
    BY <2>1, HistoryTypes, ReadingStep
<1>6. ASSUME NEW w \in Workers, PopTimeout(w) PROVE QueueInv'
  BY <1>5, <1>6 DEF PopTimeout
<1>7. ASSUME NEW w \in Workers, Proceed(w) PROVE QueueInv'
  BY <1>7, KeepsPop, KeepsHandle, KeepsScan, KeepsTake, KeepsGive,
     KeepsReschedule, KeepsFinishJob, KeepsRetract, KeepsPush DEF Proceed
<1>8. ASSUME NEW w \in Workers, Raise(w) PROVE QueueInv'
  BY <1>8, KeepsRaise
<1>9. ASSUME NEW w \in Workers, Crash(w) PROVE QueueInv'
  BY <1>9, KeepsCrash
<1>10. QED
  BY <1>1, <1>2, <1>3, <1>4, <1>5, <1>6, <1>7, <1>8, <1>9 DEF Next
-----------------------------------------------------------------------------
(* The tries that are left: no step but enqueue() and a recovery adds a     *)
(* ticket, and every start uses one up.                                     *)

QueueTicket(i, t) ==
  \E n \in DOMAIN queue, k \in 1..Retries :
     t = <<"queue", n, k>> /\ queue[n].id = i /\ k <= queue[n].retries
ScheduledTicket(i, t) ==
  \E e \in scheduled, k \in 1..Retries :
     t = <<"scheduled", e, k>> /\ e.job.id = i /\ k <= e.job.retries
WorkerTicket(i, t) ==
  \E v \in Workers, k \in 1..Retries :
     t = <<"worker", v, k>> /\ Runs(v, i) /\ k < worker[v].job.retries

LEMMA TicketMembers ==
  ASSUME NEW i
  PROVE  \A t : t \in Tickets(i) <=>
           QueueTicket(i, t) \/ ScheduledTicket(i, t) \/ WorkerTicket(i, t)
BY DEF Tickets, QueueTicket, ScheduledTicket, WorkerTicket

LEMMA NextTicketMembers ==
  ASSUME NEW i
  PROVE  \A t : t \in Tickets(i)' <=>
           QueueTicket(i, t)' \/ ScheduledTicket(i, t)' \/ WorkerTicket(i, t)'
BY DEF Tickets, QueueTicket, ScheduledTicket, WorkerTicket, Runs, Busy

PaidFor(i) ==
  /\ IsFiniteSet(Tickets(i))
  /\ starts[i] + Cardinality(Tickets(i)) <= Retries * (1 + recovered[i])

LEMMA ProductOfSum ==
  ASSUME NEW a \in Nat, NEW b \in Nat
  PROVE  /\ a * (1 + b) \in Nat /\ a * (1 + b) >= a
         /\ a * (1 + (b + 1)) = a * (1 + b) + a
<1>1. a * b \in Nat /\ a * (1 + b) = a + a * b
  OBVIOUS
<1>2. a * (1 + (b + 1)) = a + a * b + a
  OBVIOUS
<1>3. QED
  BY <1>1, <1>2

LEMMA CountTypes ==
  ASSUME QueueInv, NEW i \in Id
  PROVE  /\ starts[i] \in Nat /\ recovered[i] \in Nat
         /\ Retries * (1 + recovered[i]) \in Nat
         /\ Retries * (1 + recovered[i]) >= Retries
<1>1. starts[i] \in Nat /\ recovered[i] \in Nat
  BY DEF QueueInv, TypeOK
<1>2. QED
  BY <1>1, ProductOfSum, Numbers

(* No ticket is added. *)
LEMMA TicketsMoved ==
  ASSUME QueueInv, NEW i \in Id, PaidFor(i),
         NEW f \in Injection(Tickets(i)', Tickets(i)),
         starts'[i] = starts[i], recovered'[i] = recovered[i]
  PROVE  PaidFor(i)'
<1>1. IsFiniteSet(Tickets(i)) /\ Cardinality(Tickets(i)) \in Nat
  BY FS_CardinalityType DEF PaidFor
<1>2. /\ IsFiniteSet(Tickets(i)') /\ Cardinality(Tickets(i)') <= Cardinality(Tickets(i))
      /\ Cardinality(Tickets(i)') \in Nat
  BY <1>1, FS_Injection, FS_CardinalityType
<1>3. starts[i] + Cardinality(Tickets(i)') <= Retries * (1 + recovered[i])
  BY <1>1, <1>2, CountTypes DEF PaidFor
<1>4. QED
  BY <1>2, <1>3 DEF PaidFor

LEMMA TicketsStay ==
  ASSUME QueueInv, NEW i \in Id, PaidFor(i), Tickets(i)' \subseteq Tickets(i),
         starts'[i] = starts[i], recovered'[i] = recovered[i]
  PROVE  PaidFor(i)'
<1>1. PICK f : f = [t \in Tickets(i)' |-> t]
  OBVIOUS
<1>2. f \in Injection(Tickets(i)', Tickets(i))
  BY <1>1 DEF Injection, IsInjective
<1>3. QED
  BY <1>2, TicketsMoved

(* A start uses up a ticket. *)
LEMMA TicketUsed ==
  ASSUME QueueInv, NEW i \in Id, PaidFor(i), NEW x \in Tickets(i),
         NEW f \in Injection(Tickets(i)', Tickets(i) \ {x}),
         starts'[i] = starts[i] + 1, recovered'[i] = recovered[i]
  PROVE  PaidFor(i)'
<1>1. IsFiniteSet(Tickets(i)) /\ Cardinality(Tickets(i)) \in Nat
  BY FS_CardinalityType DEF PaidFor
<1>2. /\ IsFiniteSet(Tickets(i) \ {x})
      /\ Cardinality(Tickets(i) \ {x}) = Cardinality(Tickets(i)) - 1
  BY <1>1, FS_RemoveElement
<1>3. /\ IsFiniteSet(Tickets(i)')
      /\ Cardinality(Tickets(i)') <= Cardinality(Tickets(i)) - 1
      /\ Cardinality(Tickets(i)') \in Nat
  BY <1>2, FS_Injection, FS_CardinalityType
<1>4. starts[i] + 1 + Cardinality(Tickets(i)') <= Retries * (1 + recovered[i])
  BY <1>1, <1>3, CountTypes DEF PaidFor
<1>5. QED
  BY <1>3, <1>4 DEF PaidFor

NewTickets == {<<"new", "job", k>> : k \in 1..Retries}

LEMMA NewTicketCount ==
  IsFiniteSet(NewTickets) /\ Cardinality(NewTickets) <= Retries
    /\ Cardinality(NewTickets) \in Nat
<1>1. IsFiniteSet(1..Retries) /\ Cardinality(1..Retries) = Retries
  BY Numbers, FS_Interval
<1>2. PICK f : f = [t \in NewTickets |-> t[3]]
  OBVIOUS
<1>3. f \in Injection(NewTickets, 1..Retries)
  BY <1>2 DEF Injection, IsInjective, NewTickets
<1>4. QED
  BY <1>1, <1>3, FS_Injection, FS_CardinalityType

(* A recovery pays for what it pushes. *)
LEMMA TicketsBought ==
  ASSUME QueueInv, NEW i \in Id, PaidFor(i),
         NEW f \in Injection(Tickets(i)', Tickets(i) \cup NewTickets),
         starts'[i] = starts[i], recovered'[i] = recovered[i] + 1
  PROVE  PaidFor(i)'
<1>1. IsFiniteSet(Tickets(i)) /\ Cardinality(Tickets(i)) \in Nat
  BY FS_CardinalityType DEF PaidFor
<1>2. PICK U : U = Tickets(i) \cup NewTickets
  OBVIOUS
<1>3. /\ IsFiniteSet(U) /\ Cardinality(U) \in Nat
      /\ Cardinality(U) <= Cardinality(Tickets(i)) + Retries
  <2>1. /\ IsFiniteSet(U)
        /\ Cardinality(U) = Cardinality(Tickets(i)) + Cardinality(NewTickets)
                            - Cardinality(Tickets(i) \cap NewTickets)
    BY <1>1, <1>2, NewTicketCount, FS_Union
  <2>2. IsFiniteSet(Tickets(i) \cap NewTickets)
          /\ Cardinality(Tickets(i) \cap NewTickets) \in Nat
    BY <1>1, FS_Intersection, FS_CardinalityType
  <2>3. QED
    BY <1>1, <2>1, <2>2, NewTicketCount, FS_CardinalityType, Numbers
<1>4. /\ IsFiniteSet(Tickets(i)') /\ Cardinality(Tickets(i)') <= Cardinality(U)
      /\ Cardinality(Tickets(i)') \in Nat
  BY <1>2, <1>3, FS_Injection, FS_CardinalityType
<1>5. Retries * (1 + (recovered[i] + 1)) = Retries * (1 + recovered[i]) + Retries
  BY CountTypes, ProductOfSum, Numbers
<1>6. starts[i] + Cardinality(Tickets(i)) <= Retries * (1 + recovered[i])
  BY DEF PaidFor
<1>7. starts[i] + Cardinality(Tickets(i)') <= Retries * (1 + recovered[i]) + Retries
  <2>1. PICK a \in Nat, b \in Nat, d \in Nat, e \in Nat, m \in Nat, n \in Nat :
          /\ a = starts[i] /\ b = Cardinality(Tickets(i)) /\ d = Cardinality(U)
          /\ e = Cardinality(Tickets(i)') /\ m = Retries * (1 + recovered[i])
          /\ n = Retries
    BY <1>1, <1>3, <1>4, CountTypes, Numbers
  <2>2. a + b <= m /\ d <= b + n /\ e <= d
    BY <1>3, <1>4, <1>6, <2>1
  <2>3. a + e <= m + n
    BY <2>2
  <2>4. QED
    BY <2>1, <2>3
<1>8. QED
  BY <1>4, <1>5, <1>7 DEF PaidFor

(* So does enqueue(). *)
LEMMA TicketsIssued ==
  ASSUME QueueInv, NEW i \in Id, starts[i] = 0,
         NEW f \in Injection(Tickets(i)', NewTickets),
         starts'[i] = starts[i], recovered'[i] = recovered[i]
  PROVE  PaidFor(i)'
<1>1. /\ IsFiniteSet(Tickets(i)') /\ Cardinality(Tickets(i)') <= Retries
      /\ Cardinality(Tickets(i)') \in Nat
  BY NewTicketCount, FS_Injection, FS_CardinalityType, Numbers
<1>2. starts[i] + Cardinality(Tickets(i)') <= Retries * (1 + recovered[i])
  BY <1>1, CountTypes, Numbers
<1>3. QED
  BY <1>1, <1>2 DEF PaidFor

(* A step of a worker that leaves the waiting jobs alone. *)
LEMMA QuietTickets ==
  ASSUME QueueInv, TriesPaid, NEW w \in Workers,
         UNCHANGED <<queue, scheduled, issued, starts, recovered>>,
         \A v \in Workers : v # w => worker'[v] = worker[v],
         worker'[w].pc # "idle" =>
            worker[w].pc # "idle" /\ worker'[w].job = worker[w].job
  PROVE  TriesPaid'
<1>1. ASSUME NEW i \in Id
      PROVE  PaidFor(i)' /\ (i \notin 1..issued' => starts'[i] = 0)
  <2>1. PaidFor(i) /\ (i \notin 1..issued => starts[i] = 0)
    BY DEF TriesPaid, PaidFor
  <2>2. ASSUME NEW t \in Tickets(i)' PROVE t \in Tickets(i)
    <3>1. CASE QueueTicket(i, t)'
      <4>1. QueueTicket(i, t)
        BY <3>1 DEF QueueTicket
      <4>2. QED
        BY <4>1, TicketMembers
    <3>2. CASE ScheduledTicket(i, t)'
      <4>1. ScheduledTicket(i, t)
        BY <3>2 DEF ScheduledTicket
      <4>2. QED
        BY <4>1, TicketMembers
    <3>3. CASE WorkerTicket(i, t)'
      <4>1. PICK v \in Workers, k \in 1..Retries :
              /\ t = <<"worker", v, k>> /\ worker'[v].pc # "idle"
              /\ worker'[v].job.id = i /\ k < worker'[v].job.retries
        BY <3>3 DEF WorkerTicket, Runs, Busy
      <4>2. worker[v].pc # "idle" /\ worker'[v].job = worker[v].job
        BY <4>1
      <4>3. WorkerTicket(i, t)
        BY <4>1, <4>2 DEF WorkerTicket, Runs, Busy
      <4>4. QED
        BY <4>3, TicketMembers
    <3>4. QED
      BY <3>1, <3>2, <3>3, NextTicketMembers
  <2>3. PaidFor(i)'
    BY <2>1, <2>2, TicketsStay
  <2>4. QED
    BY <2>1, <2>3
<1>2. QED
  BY <1>1 DEF TriesPaid, PaidFor

LEMMA QuietWorkers ==
  ASSUME QueueInv, TriesPaid, NEW w \in Workers,
         \/ Handle(w) \/ Scan(w) \/ Take(w) \/ FinishJob(w) \/ Retract(w)
         \/ Raise(w) \/ Crash(w)
  PROVE  TriesPaid'
<1>1. PICK q \in Loop : q = worker[w]
  BY DEF QueueInv, TypeOK
<1>2. worker \in [Workers -> Loop]
  BY DEF QueueInv, TypeOK
<1>3. ASSUME NEW rec, Goto(w, rec)
      PROVE  /\ worker'[w] = rec
             /\ \A v \in Workers : v # w => worker'[v] = worker[v]
  BY <1>2, <1>3 DEF Goto
<1>4. CASE Handle(w)
  <2>1. PICK rec : rec = [q EXCEPT !.pc = "remove"]
    OBVIOUS
  <2>2. /\ Goto(w, rec) /\ q.pc = "run"
        /\ UNCHANGED <<queue, scheduled, issued, starts, recovered>>
    BY <1>1, <1>4, <2>1 DEF Handle, lists
  <2>3. rec.job = q.job
    BY <2>1 DEF Loop
  <2>4. QED
    BY <1>1, <1>3, <2>2, <2>3, QuietTickets
<1>5. CASE Scan(w)
  <2>1. PICK rec : rec = [q EXCEPT
                             !.pc = "take", !.now = clock,
                             !.todo = IF q.job.type = "recover_stuck_jobs"
                                      THEN FromStuck(processing, clock) ELSE << >>]
    OBVIOUS
  <2>2. /\ Goto(w, rec) /\ q.pc = "run"
        /\ UNCHANGED <<queue, scheduled, issued, starts, recovered>>
    BY <1>1, <1>5, <2>1 DEF Scan, lists, history
  <2>3. rec.job = q.job
    BY <2>1 DEF Loop
  <2>4. QED
    BY <1>1, <1>3, <2>2, <2>3, QuietTickets
<1>6. CASE Take(w)
  <2>1. PICK rec : rec = [q EXCEPT !.pc = "give"]
    OBVIOUS
  <2>2. /\ Goto(w, rec) /\ q.pc = "take"
        /\ UNCHANGED <<queue, scheduled, issued, starts, recovered>>
    BY <1>1, <1>6, <2>1 DEF Take, history
  <2>3. rec.job = q.job
    BY <2>1 DEF Loop
  <2>4. QED
    BY <1>1, <1>3, <2>2, <2>3, QuietTickets
<1>7. CASE FinishJob(w)
  <2>1. /\ Goto(w, Idle) /\ Idle.pc = "idle"
        /\ UNCHANGED <<queue, scheduled, issued, starts, recovered>>
    BY <1>7, IdleType DEF FinishJob, history
  <2>2. QED
    BY <1>3, <2>1, QuietTickets
<1>8. CASE Retract(w)
  <2>1. PICK rec : rec = [q EXCEPT !.pc = "push"]
    OBVIOUS
  <2>2. /\ Goto(w, rec) /\ q.pc = "retract"
        /\ UNCHANGED <<queue, scheduled, issued, starts, recovered>>
    BY <1>1, <1>8, <2>1 DEF Retract, history
  <2>3. rec.job = q.job
    BY <2>1 DEF Loop
  <2>4. QED
    BY <1>1, <1>3, <2>2, <2>3, QuietTickets
<1>9. CASE Raise(w)
  <2>1. PICK rec : rec = [q EXCEPT !.pc = "retract", !.todo = << >>, !.now = 0]
    OBVIOUS
  <2>2. /\ Goto(w, rec) /\ q.pc # "idle"
        /\ UNCHANGED <<queue, scheduled, issued, starts, recovered>>
    BY <1>1, <1>9, <2>1 DEF Raise
  <2>3. rec.job = q.job
    BY <2>1 DEF Loop
  <2>4. QED
    BY <1>1, <1>3, <2>2, <2>3, QuietTickets
<1>10. CASE Crash(w)
  <2>1. /\ Goto(w, Idle) /\ Idle.pc = "idle"
        /\ UNCHANGED <<queue, scheduled, issued, starts, recovered>>
    BY <1>10, IdleType DEF Crash, lists
  <2>2. QED
    BY <1>3, <2>1, QuietTickets
<1>11. QED
  BY <1>4, <1>5, <1>6, <1>7, <1>8, <1>9, <1>10

LEMMA PopKeepsPaid ==
  ASSUME QueueInv, TriesPaid, NEW w \in Workers, Pop(w)
  PROVE  TriesPaid'
<1>1. PICK s \in Seq(Job) : s = queue
  BY ListTypes
<1>2. PICK j \in Job : j = Last(s)
  BY <1>1, PopElements DEF Pop
<1>3. PICK rec \in Loop : rec = [Idle EXCEPT !.pc = "run", !.job = j]
  <2>1. [Idle EXCEPT !.pc = "run", !.job = j] \in Loop
    BY IdleType DEF Loop
  <2>2. QED
    BY <2>1
<1>4. /\ worker[w].pc = "idle" /\ s # << >> /\ queue' = Front(s) /\ Goto(w, rec)
      /\ starts' = [starts EXCEPT ![j.id] = @ + 1]
      /\ UNCHANGED <<scheduled, issued, recovered>>
  BY <1>1, <1>2, <1>3 DEF Pop
<1>5. rec.pc = "run" /\ rec.job = j
  BY <1>3 DEF Idle
<1>6. worker'[w] = rec /\ \A v \in Workers : v # w => worker'[v] = worker[v]
  BY <1>4, GotoEffect DEF QueueInv
<1>7. PICK l \in DOMAIN s :
        /\ s[l] = j
        /\ \A m \in DOMAIN queue' : m \in DOMAIN s /\ m # l /\ queue'[m] = s[m]
  BY <1>2, <1>4, PopElements
<1>8. j.id \in Id /\ j.id \in 1..issued /\ j.retries \in 1..Retries
  <2>1. j \in Lists
    BY <1>1, <1>7 DEF Lists, ToSet
  <2>2. QED
    BY <2>1, SeenJobs, JobFields DEF Job
<1>9. /\ starts \in [Id -> Nat] /\ starts'[j.id] = starts[j.id] + 1
      /\ \A i \in Id : i # j.id => starts'[i] = starts[i]
  BY <1>4, <1>8 DEF QueueInv, TypeOK
<1>10. ASSUME NEW i \in Id, NEW t \in Tickets(i)'
       PROVE  \/ /\ t \in Tickets(i) /\ (t[1] # "queue" \/ t[2] # l)
                 /\ (t[1] # "worker" \/ t[2] # w)
              \/ \E k \in 1..Retries :
                    t = <<"worker", w, k>> /\ i = j.id /\ k < j.retries
  <2>1. CASE QueueTicket(i, t)'
    <3>1. PICK n \in DOMAIN queue', k \in 1..Retries :
             t = <<"queue", n, k>> /\ queue'[n].id = i /\ k <= queue'[n].retries
      BY <2>1 DEF QueueTicket
    <3>2. n \in DOMAIN queue /\ n # l /\ queue[n] = queue'[n]
      BY <1>1, <1>7, <3>1
    <3>3. QueueTicket(i, t)
      BY <3>1, <3>2 DEF QueueTicket
    <3>4. QED
      BY <3>1, <3>2, <3>3, TicketMembers
  <2>2. CASE ScheduledTicket(i, t)'
    <3>1. ScheduledTicket(i, t) /\ t[1] = "scheduled"
      BY <1>4, <2>2 DEF ScheduledTicket
    <3>2. QED
      BY <3>1, TicketMembers
  <2>3. CASE WorkerTicket(i, t)'
    <3>1. PICK v \in Workers, k \in 1..Retries :
            /\ t = <<"worker", v, k>> /\ worker'[v].pc # "idle"
            /\ worker'[v].job.id = i /\ k < worker'[v].job.retries
      BY <2>3 DEF WorkerTicket, Runs, Busy
    <3>2. CASE v = w
      BY <1>5, <1>6, <3>1, <3>2
    <3>3. CASE v # w
      <4>1. WorkerTicket(i, t)
        BY <1>6, <3>1, <3>3 DEF WorkerTicket, Runs, Busy
      <4>2. QED
        BY <3>1, <3>3, <4>1, TicketMembers
    <3>4. QED
      BY <3>2, <3>3
  <2>4. QED
    BY <2>1, <2>2, <2>3, NextTicketMembers
<1>11. ASSUME NEW i \in Id
       PROVE  PaidFor(i)' /\ (i \notin 1..issued' => starts'[i] = 0)
  <2>1. PaidFor(i) /\ (i \notin 1..issued => starts[i] = 0)
    BY DEF TriesPaid, PaidFor
  <2>2. i \notin 1..issued' => starts'[i] = 0
    BY <1>4, <1>8, <1>9, <2>1
  <2>3. CASE i # j.id
    <3>1. Tickets(i)' \subseteq Tickets(i)
      BY <1>10, <2>3
    <3>2. QED
      BY <1>4, <1>9, <2>1, <2>2, <2>3, <3>1, TicketsStay
  <2>4. CASE i = j.id
    <3>1. \A k \in 1..Retries : k <= j.retries => <<"queue", l, k>> \in Tickets(i)
      <4>1. ASSUME NEW k \in 1..Retries, k <= j.retries
            PROVE  QueueTicket(i, <<"queue", l, k>>)
        BY <1>1, <1>7, <2>4, <4>1 DEF QueueTicket
      <4>2. QED
        BY <4>1, TicketMembers
    <3>2. PICK x : x = <<"queue", l, j.retries>>
      OBVIOUS
    <3>3. x \in Tickets(i)
      BY <1>8, <3>1, <3>2, Numbers
    <3>4. PICK f : f = [t \in Tickets(i)' |->
                          IF t[1] = "worker" /\ t[2] = w
                          THEN <<"queue", l, t[3]>> ELSE t]
      OBVIOUS
    <3>5. ASSUME NEW t \in Tickets(i)'
          PROVE  \/ /\ t \in Tickets(i) /\ (t[1] # "queue" \/ t[2] # l)
                    /\ f[t] = t
                 \/ \E k \in 1..Retries :
                       /\ t = <<"worker", w, k>> /\ k < j.retries
                       /\ f[t] = <<"queue", l, k>>
      <4>1. f[t] = IF t[1] = "worker" /\ t[2] = w
                   THEN <<"queue", l, t[3]>> ELSE t
        BY <3>4, <3>5
      <4>2. CASE \E k \in 1..Retries : t = <<"worker", w, k>> /\ k < j.retries
        <5>1. PICK k \in 1..Retries : t = <<"worker", w, k>> /\ k < j.retries
          BY <4>2
        <5>2. f[t] = <<"queue", l, k>>
          BY <4>1, <5>1
        <5>3. QED
          BY <5>1, <5>2
      <4>3. CASE /\ t \in Tickets(i) /\ (t[1] # "queue" \/ t[2] # l)
                 /\ (t[1] # "worker" \/ t[2] # w)
        BY <4>1, <4>3
      <4>4. QED
        BY <1>10, <3>5, <4>2, <4>3
    <3>6. ASSUME NEW t \in Tickets(i)' PROVE f[t] \in Tickets(i) \ {x}
      <4>1. CASE \E k \in 1..Retries :
                    /\ t = <<"worker", w, k>> /\ k < j.retries
                    /\ f[t] = <<"queue", l, k>>
        <5>1. PICK k \in 1..Retries : k < j.retries /\ f[t] = <<"queue", l, k>>
          BY <4>1
        <5>2. k <= j.retries /\ k # j.retries
          BY <1>8, <5>1, Numbers
        <5>3. QED
          BY <3>1, <3>2, <5>1, <5>2
      <4>2. CASE t \in Tickets(i) /\ (t[1] # "queue" \/ t[2] # l) /\ f[t] = t
        BY <3>2, <4>2
      <4>3. QED
        BY <3>5, <4>1, <4>2
    <3>7. ASSUME NEW a \in Tickets(i)', NEW b \in Tickets(i)', f[a] = f[b]
          PROVE  a = b
      <4>1. CASE \E k \in 1..Retries :
                    a = <<"worker", w, k>> /\ f[a] = <<"queue", l, k>>
        <5>1. PICK k \in 1..Retries : a = <<"worker", w, k>> /\ f[a] = <<"queue", l, k>>
          BY <4>1
        <5>2. f[b][1] = "queue" /\ f[b][2] = l /\ f[b][3] = k
          BY <3>7, <5>1
        <5>3. \E m \in 1..Retries : b = <<"worker", w, m>> /\ f[b] = <<"queue", l, m>>
          BY <3>5, <5>2
        <5>4. QED
          BY <5>1, <5>2, <5>3
      <4>2. CASE f[a] = a /\ (a[1] # "queue" \/ a[2] # l)
        <5>1. f[b] = b
          <6>1. \A k : f[b] # <<"queue", l, k>>
            BY <3>7, <4>2
          <6>2. QED
            BY <3>5, <6>1
        <5>2. QED
          BY <3>7, <4>2, <5>1
      <4>3. QED
        BY <3>5, <4>1, <4>2
    <3>8. f \in Injection(Tickets(i)', Tickets(i) \ {x})
      BY <3>4, <3>6, <3>7 DEF Injection, IsInjective
    <3>9. starts'[i] = starts[i] + 1 /\ recovered'[i] = recovered[i]
      BY <1>4, <1>9, <2>4
    <3>10. PaidFor(i)'
      BY <2>1, <3>3, <3>8, <3>9, TicketUsed
    <3>11. QED
      BY <2>2, <3>10
  <2>5. QED
    BY <2>3, <2>4
<1>12. QED
  BY <1>11 DEF TriesPaid, PaidFor

(* The job that is pushed can take its tickets from <<a, b>>, whatever that *)
(* is; those of the jobs before it move up by one.                          *)
PaidBy(i, j, T, a, b) ==
  /\ a # "queue"
  /\ \A t : QueueTicket(i, t) => t \in T
  /\ \A t : ScheduledTicket(i, t)' \/ WorkerTicket(i, t)' =>
              t \in T /\ ~ (t[1] = a /\ t[2] = b)
  /\ \A k \in 1..Retries : j.id = i /\ k <= j.retries => <<a, b, k>> \in T

LEMMA PushInjection ==
  ASSUME NEW i \in Id, NEW j \in Job, NEW s \in Seq(Job), s = queue,
         queue' = <<j>> \o s,
         NEW T, NEW a, NEW b, PaidBy(i, j, T, a, b)
  PROVE  Injection(Tickets(i)', T) # {}
<1>0. /\ a # "queue"
      /\ \A t : QueueTicket(i, t) => t \in T
      /\ \A t : ScheduledTicket(i, t)' \/ WorkerTicket(i, t)' =>
                  t \in T /\ ~ (t[1] = a /\ t[2] = b)
      /\ \A k \in 1..Retries : j.id = i /\ k <= j.retries => <<a, b, k>> \in T
  BY DEF PaidBy
<1>1. PICK f : f = [t \in Tickets(i)' |->
                      IF t[1] # "queue" THEN t
                      ELSE IF t[2] = 1 THEN <<a, b, t[3]>>
                      ELSE <<"queue", t[2] - 1, t[3]>>]
  OBVIOUS
<1> DEFINE Back(u) == IF u[1] = a /\ u[2] = b THEN <<"queue", 1, u[3]>>
                      ELSE IF u[1] = "queue" THEN <<"queue", u[2] + 1, u[3]>>
                      ELSE u
<1>2. ASSUME NEW t \in Tickets(i)' PROVE f[t] \in T /\ Back(f[t]) = t
  <2>1. CASE QueueTicket(i, t)'
    <3>1. PICK n \in DOMAIN queue', k \in 1..Retries :
             t = <<"queue", n, k>> /\ queue'[n].id = i /\ k <= queue'[n].retries
      BY <2>1 DEF QueueTicket
    <3>2. \/ n = 1 /\ queue'[n] = j
          \/ n > 1 /\ n - 1 \in DOMAIN s /\ queue'[n] = s[n - 1]
      BY <3>1, PushElements
    <3>3. n \in Nat
      <4>1. queue' \in Seq(Job)
        BY PushElements
      <4>2. QED
        BY <3>1, <4>1
    <3>4. CASE n = 1 /\ queue'[n] = j
      <4>1. f[t] = <<a, b, k>>
        BY <1>1, <3>1, <3>4
      <4>2. j.id = i /\ k <= j.retries
        BY <3>1, <3>4
      <4>3. f[t] \in T
        BY <1>0, <4>1, <4>2
      <4>4. Back(f[t]) = <<"queue", 1, k>>
        BY <4>1
      <4>5. QED
        BY <3>1, <3>4, <4>3, <4>4
    <3>5. CASE n > 1 /\ n - 1 \in DOMAIN s /\ queue'[n] = s[n - 1]
      <4>1. f[t] = <<"queue", n - 1, k>>
        BY <1>1, <3>1, <3>5
      <4>2. QueueTicket(i, f[t])
        BY <3>1, <3>5, <4>1 DEF QueueTicket
      <4>3. Back(f[t]) = <<"queue", (n - 1) + 1, k>>
        BY <1>0, <4>1
      <4>4. (n - 1) + 1 = n
        BY <3>3
      <4>5. QED
        BY <1>0, <3>1, <4>2, <4>3, <4>4
    <3>6. QED
      BY <3>2, <3>4, <3>5
  <2>2. CASE ScheduledTicket(i, t)' \/ WorkerTicket(i, t)'
    <3>1. t[1] # "queue"
      BY <2>2 DEF ScheduledTicket, WorkerTicket
    <3>2. f[t] = t
      BY <1>1, <3>1
    <3>3. QED
      BY <1>0, <2>2, <3>1, <3>2
  <2>3. QED
    BY <2>1, <2>2, NextTicketMembers
<1> HIDE DEF Back
<1>3. \A t, u \in Tickets(i)' : f[t] = f[u] => t = u
  <2>1. ASSUME NEW t \in Tickets(i)', NEW u \in Tickets(i)', f[t] = f[u]
        PROVE  t = u
    <3>1. Back(f[t]) = t /\ Back(f[u]) = u
      BY <1>2
    <3>2. QED
      BY <2>1, <3>1
  <2>2. QED
    BY <2>1
<1>4. f \in Injection(Tickets(i)', T)
  BY <1>1, <1>2, <1>3 DEF Injection, IsInjective
<1>5. QED
  BY <1>4

LEMMA TicketKinds ==
  ASSUME NEW i
  PROVE  /\ \A t : QueueTicket(i, t) => t \in Tickets(i) /\ t[1] = "queue"
         /\ \A t : ScheduledTicket(i, t) => t \in Tickets(i) /\ t[1] = "scheduled"
         /\ \A t : WorkerTicket(i, t) => t \in Tickets(i) /\ t[1] = "worker"
<1>1. \A t : QueueTicket(i, t) => t[1] = "queue"
  BY DEF QueueTicket
<1>2. \A t : ScheduledTicket(i, t) => t[1] = "scheduled"
  BY DEF ScheduledTicket
<1>3. \A t : WorkerTicket(i, t) => t[1] = "worker"
  BY DEF WorkerTicket
<1>4. QED
  BY <1>1, <1>2, <1>3, TicketMembers

(* Nobody takes up a job. *)
LEMMA WorkerTickets ==
  ASSUME NEW i, NEW w \in Workers,
         \A v \in Workers : v # w => worker'[v] = worker[v],
         worker'[w].pc # "idle" =>
            worker[w].pc # "idle" /\ worker'[w].job = worker[w].job
  PROVE  \A t : WorkerTicket(i, t)' =>
            WorkerTicket(i, t) /\ (worker'[w].pc = "idle" => t[2] # w)
<1>1. ASSUME NEW t, WorkerTicket(i, t)'
      PROVE  WorkerTicket(i, t) /\ (worker'[w].pc = "idle" => t[2] # w)
  <2>1. PICK v \in Workers, k \in 1..Retries :
          /\ t = <<"worker", v, k>> /\ worker'[v].pc # "idle"
          /\ worker'[v].job.id = i /\ k < worker'[v].job.retries
    BY <1>1 DEF WorkerTicket, Runs, Busy
  <2>2. worker[v].pc # "idle" /\ worker'[v].job = worker[v].job
    BY <2>1
  <2>3. t[2] = v
    BY <2>1
  <2>4. WorkerTicket(i, t)
    BY <2>1, <2>2 DEF WorkerTicket, Runs, Busy
  <2>5. QED
    BY <2>1, <2>3, <2>4
<1>2. QED
  BY <1>1

LEMMA ScheduledTickets ==
  ASSUME NEW i, scheduled' \subseteq scheduled
  PROVE  \A t : ScheduledTicket(i, t)' => ScheduledTicket(i, t)
BY DEF ScheduledTicket

(* What a step must show when no job is started. *)
LEMMA AllPaid ==
  ASSUME QueueInv, TriesPaid, starts' = starts,
         issued' = issued \/ issued' = issued + 1,
         \A i \in Id : PaidFor(i) /\ (i \notin 1..issued => starts[i] = 0) => PaidFor(i)'
  PROVE  TriesPaid'
<1>1. ASSUME NEW i \in Id PROVE PaidFor(i)' /\ (i \notin 1..issued' => starts'[i] = 0)
  <2>1. PaidFor(i) /\ (i \notin 1..issued => starts[i] = 0)
    BY DEF TriesPaid, PaidFor
  <2>2. PaidFor(i)'
    BY <2>1
  <2>3. 1..issued \subseteq 1..issued'
    BY SeenJobs
  <2>4. QED
    BY <2>1, <2>2, <2>3
<1>2. QED
  BY <1>1 DEF TriesPaid, PaidFor

(* A new job pays for its tries. *)
LEMMA NoTickets ==
  ASSUME QueueInv, NEW i, i \notin 1..issued
  PROVE  /\ \A t : ~ QueueTicket(i, t) /\ ~ ScheduledTicket(i, t) /\ ~ WorkerTicket(i, t)
         /\ Tickets(i) = {}
<1>1. \A t : ~ QueueTicket(i, t)
  BY NewIdNowhere DEF QueueTicket
<1>2. \A t : ~ ScheduledTicket(i, t)
  BY NewIdNowhere DEF ScheduledTicket
<1>3. \A t : ~ WorkerTicket(i, t)
  BY NewIdNowhere DEF WorkerTicket, Runs, Busy
<1>4. Tickets(i) = {}
  BY <1>1, <1>2, <1>3, TicketMembers
<1>5. QED
  BY <1>1, <1>2, <1>3, <1>4

LEMMA NewJobPaid ==
  ASSUME QueueInv, TriesPaid, NEW j \in Job, j.id = issued + 1,
         queue' = <<j>> \o queue, issued' = issued + 1,
         UNCHANGED <<scheduled, worker, starts, recovered>>
  PROVE  TriesPaid'
<1>1. PICK s \in Seq(Job) : s = queue
  BY ListTypes
<1>2. queue' = <<j>> \o s
  BY <1>1
<1>3. ASSUME NEW i \in Id, NEW t, ScheduledTicket(i, t)' \/ WorkerTicket(i, t)'
      PROVE  (ScheduledTicket(i, t) \/ WorkerTicket(i, t)) /\ t[1] # "new"
  <2>1. ScheduledTicket(i, t) \/ WorkerTicket(i, t)
    BY <1>3 DEF ScheduledTicket, WorkerTicket, Runs, Busy
  <2>2. QED
    BY <2>1, TicketKinds
<1>4. ASSUME NEW i \in Id, PaidFor(i), i \notin 1..issued => starts[i] = 0
      PROVE  PaidFor(i)'
  <2>1. starts'[i] = starts[i] /\ recovered'[i] = recovered[i]
    OBVIOUS
  <2>2. CASE i = issued + 1
    <3>1. i \notin 1..issued
      BY <2>2, SeenJobs
    <3>2. \A t : /\ ~ QueueTicket(i, t)
                 /\ ~ (ScheduledTicket(i, t)' \/ WorkerTicket(i, t)')
      BY <1>3, <3>1, NoTickets
    <3>3. \A k \in 1..Retries : <<"new", "job", k>> \in NewTickets
      BY DEF NewTickets
    <3>4. PaidBy(i, j, NewTickets, "new", "job")
      BY <3>2, <3>3 DEF PaidBy
    <3>5. Injection(Tickets(i)', NewTickets) # {}
      BY <1>1, <1>2, <3>4, PushInjection
    <3>6. QED
      BY <1>4, <2>1, <3>1, <3>5, TicketsIssued
  <2>3. CASE i # issued + 1
    <3>1. j.id # i
      BY <2>3
    <3>2. PICK T : T = Tickets(i)
      OBVIOUS
    <3>3. \A t : ScheduledTicket(i, t)' \/ WorkerTicket(i, t)' =>
                    t \in T /\ ~ (t[1] = "new" /\ t[2] = "job")
      BY <1>3, <3>2, TicketKinds
    <3>4. PaidBy(i, j, T, "new", "job")
      BY <3>1, <3>2, <3>3, TicketKinds DEF PaidBy
    <3>5. Injection(Tickets(i)', T) # {}
      BY <1>1, <1>2, <3>4, PushInjection
    <3>6. QED
      BY <1>4, <2>1, <3>2, <3>5, TicketsMoved
  <2>4. QED
    BY <2>2, <2>3
<1>5. starts' = starts
  OBVIOUS
<1>6. QED
  BY <1>4, <1>5, AllPaid

LEMMA EnqueueKeepsPaid ==
  ASSUME QueueInv, TriesPaid, Enqueue
  PROVE  TriesPaid'
<1>1. PICK x \in Texts : Lpush(NewJob("index_snippet", x))
  BY DEF Enqueue
<1>2. PICK j \in Job : j = NewJob("index_snippet", x) /\ j.id = issued + 1
  <2>1. /\ "index_snippet" \in Type /\ x \in Texts \cup {NULL}
        /\ TypeOK /\ issued < MaxJobs
    BY Numbers DEF QueueInv, Enqueue
  <2>2. QED
    BY <2>1, NewJobType
<1>3. /\ queue' = <<j>> \o queue /\ issued' = issued + 1
      /\ UNCHANGED <<scheduled, worker, starts, recovered>>
  BY <1>1, <1>2 DEF Enqueue, Lpush, history
<1>4. QED
  BY <1>2, <1>3, NewJobPaid

LEMMA SeedPushKeepsPaid ==
  ASSUME QueueInv, TriesPaid, SeedPush
  PROVE  TriesPaid'
<1>1. boot.todo # << >>
  BY DEF SeedPush
<1>2. PICK type \in Periodic : type = Head(boot.todo)
  BY <1>1, BootFields
<1>3. PICK j \in Job : j = NewJob(type, NULL) /\ j.id = issued + 1
  <2>1. /\ type \in Type /\ NULL \in Texts \cup {NULL} /\ TypeOK /\ issued < MaxJobs
    BY Numbers DEF QueueInv, SeedPush
  <2>2. QED
    BY <2>1, NewJobType
<1>4. /\ queue' = <<j>> \o queue /\ issued' = issued + 1
      /\ UNCHANGED <<scheduled, worker, starts, recovered>>
  BY <1>2, <1>3 DEF SeedPush, Lpush, history
<1>5. QED
  BY <1>3, <1>4, NewJobPaid

(* A recovery pays for the tries of the copy it pushes. *)
LEMMA GiveKeepsPaid ==
  ASSUME QueueInv, TriesPaid, NEW w \in Workers, Give(w)
  PROVE  TriesPaid'
<1>1. PICK q \in Loop : /\ q = worker[w] /\ LoopOK(q)
                        /\ ToSet(q.todo) \subseteq Found
  BY LoopOfWorker
<1>2. q.pc = "give" /\ q.todo \in Seq(Job) /\ q.todo # << >> /\ q.now \in Nat
  BY <1>1, LoopFields DEF Give, LoopOK
<1>3. PICK h \in Job : h = Head(q.todo)
  BY <1>2, TailElements
<1>4. PICK j \in Job : j = [h EXCEPT !.since = q.now] /\ j.id = h.id /\ h.id \in Id
  <2>1. [h EXCEPT !.since = q.now] \in Job
    BY <1>2 DEF Job
  <2>2. [h EXCEPT !.since = q.now].id = h.id /\ h.id \in Id
    BY DEF Job
  <2>3. QED
    BY <2>1, <2>2
<1>5. PICK t : t = FromStuck(Tail(q.todo), q.now)
  OBVIOUS
<1>6. PICK rec : rec = [q EXCEPT !.pc = "take", !.todo = t]
  OBVIOUS
<1>7. PICK s \in Seq(Job) : s = queue
  BY ListTypes
<1>8. /\ queue' = <<j>> \o s /\ Goto(w, rec)
      /\ recovered' = [recovered EXCEPT ![h.id] = @ + 1]
      /\ UNCHANGED <<scheduled, issued, starts>>
  BY <1>1, <1>3, <1>4, <1>5, <1>6, <1>7 DEF Give, Lpush
<1>9. rec.job = q.job
  BY <1>6 DEF Loop
<1>10. /\ worker'[w] = rec
       /\ \A v \in Workers : v # w => worker'[v] = worker[v]
  BY <1>8 DEF Goto, QueueInv, TypeOK
<1>11. ASSUME NEW i \in Id, NEW u, ScheduledTicket(i, u)' \/ WorkerTicket(i, u)'
       PROVE  u \in Tickets(i) /\ u[1] # "new"
  <2>1. /\ \A v \in Workers : v # w => worker'[v] = worker[v]
        /\ worker'[w].pc # "idle" =>
              worker[w].pc # "idle" /\ worker'[w].job = worker[w].job
    BY <1>1, <1>2, <1>9, <1>10
  <2>2. ScheduledTicket(i, u) \/ WorkerTicket(i, u)
    BY <1>8, <1>11, <2>1, WorkerTickets, ScheduledTickets
  <2>3. QED
    BY <2>2, TicketKinds
<1>12. ASSUME NEW i \in Id, PaidFor(i) PROVE PaidFor(i)'
  <2>1. starts'[i] = starts[i]
    BY <1>8
  <2>2. CASE i = h.id
    <3>1. recovered'[i] = recovered[i] + 1
      BY <1>8, <2>2 DEF QueueInv, TypeOK
    <3>2. PICK T : T = Tickets(i) \cup NewTickets
      OBVIOUS
    <3>3. \A k \in 1..Retries : <<"new", "job", k>> \in T
      BY <3>2 DEF NewTickets
    <3>4. PaidBy(i, j, T, "new", "job")
      BY <1>11, <3>2, <3>3, TicketKinds DEF PaidBy
    <3>5. Injection(Tickets(i)', T) # {}
      BY <1>7, <1>8, <3>4, PushInjection
    <3>6. QED
      BY <1>12, <2>1, <3>1, <3>2, <3>5, TicketsBought
  <2>3. CASE i # h.id
    <3>1. recovered'[i] = recovered[i]
      BY <1>4, <1>8, <2>3 DEF QueueInv, TypeOK
    <3>2. PICK T : T = Tickets(i)
      OBVIOUS
    <3>3. PaidBy(i, j, T, "new", "job")
      BY <1>4, <1>11, <2>3, <3>2, TicketKinds DEF PaidBy
    <3>4. Injection(Tickets(i)', T) # {}
      BY <1>7, <1>8, <3>3, PushInjection
    <3>5. QED
      BY <1>12, <2>1, <3>1, <3>2, <3>4, TicketsMoved
  <2>4. QED
    BY <2>2, <2>3
<1>13. QED
  BY <1>8, <1>12, AllPaid

(* A retry takes its tickets from the worker that failed. *)
LEMMA PushKeepsPaid ==
  ASSUME QueueInv, TriesPaid, NEW w \in Workers, Push(w)
  PROVE  TriesPaid'
<1>1. PICK q \in Loop : /\ q = worker[w] /\ LoopOK(q)
                        /\ q.pc # "idle" => q.job \in Job
  BY LoopOfWorker
<1>2. q.pc = "push" /\ q.job \in Job
  BY <1>1 DEF Push
<1>3. PICK n \in Nat : n = q.job.retries - 1 /\ n < q.job.retries
  BY <1>2, JobFields, Numbers
<1>4. PICK j : j = [q.job EXCEPT !.retries = n]
  OBVIOUS
<1>5. j.id = q.job.id /\ j.retries = n /\ (n > 0 => j \in Job)
  <2>1. n > 0 => n \in 1..Retries
    BY <1>2, <1>3, JobFields, Numbers
  <2>2. \A m \in 1..Retries : [q.job EXCEPT !.retries = m] \in Job
    BY <1>2 DEF Job
  <2>3. j.id = q.job.id /\ j.retries = n
    BY <1>2, <1>4 DEF Job
  <2>4. QED
    BY <1>4, <2>1, <2>2, <2>3
<1>6. PICK s \in Seq(Job) : s = queue
  BY ListTypes
<1>7. /\ (n > 0 /\ queue' = <<j>> \o s) \/ queue' = s
      /\ Goto(w, Idle)
      /\ UNCHANGED <<scheduled, issued, starts, recovered>>
  BY <1>1, <1>3, <1>4, <1>6 DEF Push, CountDown, MayRetry, Retry, Lpush, history
<1>8. /\ worker'[w].pc = "idle"
      /\ \A v \in Workers : v # w => worker'[v] = worker[v]
  BY <1>7, IdleType DEF Goto, QueueInv, TypeOK
<1>9. ASSUME NEW i \in Id, NEW t, ScheduledTicket(i, t)' \/ WorkerTicket(i, t)'
      PROVE  t \in Tickets(i) /\ ~ (t[1] = "worker" /\ t[2] = w)
  <2>1. CASE ScheduledTicket(i, t)'
    BY <1>7, <2>1, ScheduledTickets, TicketKinds
  <2>2. CASE WorkerTicket(i, t)'
    BY <1>8, <2>2, WorkerTickets, TicketKinds
  <2>3. QED
    BY <1>9, <2>1, <2>2
<1>10. ASSUME NEW i \in Id, PaidFor(i) PROVE PaidFor(i)'
  <2>1. starts'[i] = starts[i] /\ recovered'[i] = recovered[i]
    BY <1>7
  <2>2. CASE n > 0 /\ queue' = <<j>> \o s
    <3>1. PICK T : T = Tickets(i)
      OBVIOUS
    <3>2. ASSUME NEW k \in 1..Retries, j.id = i, k <= j.retries
          PROVE  <<"worker", w, k>> \in T
      <4>1. k < q.job.retries
        BY <1>2, <1>3, <1>5, <3>2, JobFields
      <4>2. WorkerTicket(i, <<"worker", w, k>>)
        BY <1>1, <1>2, <1>5, <3>2, <4>1 DEF WorkerTicket, Runs, Busy
      <4>3. QED
        BY <3>1, <4>2, TicketKinds
    <3>3. PaidBy(i, j, T, "worker", w)
      BY <1>9, <3>1, <3>2, TicketKinds DEF PaidBy
    <3>4. Injection(Tickets(i)', T) # {}
      BY <1>5, <1>6, <2>2, <3>3, PushInjection
    <3>5. QED
      BY <1>10, <2>1, <3>1, <3>4, TicketsMoved
  <2>3. CASE queue' = s
    <3>1. ASSUME NEW t \in Tickets(i)' PROVE t \in Tickets(i)
      <4>1. CASE QueueTicket(i, t)'
        <5>1. QueueTicket(i, t)
          BY <1>6, <2>3, <4>1 DEF QueueTicket
        <5>2. QED
          BY <5>1, TicketMembers
      <4>2. QED
        BY <1>9, <4>1, NextTicketMembers
    <3>2. QED
      BY <1>10, <2>1, <3>1, TicketsStay
  <2>4. QED
    BY <1>7, <2>2, <2>3
<1>11. QED
  BY <1>7, <1>10, AllPaid

LEMMA RescheduleKeepsPaid ==
  ASSUME QueueInv, TriesPaid, NEW w \in Workers, Reschedule(w)
  PROVE  TriesPaid'
<1>1. PICK q \in Loop : /\ q = worker[w]
                        /\ q.pc # "idle" => q.job \in Job
  BY LoopOfWorker
<1>2. q.pc = "take" /\ q.job \in Job
  BY <1>1 DEF Reschedule
<1>3. PICK j \in Job : j = NewJob(q.job.type, NULL) /\ j.id = issued + 1
  <2>1. q.job.type \in Type /\ NULL \in Texts \cup {NULL} /\ TypeOK /\ issued < MaxJobs
    BY <1>2, JobFields DEF QueueInv, Reschedule
  <2>2. QED
    BY <2>1, NewJobType
<1>4. PICK e : e = [job |-> j, at |-> clock + Delay] /\ e.job = j
  <2>1. [job |-> j, at |-> clock + Delay].job = j
    OBVIOUS
  <2>2. QED
    BY <2>1
<1>5. PICK rec : rec = [q EXCEPT !.pc = "remove", !.now = 0]
  OBVIOUS
<1>6. /\ scheduled' = scheduled \cup {e} /\ Goto(w, rec) /\ issued' = issued + 1
      /\ UNCHANGED <<queue, starts, recovered>>
  BY <1>1, <1>3, <1>4, <1>5 DEF Reschedule, Again
<1>7. rec.job = q.job
  BY <1>5 DEF Loop
<1>8. /\ \A v \in Workers : v # w => worker'[v] = worker[v]
      /\ worker'[w].pc # "idle" =>
            worker[w].pc # "idle" /\ worker'[w].job = worker[w].job
  BY <1>1, <1>2, <1>6, <1>7 DEF Goto, QueueInv, TypeOK
<1>9. ASSUME NEW i \in Id, NEW t \in Tickets(i)'
      PROVE  \/ t \in Tickets(i)
             \/ i = issued + 1 /\ \E k \in 1..Retries : t = <<"scheduled", e, k>>
  <2>1. CASE QueueTicket(i, t)'
    <3>1. QueueTicket(i, t)
      BY <1>6, <2>1 DEF QueueTicket
    <3>2. QED
      BY <3>1, TicketMembers
  <2>2. CASE WorkerTicket(i, t)'
    BY <1>8, <2>2, WorkerTickets, TicketMembers
  <2>3. CASE ScheduledTicket(i, t)'
    <3>1. PICK x \in scheduled', k \in 1..Retries :
             t = <<"scheduled", x, k>> /\ x.job.id = i /\ k <= x.job.retries
      BY <2>3 DEF ScheduledTicket
    <3>2. CASE x = e
      <4>1. x.job = j /\ x.job.id = i
        BY <1>4, <3>1, <3>2
      <4>2. i = issued + 1
        BY <1>3, <4>1
      <4>3. QED
        BY <3>1, <3>2, <4>2
    <3>3. CASE x \in scheduled
      <4>1. ScheduledTicket(i, t)
        BY <3>1, <3>3 DEF ScheduledTicket
      <4>2. QED
        BY <4>1, TicketMembers
    <3>4. QED
      BY <1>6, <3>1, <3>2, <3>3
  <2>4. QED
    BY <2>1, <2>2, <2>3, NextTicketMembers
<1>10. ASSUME NEW i \in Id, PaidFor(i), i \notin 1..issued => starts[i] = 0
       PROVE  PaidFor(i)'
  <2>1. starts'[i] = starts[i] /\ recovered'[i] = recovered[i]
    BY <1>6
  <2>2. CASE i = issued + 1
    <3>1. i \notin 1..issued
      BY <2>2, SeenJobs
    <3>2. ASSUME NEW t \in Tickets(i)'
          PROVE  \E k \in 1..Retries : t = <<"scheduled", e, k>>
      BY <1>9, <3>1, NoTickets
    <3>3. PICK f : f = [t \in Tickets(i)' |-> <<"new", "job", t[3]>>]
      OBVIOUS
    <3>4. \A t \in Tickets(i)' : f[t] \in NewTickets
      BY <3>2, <3>3 DEF NewTickets
    <3>5. ASSUME NEW t \in Tickets(i)', NEW u \in Tickets(i)', f[t] = f[u]
          PROVE  t = u
      <4>1. PICK k \in 1..Retries : t = <<"scheduled", e, k>>
        BY <3>2
      <4>2. PICK l \in 1..Retries : u = <<"scheduled", e, l>>
        BY <3>2
      <4>3. f[t] = <<"new", "job", k>> /\ f[u] = <<"new", "job", l>>
        BY <3>3, <4>1, <4>2
      <4>4. QED
        BY <3>5, <4>1, <4>2, <4>3
    <3>6. f \in Injection(Tickets(i)', NewTickets)
      BY <3>3, <3>4, <3>5 DEF Injection, IsInjective
    <3>7. QED
      BY <1>10, <2>1, <3>1, <3>6, TicketsIssued
  <2>3. CASE i # issued + 1
    <3>1. Tickets(i)' \subseteq Tickets(i)
      BY <1>9, <2>3
    <3>2. QED
      BY <1>10, <2>1, <3>1, TicketsStay
  <2>4. QED
    BY <2>2, <2>3
<1>11. QED
  BY <1>6, <1>10, AllPaid

(* A dispatched job takes its tickets from jobs:scheduled. *)
LEMMA DispatchKeepsPaid ==
  ASSUME QueueInv, TriesPaid, Dispatch
  PROVE  TriesPaid'
<1>1. PICK order \in SetToSeqs(Due) :
        queue' = Reverse([n \in DOMAIN order |-> order[n].job]) \o queue
  BY DEF Dispatch
<1>2. PICK r \in Seq(Job) :
        /\ queue' = r \o queue
        /\ \E p \in Injection(DOMAIN r, Due) : \A n \in DOMAIN r : r[n] = p[n].job
  BY <1>1, DispatchedJobs
<1>3. PICK D, p : /\ D = Due /\ p \in Injection(DOMAIN r, D)
                  /\ \A n \in DOMAIN r : r[n] = p[n].job
  BY <1>2
<1>4. PICK s \in Seq(Job) : s = queue
  BY ListTypes
<1>5. /\ scheduled' = scheduled \ D /\ D \subseteq scheduled
      /\ UNCHANGED <<worker, issued, starts, recovered>>
  BY <1>3 DEF Dispatch, Due, history
<1>6. PICK m \in Nat : m = Len(r)
  OBVIOUS
<1>7. \A n \in DOMAIN queue' :
        /\ n \in Nat
        /\ \/ n \in DOMAIN r /\ queue'[n] = r[n]
           \/ n \notin DOMAIN r /\ n - m \in DOMAIN s /\ queue'[n] = s[n - m]
  <2>1. PICK t \in Seq(Job) : t = r \o s
    <3>1. r \o s \in Seq(Job)
      OBVIOUS
    <3>2. QED
      BY <3>1
  <2>2. /\ DOMAIN t = 1..(m + Len(s)) /\ DOMAIN r = 1..m /\ DOMAIN s = 1..Len(s)
        /\ Len(s) \in Nat
        /\ \A n \in DOMAIN t : t[n] = IF n <= m THEN r[n] ELSE s[n - m]
    BY <1>6, <2>1
  <2>3. queue' = t
    BY <1>2, <1>4, <2>1
  <2>4. QED
    BY <2>2, <2>3
<1>8. p \in [DOMAIN r -> D] /\ \A n, k \in DOMAIN r : p[n] = p[k] => n = k
  BY <1>3 DEF Injection, IsInjective
<1>9. PICK g : g = [e \in D |-> CHOOSE n \in DOMAIN r : p[n] = e]
  OBVIOUS
<1>10. \A n \in DOMAIN r : p[n] \in D /\ g[p[n]] = n
  BY <1>8, <1>9
<1> DEFINE Back(u) == IF u[1] = "scheduled" /\ u[2] \in D
                      THEN <<"queue", g[u[2]], u[3]>>
                      ELSE IF u[1] = "queue" THEN <<"queue", u[2] + m, u[3]>>
                      ELSE u
<1>11. ASSUME NEW i \in Id
       PROVE  Injection(Tickets(i)', Tickets(i)) # {}
  <2>1. PICK f : f = [t \in Tickets(i)' |->
                        IF t[1] # "queue" THEN t
                        ELSE IF t[2] \in DOMAIN r
                             THEN <<"scheduled", p[t[2]], t[3]>>
                        ELSE <<"queue", t[2] - m, t[3]>>]
    OBVIOUS
  <2>2. ASSUME NEW t \in Tickets(i)' PROVE f[t] \in Tickets(i) /\ Back(f[t]) = t
    <3>1. CASE QueueTicket(i, t)'
      <4>1. PICK n \in DOMAIN queue', k \in 1..Retries :
               t = <<"queue", n, k>> /\ queue'[n].id = i /\ k <= queue'[n].retries
        BY <3>1 DEF QueueTicket
      <4>2. CASE n \in DOMAIN r /\ queue'[n] = r[n]
        <5>1. f[t] = <<"scheduled", p[n], k>>
          BY <2>1, <4>1, <4>2
        <5>2. p[n] \in scheduled /\ p[n].job = queue'[n] /\ p[n] \in D /\ g[p[n]] = n
          BY <1>3, <1>5, <1>10, <4>2
        <5>3. ScheduledTicket(i, f[t])
          BY <4>1, <5>1, <5>2 DEF ScheduledTicket
        <5>4. Back(f[t]) = <<"queue", g[p[n]], k>>
          BY <5>1, <5>2
        <5>5. QED
          BY <4>1, <5>2, <5>3, <5>4, TicketKinds
      <4>3. CASE n \notin DOMAIN r /\ n - m \in DOMAIN s /\ queue'[n] = s[n - m]
        <5>1. f[t] = <<"queue", n - m, k>>
          BY <2>1, <4>1, <4>3
        <5>2. QueueTicket(i, f[t])
          BY <1>4, <4>1, <4>3, <5>1 DEF QueueTicket
        <5>3. Back(f[t]) = <<"queue", (n - m) + m, k>>
          BY <5>1
        <5>4. n \in Nat /\ (n - m) + m = n
          BY <1>7, <4>1
        <5>5. QED
          BY <4>1, <5>2, <5>3, <5>4, TicketKinds
      <4>4. QED
        BY <1>7, <4>1, <4>2, <4>3
    <3>2. CASE ScheduledTicket(i, t)'
      <4>1. PICK e \in scheduled', k \in 1..Retries :
               t = <<"scheduled", e, k>> /\ e.job.id = i /\ k <= e.job.retries
        BY <3>2 DEF ScheduledTicket
      <4>2. e \in scheduled /\ e \notin D
        BY <1>5, <4>1
      <4>3. ScheduledTicket(i, t)
        BY <4>1, <4>2 DEF ScheduledTicket
      <4>4. f[t] = t
        BY <2>1, <4>1
      <4>5. Back(t) = t
        BY <4>1, <4>2
      <4>6. QED
        BY <4>3, <4>4, <4>5, TicketKinds
    <3>3. CASE WorkerTicket(i, t)'
      <4>1. WorkerTicket(i, t)
        BY <1>5, <3>3 DEF WorkerTicket, Runs, Busy
      <4>2. t[1] = "worker" /\ t \in Tickets(i)
        BY <4>1, TicketKinds
      <4>3. f[t] = t
        BY <2>1, <4>2
      <4>4. Back(t) = t
        BY <4>2
      <4>5. QED
        BY <4>2, <4>3, <4>4
    <3>4. QED
      BY <3>1, <3>2, <3>3, NextTicketMembers
  <2> HIDE DEF Back
  <2>3. \A t, u \in Tickets(i)' : f[t] = f[u] => t = u
    <3>1. ASSUME NEW t \in Tickets(i)', NEW u \in Tickets(i)', f[t] = f[u]
          PROVE  t = u
      <4>1. Back(f[t]) = t /\ Back(f[u]) = u
        BY <2>2
      <4>2. QED
        BY <3>1, <4>1
    <3>2. QED
      BY <3>1
  <2>4. f \in Injection(Tickets(i)', Tickets(i))
    BY <2>1, <2>2, <2>3 DEF Injection, IsInjective
  <2>5. QED
    BY <2>4
<1>12. ASSUME NEW i \in Id, PaidFor(i) PROVE PaidFor(i)'
  <2>1. starts'[i] = starts[i] /\ recovered'[i] = recovered[i]
    BY <1>5
  <2>2. QED
    BY <1>11, <1>12, <2>1, TicketsMoved
<1>13. QED
  BY <1>5, <1>12, AllPaid

(* The other steps leave the waiting jobs and the workers alone. *)
LEMMA QuietKeepsPaid ==
  ASSUME QueueInv, TriesPaid,
         UNCHANGED <<queue, scheduled, worker, issued, starts, recovered>>
  PROVE  TriesPaid'
<1>1. /\ Scheduler \in Workers
      /\ \A v \in Workers : worker'[v] = worker[v]
  BY Numbers
<1>2. QED
  BY <1>1, QuietTickets

LEMMA InitTriesPaid == Init => TriesPaid
<1> SUFFICES ASSUME Init PROVE TriesPaid
  OBVIOUS
<1>1. ASSUME NEW i \in Id
      PROVE  /\ PaidFor(i)
             /\ i \notin 1..issued => starts[i] = 0
  <2>1. QueueInv /\ starts[i] = 0 /\ issued = 0
    BY <1>1, InitQueueInv DEF Init
  <2>2. i \notin 1..issued
    BY <2>1
  <2>3. Tickets(i) = {}
    BY <2>1, <2>2, NoTickets
  <2>4. PICK N : N = {} /\ N = Tickets(i)
    BY <2>3
  <2>5. IsFiniteSet(N) /\ Cardinality(N) = 0
    BY <2>4, FS_EmptySet
  <2>6. starts[i] + Cardinality(Tickets(i)) <= Retries * (1 + recovered[i])
    BY <2>1, <2>4, <2>5, CountTypes
  <2>7. QED
    BY <2>1, <2>4, <2>5, <2>6 DEF PaidFor
<1>2. QED
  BY <1>1 DEF TriesPaid, PaidFor

LEMMA NextKeepsPaid == QueueInv /\ TriesPaid /\ [Next]_vars => TriesPaid'
<1> SUFFICES ASSUME QueueInv, TriesPaid, [Next]_vars PROVE TriesPaid'
  OBVIOUS
<1>1. CASE Enqueue
  BY <1>1, EnqueueKeepsPaid
<1>2. CASE SeedReadQueue \/ SeedReadScheduled \/ Tick \/ UNCHANGED vars
  BY <1>2, QuietKeepsPaid
     DEF SeedReadQueue, SeedReadScheduled, Tick, vars, lists, history
<1>3. CASE SeedPush
  BY <1>3, SeedPushKeepsPaid
<1>4. CASE Dispatch
  BY <1>4, DispatchKeepsPaid
<1>5. ASSUME NEW w \in Workers, PopTimeout(w) PROVE TriesPaid'
  BY <1>2, <1>5 DEF PopTimeout
<1>6. ASSUME NEW w \in Workers, Proceed(w) PROVE TriesPaid'
  BY <1>6, PopKeepsPaid, QuietWorkers, GiveKeepsPaid, RescheduleKeepsPaid,
     PushKeepsPaid DEF Proceed
<1>7. ASSUME NEW w \in Workers, Raise(w) \/ Crash(w) PROVE TriesPaid'
  BY <1>7, QuietWorkers
<1>8. QED
  BY <1>1, <1>2, <1>3, <1>4, <1>5, <1>6, <1>7 DEF Next, Seed
-----------------------------------------------------------------------------
(* The chains: no step takes away the job a chain goes on with, unless it   *)
(* notes the chain as broken or seeds it again.                             *)

Waiting == ToSet(queue) \cup {e.job : e \in scheduled}

(* AtWork and InHand, of what a loop remembers. *)
Work(q) == IF q.pc \in {"idle", "remove"} THEN {} ELSE {q.job}
Acts(q) == Work(q) \cup Hand(q)

LEMMA ActingJobs ==
  ASSUME NEW type
  PROVE  /\ Acting(type) <=>
              \/ \E j \in Waiting : j.type = type
              \/ \E v \in Workers : \E j \in Acts(worker[v]) : j.type = type
         /\ Acting(type)' <=>
              \/ \E j \in Waiting' : j.type = type
              \/ \E v \in Workers : \E j \in Acts(worker'[v]) : j.type = type
<1>1. /\ \A v : AtWork(v) \cup InHand(v) = Acts(worker[v])
      /\ \A v : (AtWork(v) \cup InHand(v))' = Acts(worker'[v])
  BY DEF AtWork, InHand, Acts, Work, Hand
<1>2. Acting(type) <=>
        \/ \E j \in Waiting : j.type = type
        \/ \E v \in Workers : \E j \in AtWork(v) \cup InHand(v) : j.type = type
  BY DEF Acting, Active, Waiting
<1>3. Acting(type)' <=>
        \/ \E j \in Waiting' : j.type = type
        \/ \E v \in Workers : \E j \in (AtWork(v) \cup InHand(v))' : j.type = type
  BY DEF Acting, Active, Waiting
<1>4. QED
  BY <1>1, <1>2, <1>3

(* A step outside the seeding. *)
LEMMA ChainStep ==
  ASSUME QueueInv, ChainInv, boot' = boot, broken \subseteq broken',
         \A type \in Periodic : Acting(type) => Acting(type)' \/ type \in broken'
  PROVE  ChainInv'
<1>1. /\ ToSet(Seeds) \subseteq Periodic
      /\ boot.todo # << >> => Head(boot.todo) \in Periodic
  BY BootFields
<1>2. ASSUME PlainTexts
      PROVE  /\ \A type \in ToSet(Seeds) \ ToSet(boot.todo) :
                   Acting(type)' \/ type \in broken'
             /\ boot.todo # << >> /\ boot.found =>
                   Acting(Head(boot.todo))' \/ Head(boot.todo) \in broken'
  BY <1>1, <1>2 DEF ChainInv, ChainAlive
<1>3. QED
  BY <1>2 DEF ChainInv, ChainAlive, PlainTexts

(* The step of one worker. *)
LEMMA ChainWorkerStep ==
  ASSUME QueueInv, ChainInv, boot' = boot, broken \subseteq broken',
         NEW w \in Workers, NEW rec \in Loop, Goto(w, rec),
         \A j \in Waiting \cup Acts(worker[w]) : j.type \in Periodic =>
            \/ \E k \in Waiting' \cup Acts(rec) : k.type = j.type
            \/ j.type \in broken'
  PROVE  ChainInv'
<1>1. /\ worker'[w] = rec
      /\ \A v \in Workers : v # w => worker'[v] = worker[v]
  BY GotoEffect DEF QueueInv
<1>2. ASSUME NEW type \in Periodic, Acting(type)
      PROVE  Acting(type)' \/ type \in broken'
  <2>1. CASE \E j \in Waiting \cup Acts(worker[w]) : j.type = type
    BY <1>1, <2>1, ActingJobs
  <2>2. CASE \E v \in Workers : v # w /\ \E j \in Acts(worker[v]) : j.type = type
    BY <1>1, <2>2, ActingJobs
  <2>3. QED
    BY <1>2, <2>1, <2>2, ActingJobs
<1>3. QED
  BY <1>2, ChainStep

(* Only jobs are added, and no worker moves. *)
LEMMA ChainWaits ==
  ASSUME QueueInv, ChainInv, UNCHANGED <<worker, boot, broken>>,
         Waiting \subseteq Waiting'
  PROVE  ChainInv'
<1>1. \A type \in Periodic : Acting(type) => Acting(type)'
  BY ActingJobs
<1>2. QED
  BY <1>1, ChainStep

(* What a worker that runs, looks or puts back acts on. *)
LEMMA ActsOf ==
  ASSUME NEW q
  PROVE  /\ q.pc \in {"idle", "remove"} => Acts(q) = {}
         /\ q.pc \in {"run", "take", "retract", "push"} => Acts(q) = {q.job}
         /\ q.pc = "give" => Acts(q) = {q.job, Head(q.todo)}
BY DEF Acts, Work, Hand

LEMMA ChainPop ==
  ASSUME QueueInv, ChainInv, NEW w \in Workers, Pop(w)
  PROVE  ChainInv'
<1>1. PICK q \in Loop : q = worker[w]
  BY LoopOfWorker
<1>2. PICK s \in Seq(Job) : s = queue
  BY ListTypes
<1>3. PICK j \in Job : j = Last(s)
  BY <1>2, PopElements DEF Pop
<1>4. PICK rec \in Loop : rec = [Idle EXCEPT !.pc = "run", !.job = j]
  <2>1. [Idle EXCEPT !.pc = "run", !.job = j] \in Loop
    BY IdleType DEF Loop
  <2>2. QED
    BY <2>1
<1>5. /\ q.pc = "idle" /\ s # << >> /\ queue' = Front(s) /\ Goto(w, rec)
      /\ UNCHANGED <<scheduled, boot, broken>>
  BY <1>1, <1>2, <1>3, <1>4 DEF Pop
<1>6. rec.pc = "run" /\ rec.job = j
  BY <1>4 DEF Idle
<1>7. Acts(worker[w]) = {} /\ Acts(rec) = {j}
  BY <1>1, <1>5, <1>6, ActsOf
<1>8. ToSet(s) = ToSet(queue') \cup {j}
  BY <1>2, <1>3, <1>5, PopElements
<1>9. Waiting \subseteq Waiting' \cup Acts(rec)
  BY <1>2, <1>5, <1>7, <1>8 DEF Waiting
<1>10. QED
  BY <1>5, <1>7, <1>9, ChainWorkerStep

LEMMA ChainHandle ==
  ASSUME QueueInv, ChainInv, NEW w \in Workers, Handle(w)
  PROVE  ChainInv'
<1>1. PICK q \in Loop : q = worker[w]
  BY LoopOfWorker
<1> DEFINE rec == [q EXCEPT !.pc = "remove"]
<1>2. /\ q.pc = "run" /\ q.job.type = "index_snippet" /\ Goto(w, rec)
      /\ UNCHANGED <<queue, scheduled, boot, broken>>
  BY <1>1 DEF Handle, lists
<1>3. rec \in Loop
  BY DEF Loop
<1> HIDE DEF rec
<1>4. Acts(worker[w]) = {q.job} /\ q.job.type \notin Periodic
  BY <1>1, <1>2, ActsOf, Numbers
<1>5. Waiting' = Waiting
  BY <1>2 DEF Waiting
<1>6. QED
  BY <1>2, <1>3, <1>4, <1>5, ChainWorkerStep

LEMMA ChainScan ==
  ASSUME QueueInv, ChainInv, NEW w \in Workers, Scan(w)
  PROVE  ChainInv'
<1>1. PICK q \in Loop : q = worker[w]
  BY LoopOfWorker
<1>2. PICK s \in Seq(Job) : s = IF q.job.type = "recover_stuck_jobs"
                                THEN FromStuck(processing, clock) ELSE << >>
  <2>1. FromStuck(processing, clock) \in Seq(Job)
    BY ListTypes, FromStuckElements
  <2>2. << >> \in Seq(Job)
    OBVIOUS
  <2>3. QED
    BY <2>1, <2>2
<1>3. PICK now \in Nat : now = clock
  BY Numbers DEF QueueInv, TypeOK
<1> DEFINE rec == [q EXCEPT !.pc = "take", !.now = now, !.todo = s]
<1>4. /\ q.pc = "run" /\ Goto(w, rec)
      /\ UNCHANGED <<queue, scheduled, boot, broken>>
  BY <1>1, <1>2, <1>3 DEF Scan, lists, history
<1>5. rec \in Loop /\ rec.pc = "take" /\ rec.job = q.job
  BY DEF Loop
<1> HIDE DEF rec
<1>6. Acts(worker[w]) = Acts(rec) /\ Waiting' = Waiting
  BY <1>1, <1>4, <1>5, ActsOf DEF Waiting
<1>7. QED
  BY <1>4, <1>5, <1>6, ChainWorkerStep

LEMMA ChainTake ==
  ASSUME QueueInv, ChainInv, NEW w \in Workers, Take(w) \/ Retract(w)
  PROVE  ChainInv'
<1>1. PICK q \in Loop : q = worker[w]
  BY LoopOfWorker
<1>2. PICK pc \in {"give", "push"} :
        /\ q.pc \in {"take", "retract"} /\ Goto(w, [q EXCEPT !.pc = pc])
        /\ UNCHANGED <<queue, scheduled, boot, broken>>
  BY <1>1 DEF Take, Retract, history
<1> DEFINE rec == [q EXCEPT !.pc = pc]
<1>3. rec \in Loop /\ rec.pc = pc /\ rec.job = q.job /\ Goto(w, rec)
  BY <1>2 DEF Loop
<1> HIDE DEF rec
<1>4. Acts(worker[w]) \subseteq Acts(rec) /\ Waiting' = Waiting
  BY <1>1, <1>2, <1>3, ActsOf DEF Waiting
<1>5. QED
  BY <1>2, <1>3, <1>4, ChainWorkerStep

LEMMA ChainGive ==
  ASSUME QueueInv, ChainInv, NEW w \in Workers, Give(w)
  PROVE  ChainInv'
<1>1. PICK q \in Loop : /\ q = worker[w] /\ LoopOK(q)
                        /\ ToSet(q.todo) \subseteq Found
  BY LoopOfWorker
<1>2. q.pc = "give" /\ q.todo \in Seq(Job) /\ q.todo # << >> /\ q.now \in Nat
  BY <1>1, LoopFields DEF Give, LoopOK
<1>3. PICK h \in Job : h = Head(q.todo)
  BY <1>2, TailElements
<1>4. PICK j \in Job : j = [h EXCEPT !.since = q.now] /\ j.type = h.type
  <2>1. [h EXCEPT !.since = q.now] \in Job /\ [h EXCEPT !.since = q.now].type = h.type
    BY <1>2 DEF Job
  <2>2. QED
    BY <2>1
<1>5. PICK t \in Seq(Job) : t = FromStuck(Tail(q.todo), q.now)
  <2>1. Tail(q.todo) \in Seq(Job)
    BY <1>2, TailElements
  <2>2. QED
    BY <2>1, FromStuckElements
<1> DEFINE rec == [q EXCEPT !.pc = "take", !.todo = t]
<1>6. /\ queue' = <<j>> \o queue /\ Goto(w, rec)
      /\ UNCHANGED <<scheduled, boot, broken>>
  BY <1>1, <1>3, <1>4, <1>5 DEF Give, Lpush
<1>7. rec \in Loop /\ rec.pc = "take" /\ rec.job = q.job
  BY DEF Loop
<1> HIDE DEF rec
<1>8. ToSet(queue') = ToSet(queue) \cup {j}
  BY <1>6, PushElements, ListTypes
<1>9. Waiting \subseteq Waiting' /\ j \in Waiting'
  BY <1>6, <1>8 DEF Waiting
<1>10. Acts(worker[w]) = {q.job, h} /\ Acts(rec) = {q.job}
  BY <1>1, <1>2, <1>3, <1>7, ActsOf
<1>11. \A x \in Waiting \cup Acts(worker[w]) :
          \E k \in Waiting' \cup Acts(rec) : k.type = x.type
  BY <1>4, <1>9, <1>10
<1>12. QED
  BY <1>6, <1>7, <1>11, ChainWorkerStep

LEMMA ChainReschedule ==
  ASSUME QueueInv, ChainInv, NEW w \in Workers, Reschedule(w)
  PROVE  ChainInv'
<1>1. PICK q \in Loop : q = worker[w]
  BY LoopOfWorker
<1>2. PICK e : e = [job |-> NewJob(q.job.type, NULL), at |-> clock + Delay]
  OBVIOUS
<1> DEFINE rec == [q EXCEPT !.pc = "remove", !.now = 0]
<1>3. /\ q.pc = "take" /\ scheduled' = scheduled \cup {e} /\ Goto(w, rec)
      /\ UNCHANGED <<queue, boot, broken>>
  BY <1>1, <1>2 DEF Reschedule, Again
<1>4. rec \in Loop
  BY DEF Loop
<1> HIDE DEF rec
<1>5. Acts(worker[w]) = {q.job} /\ e.job.type = q.job.type
  BY <1>1, <1>2, <1>3, ActsOf DEF NewJob
<1>6. Waiting \subseteq Waiting' /\ e.job \in Waiting'
  BY <1>3 DEF Waiting
<1>7. \A x \in Waiting \cup Acts(worker[w]) :
          \E k \in Waiting' \cup Acts(rec) : k.type = x.type
  BY <1>5, <1>6
<1>8. QED
  BY <1>3, <1>4, <1>7, ChainWorkerStep

LEMMA ChainFinishJob ==
  ASSUME QueueInv, ChainInv, NEW w \in Workers, FinishJob(w)
  PROVE  ChainInv'
<1>1. PICK rec \in Loop : rec = Idle
  BY IdleType
<1>2. /\ worker[w].pc = "remove" /\ Goto(w, rec)
      /\ UNCHANGED <<queue, scheduled, boot, broken>>
  BY <1>1 DEF FinishJob, history
<1>3. Acts(worker[w]) = {} /\ Waiting' = Waiting
  BY <1>2, ActsOf DEF Waiting
<1>4. QED
  BY <1>2, <1>3, ChainWorkerStep

LEMMA ChainRaise ==
  ASSUME QueueInv, ChainInv, NEW w \in Workers, Raise(w)
  PROVE  ChainInv'
<1>1. PICK q \in Loop : q = worker[w]
  BY LoopOfWorker
<1>2. PICK s \in Seq(Job) : s = << >>
  <2>1. << >> \in Seq(Job)
    OBVIOUS
  <2>2. QED
    BY <2>1
<1> DEFINE rec == [q EXCEPT !.pc = "retract", !.todo = s, !.now = 0]
<1>3. /\ q.pc \in {"run", "take", "give", "remove"} /\ Goto(w, rec)
      /\ Breaks(InHand(w)) /\ UNCHANGED <<queue, scheduled, boot>>
  BY <1>1, <1>2 DEF Raise
<1>4. rec \in Loop /\ rec.pc = "retract" /\ rec.job = q.job
  BY <1>2 DEF Loop
<1> HIDE DEF rec
<1>5. /\ broken \subseteq broken' /\ Waiting' = Waiting
      /\ q.pc = "give" => \/ Head(q.todo).type \in broken'
                          \/ Head(q.todo).type \notin Periodic
  BY <1>1, <1>3 DEF Breaks, InHand, Waiting
<1>6. Acts(rec) = {q.job} /\ Acts(q) \subseteq {q.job, Head(q.todo)}
      /\ (q.pc # "give" => Acts(q) \subseteq {q.job})
  BY <1>3, <1>4, ActsOf
<1>7. \A j \in Waiting \cup Acts(worker[w]) : j.type \in Periodic =>
         \/ \E k \in Waiting' \cup Acts(rec) : k.type = j.type
         \/ j.type \in broken'
  BY <1>1, <1>5, <1>6
<1>8. QED
  BY <1>3, <1>4, <1>5, <1>7, ChainWorkerStep

LEMMA ChainPush ==
  ASSUME QueueInv, ChainInv, NEW w \in Workers, Push(w)
  PROVE  ChainInv'
<1>1. PICK q \in Loop : q = worker[w] /\ LoopOK(q)
  BY LoopOfWorker
<1>2. q.pc = "push" /\ q.job \in Job
  BY <1>1 DEF Push, LoopOK
<1>3. PICK n \in Nat : n = q.job.retries - 1 /\ n < Retries
  BY <1>2, JobFields, Numbers
<1>4. PICK j : j = [q.job EXCEPT !.retries = n]
  OBVIOUS
<1>5. /\ j.type = q.job.type
      /\ n > 0 => j \in Job
  <2>1. n > 0 => n \in 1..Retries
    BY <1>3, Numbers
  <2>2. \A m \in 1..Retries : [q.job EXCEPT !.retries = m] \in Job
    BY <1>2 DEF Job
  <2>3. j.type = q.job.type
    BY <1>2, <1>4 DEF Job
  <2>4. QED
    BY <1>4, <2>1, <2>2, <2>3
<1>6. PICK rec \in Loop : rec = Idle
  BY IdleType
<1>7. /\ \/ n > 0 /\ queue' = <<j>> \o queue /\ Breaks({})
         \/ queue' = queue /\ Breaks({j})
      /\ Goto(w, rec) /\ UNCHANGED <<scheduled, boot>>
  BY <1>1, <1>3, <1>4, <1>6 DEF Push, CountDown, MayRetry, Retry, Lpush
<1>8. Acts(worker[w]) = {q.job} /\ broken \subseteq broken'
  BY <1>1, <1>2, <1>7, ActsOf DEF Breaks
<1>9. CASE n > 0 /\ queue' = <<j>> \o queue
  <2>1. ToSet(queue') = ToSet(queue) \cup {j}
    BY <1>5, <1>9, PushElements, ListTypes
  <2>2. Waiting \subseteq Waiting' /\ j \in Waiting'
    BY <1>7, <2>1 DEF Waiting
  <2>3. \A x \in Waiting \cup Acts(worker[w]) :
           \E k \in Waiting' \cup Acts(rec) : k.type = x.type
    BY <1>5, <1>8, <2>2
  <2>4. QED
    BY <1>7, <1>8, <2>3, ChainWorkerStep
<1>10. CASE queue' = queue /\ Breaks({j})
  <2>1. Waiting' = Waiting
    BY <1>7, <1>10 DEF Waiting
  <2>2. q.job.type \in Periodic => q.job.type \in broken'
    BY <1>5, <1>10 DEF Breaks
  <2>3. QED
    BY <1>7, <1>8, <2>1, <2>2, ChainWorkerStep
<1>11. QED
  BY <1>7, <1>9, <1>10

LEMMA ChainCrash ==
  ASSUME QueueInv, ChainInv, NEW w \in Workers, Crash(w)
  PROVE  ChainInv'
<1>1. CASE boot' = Booting
  <2>1. boot'.todo = Seeds /\ boot'.found = FALSE
    BY <1>1 DEF Booting
  <2>2. QED
    BY <2>1 DEF ChainInv, ChainAlive
<1>2. CASE boot' = boot /\ Breaks(AtWork(w) \cup InHand(w))
  <2>1. PICK rec \in Loop : rec = Idle
    BY IdleType
  <2>2. Goto(w, rec) /\ UNCHANGED <<queue, scheduled>>
    BY <2>1 DEF Crash, lists
  <2>3. AtWork(w) \cup InHand(w) = Acts(worker[w])
    BY DEF AtWork, InHand, Acts, Work, Hand
  <2>4. /\ broken \subseteq broken' /\ Waiting' = Waiting
        /\ \A j \in Acts(worker[w]) : j.type \in Periodic => j.type \in broken'
    BY <1>2, <2>2, <2>3 DEF Breaks, Waiting
  <2>5. QED
    BY <1>2, <2>2, <2>4, ChainWorkerStep
<1>3. QED
  BY <1>1, <1>2 DEF Crash

LEMMA ChainEnqueue ==
  ASSUME QueueInv, ChainInv, Enqueue
  PROVE  ChainInv'
<1>1. PICK x \in Texts : Lpush(NewJob("index_snippet", x))
  BY DEF Enqueue
<1>2. PICK j \in Job : j = NewJob("index_snippet", x)
  <2>1. /\ "index_snippet" \in Type /\ x \in Texts \cup {NULL}
        /\ TypeOK /\ issued < MaxJobs
    BY Numbers DEF QueueInv, Enqueue
  <2>2. QED
    BY <2>1, NewJobType
<1>3. queue' = <<j>> \o queue /\ UNCHANGED <<scheduled, worker, boot, broken>>
  BY <1>1, <1>2 DEF Enqueue, Lpush, history
<1>4. ToSet(queue') = ToSet(queue) \cup {j}
  BY <1>3, PushElements, ListTypes
<1>5. Waiting \subseteq Waiting'
  BY <1>3, <1>4 DEF Waiting
<1>6. QED
  BY <1>3, <1>5, ChainWaits

LEMMA ChainDispatch ==
  ASSUME QueueInv, ChainInv, Dispatch
  PROVE  ChainInv'
<1>1. PICK order \in SetToSeqs(Due) :
        queue' = Reverse([n \in DOMAIN order |-> order[n].job]) \o queue
  BY DEF Dispatch
<1>2. PICK r \in Seq(Job) :
        queue' = r \o queue /\ ToSet(r) = {e.job : e \in Due}
  BY <1>1, DispatchedJobs
<1>3. PICK s \in Seq(Job) : s = queue
  BY ListTypes
<1>4. scheduled' = scheduled \ Due /\ UNCHANGED <<worker, boot, broken>>
  BY DEF Dispatch, history
<1>5. ToSet(queue') = {e.job : e \in Due} \cup ToSet(queue)
  BY <1>2, <1>3, OnceJoined
<1>6. Waiting \subseteq Waiting'
  BY <1>4, <1>5 DEF Waiting
<1>7. QED
  BY <1>4, <1>6, ChainWaits

(* With plain payloads the name of a periodic job is found in its jobs only. *)
LEMMA MentionedActs ==
  ASSUME QueueInv, PlainTexts, NEW type \in Periodic, NEW j \in Waiting,
         Mentions(j, type)
  PROVE  Acting(type)
<1>1. j \in Job
  BY ListTypes DEF Waiting
<1>2. j.text # type
  BY <1>1, JobFields, QueueAssumption DEF PlainTexts
<1>3. j.type = type
  BY <1>2 DEF Mentions
<1>4. QED
  BY <1>3, ActingJobs

(* A step of the seeding: it goes on to the next chain once this one acts.  *)
LEMMA ChainSeeded ==
  ASSUME QueueInv, ChainInv, broken' = broken, boot.todo # << >>,
         \A x \in Periodic : Acting(x) => Acting(x)',
         NEW type \in Periodic, type = Head(boot.todo),
         PlainTexts =>
           \/ /\ boot'.todo = boot.todo
              /\ boot'.found => Acting(type) \/ type \in broken
           \/ /\ boot'.todo = Tail(boot.todo) /\ ~ boot'.found
              /\ Acting(type)' \/ type \in broken
  PROVE  ChainInv'
<1>1. /\ ToSet(Seeds) \subseteq Periodic
      /\ ToSet(boot.todo) = {type} \cup ToSet(Tail(boot.todo))
  BY BootFields
<1>2. ASSUME PlainTexts
      PROVE  /\ \A x \in Periodic : x \in ToSet(Seeds) /\ x \notin ToSet(boot'.todo)
                   => Acting(x)' \/ x \in broken'
             /\ boot'.todo # << >> /\ boot'.found =>
                   type = Head(boot'.todo) /\ (Acting(type)' \/ type \in broken')
  <2>1. \A x \in Periodic : x \in ToSet(Seeds) /\ x \notin ToSet(boot.todo)
           => Acting(x)' \/ x \in broken'
    BY <1>2 DEF ChainInv, ChainAlive
  <2>2. CASE /\ boot'.todo = boot.todo
             /\ boot'.found => Acting(type) \/ type \in broken
    BY <2>1, <2>2
  <2>3. CASE /\ boot'.todo = Tail(boot.todo) /\ ~ boot'.found
             /\ Acting(type)' \/ type \in broken
    BY <1>1, <2>1, <2>3
  <2>4. QED
    BY <1>2, <2>2, <2>3
<1>3. ASSUME PlainTexts
      PROVE  /\ \A x \in ToSet(Seeds) : x \notin ToSet(boot'.todo)
                   => Acting(x)' \/ x \in broken'
             /\ boot'.todo # << >> /\ boot'.found =>
                   type = Head(boot'.todo) /\ (Acting(type)' \/ type \in broken')
  BY <1>1, <1>2, <1>3
<1>4. QED
  BY <1>3 DEF ChainInv, ChainAlive, PlainTexts

LEMMA ChainSeedReadQueue ==
  ASSUME QueueInv, ChainInv, SeedReadQueue
  PROVE  ChainInv'
<1>1. PICK found \in BOOLEAN :
        found = \E j \in ToSet(queue) : Mentions(j, Head(boot.todo))
  OBVIOUS
<1>2. /\ boot.todo # << >>
      /\ boot' = [boot EXCEPT !.pc = "scheduled", !.found = found]
      /\ broken' = broken /\ UNCHANGED <<queue, scheduled, worker>>
  BY <1>1 DEF SeedReadQueue, lists, history
<1>3. boot'.todo = boot.todo /\ boot'.found = found
  BY <1>2, HistoryTypes DEF Boot
<1>4. ASSUME PlainTexts, found PROVE Acting(Head(boot.todo))
  <2>1. PICK j \in Waiting : Mentions(j, Head(boot.todo))
    BY <1>1, <1>4 DEF Waiting
  <2>2. Head(boot.todo) \in Periodic
    BY <1>2, BootFields
  <2>3. QED
    BY <1>4, <2>1, <2>2, MentionedActs
<1>5. \A type \in Periodic : Acting(type) => Acting(type)'
  <2>1. Waiting' = Waiting
    BY <1>2 DEF Waiting
  <2>2. QED
    BY <1>2, <2>1, ActingJobs
<1>6. PICK type \in Periodic : type = Head(boot.todo)
  BY <1>2, BootFields
<1>7. PlainTexts => /\ boot'.todo = boot.todo
                    /\ boot'.found => Acting(type) \/ type \in broken
  BY <1>3, <1>4, <1>6
<1>8. broken' = broken /\ boot.todo # << >>
  BY <1>2
<1>9. QED
  BY <1>5, <1>6, <1>7, <1>8, ChainSeeded

LEMMA ChainSeedReadScheduled ==
  ASSUME QueueInv, ChainInv, SeedReadScheduled
  PROVE  ChainInv'
<1>1. /\ boot.todo # << >>
      /\ boot' = IF boot.found \/ InScheduled(Head(boot.todo))
                 THEN [Booting EXCEPT !.todo = Tail(boot.todo)]
                 ELSE [boot EXCEPT !.pc = "push"]
      /\ UNCHANGED <<queue, scheduled, worker, broken>>
  BY DEF SeedReadScheduled, lists, history
<1>2. PICK type \in Periodic : type = Head(boot.todo)
  BY <1>1, BootFields
<1>3. \A x \in Periodic : Acting(x) => Acting(x)'
  <2>1. Waiting' = Waiting
    BY <1>1 DEF Waiting
  <2>2. QED
    BY <1>1, <2>1, ActingJobs
<1>4. CASE boot.found \/ InScheduled(type)
  <2>1. ASSUME PlainTexts PROVE Acting(type) \/ type \in broken
    <3>1. CASE boot.found
      BY <1>1, <1>2, <2>1, <3>1 DEF ChainInv
    <3>2. CASE InScheduled(type)
      <4>1. PICK j \in Waiting : Mentions(j, type)
        BY <3>2 DEF InScheduled, Waiting
      <4>2. QED
        BY <2>1, <4>1, MentionedActs
    <3>3. QED
      BY <1>4, <3>1, <3>2
  <2>2. PICK t \in Seq(Periodic) : t = Tail(boot.todo)
    BY <1>1, BootFields
  <2>3. boot' = [Booting EXCEPT !.todo = t]
    BY <1>1, <1>2, <1>4, <2>2
  <2>4. boot'.todo = Tail(boot.todo) /\ boot'.found = FALSE
    BY <2>2, <2>3 DEF Booting
  <2>5. PlainTexts => /\ boot'.todo = Tail(boot.todo) /\ ~ boot'.found
                      /\ Acting(type)' \/ type \in broken
    BY <1>3, <2>1, <2>4
  <2>6. broken' = broken /\ boot.todo # << >>
    BY <1>1
  <2>7. QED
    BY <1>2, <1>3, <2>5, <2>6, ChainSeeded
<1>5. CASE ~ (boot.found \/ InScheduled(type))
  <2>1. boot' = [boot EXCEPT !.pc = "push"]
    BY <1>1, <1>2, <1>5
  <2>2. boot'.todo = boot.todo /\ boot'.found = FALSE
    BY <1>5, <2>1, HistoryTypes DEF Boot
  <2>3. /\ broken' = broken /\ boot.todo # << >>
        /\ boot'.found => Acting(type) \/ type \in broken
    BY <1>1, <2>2
  <2>4. QED
    BY <1>2, <1>3, <2>2, <2>3, ChainSeeded
<1>6. QED
  BY <1>4, <1>5

LEMMA ChainSeedPush ==
  ASSUME QueueInv, ChainInv, SeedPush
  PROVE  ChainInv'
<1>1. boot.todo # << >>
  BY DEF SeedPush
<1>2. PICK type \in Periodic : type = Head(boot.todo)
  BY <1>1, BootFields
<1>3. PICK j \in Job : j = NewJob(type, NULL) /\ j.type = type
  <2>1. /\ type \in Type /\ NULL \in Texts \cup {NULL} /\ TypeOK /\ issued < MaxJobs
    BY Numbers DEF QueueInv, SeedPush
  <2>2. QED
    BY <2>1, NewJobType
<1>4. PICK t \in Seq(Periodic) : t = Tail(boot.todo)
  BY <1>1, BootFields
<1>5. /\ queue' = <<j>> \o queue /\ boot' = [Booting EXCEPT !.todo = t]
      /\ UNCHANGED <<scheduled, worker, broken>>
  BY <1>2, <1>3, <1>4 DEF SeedPush, Lpush, history
<1>6. boot'.todo = Tail(boot.todo) /\ boot'.found = FALSE
  BY <1>4, <1>5 DEF Booting
<1>7. ToSet(queue') = ToSet(queue) \cup {j}
  BY <1>5, PushElements, ListTypes
<1>8. Waiting \subseteq Waiting' /\ j \in Waiting'
  BY <1>5, <1>7 DEF Waiting
<1>9. (\A x \in Periodic : Acting(x) => Acting(x)') /\ Acting(type)'
  BY <1>3, <1>5, <1>8, ActingJobs
<1>10. /\ broken' = broken
       /\ PlainTexts => /\ boot'.todo = Tail(boot.todo) /\ ~ boot'.found
                        /\ Acting(type)' \/ type \in broken
  BY <1>5, <1>6, <1>9
<1>11. QED
  BY <1>1, <1>2, <1>9, <1>10, ChainSeeded

LEMMA InitChainInv == Init => ChainInv
<1>1. ASSUME Init PROVE boot.todo = Seeds /\ boot.found = FALSE
  BY <1>1 DEF Init, Booting
<1>2. QED
  BY <1>1 DEF ChainInv, ChainAlive

LEMMA NextKeepsChains == QueueInv /\ ChainInv /\ [Next]_vars => ChainInv'
<1> SUFFICES ASSUME QueueInv, ChainInv, [Next]_vars PROVE ChainInv'
  OBVIOUS
<1>1. CASE Tick \/ UNCHANGED vars
  <2>1. UNCHANGED <<queue, scheduled, worker, boot, broken>>
    BY <1>1 DEF Tick, vars, lists, history
  <2>2. Waiting' = Waiting
    BY <2>1 DEF Waiting
  <2>3. QED
    BY <2>1, <2>2, ChainWaits
<1>2. CASE Enqueue
  BY <1>2, ChainEnqueue
<1>3. CASE Seed
  BY <1>3, ChainSeedReadQueue, ChainSeedReadScheduled, ChainSeedPush DEF Seed
<1>4. CASE Dispatch
  BY <1>4, ChainDispatch
<1>5. ASSUME NEW w \in Workers, PopTimeout(w) PROVE ChainInv'
  BY <1>1, <1>5 DEF PopTimeout
<1>6. ASSUME NEW w \in Workers, Proceed(w) PROVE ChainInv'
  BY <1>6, ChainPop, ChainHandle, ChainScan, ChainTake, ChainGive,
     ChainReschedule, ChainFinishJob, ChainPush DEF Proceed
<1>7. ASSUME NEW w \in Workers, Raise(w) PROVE ChainInv'
  BY <1>7, ChainRaise
<1>8. ASSUME NEW w \in Workers, Crash(w) PROVE ChainInv'
  BY <1>8, ChainCrash
<1>9. QED
  BY <1>1, <1>2, <1>3, <1>4, <1>5, <1>6, <1>7, <1>8 DEF Next
-----------------------------------------------------------------------------
(* The inductive invariant: the types, the tries that are left in a job     *)
(* added to those it had, one id and one type for all copies of a job, the  *)
(* places of a job that was never stuck, the tickets, which count the tries *)
(* its copies may still get, and what the seeding has found of the chains.  *)
THEOREM JobsInvariant == Spec => []IInv
<1>1. Init => IInv
  BY InitQueueInv, InitTriesPaid, InitChainInv DEF IInv
<1>2. IInv /\ [Next]_vars => IInv'
  BY NextKeepsQueueInv, NextKeepsPaid, NextKeepsChains DEF IInv
<1>3. QED
  BY <1>1, <1>2, PTL DEF Spec

(* A job is run at most Retries times, and Retries times more for each time *)
(* recover_stuck_jobs took it for stuck, however its copies fail, finish or *)
(* are recovered again: its starts and its tickets together never pass what *)
(* its enqueue and its recoveries paid for.                                 *)
THEOREM RunsAreBounded == Spec => []BoundedRuns
<1>1. IInv => BoundedRuns
  <2>1. SUFFICES ASSUME IInv, NEW i \in Id
                 PROVE  starts[i] <= Retries * (1 + recovered[i])
    BY DEF BoundedRuns
  <2>2. /\ IsFiniteSet(Tickets(i))
        /\ starts[i] + Cardinality(Tickets(i)) <= Retries * (1 + recovered[i])
    BY <2>1 DEF IInv, TriesPaid
  <2>3. Cardinality(Tickets(i)) \in Nat
    BY <2>2, FS_CardinalityType
  <2>4. starts[i] \in Nat /\ Retries * (1 + recovered[i]) \in Nat
    BY <2>1, CountTypes DEF IInv
  <2>5. QED
    BY <2>2, <2>3, <2>4
<1>2. QED
  BY <1>1, JobsInvariant, PTL

(* The lists, the loops of the workers and the seeding keep their shapes.   *)
THEOREM TypeCorrect == Spec => []TypeOK
<1>1. IInv => TypeOK
  BY DEF IInv, QueueInv
<1>2. QED
  BY <1>1, JobsInvariant, PTL

(* An enqueued job has run to its end, is in a list or in the hands of a    *)
(* worker, or was dropped between its LREM and its LPUSH: no other crash,   *)
(* error, recovery or dispatch loses one.                                   *)
THEOREM JobsNotLost == Spec => []NoJobLost
<1>1. IInv => NoJobLost
  BY DEF IInv, QueueInv
<1>2. QED
  BY <1>1, JobsInvariant, PTL

(* A job in FAILED was started at least Retries times.                      *)
THEOREM FailuresHadTries == Spec => []FailedHadTries
<1>1. IInv => FailedHadTries
  BY DEF IInv, QueueInv
<1>2. QED
  BY <1>1, JobsInvariant, PTL

LEMMA PlacesAreOne ==
  ASSUME QueueInv, NEW i \in Id, recovered[i] = 0, NEW p \in Places(i), NEW q \in Places(i)
  PROVE  p = q
<1>1. OnePlace(i)
  BY DEF QueueInv
<1> DEFINE In(x) ==
      \/ \E n \in DOMAIN queue : x = <<"queue", n>> /\ queue[n].id = i
      \/ \E n \in DOMAIN processing : x = <<"processing", n>> /\ processing[n].id = i
      \/ \E e \in scheduled : x = <<"scheduled", e>> /\ e.job.id = i
      \/ \E j \in failed : x = <<"failed", j>> /\ j.id = i
      \/ \E w \in Workers : /\ x = <<"push", w>>
                            /\ worker[w].pc = "push" /\ worker[w].job.id = i
<1>2. ASSUME NEW x \in Places(i) PROVE In(x)
  BY DEF Places
<1>3. In(p) /\ In(q)
  BY <1>2
<1>4. ASSUME NEW w \in Workers, worker[w].pc = "push", worker[w].job.id = i
      PROVE  Runs(w, i)
  BY <1>4 DEF Runs, Busy
<1>5. CASE \E n \in DOMAIN queue : p = <<"queue", n>> /\ queue[n].id = i
  <2>1. Queued(i)
    BY <1>5 DEF Queued
  <2>2. /\ ~ Scheduled(i) /\ ~ Failed(i) /\ \A w \in Workers : ~ Runs(w, i)
        /\ \A n \in DOMAIN processing : processing[n].id # i
    BY <1>1, <2>1 DEF OnePlace
  <2>3. \E n \in DOMAIN queue : q = <<"queue", n>> /\ queue[n].id = i
    BY <1>3, <1>4, <2>2 DEF Scheduled, Failed
  <2>4. QED
    BY <1>1, <1>5, <2>3 DEF OnePlace, AtMostOnce
<1>6. CASE \E n \in DOMAIN processing : p = <<"processing", n>> /\ processing[n].id = i
  <2>1. /\ ~ Queued(i) /\ ~ Scheduled(i) /\ ~ Failed(i)
        /\ \A w \in Workers : Runs(w, i) => worker[w].pc # "push"
    BY <1>1, <1>6 DEF OnePlace
  <2>2. \E n \in DOMAIN processing : q = <<"processing", n>> /\ processing[n].id = i
    BY <1>3, <1>4, <2>1 DEF Scheduled, Failed, Queued
  <2>3. QED
    BY <1>1, <1>6, <2>2 DEF OnePlace, AtMostOnce
<1>7. CASE \E e \in scheduled : p = <<"scheduled", e>> /\ e.job.id = i
  <2>1. Scheduled(i)
    BY <1>7 DEF Scheduled
  <2>2. /\ ~ Queued(i) /\ ~ Failed(i) /\ \A w \in Workers : ~ Runs(w, i)
        /\ \A n \in DOMAIN processing : processing[n].id # i
    BY <1>1, <2>1 DEF OnePlace
  <2>3. \E e \in scheduled : q = <<"scheduled", e>> /\ e.job.id = i
    BY <1>3, <1>4, <2>2 DEF Queued, Failed
  <2>4. QED
    BY <1>1, <1>7, <2>3 DEF OnePlace
<1>8. CASE \E j \in failed : p = <<"failed", j>> /\ j.id = i
  <2>1. Failed(i)
    BY <1>8 DEF Failed
  <2>2. /\ ~ Queued(i) /\ ~ Scheduled(i) /\ \A w \in Workers : ~ Runs(w, i)
        /\ \A n \in DOMAIN processing : processing[n].id # i
    BY <1>1, <2>1 DEF OnePlace
  <2>3. \E j \in failed : q = <<"failed", j>> /\ j.id = i
    BY <1>3, <1>4, <2>2 DEF Queued, Scheduled
  <2>4. QED
    BY <1>1, <1>8, <2>3 DEF OnePlace
<1>9. CASE \E w \in Workers : /\ p = <<"push", w>>
                              /\ worker[w].pc = "push" /\ worker[w].job.id = i
  <2>1. PICK w \in Workers : p = <<"push", w>> /\ worker[w].pc = "push" /\ Runs(w, i)
    BY <1>4, <1>9
  <2>2. /\ ~ Queued(i) /\ ~ Scheduled(i) /\ ~ Failed(i)
        /\ \A n \in DOMAIN processing : processing[n].id # i
        /\ \A v \in Workers : Runs(v, i) => v = w
    BY <1>1, <2>1 DEF OnePlace
  <2>3. \E v \in Workers : q = <<"push", v>> /\ Runs(v, i)
    BY <1>3, <1>4, <2>2 DEF Queued, Scheduled, Failed
  <2>4. QED
    BY <2>1, <2>2, <2>3
<1>10. QED
  BY <1>3, <1>5, <1>6, <1>7, <1>8, <1>9

(* A job that no recovery took for stuck is in one place, whatever fails:   *)
(* a retry leaves nothing in PROCESSING and a dispatch nothing behind.      *)
THEOREM OneCopyOnly == Spec => []OneCopy
<1>1. IInv => OneCopy
  BY PlacesAreOne DEF IInv, OneCopy
<1>2. QED
  BY <1>1, JobsInvariant, PTL

(* Where no payload holds the name of a periodic job, a chain the scheduler *)
(* has seeded has a job that waits, is due, is run or is being put back, or *)
(* since that seeding a worker died with a job of the chain, one failed for *)
(* the last time, or one was lost between LREM and LPUSH.  An entry left in *)
(* PROCESSING does not count, and every restart of the scheduler, idle or   *)
(* not, seeds again.                                                        *)
THEOREM ChainsStayAlive ==
  ASSUME PlainTexts
  PROVE  Spec => []ChainAlive
<1>1. IInv => ChainAlive
  BY DEF IInv, ChainInv
<1>2. QED
  BY <1>1, JobsInvariant, PTL
=============================================================================
