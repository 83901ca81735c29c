------------------------------ MODULE JobQueue ------------------------------
(***************************************************************************)
(* The background jobs: enqueue() of app/jobs/queue.py, the worker loop,   *)
(* the dispatcher and the seeding of the scheduler, and the handler        *)
(* recover_stuck_jobs.  Every await of Redis is a step; the processes die  *)
(* and are restarted ("restart: unless-stopped" in the compose file).      *)
(*                                                                         *)
(* A list entry is the JSON text of a job, so LREM finds exactly the equal *)
(* record.  Lists grow at the left (LPUSH) and are popped at the right.    *)
(***************************************************************************)
EXTENDS Naturals, FiniteSets, SequencesExt

CONSTANTS Workers,   \* worker() loops
          Scheduler, \* the one that runs in the process of the scheduler
          Seeds,     \* the job types main() seeds, in order
          Texts,     \* what a payload can say
          Retries,   \* retries of a new job
          StuckAge,  \* seconds after which a job is stuck, in ticks
          Delay,     \* delay with which a periodic job is rescheduled
          Faults,    \* "error": an await in the try of worker() raises;
                     \* "crash": a process dies, or an await outside it raises
          MaxJobs,   \* bound: jobs enqueued
          MaxClock,  \* bound: ticks
          MaxRescue, \* bound: jobs requeued as stuck before the next is taken
          NULL

Periodic == {"cleanup_expired", "recover_stuck_jobs"}

ASSUME QueueAssumption ==
    /\ Scheduler \in Workers
    /\ Seeds \in Seq(Periodic)
    /\ Retries \in Nat \ {0} /\ StuckAge \in Nat /\ Delay \in Nat \ {0}
    /\ MaxJobs \in Nat /\ MaxClock \in Nat /\ MaxRescue \in Nat
    /\ Faults \subseteq {"error", "crash"}
    /\ NULL \notin Periodic

VARIABLES queue,      \* settings.QUEUE
          processing, \* settings.PROCESSING
          failed,     \* settings.FAILED
          scheduled,  \* the sorted set jobs:scheduled
          worker,     \* worker[w]: where the loop stands
          boot,       \* how far the scheduler is with seeding
          clock,      \* time.time()
          issued,     \* jobs enqueued so far; their ids are 1..issued
          starts,     \* history: starts[i], how often job i was popped
          recovered,  \* history: recovered[i], how often job i was requeued
          done,       \* history: jobs whose handler has returned
          dropped,    \* history: jobs lost between an LREM and its LPUSH
          broken      \* history: chains that lost a job since the last seeding

lists == <<queue, processing, failed, scheduled>>
history == <<starts, recovered, done, dropped, broken>>
vars == <<lists, worker, boot, clock, issued, history>>
-----------------------------------------------------------------------------
Id == 1..MaxJobs

(* cleanup_expired stands for flush_views_to_db too, index_snippet for     *)
(* remove_snippet_index.  since is processing_started_at, or created_at.   *)
Type == Periodic \cup {"index_snippet"}

Job == [id : Id, type : Type, text : Texts \cup {NULL}, retries : 1..Retries,
        since : Nat]

FailedJob == [id : Id, type : Type, text : Texts \cup {NULL}, retries : {0},
              since : Nat]

Loop == [pc   : {"idle", "run", "take", "give", "remove", "retract", "push"},
         job  : Job \cup {NULL},
         todo : Seq(Job),    \* recover_stuck_jobs: the jobs it has yet to see
         now  : Nat]         \* recover_stuck_jobs: its clock

Idle == [pc |-> "idle", job |-> NULL, todo |-> << >>, now |-> 0]

Boot == [todo : Seq(Periodic), pc : {"queue", "scheduled", "push"},
         found : BOOLEAN]

Booting == [todo |-> Seeds, pc |-> "queue", found |-> FALSE]

Init ==
    /\ queue = << >> /\ processing = << >>
    /\ failed = {} /\ scheduled = {}
    /\ worker = [w \in Workers |-> Idle]
    /\ boot = Booting
    /\ clock = 0 /\ issued = 0
    /\ starts = [i \in Id |-> 0] /\ recovered = [i \in Id |-> 0]
    /\ done = {} /\ dropped = {} /\ broken = {}

Goto(w, rec) == worker' = [worker EXCEPT ![w] = rec]

Lpush(j) == queue' = <<j>> \o queue

(* LREM processing 1 j *)
Lrem(j) == processing' = RemoveFirst(processing, j)

NewJob(type, text) ==
    [id |-> issued + 1, type |-> type, text |-> text, retries |-> Retries,
     since |-> clock]
-----------------------------------------------------------------------------
(* enqueue() by a call of the API. *)
Enqueue ==
    /\ issued < MaxJobs
    /\ \E x \in Texts : Lpush(NewJob("index_snippet", x))
    /\ issued' = issued + 1
    /\ UNCHANGED <<processing, failed, scheduled, worker, boot, clock, history>>

(* Mutant: BRPOP, the job is only in the memory of the worker. *)
NotClaimed(j) == processing

(* BRPOPLPUSH moves the job, and PROCESSING holds it while it runs. *)
Claimed(j) == <<j>> \o processing

Pop(w) ==
    /\ worker[w].pc = "idle"
    /\ w = Scheduler => boot.todo = << >>
    /\ queue # << >>
    /\ LET j == Last(queue) IN
       /\ queue' = Front(queue)
       /\ processing' = Claimed(j)
       /\ Goto(w, [Idle EXCEPT !.pc = "run", !.job = j])
       /\ starts' = [starts EXCEPT ![j.id] = @ + 1]
    /\ UNCHANGED <<failed, scheduled, boot, clock, issued, recovered, done,
                   dropped, broken>>

(* BRPOPLPUSH times out after 30 seconds: job_data is None. *)
PopTimeout(w) ==
    /\ worker[w].pc = "idle" /\ queue = << >>
    /\ UNCHANGED vars

(* index_snippet or remove_index does its work, in other keys of Redis. *)
Handle(w) ==
    /\ worker[w].pc = "run" /\ worker[w].job.type = "index_snippet"
    /\ Goto(w, [worker[w] EXCEPT !.pc = "remove"])
    /\ done' = done \cup {worker[w].job.id}
    /\ UNCHANGED <<lists, boot, clock, issued, starts, recovered, dropped,
                   broken>>

Stuck(j, now) == now > j.since + StuckAge

(* The rest of what LRANGE returned, from the next stuck job on. *)
FromStuck(s, now) ==
    LET found == {n \in DOMAIN s : Stuck(s[n], now)}
    IN IF found = {} THEN << >> ELSE SubSeq(s, Min(found), Len(s))

(* A periodic handler: recover_stuck_jobs takes LRANGE of PROCESSING and    *)
(* the clock, the others do what they do outside these lists ...            *)
Scan(w) ==
    /\ worker[w].pc = "run" /\ worker[w].job.type \in Periodic
    /\ Goto(w, [worker[w] EXCEPT
                   !.pc = "take", !.now = clock,
                   !.todo = IF worker[w].job.type = "recover_stuck_jobs"
                            THEN FromStuck(processing, clock) ELSE << >>])
    /\ UNCHANGED <<lists, boot, clock, issued, history>>

(* ... LREM of the next stuck job, whether or not it is still there ... *)
Take(w) ==
    /\ worker[w].pc = "take" /\ worker[w].todo # << >>
    /\ SumFunction(recovered) < MaxRescue
    /\ Lrem(Head(worker[w].todo))
    /\ Goto(w, [worker[w] EXCEPT !.pc = "give"])
    /\ UNCHANGED <<queue, failed, scheduled, boot, clock, issued, history>>

(* ... LPUSH of the same job with a new processing_started_at. *)
Give(w) ==
    /\ worker[w].pc = "give"
    /\ LET j == Head(worker[w].todo) IN
       /\ Lpush([j EXCEPT !.since = worker[w].now])
       /\ recovered' = [recovered EXCEPT ![j.id] = @ + 1]
    /\ Goto(w, [worker[w] EXCEPT
                   !.pc = "take",
                   !.todo = FromStuck(Tail(worker[w].todo), worker[w].now)])
    /\ UNCHANGED <<processing, failed, scheduled, boot, clock, issued, starts,
                   done, dropped, broken>>

(* The next job of a chain: zadd at int(time.time()) + delay. *)
Again(j) == {[job |-> NewJob(j.type, NULL), at |-> clock + Delay]}

(* The last await of a periodic handler: enqueue() of its successor. *)
Reschedule(w) ==
    /\ worker[w].pc = "take" /\ worker[w].todo = << >>
    /\ issued < MaxJobs
    /\ scheduled' = scheduled \cup Again(worker[w].job)
    /\ issued' = issued + 1
    /\ done' = done \cup {worker[w].job.id}
    /\ Goto(w, [worker[w] EXCEPT !.pc = "remove", !.now = 0])
    /\ UNCHANGED <<queue, processing, failed, boot, clock, starts, recovered,
                   dropped, broken>>

(* The job is finished. *)
FinishJob(w) ==
    /\ worker[w].pc = "remove"
    /\ Lrem(worker[w].job)
    /\ Goto(w, Idle)
    /\ UNCHANGED <<queue, failed, scheduled, boot, clock, issued, history>>

(* The jobs that are in no list, between an LREM and its LPUSH. *)
InHand(w) ==
    CASE worker[w].pc = "push" -> {worker[w].job}
      [] worker[w].pc = "give" -> {Head(worker[w].todo)}
      [] OTHER -> {}

Ids(S) == {j.id : j \in S}

(* What is remembered of them when they are lost. *)
Dropped(w) == {[id |-> j.id, type |-> j.type] : j \in InHand(w)}

(* The job a worker still runs or puts back: one that it only has to take  *)
(* out of PROCESSING has enqueued its successor.                           *)
AtWork(w) ==
    IF worker[w].pc \in {"idle", "remove"} THEN {} ELSE {worker[w].job}

(* A chain breaks where one of its jobs is lost, left or given up. *)
Breaks(S) == broken' = broken \cup (Periodic \cap {j.type : j \in S})

(* An await of the handler raises, or the LREM after it, which Redis may   *)
(* have executed: the except branch takes over.                            *)
Raise(w) ==
    /\ "error" \in Faults
    /\ worker[w].pc \in {"run", "take", "give", "remove"}
    /\ Goto(w, [worker[w] EXCEPT !.pc = "retract", !.todo = << >>,
                                 !.now = 0])
    /\ \/ UNCHANGED processing
       \/ worker[w].pc = "remove" /\ Lrem(worker[w].job)
    /\ dropped' = dropped \cup Dropped(w)
    /\ Breaks(InHand(w))
    /\ UNCHANGED <<queue, failed, scheduled, boot, clock, issued, starts,
                   recovered, done>>

(* Mutant: LREM of the job with its retries already counted down. *)
EditedEntry(w) == [worker[w].job EXCEPT !.retries = @ - 1]

(* job_data, the text the worker popped. *)
Entry(w) == worker[w].job

(* The except branch: LREM ... *)
Retract(w) ==
    /\ worker[w].pc = "retract"
    /\ Lrem(Entry(w))
    /\ Goto(w, [worker[w] EXCEPT !.pc = "push"])
    /\ UNCHANGED <<queue, failed, scheduled, boot, clock, issued, history>>

(* Mutants: retries never run out; the last try is given away; one more    *)
(* try than there is.                                                      *)
SameRetries(j) == j.retries
TriesLeft(n) == n > 1
OneMoreTry(n) == n >= 0

(* job.get("retries", 3) - 1 *)
CountDown(j) == j.retries - 1

(* if retries > 0 *)
MayRetry(n) == n > 0

(* Mutant: the retry is pushed to PROCESSING, where nobody looks. *)
Misplaced(j) == processing' = <<j>> \o processing /\ UNCHANGED <<queue, failed>>

Retry(j) == Lpush(j) /\ UNCHANGED <<processing, failed>>

(* ... then LPUSH, to QUEUE again or to FAILED. *)
Push(w) ==
    /\ worker[w].pc = "push"
    /\ LET n == CountDown(worker[w].job)
           j == [worker[w].job EXCEPT !.retries = n]
       IN IF MayRetry(n)
          THEN Retry(j) /\ Breaks({})
          ELSE /\ failed' = failed \cup {j} /\ Breaks({j})
               /\ UNCHANGED <<queue, processing>>
    /\ Goto(w, Idle)
    /\ UNCHANGED <<scheduled, boot, clock, issued, starts, recovered, done,
                   dropped>>

(* The process dies, by itself, with the dispatcher, or because an await   *)
(* outside the try raises, and is restarted.  What an idle worker forgets  *)
(* is nothing, but the scheduler, idle or not, then seeds again.           *)
Crash(w) ==
    /\ "crash" \in Faults
    /\ worker[w].pc # "idle" \/ w = Scheduler
    /\ Goto(w, Idle)
    /\ dropped' = dropped \cup Dropped(w)
    /\ IF w = Scheduler
       THEN boot' = Booting /\ broken' = {}
       ELSE UNCHANGED boot /\ Breaks(AtWork(w) \cup InHand(w))
    /\ UNCHANGED <<lists, clock, issued, starts, recovered, done>>
-----------------------------------------------------------------------------
(* enqueue_initial_job: LRANGE of QUEUE, ZRANGE of jobs:scheduled, then    *)
(* the LPUSH unless the name of the job occurs in the text of one of them. *)

Mentions(j, type) == j.type = type \/ j.text = type

SeedReadQueue ==
    /\ boot.todo # << >> /\ boot.pc = "queue"
    /\ boot' = [boot EXCEPT !.pc = "scheduled",
                  !.found = \E j \in ToSet(queue) : Mentions(j, Head(boot.todo))]
    /\ UNCHANGED <<lists, worker, clock, issued, history>>

(* Mutant: a job in PROCESSING counts as one that will run again. *)
InAnyList(type) ==
    \E j \in {e.job : e \in scheduled} \cup ToSet(processing) : Mentions(j, type)

InScheduled(type) == \E e \in scheduled : Mentions(e.job, type)

SeedReadScheduled ==
    /\ boot.todo # << >> /\ boot.pc = "scheduled"
    /\ boot' = IF boot.found \/ InScheduled(Head(boot.todo))
               THEN [Booting EXCEPT !.todo = Tail(boot.todo)]
               ELSE [boot EXCEPT !.pc = "push"]
    /\ UNCHANGED <<lists, worker, clock, issued, history>>

SeedPush ==
    /\ boot.todo # << >> /\ boot.pc = "push"
    /\ issued < MaxJobs
    /\ Lpush(NewJob(Head(boot.todo), NULL))
    /\ issued' = issued + 1
    /\ boot' = [Booting EXCEPT !.todo = Tail(boot.todo)]
    /\ UNCHANGED <<processing, failed, scheduled, worker, clock, history>>

Due == {e \in scheduled : e.at <= clock}

(* dispatch_scheduled_jobs: one transaction moves the jobs that are due,   *)
(* in the order of their scores.  Nothing else removes from jobs:scheduled *)
(* and new jobs are not due, so the read before it is part of the step.    *)
Dispatch ==
    /\ boot.todo = << >> /\ Due # {}
    /\ \E order \in SetToSeqs(Due) :
          /\ \A m, n \in DOMAIN order : m < n => order[m].at <= order[n].at
          /\ queue' = Reverse([n \in DOMAIN order |-> order[n].job]) \o queue
    /\ scheduled' = scheduled \ Due
    /\ UNCHANGED <<processing, failed, worker, boot, clock, issued, history>>

Tick ==
    /\ clock < MaxClock
    /\ clock' = clock + 1
    /\ UNCHANGED <<lists, worker, boot, issued, history>>

Seed == SeedReadQueue \/ SeedReadScheduled \/ SeedPush

Proceed(w) ==
    \/ Pop(w) \/ Handle(w) \/ Scan(w) \/ Take(w) \/ Give(w) \/ Reschedule(w)
    \/ FinishJob(w) \/ Retract(w) \/ Push(w)

Next ==
    \/ Enqueue \/ Seed \/ Dispatch \/ Tick
    \/ \E w \in Workers : PopTimeout(w) \/ Proceed(w) \/ Raise(w) \/ Crash(w)

Spec == Init /\ [][Next]_vars

(* The event loop of each process runs what can run. *)
FairSpec ==
    Spec /\ WF_vars(Seed) /\ WF_vars(Dispatch)
         /\ \A w \in Workers : WF_vars(Proceed(w))
-----------------------------------------------------------------------------
TypeOK ==
    /\ queue \in Seq(Job) /\ processing \in Seq(Job)
    /\ failed \subseteq FailedJob
    /\ scheduled \subseteq [job : Job, at : Nat]
    /\ worker \in [Workers -> Loop]
    /\ boot \in Boot
    /\ clock \in 0..MaxClock /\ issued \in 0..MaxJobs
    /\ starts \in [Id -> Nat] /\ recovered \in [Id -> Nat]
    /\ done \subseteq 1..issued
    /\ dropped \subseteq [id : Id, type : Type]
    /\ broken \subseteq Periodic

(* The jobs somebody will still look at, or that are kept as failed. *)
Kept ==
    ToSet(queue) \cup ToSet(processing) \cup failed
      \cup {e.job : e \in scheduled} \cup UNION {InHand(w) : w \in Workers}

(* A job that was enqueued has run to its end, or is in a list, or is      *)
(* between the LREM and the LPUSH of one worker: it is lost only if that   *)
(* very window is hit, never by a crash of the worker that runs it, by a   *)
(* recovery of a job that is not stuck, or by two recoveries at once.      *)
NoJobLost == \A i \in 1..issued : i \in done \cup Ids(Kept \cup dropped)

(* At least once, but not without end: a job is run at most Retries times, *)
(* and Retries times more for each time it was taken for stuck, however    *)
(* the copies a recovery makes fail, finish or are recovered again.        *)
BoundedRuns == \A i \in Id : starts[i] <= Retries * (1 + recovered[i])

(* No job is given up before it has been run Retries times. *)
FailedHadTries == \A j \in failed : starts[j.id] >= Retries

(* Where a copy of job i is that somebody will act on. *)
Places(i) ==
    {<<"queue", n>> : n \in {m \in DOMAIN queue : queue[m].id = i}}
      \cup {<<"processing", n>> :
               n \in {m \in DOMAIN processing : processing[m].id = i}}
      \cup {<<"scheduled", e>> : e \in {x \in scheduled : x.job.id = i}}
      \cup {<<"failed", j>> : j \in {x \in failed : x.id = i}}
      \cup {<<"push", w>> :
               w \in {v \in Workers : worker[v].pc = "push"
                                        /\ worker[v].job.id = i}}

(* Until a recovery takes it for stuck a job is in one place only, so no   *)
(* two workers run it, and a retry leaves nothing behind in PROCESSING.    *)
OneCopy ==
    \A i \in Id : recovered[i] = 0 => \A p, q \in Places(i) : p = q

(* The jobs somebody is going to act on without being told to: an entry of *)
(* PROCESSING that no worker holds is not among them.                      *)
Active ==
    ToSet(queue) \cup {e.job : e \in scheduled}
      \cup UNION {AtWork(w) \cup InHand(w) : w \in Workers}

Acting(type) == \E j \in Active : j.type = type

(* From the moment the scheduler has seeded a periodic chain, found it in  *)
(* the lists or pushed its job, the chain has a job that waits, is due, is *)
(* run or is being put back.  It ends in three ways only: a worker dies    *)
(* with a job of it, a job of it fails for the last time, or one is lost   *)
(* between LREM and LPUSH; and each restart of the scheduler, idle or not, *)
(* starts it anew, whatever stuck entry or finished copy the seeding meets *)
(* in the lists.                                                           *)
ChainAlive ==
    \A type \in ToSet(Seeds) \ ToSet(boot.todo) : Acting(type) \/ type \in broken

(* The inductive invariant behind the properties. *)

Busy(w) == worker[w].pc # "idle"

LoopOK(q) ==
    /\ q.pc # "idle" => q.job \in Job
    /\ q.pc = "give" => q.todo # << >>
    /\ q.pc = "remove" => q.job.id \in done

Running == {worker[w].job : w \in {v \in Workers : Busy(v)}}

Found == UNION {ToSet(worker[w].todo) : w \in Workers}

(* Each try of a job that is gone from its count was a start of it. *)
TriesCounted ==
    /\ \A j \in ToSet(queue) \cup {e.job : e \in scheduled} :
          starts[j.id] + j.retries >= Retries
    /\ \A j \in ToSet(processing) \cup Running \cup Found :
          starts[j.id] + j.retries > Retries

(* What the copies of a job have in common. *)
Tag(j) == [id |-> j.id, type |-> j.type]

Held == {Tag(j) : j \in Kept \cup dropped}

Seen == Held \cup {Tag(j) : j \in Running \cup Found}

TagsOK ==
    LET seen == Seen IN
    /\ \A x \in seen : x.id \in 1..issued
    /\ \A x, y \in seen : x.id = y.id => x = y

(* No payload is taken for the name of a periodic job. *)
PlainTexts == Texts \cap Periodic = {}

(* A chain the seeding has found in QUEUE it will not seed. *)
ChainInv ==
    PlainTexts =>
        /\ ChainAlive
        /\ boot.todo # << >> /\ boot.found =>
              Acting(Head(boot.todo)) \/ Head(boot.todo) \in broken

AtMostOnce(s, i) ==
    \A m, n \in DOMAIN s : s[m].id = i /\ s[n].id = i => m = n

Queued(i) == \E n \in DOMAIN queue : queue[n].id = i
Scheduled(i) == \E e \in scheduled : e.job.id = i
Failed(i) == \E j \in failed : j.id = i
Runs(w, i) == Busy(w) /\ worker[w].job.id = i

(* One copy waits, runs or has failed; the entry in PROCESSING is that of  *)
(* the worker that runs it, or nobody does.                                *)
OnePlace(i) ==
    /\ AtMostOnce(queue, i) /\ AtMostOnce(processing, i)
    /\ \A e, f \in scheduled : e.job.id = i /\ f.job.id = i => e = f
    /\ \A j, k \in failed : j.id = i /\ k.id = i => j = k
    /\ \A v, w \in Workers : Runs(v, i) /\ Runs(w, i) => v = w
    /\ Queued(i) => ~ Scheduled(i) /\ ~ Failed(i)
    /\ Scheduled(i) => ~ Failed(i)
    /\ \A w \in Workers : Runs(w, i) =>
          ~ Queued(i) /\ ~ Scheduled(i) /\ ~ Failed(i)
    /\ \A n \in DOMAIN processing : processing[n].id = i =>
          /\ ~ Queued(i) /\ ~ Scheduled(i) /\ ~ Failed(i)
          /\ \A w \in Workers : Runs(w, i) =>
                worker[w].pc # "push" /\ worker[w].job = processing[n]

QueueInv ==
    /\ TypeOK /\ IsFiniteSet(scheduled)
    /\ \A w \in Workers : LoopOK(worker[w])
    /\ TriesCounted /\ FailedHadTries
    /\ TagsOK /\ NoJobLost
    /\ \A i \in Id : recovered[i] = 0 => OnePlace(i)

(* The tries the copies of job i may still get: what its retries say where  *)
(* it waits, one less where it runs.                                        *)
Tickets(i) ==
    {t \in {"queue"} \X (DOMAIN queue) \X (1..Retries) :
        queue[t[2]].id = i /\ t[3] <= queue[t[2]].retries}
      \cup {t \in {"scheduled"} \X scheduled \X (1..Retries) :
               t[2].job.id = i /\ t[3] <= t[2].job.retries}
      \cup {t \in {"worker"} \X Workers \X (1..Retries) :
               Runs(t[2], i) /\ t[3] < worker[t[2]].job.retries}

(* Each enqueue and each recovery pays for Retries tries.                   *)
TriesPaid ==
    \A i \in Id :
        /\ IsFiniteSet(Tickets(i))
        /\ starts[i] + Cardinality(Tickets(i)) <= Retries * (1 + recovered[i])
        /\ i \notin 1..issued => starts[i] = 0

IInv == QueueInv /\ TriesPaid /\ ChainInv

(* Every job is finished or given up, if no process dies. *)
EveryJobEnds ==
    \A i \in Id : i <= issued ~> i \in done \cup Ids(failed)
-----------------------------------------------------------------------------
(* Statements of the repository that the code does not keep.               *)

(* test_recover_stuck_jobs_reschedules_when_no_jobs_are_stuck              *)
(* (tests/test_jobs.py:55) has a run leave one successor, awaited once.    *)
(* With no job stuck but itself, which waited RECOVER_STUCK_JOBS_DELAY_    *)
(* SECONDS and then sits in PROCESSING, a run leaves two: itself again.    *)
OneRecoverChain ==
    Cardinality({j \in ToSet(queue) \cup {e.job : e \in scheduled} :
                    j.type = "recover_stuck_jobs"}) <= 1
=============================================================================
