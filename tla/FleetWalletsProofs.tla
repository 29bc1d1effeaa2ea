--------------------------- MODULE FleetWalletsProofs ---------------------------
(***************************************************************************)
(* Theorems about FleetWallets for any agents, workers, callers, plans,    *)
(* amounts and bounds, infinite sets included.                             *)
(***************************************************************************)
EXTENDS FleetWallets, FiniteSums, SequenceTheorems

RowType == [agent : Agents, plan : Plan]
JobType == [type : JobTypes, agent : Agents, status : {"queued", "complete", "failed"},
            amount : Nat, sent : Nat, posted : Nat]
WorkerType ==
    [pc : {"idle", "next", "run", "sweep", "emptied", "mark", "post", "scan", "evaluate"},
     todo : SUBSET Nat, rows : SUBSET RowType, row : SUBSET RowType, job : Nat, amount : Nat]
CallType == [pc : {"none"}, agent : Agents \cup {"none"}, plan : Plan, seen : Nat]
            \cup [pc : {"asked", "seen", "provision"}, agent : Agents, plan : Plan, seen : Nat]
LateType == [agent : Agents, amount : Nat, job : Nat]
AllocType == [status : {"none", "active", "revoked"}, plan : Plan]

-----------------------------------------------------------------------------
(* The inductive invariant. *)

MoneyTypes ==
    /\ wallet \in [Agents -> {"none", "active", "swept"}]
    /\ balance \in [Agents -> Nat] /\ treasury \in Nat
    /\ late \subseteq LateType /\ calls \in Nat /\ crashes \in Nat

WorkTypes ==
    /\ jobs \in Seq(JobType)
    /\ lock \in Workers \cup {Free}
    /\ worker \in [Workers -> WorkerType]

AllocTypes ==
    /\ deposits \in Nat /\ peak \in Nat
    /\ alloc \in [Agents -> AllocType]
    /\ call \in [Callers -> CallType]

\* The worker is in the middle of a job, under the org's lock.
Busy(w) == worker[w].pc \in {"run", "sweep", "emptied", "mark", "post"}

\* What a busy worker has done for its job: whatever it may go on to post, it
\* has sent once more than was ever posted.
Phase(w) ==
    /\ worker[w].pc \in {"sweep", "emptied"} => Job(w).type = "sweep"
    /\ worker[w].pc \in {"emptied", "post"} => Job(w).posted < Job(w).sent
    /\ worker[w].pc = "mark" /\ Job(w).type # "create" => Job(w).posted < Job(w).sent

JobsInv ==
    /\ \A w \in Workers : worker[w].todo \subseteq DOMAIN jobs
    /\ \A w \in Workers : Busy(w) => lock = w /\ worker[w].job \in DOMAIN jobs /\ Phase(w)
    /\ PostingsBacked /\ OnePendingTopUp

\* Agents with an active allocation.
Active == {a \in Agents : alloc[a].status = "active"}

AllocInv ==
    /\ IsFiniteSet(Active)
    /\ deposits <= peak
    /\ \A c \in Callers : call[c].pc = "seen" => call[c].seen <= peak
    /\ AllocationsWithinDeposits

FleetInv == MoneyTypes /\ WorkTypes /\ AllocTypes /\ JobsInv /\ AllocInv

-----------------------------------------------------------------------------
(* Jobs. *)

\* The row of one job changes: its postings stay backed, and it is queued only
\* if it was.
LEMMA JobWritten ==
    ASSUME WorkTypes, PostingsBacked, OnePendingTopUp, NEW i \in DOMAIN jobs, NEW r \in JobType,
           jobs' = [jobs EXCEPT ![i] = r], r.type = jobs[i].type, r.agent = jobs[i].agent,
           r.status = "queued" => jobs[i].status = "queued", r.posted <= r.sent
    PROVE  /\ jobs' \in Seq(JobType) /\ DOMAIN jobs' = DOMAIN jobs /\ jobs'[i] = r
           /\ PostingsBacked' /\ OnePendingTopUp'
<1>1. jobs \in Seq(JobType) /\ DOMAIN jobs = 1 .. Len(jobs) /\ i \in 1 .. Len(jobs)
  BY LenProperties DEF WorkTypes
<1>2. jobs' \in Seq(JobType) /\ Len(jobs') = Len(jobs) /\ jobs'[i] = r
      /\ \A j \in 1 .. Len(jobs) : j # i => jobs'[j] = jobs[j]
  BY <1>1, ExceptSeq
<1>3. DOMAIN jobs' = DOMAIN jobs
  BY <1>1, <1>2, LenProperties
<1>4. PostingsBacked'
  BY <1>1, <1>2, <1>3 DEF PostingsBacked
<1>5. \A j \in DOMAIN jobs : jobs'[j].type = jobs[j].type /\ jobs'[j].agent = jobs[j].agent
                             /\ (jobs'[j].status = "queued" => jobs[j].status = "queued")
  BY <1>1, <1>2
<1>6. OnePendingTopUp'
  BY <1>3, <1>5 DEF OnePendingTopUp
<1> QED
  BY <1>2, <1>3, <1>4, <1>6

\* A new job; a top-up only when none waits for the agent.
LEMMA JobQueued ==
    ASSUME WorkTypes, PostingsBacked, OnePendingTopUp, NEW type \in JobTypes, NEW a \in Agents,
           NEW x \in Nat, jobs' = Append(jobs, NewJob(type, a, x)),
           type = "topup" => ~Queued("topup", a)
    PROVE  /\ jobs' \in Seq(JobType) /\ DOMAIN jobs \subseteq DOMAIN jobs'
           /\ \A i \in DOMAIN jobs : jobs'[i] = jobs[i]
           /\ PostingsBacked' /\ OnePendingTopUp'
<1> DEFINE r == NewJob(type, a, x)
           n == Len(jobs) + 1
<1>1. r \in JobType /\ r.type = type /\ r.agent = a /\ r.posted = 0 /\ r.sent = 0
  BY DEF NewJob, JobType
<1>2. jobs \in Seq(JobType) /\ DOMAIN jobs = 1 .. Len(jobs) /\ Len(jobs) \in Nat
  BY LenProperties DEF WorkTypes
<1> HIDE DEF r
<1>3. jobs' \in Seq(JobType) /\ Len(jobs') = n /\ jobs'[n] = r
      /\ \A j \in 1 .. Len(jobs) : jobs'[j] = jobs[j]
  BY <1>1, <1>2, AppendProperties DEF r
<1>4. DOMAIN jobs' = DOMAIN jobs \cup {n} /\ n \notin DOMAIN jobs
  BY <1>2, <1>3, LenProperties
<1>5. \A i \in DOMAIN jobs : jobs'[i] = jobs[i]
  BY <1>2, <1>3
<1>6. PostingsBacked'
  BY <1>1, <1>3, <1>4, <1>5 DEF PostingsBacked
<1>7. OnePendingTopUp'
  <2> SUFFICES ASSUME NEW i \in DOMAIN jobs', NEW j \in DOMAIN jobs',
                      jobs'[i].type = "topup", jobs'[j].type = "topup", jobs'[i].agent = jobs'[j].agent,
                      jobs'[i].status = "queued", jobs'[j].status = "queued"
               PROVE  i = j
    BY DEF OnePendingTopUp
  <2>1. CASE i \in DOMAIN jobs /\ j \in DOMAIN jobs
    BY <2>1, <1>5 DEF OnePendingTopUp
  <2>2. CASE i = n /\ j \in DOMAIN jobs
    <3>1. Queued("topup", a) /\ type = "topup"
      BY <2>2, <1>1, <1>3, <1>5 DEF Queued
    <3> QED
      BY <3>1
  <2>3. CASE j = n /\ i \in DOMAIN jobs
    <3>1. Queued("topup", a) /\ type = "topup"
      BY <2>3, <1>1, <1>3, <1>5 DEF Queued
    <3> QED
      BY <3>1
  <2> QED
    BY <2>1, <2>2, <2>3, <1>4
<1> QED
  BY <1>3, <1>4, <1>5, <1>6, <1>7

\* One worker's row changes.
Others(w) == \A v \in Workers \ {w} : worker'[v] = worker[v]

\* A step of the worker that holds the lock, or takes it while it is free:
\* no other worker is in the middle of a job.
LEMMA HolderStep ==
    ASSUME WorkTypes, JobsInv, NEW w \in Workers, lock \in {w, Free}, NEW r \in WorkerType,
           worker' = [worker EXCEPT ![w] = r], lock' \in {w, Free},
           r.todo \subseteq worker[w].todo,
           jobs' \in Seq(JobType), DOMAIN jobs \subseteq DOMAIN jobs', PostingsBacked', OnePendingTopUp',
           Busy(w)' => lock' = w /\ r.job \in DOMAIN jobs' /\ Phase(w)'
    PROVE  WorkTypes' /\ JobsInv'
<1>1. worker' \in [Workers -> WorkerType] /\ worker'[w] = r /\ Others(w)
  BY DEF WorkTypes, Others
<1>2. WorkTypes'
  BY <1>1 DEF WorkTypes
<1>3. \A v \in Workers \ {w} : ~Busy(v)
  BY FleetAssumption DEF JobsInv
<1>4. \A v \in Workers \ {w} : ~Busy(v)'
  BY <1>1, <1>3 DEF Busy, Others
<1>5. \A v \in Workers : worker'[v].todo \subseteq DOMAIN jobs'
  BY <1>1 DEF JobsInv, Others
<1> QED
  BY <1>1, <1>2, <1>4, <1>5 DEF JobsInv

\* A step outside the lock: the jobs stay or one is added, and the worker that
\* moves, if any, is not in the middle of a job.
LEMMA OutsideStep ==
    ASSUME WorkTypes, JobsInv, lock' = lock, worker' \in [Workers -> WorkerType],
           \A v \in Workers : Busy(v)' => worker'[v] = worker[v],
           \A v \in Workers : worker'[v].todo \subseteq DOMAIN jobs,
           jobs' \in Seq(JobType), DOMAIN jobs \subseteq DOMAIN jobs',
           \A i \in DOMAIN jobs : jobs'[i] = jobs[i], PostingsBacked', OnePendingTopUp'
    PROVE  WorkTypes' /\ JobsInv'
<1>1. WorkTypes'
  BY DEF WorkTypes
<1>2. ASSUME NEW v \in Workers, Busy(v)'
      PROVE  lock' = v /\ worker'[v].job \in DOMAIN jobs' /\ Phase(v)'
  <2>1. worker'[v] = worker[v] /\ Busy(v)
    BY <1>2 DEF Busy
  <2>2. lock = v /\ worker[v].job \in DOMAIN jobs /\ Phase(v)
    BY <2>1 DEF JobsInv
  <2>3. Job(v)' = Job(v)
    BY <2>1, <2>2 DEF Job
  <2> QED
    BY <2>1, <2>2, <2>3 DEF Phase
<1> QED
  BY <1>1, <1>2 DEF JobsInv

-----------------------------------------------------------------------------
(* A worker's pass, one lemma per step. *)

\* The worker's job, while it holds the lock for it.
LEMMA HeldJob ==
    ASSUME WorkTypes, JobsInv, NEW w \in Workers, Busy(w)
    PROVE  /\ lock = w /\ worker[w].job \in DOMAIN jobs /\ Job(w) \in JobType /\ Phase(w)
           /\ Job(w) = jobs[worker[w].job] /\ Job(w).posted <= Job(w).sent /\ worker[w] \in WorkerType
<1>1. lock = w /\ worker[w].job \in DOMAIN jobs /\ Phase(w)
  BY DEF JobsInv
<1>2. jobs[worker[w].job] \in JobType
  BY <1>1, ElementOfSeq, LenProperties DEF WorkTypes
<1> QED
  BY <1>1, <1>2 DEF WorkTypes, JobsInv, PostingsBacked, Job

\* A worker that is done with its job, for good or not, frees the lock.
LEMMA DoneStep ==
    ASSUME WorkTypes, JobsInv, NEW w \in Workers, Busy(w), worker' = Done(w), lock' = Free,
           NEW r \in JobType, jobs' = [jobs EXCEPT ![worker[w].job] = r],
           r.type = Job(w).type, r.agent = Job(w).agent,
           r.status = "queued" => Job(w).status = "queued", r.posted <= r.sent
    PROVE  WorkTypes' /\ JobsInv'
<1> DEFINE row == [worker[w] EXCEPT !.pc = "next", !.job = 0, !.amount = 0]
<1>1. lock = w /\ worker[w].job \in DOMAIN jobs /\ Job(w) = jobs[worker[w].job] /\ worker[w] \in WorkerType
  BY HeldJob
<1>2. worker' = [worker EXCEPT ![w] = row]
  BY DEF Done
<1>3. row \in WorkerType /\ row.todo = worker[w].todo /\ row.pc = "next"
  BY <1>1 DEF WorkerType
<1> HIDE DEF row
<1>4. /\ jobs' \in Seq(JobType) /\ DOMAIN jobs' = DOMAIN jobs
      /\ PostingsBacked' /\ OnePendingTopUp'
  BY <1>1, JobWritten DEF JobsInv
<1>5. ~Busy(w)'
  BY <1>2, <1>3 DEF Busy, WorkTypes
<1> QED
  BY <1>1, <1>2, <1>3, <1>4, <1>5, HolderStep

\* A worker goes on with its job, whose row it may have written.
LEMMA GoOnStep ==
    ASSUME WorkTypes, JobsInv, NEW w \in Workers, Busy(w), lock' = lock,
           NEW row \in WorkerType, worker' = [worker EXCEPT ![w] = row],
           row.todo = worker[w].todo, row.job = worker[w].job,
           row.pc \in {"sweep", "emptied", "mark", "post"},
           NEW r \in JobType, jobs' = [jobs EXCEPT ![worker[w].job] = r],
           r.type = Job(w).type, r.agent = Job(w).agent,
           r.status = "queued" => Job(w).status = "queued", r.posted <= r.sent,
           row.pc \in {"sweep", "emptied"} => r.type = "sweep",
           row.pc \in {"emptied", "post"} => r.posted < r.sent,
           row.pc = "mark" /\ r.type # "create" => r.posted < r.sent
    PROVE  WorkTypes' /\ JobsInv'
<1>1. lock = w /\ worker[w].job \in DOMAIN jobs /\ Job(w) = jobs[worker[w].job]
  BY HeldJob
<1>2. /\ jobs' \in Seq(JobType) /\ DOMAIN jobs' = DOMAIN jobs /\ jobs'[worker[w].job] = r
      /\ PostingsBacked' /\ OnePendingTopUp'
  BY <1>1, JobWritten DEF JobsInv
<1>3. worker'[w] = row
  BY DEF WorkTypes
<1>4. Job(w)' = r
  BY <1>2, <1>3 DEF Job
<1>5. Phase(w)'
  BY <1>3, <1>4 DEF Phase
<1> QED
  BY <1>1, <1>2, <1>5, HolderStep

\* The worker's row with another step, and with another amount as well.
LEMMA RowGoesOn ==
    ASSUME WorkTypes, NEW w \in Workers, NEW x \in Nat,
           NEW pc \in {"sweep", "emptied", "mark", "post", "scan"}
    PROVE  /\ [worker[w] EXCEPT !.pc = pc] \in WorkerType
           /\ [worker[w] EXCEPT !.pc = pc].pc = pc
           /\ [worker[w] EXCEPT !.pc = pc].todo = worker[w].todo
           /\ [worker[w] EXCEPT !.pc = pc].job = worker[w].job
           /\ [worker[w] EXCEPT !.pc = pc, !.amount = x] \in WorkerType
           /\ [worker[w] EXCEPT !.pc = pc, !.amount = x].pc = pc
           /\ [worker[w] EXCEPT !.pc = pc, !.amount = x].todo = worker[w].todo
           /\ [worker[w] EXCEPT !.pc = pc, !.amount = x].job = worker[w].job
<1>1. worker[w] \in WorkerType
  BY DEF WorkTypes
<1> QED
  BY <1>1 DEF WorkerType

\* An unwritten row is the same row.
LEMMA JobUnwritten ==
    ASSUME WorkTypes, NEW i \in DOMAIN jobs, jobs' = jobs
    PROVE  jobs' = [jobs EXCEPT ![i] = jobs[i]]
<1>1. jobs = [j \in 1 .. Len(jobs) |-> jobs[j]]
  BY DEF WorkTypes
<1> QED
  BY <1>1

\* The list of the pass.
LEMMA ListJobsStep ==
    ASSUME WorkTypes, JobsInv, NEW w \in Workers, ListJobs(w)
    PROVE  WorkTypes' /\ JobsInv'
<1> DEFINE T == {i \in DOMAIN jobs : Pending(i)}
           r == [Idle EXCEPT !.pc = "next", !.todo = T]
<1>1. worker' = [worker EXCEPT ![w] = r] /\ UNCHANGED <<jobs, lock>>
  BY DEF ListJobs
<1>2. T \subseteq DOMAIN jobs /\ DOMAIN jobs \subseteq Nat
  BY LenProperties DEF WorkTypes
<1> HIDE DEF T
<1>3. r \in WorkerType /\ r.pc = "next" /\ r.todo = T
  BY <1>2 DEF Idle, WorkerType
<1> HIDE DEF r
<1>4. worker' \in [Workers -> WorkerType] /\ worker'[w] = r /\ Others(w)
  BY <1>1, <1>3 DEF WorkTypes, Others
<1>5. \A v \in Workers : Busy(v)' => worker'[v] = worker[v]
  BY <1>3, <1>4 DEF Others, Busy
<1>6. \A v \in Workers : worker'[v].todo \subseteq DOMAIN jobs
  BY <1>2, <1>3, <1>4 DEF Others, JobsInv
<1>7. PostingsBacked' /\ OnePendingTopUp'
  BY <1>1 DEF JobsInv, PostingsBacked, OnePendingTopUp
<1>8. jobs' \in Seq(JobType) /\ lock' = lock /\ DOMAIN jobs \subseteq DOMAIN jobs'
      /\ \A i \in DOMAIN jobs : jobs'[i] = jobs[i]
  BY <1>1 DEF WorkTypes
<1> QED
  BY <1>4, <1>5, <1>6, <1>7, <1>8, OutsideStep

\* A job is taken with the lock; how far an earlier worker got is not asked.
LEMMA TakeJobStep ==
    ASSUME WorkTypes, JobsInv, NEW w \in Workers, TakeJob(w)
    PROVE  WorkTypes' /\ JobsInv'
<1>1. PICK i \in worker[w].todo :
         worker' = [worker EXCEPT ![w].pc = "run", ![w].job = i, ![w].todo = worker[w].todo \ {i}]
  BY DEF TakeJob
<1> DEFINE r == [worker[w] EXCEPT !.pc = "run", !.job = i, !.todo = worker[w].todo \ {i}]
<1>2. worker' = [worker EXCEPT ![w] = r] /\ lock = Free /\ lock' = w /\ jobs' = jobs
  BY <1>1 DEF TakeJob
<1>3. worker[w] \in WorkerType /\ i \in DOMAIN jobs /\ i \in Nat
  BY LenProperties DEF WorkTypes, JobsInv, WorkerType
<1>4. r \in WorkerType /\ r.pc = "run" /\ r.job = i /\ r.todo \subseteq worker[w].todo
  BY <1>3 DEF WorkerType
<1> HIDE DEF r
<1>5. worker'[w] = r
  BY <1>2 DEF WorkTypes
<1>6. Phase(w)'
  BY <1>4, <1>5 DEF Phase
<1>7. PostingsBacked' /\ OnePendingTopUp' /\ jobs' \in Seq(JobType)
  BY <1>2 DEF JobsInv, PostingsBacked, OnePendingTopUp, WorkTypes
<1>8. lock \in {w, Free} /\ lock' \in {w, Free} /\ DOMAIN jobs \subseteq DOMAIN jobs'
      /\ (Busy(w)' => lock' = w /\ r.job \in DOMAIN jobs' /\ Phase(w)')
  BY <1>2, <1>3, <1>4, <1>6
<1> QED
  BY <1>2, <1>4, <1>7, <1>8, HolderStep

\* The job is closed as failed.
LEMMA JobFailsStep ==
    ASSUME WorkTypes, JobsInv, NEW w \in Workers, JobFails(w)
    PROVE  WorkTypes' /\ JobsInv'
<1> DEFINE r == [Job(w) EXCEPT !.status = "failed"]
<1>1. Busy(w) /\ worker' = Done(w) /\ lock' = Free
  BY DEF JobFails, Busy
<1>2. Job(w) \in JobType /\ Job(w).posted <= Job(w).sent
  BY <1>1, HeldJob
<1>3. jobs' = [jobs EXCEPT ![worker[w].job] = r]
  BY DEF JobFails, Close, Job
<1>4. r \in JobType /\ r.type = Job(w).type /\ r.agent = Job(w).agent /\ r.status = "failed"
      /\ r.posted <= r.sent
  BY <1>2 DEF JobType
<1> HIDE DEF r
<1> QED
  BY <1>1, <1>3, <1>4, DoneStep

\* A wallet is created, or was there.
LEMMA CreateJobStep ==
    ASSUME WorkTypes, JobsInv, NEW w \in Workers, ProcessAgentWalletCreateJob(w)
    PROVE  WorkTypes' /\ JobsInv'
<1> DEFINE row == [worker[w] EXCEPT !.pc = "mark"]
<1>1. /\ Busy(w) /\ Job(w).type = "create" /\ UNCHANGED <<jobs, lock>>
      /\ worker' = [worker EXCEPT ![w] = row]
  BY DEF ProcessAgentWalletCreateJob, Busy
<1>2. /\ worker[w].job \in DOMAIN jobs /\ Job(w) \in JobType /\ Job(w) = jobs[worker[w].job]
      /\ Job(w).posted <= Job(w).sent
  BY <1>1, HeldJob
<1>3. jobs' = [jobs EXCEPT ![worker[w].job] = Job(w)]
  BY <1>1, <1>2, JobUnwritten
<1>4. 0 \in Nat
  OBVIOUS
<1>5. row \in WorkerType /\ row.pc = "mark" /\ row.todo = worker[w].todo /\ row.job = worker[w].job
  BY <1>4, RowGoesOn
<1> HIDE DEF row
<1> QED
  BY <1>1, <1>2, <1>3, <1>5, GoOnStep

\* The row of a job after one more transfer.
LEMMA JobSent ==
    ASSUME NEW j \in JobType, j.posted <= j.sent
    PROVE  LET r == [j EXCEPT !.sent = j.sent + 1]
           IN  /\ r \in JobType /\ r.type = j.type /\ r.agent = j.agent /\ r.status = j.status
               /\ r.posted < r.sent /\ r.posted <= r.sent
<1> DEFINE r == [j EXCEPT !.sent = j.sent + 1]
<1>1. j.sent \in Nat /\ j.posted \in Nat
  BY DEF JobType
<1>2. r \in JobType /\ r.type = j.type /\ r.agent = j.agent /\ r.status = j.status
      /\ r.posted = j.posted /\ r.sent = j.sent + 1
  BY <1>1 DEF JobType
<1> HIDE DEF r
<1>3. r.posted < r.sent /\ r.posted <= r.sent
  BY <1>1, <1>2
<1> QED
  BY <1>2, <1>3 DEF r

\* The row of a job after a transfer nobody waits for any more.
LEMMA JobSentLost ==
    ASSUME NEW j \in JobType, j.posted <= j.sent
    PROVE  LET r == [j EXCEPT !.sent = j.sent + 1, !.status = "failed"]
           IN  /\ r \in JobType /\ r.type = j.type /\ r.agent = j.agent /\ r.status = "failed"
               /\ r.posted <= r.sent
<1> DEFINE r == [j EXCEPT !.sent = j.sent + 1, !.status = "failed"]
<1>1. j.sent \in Nat /\ j.posted \in Nat
  BY DEF JobType
<1>2. r \in JobType /\ r.type = j.type /\ r.agent = j.agent /\ r.status = "failed"
      /\ r.posted = j.posted /\ r.sent = j.sent + 1
  <2>1. r \in JobType
    <3> DEFINE n == j.sent + 1
    <3>1. n \in Nat
      BY <1>1
    <3> HIDE DEF n
    <3>2. [j EXCEPT !.sent = n, !.status = "failed"] \in JobType
      BY <3>1 DEF JobType
    <3> QED
      BY <3>2 DEF n
  <2>2. r.type = j.type
    BY DEF JobType
  <2>3. r.agent = j.agent
    BY DEF JobType
  <2>4. r.status = "failed"
    BY DEF JobType
  <2>5. r.posted = j.posted
    BY DEF JobType
  <2>6. r.sent = j.sent + 1
    BY DEF JobType
  <2> QED
    BY <2>1, <2>2, <2>3, <2>4, <2>5, <2>6
<1> HIDE DEF r
<1>3. r.posted <= r.sent
  BY <1>1, <1>2
<1> QED
  BY <1>2, <1>3 DEF r

\* A top-up's transfer is answered.
LEMMA TopUpJobStep ==
    ASSUME WorkTypes, JobsInv, NEW w \in Workers, ProcessAgentWalletTopUpJob(w)
    PROVE  WorkTypes' /\ JobsInv'
<1> DEFINE row == [worker[w] EXCEPT !.pc = "mark"]
           r == [Job(w) EXCEPT !.sent = Job(w).sent + 1]
<1>1. /\ Busy(w) /\ lock' = lock /\ jobs' = [jobs EXCEPT ![worker[w].job] = r]
      /\ worker' = [worker EXCEPT ![w] = row]
  BY DEF ProcessAgentWalletTopUpJob, Busy, Job
<1>2. Job(w) \in JobType /\ Job(w).posted <= Job(w).sent
  BY <1>1, HeldJob
<1>3. /\ r \in JobType /\ r.type = Job(w).type /\ r.agent = Job(w).agent
      /\ r.status = Job(w).status /\ r.posted < r.sent /\ r.posted <= r.sent
  BY <1>2, JobSent
<1>4. 0 \in Nat
  OBVIOUS
<1>5. row \in WorkerType /\ row.pc = "mark" /\ row.todo = worker[w].todo /\ row.job = worker[w].job
  BY <1>4, RowGoesOn
<1> HIDE DEF row, r
<1> QED
  BY <1>1, <1>3, <1>5, GoOnStep

\* A top-up's transfer is sent and given up on.
LEMMA TopUpUnansweredStep ==
    ASSUME WorkTypes, JobsInv, NEW w \in Workers, TopUpUnanswered(w)
    PROVE  WorkTypes' /\ JobsInv'
<1> DEFINE r == [Job(w) EXCEPT !.sent = Job(w).sent + 1, !.status = "failed"]
<1>1. /\ Busy(w) /\ lock' = Free /\ worker' = Done(w) /\ jobs' = [jobs EXCEPT ![worker[w].job] = r]
  BY DEF TopUpUnanswered, Busy, Job
<1>2. Job(w) \in JobType /\ Job(w).posted <= Job(w).sent
  BY <1>1, HeldJob
<1>3. /\ r \in JobType /\ r.type = Job(w).type /\ r.agent = Job(w).agent
      /\ r.status = "failed" /\ r.posted <= r.sent
  BY <1>2, JobSentLost
<1> HIDE DEF r
<1> QED
  BY <1>1, <1>3, DoneStep

\* A sweep reads what it will send.
LEMMA SweepReadsStep ==
    ASSUME MoneyTypes, WorkTypes, JobsInv, NEW w \in Workers, SweepReads(w)
    PROVE  WorkTypes' /\ JobsInv'
<1> DEFINE b == balance[Job(w).agent]
           x == IF b > Gas THEN b - Gas ELSE 0
           row == [worker[w] EXCEPT !.pc = "sweep", !.amount = x]
<1>1. /\ Busy(w) /\ Job(w).type = "sweep" /\ UNCHANGED <<jobs, lock>>
      /\ worker' = [worker EXCEPT ![w] = row]
  BY DEF SweepReads, Busy
<1>2. /\ worker[w].job \in DOMAIN jobs /\ Job(w) \in JobType /\ Job(w) = jobs[worker[w].job]
      /\ Job(w).posted <= Job(w).sent
  BY <1>1, HeldJob
<1>3. jobs' = [jobs EXCEPT ![worker[w].job] = Job(w)]
  BY <1>1, <1>2, JobUnwritten
<1>4. b \in Nat /\ Gas \in Nat
  BY <1>2, FleetAssumption DEF MoneyTypes, JobType
<1>5. x \in Nat
  BY <1>4
<1> HIDE DEF x
<1>w. worker[w] \in WorkerType
  BY DEF WorkTypes
<1>6. row \in WorkerType /\ row.pc = "sweep" /\ row.todo = worker[w].todo /\ row.job = worker[w].job
  BY <1>5, <1>w DEF WorkerType
<1> HIDE DEF row
<1> QED
  BY <1>1, <1>2, <1>3, <1>6, GoOnStep

\* A sweep's transfer.
LEMMA SweepTransfersStep ==
    ASSUME WorkTypes, JobsInv, NEW w \in Workers, SweepTransfers(w)
    PROVE  WorkTypes' /\ JobsInv'
<1> DEFINE row == [worker[w] EXCEPT !.pc = "emptied"]
           r == [Job(w) EXCEPT !.sent = Job(w).sent + 1]
<1>1. /\ Busy(w) /\ worker[w].pc = "sweep" /\ lock' = lock
      /\ jobs' = [jobs EXCEPT ![worker[w].job] = r] /\ worker' = [worker EXCEPT ![w] = row]
  BY DEF SweepTransfers, Busy, Job
<1>2. Job(w) \in JobType /\ Job(w).posted <= Job(w).sent /\ Job(w).type = "sweep"
  BY <1>1, HeldJob DEF Phase
<1>3. /\ r \in JobType /\ r.type = Job(w).type /\ r.agent = Job(w).agent
      /\ r.status = Job(w).status /\ r.posted < r.sent /\ r.posted <= r.sent
  BY <1>2, JobSent
<1>4. 0 \in Nat
  OBVIOUS
<1>5. row \in WorkerType /\ row.pc = "emptied" /\ row.todo = worker[w].todo /\ row.job = worker[w].job
  BY <1>4, RowGoesOn, ZenonT(40)
<1> HIDE DEF row, r
<1> QED
  BY <1>1, <1>2, <1>3, <1>5, GoOnStep

\* The wallet is marked swept.
LEMMA MarkSweptStep ==
    ASSUME WorkTypes, JobsInv, NEW w \in Workers, MarkSwept(w)
    PROVE  WorkTypes' /\ JobsInv'
<1> DEFINE row == [worker[w] EXCEPT !.pc = "mark"]
<1>1. /\ Busy(w) /\ worker[w].pc = "emptied" /\ UNCHANGED <<jobs, lock>>
      /\ worker' = [worker EXCEPT ![w] = row]
  BY DEF MarkSwept, Busy
<1>2. /\ worker[w].job \in DOMAIN jobs /\ Job(w) \in JobType /\ Job(w) = jobs[worker[w].job]
      /\ Job(w).posted <= Job(w).sent /\ Job(w).posted < Job(w).sent
  BY <1>1, HeldJob DEF Phase
<1>3. jobs' = [jobs EXCEPT ![worker[w].job] = Job(w)]
  BY <1>1, <1>2, JobUnwritten
<1>4. 0 \in Nat
  OBVIOUS
<1>5. row \in WorkerType /\ row.pc = "mark" /\ row.todo = worker[w].todo /\ row.job = worker[w].job
  BY <1>4, RowGoesOn
<1> HIDE DEF row
<1> QED
  BY <1>1, <1>2, <1>3, <1>5, GoOnStep

\* The job is marked complete; a transfer is still to be posted.
LEMMA MarkCompleteStep ==
    ASSUME WorkTypes, JobsInv, NEW w \in Workers, MarkComplete(w)
    PROVE  WorkTypes' /\ JobsInv'
<1> DEFINE row == [worker[w] EXCEPT !.pc = "post"]
           r == [Job(w) EXCEPT !.status = "complete"]
<1>1. /\ Busy(w) /\ worker[w].pc = "mark" /\ jobs' = [jobs EXCEPT ![worker[w].job] = r]
      /\ IF Job(w).type = "create" THEN lock' = Free /\ worker' = Done(w)
         ELSE worker' = [worker EXCEPT ![w] = row] /\ lock' = lock
  BY DEF MarkComplete, Close, Busy, Job
<1>2. Job(w) \in JobType /\ Job(w).posted <= Job(w).sent
      /\ (Job(w).type # "create" => Job(w).posted < Job(w).sent)
  BY <1>1, HeldJob DEF Phase
<1>3. /\ r \in JobType /\ r.type = Job(w).type /\ r.agent = Job(w).agent
      /\ r.status = "complete" /\ r.posted = Job(w).posted /\ r.sent = Job(w).sent
  BY <1>2 DEF JobType
<1>4. 0 \in Nat
  OBVIOUS
<1>5. row \in WorkerType /\ row.pc = "post" /\ row.todo = worker[w].todo /\ row.job = worker[w].job
  BY <1>4, RowGoesOn
<1> HIDE DEF row, r
<1>6. CASE Job(w).type = "create"
  BY <1>1, <1>2, <1>3, <1>6, DoneStep
<1>7. CASE Job(w).type # "create"
  BY <1>1, <1>2, <1>3, <1>5, <1>7, GoOnStep
<1> QED
  BY <1>6, <1>7

\* The posting follows the transfer it is about.
LEMMA PostJobStep ==
    ASSUME WorkTypes, JobsInv, NEW w \in Workers, NEW written \in BOOLEAN, PostJob(w, written)
    PROVE  WorkTypes' /\ JobsInv'
<1> DEFINE r == [Job(w) EXCEPT !.posted = Job(w).posted + 1]
           f == [Job(w) EXCEPT !.status = "failed"]
<1>1. /\ Busy(w) /\ worker[w].pc = "post" /\ lock' = Free /\ worker' = Done(w)
      /\ jobs' = [jobs EXCEPT ![worker[w].job] = r] \/ jobs' = [jobs EXCEPT ![worker[w].job] = f]
  BY DEF PostJob, Busy, Job
<1>2. Job(w) \in JobType /\ Job(w).posted < Job(w).sent /\ Job(w).posted <= Job(w).sent
  BY <1>1, HeldJob DEF Phase
<1>3. Job(w).sent \in Nat /\ Job(w).posted \in Nat
  BY <1>2 DEF JobType
<1>4. /\ r \in JobType /\ r.type = Job(w).type /\ r.agent = Job(w).agent
      /\ r.status = Job(w).status /\ r.posted = Job(w).posted + 1 /\ r.sent = Job(w).sent
  BY <1>2, <1>3 DEF JobType
<1>5. /\ f \in JobType /\ f.type = Job(w).type /\ f.agent = Job(w).agent
      /\ f.status = "failed" /\ f.posted = Job(w).posted /\ f.sent = Job(w).sent
  BY <1>2, <1>3 DEF JobType
<1> HIDE DEF r, f
<1>6. r.posted <= r.sent /\ f.posted <= f.sent
  BY <1>2, <1>3, <1>4, <1>5
<1>7. CASE jobs' = [jobs EXCEPT ![worker[w].job] = r]
  BY <1>1, <1>4, <1>6, <1>7, DoneStep
<1>8. CASE jobs' = [jobs EXCEPT ![worker[w].job] = f]
  BY <1>1, <1>5, <1>6, <1>8, DoneStep
<1> QED
  BY <1>1, <1>7, <1>8

\* The jobs as they are: what OutsideStep asks for.
LEMMA JobsSame ==
    ASSUME WorkTypes, JobsInv, jobs' = jobs
    PROVE  /\ jobs' \in Seq(JobType) /\ DOMAIN jobs \subseteq DOMAIN jobs'
           /\ \A i \in DOMAIN jobs : jobs'[i] = jobs[i]
           /\ PostingsBacked' /\ OnePendingTopUp'
BY DEF WorkTypes, JobsInv, PostingsBacked, OnePendingTopUp

\* A worker moves that is not in the middle of a job afterwards.
LEMMA BesideStep ==
    ASSUME WorkTypes, JobsInv, NEW w \in Workers, NEW r \in WorkerType,
           worker' = [worker EXCEPT ![w] = r], r.pc \in {"idle", "next", "scan", "evaluate"},
           r.todo \subseteq DOMAIN jobs, lock' = lock,
           jobs' \in Seq(JobType), DOMAIN jobs \subseteq DOMAIN jobs',
           \A i \in DOMAIN jobs : jobs'[i] = jobs[i], PostingsBacked', OnePendingTopUp'
    PROVE  WorkTypes' /\ JobsInv'
<1>1. worker' \in [Workers -> WorkerType] /\ worker'[w] = r /\ Others(w)
  BY DEF WorkTypes, Others
<1>2. \A v \in Workers : Busy(v)' => worker'[v] = worker[v]
  BY <1>1 DEF Others, Busy
<1>3. \A v \in Workers : worker'[v].todo \subseteq DOMAIN jobs
  BY <1>1 DEF Others, JobsInv
<1> QED
  BY <1>1, <1>2, <1>3, OutsideStep

\* The pass turns to the wallets.
LEMMA StartScanStep ==
    ASSUME WorkTypes, JobsInv, AllocTypes, NEW w \in Workers, StartScan(w)
    PROVE  WorkTypes' /\ JobsInv'
<1> DEFINE R == {[agent |-> a, plan |-> alloc[a].plan] :
                        a \in {b \in Agents : alloc[b].status = "active" /\ wallet[b] = "active"}}
           r == [worker[w] EXCEPT !.pc = "scan", !.rows = R]
<1>1. worker' = [worker EXCEPT ![w] = r] /\ UNCHANGED <<jobs, lock>>
  BY DEF StartScan
<1>2. \A a \in Agents : alloc[a].plan \in Plan
  BY DEF AllocTypes, AllocType
<1>3. R \subseteq RowType
  BY <1>2 DEF RowType
<1>4. worker[w] \in WorkerType /\ worker[w].todo \subseteq DOMAIN jobs
  BY DEF WorkTypes, JobsInv
<1> HIDE DEF R
<1>5. r \in WorkerType /\ r.pc = "scan" /\ r.todo = worker[w].todo
  BY <1>3, <1>4 DEF WorkerType
<1> HIDE DEF r
<1> QED
  BY <1>1, <1>4, <1>5, JobsSame, BesideStep

\* One wallet is read; a low one is evaluated next.
LEMMA ReadBalanceStep ==
    ASSUME MoneyTypes, WorkTypes, JobsInv, NEW w \in Workers, NEW q \in worker[w].rows, ReadBalance(w, q)
    PROVE  WorkTypes' /\ JobsInv'
<1> DEFINE b == balance[q.agent]
           S == worker[w].rows \ {q}
           r1 == [worker[w] EXCEPT !.pc = "evaluate", !.amount = b, !.rows = S, !.row = {q}]
           r2 == [worker[w] EXCEPT !.rows = S]
<1>1. /\ worker' = [worker EXCEPT ![w] = r1] \/ worker' = [worker EXCEPT ![w] = r2]
      /\ worker[w].pc = "scan" /\ UNCHANGED <<jobs, lock>>
  BY DEF ReadBalance
<1>2. worker[w] \in WorkerType /\ worker[w].todo \subseteq DOMAIN jobs
  BY DEF WorkTypes, JobsInv
<1>3. q \in RowType /\ S \subseteq RowType /\ {q} \subseteq RowType
  BY <1>2 DEF WorkerType
<1>4. b \in Nat
  BY <1>3 DEF MoneyTypes, RowType
<1> HIDE DEF b, S
<1>5. r1 \in WorkerType /\ r1.pc = "evaluate" /\ r1.todo = worker[w].todo
  BY <1>2, <1>3, <1>4 DEF WorkerType
<1>6. r2 \in WorkerType /\ r2.pc = "scan" /\ r2.todo = worker[w].todo
  BY <1>1, <1>2, <1>3 DEF WorkerType
<1> HIDE DEF r1, r2
<1>7. CASE worker' = [worker EXCEPT ![w] = r1]
  BY <1>1, <1>2, <1>5, <1>7, JobsSame, BesideStep
<1>8. CASE worker' = [worker EXCEPT ![w] = r2]
  BY <1>1, <1>2, <1>6, <1>8, JobsSame, BesideStep
<1> QED
  BY <1>1, <1>7, <1>8

\* The smallest of three numbers is one of them.
LEMMA MinOfThree ==
    ASSUME NEW x \in Nat, NEW y \in Nat, NEW z \in Nat
    PROVE  Min({x, y, z}) \in Nat
<1>1. \E m \in {x, y, z} : \A n \in {x, y, z} : m <= n
  OBVIOUS
<1> QED
  BY <1>1 DEF Min

\* A top-up's amount is a number, however many wallets are summed.
LEMMA TopUpAmountNat ==
    ASSUME MoneyTypes, AllocTypes, AllocInv, NEW q \in RowType, NEW raw \in Nat
    PROVE  TopUpAmount(q, raw) \in Nat
<1> DEFINE others == {a \in Agents \ {q.agent} : alloc[a].status = "active" /\ wallet[a] = "active"}
           held == MapThenSumSet(LAMBDA a : balance[a], others)
           Gap(x, y) == IF x > y THEN x - y ELSE 0
<1>1. others \subseteq Active
  BY DEF Active
<1>2. IsFiniteSet(others) /\ \A a \in others : balance[a] \in Nat
  BY <1>1, FS_Subset DEF AllocInv, MoneyTypes
<1>3. held = Sum(balance, others)
  <2> HIDE DEF others
  <2> QED
    BY <1>2, FoldIsSum
<1>4. held \in Nat
  BY <1>2, <1>3, UnitsFinite
<1>5. q.plan.ceiling \in Nat /\ q.plan.amount \in Nat /\ deposits \in Nat
  BY DEF RowType, Plan, AllocTypes
<1> HIDE DEF held, others
<1>6. Gap(q.plan.ceiling, raw) \in Nat /\ Gap(q.plan.amount, raw) \in Nat /\ Gap(deposits, held) \in Nat
  BY <1>4, <1>5
<1>7. TopUpAmount(q, raw) = Min({Gap(q.plan.ceiling, raw), Gap(q.plan.amount, raw), Gap(deposits, held)})
  BY DEF TopUpAmount, held, others
<1> HIDE DEF Gap
<1> QED
  BY <1>6, <1>7, MinOfThree

\* The evaluation under the lock: a job when none waits.
LEMMA EvaluateStep ==
    ASSUME FleetInv, NEW w \in Workers, EvaluateSingleTopUp(w)
    PROVE  WorkTypes' /\ JobsInv'
<1> DEFINE r == [worker[w] EXCEPT !.pc = "scan", !.row = {}, !.amount = 0]
<1>1. worker' = [worker EXCEPT ![w] = r] /\ lock' = lock
  BY DEF EvaluateSingleTopUp
<1>2. worker[w] \in WorkerType /\ worker[w].todo \subseteq DOMAIN jobs
  BY DEF FleetInv, WorkTypes, JobsInv
<1>3. r \in WorkerType /\ r.pc = "scan" /\ r.todo = worker[w].todo
  BY <1>2 DEF WorkerType
<1> HIDE DEF r
<1>4. PICK q \in worker[w].row :
         jobs' = IF Queued("topup", q.agent) \/ TopUpAmount(q, worker[w].amount) = 0 THEN jobs
                 ELSE Append(jobs, NewJob("topup", q.agent, TopUpAmount(q, worker[w].amount)))
  BY DEF EvaluateSingleTopUp
<1>5. q \in RowType /\ worker[w].amount \in Nat
  BY <1>2 DEF WorkerType
<1>6. q.agent \in Agents /\ TopUpAmount(q, worker[w].amount) \in Nat /\ "topup" \in JobTypes
  BY <1>5, TopUpAmountNat DEF RowType, FleetInv, JobTypes
<1>7. /\ jobs' \in Seq(JobType) /\ DOMAIN jobs \subseteq DOMAIN jobs'
      /\ \A i \in DOMAIN jobs : jobs'[i] = jobs[i]
      /\ PostingsBacked' /\ OnePendingTopUp'
  <2>1. CASE jobs' = jobs
    BY <2>1, JobsSame DEF FleetInv
  <2>2. CASE jobs' # jobs
    <3>1. ~Queued("topup", q.agent)
          /\ jobs' = Append(jobs, NewJob("topup", q.agent, TopUpAmount(q, worker[w].amount)))
      BY <1>4, <2>2
    <3> QED
      BY <1>6, <3>1, JobQueued DEF FleetInv, JobsInv
  <2> QED
    BY <2>1, <2>2
<1> QED
  BY <1>1, <1>2, <1>3, <1>7, BesideStep DEF FleetInv

\* The pass ends, or the worker dies; a death frees the lock it held.
LEMMA PassEnds ==
    ASSUME WorkTypes, JobsInv, NEW w \in Workers, EndPass(w) \/ WorkerDies(w)
    PROVE  WorkTypes' /\ JobsInv'
<1>1. worker' = [worker EXCEPT ![w] = Idle] /\ jobs' = jobs
      /\ (lock' = lock \/ (lock = w /\ lock' = Free))
  BY DEF EndPass, WorkerDies
<1>2. Idle \in WorkerType /\ Idle.pc = "idle" /\ Idle.todo = {}
  BY DEF Idle, WorkerType
<1>3. CASE lock' = lock
  BY <1>1, <1>2, <1>3, JobsSame, BesideStep
<1>4. CASE lock = w /\ lock' = Free
  <2>1. worker'[w] = Idle
    BY <1>1 DEF WorkTypes
  <2>2. ~Busy(w)'
    BY <1>2, <2>1 DEF Busy
  <2>3. Idle.todo \subseteq worker[w].todo /\ lock \in {w, Free} /\ lock' \in {w, Free}
    BY <1>2, <1>4
  <2> QED
    BY <1>1, <1>2, <2>2, <2>3, JobsSame, HolderStep
<1> QED
  BY <1>1, <1>3, <1>4

-----------------------------------------------------------------------------
(* Allocations. *)

Amounts(rows)     == [a \in Agents |-> rows[a].plan.amount]
ActiveOf(rows, S) == {a \in S : rows[a].status = "active"}

\* Active rows that are finitely many have a sum.
LEMMA AmountsSum ==
    ASSUME NEW rows \in [Agents -> AllocType], NEW S \in SUBSET Agents, IsFiniteSet(ActiveOf(rows, S))
    PROVE  /\ \A a \in ActiveOf(rows, S) : Amounts(rows)[a] \in Nat
           /\ MapThenSumSet(LAMBDA a : rows[a].plan.amount, ActiveOf(rows, S))
                  = Sum(Amounts(rows), ActiveOf(rows, S))
           /\ Sum(Amounts(rows), ActiveOf(rows, S)) \in Nat
<1> DEFINE v == Amounts(rows)
           T == ActiveOf(rows, S)
<1>1. T \subseteq Agents /\ \A a \in Agents : v[a] = rows[a].plan.amount /\ v[a] \in Nat
  BY DEF ActiveOf, Amounts, AllocType, Plan
<1>2. MapThenSumSet(LAMBDA a : rows[a].plan.amount, T) = MapThenSumSet(LAMBDA a : v[a], T)
  <2> DEFINE G(f) == f = [s \in SUBSET T |-> IF s = {} THEN 0
                            ELSE rows[First(s)].plan.amount + f[s \ {First(s)}]]
  <2>1. \A s \in SUBSET T : s # {} => v[First(s)] = rows[First(s)].plan.amount
    BY <1>1 DEF First
  <2>2. MapThenSumSet(LAMBDA a : rows[a].plan.amount, T) = (CHOOSE f : G(f))[T]
    BY DEF MapThenSumSet, MapThenFoldSet, First
  <2>3. MapThenSumSet(LAMBDA a : v[a], T) = (CHOOSE f : SumEquation(v, T, f))[T]
    BY DEF MapThenSumSet, MapThenFoldSet, SumEquation, First
  <2>4. \A f : G(f) <=> SumEquation(v, T, f)
    <3> HIDE DEF v, T
    <3>1. SUFFICES ASSUME NEW f PROVE G(f) <=> SumEquation(v, T, f)
      OBVIOUS
    <3>2. [s \in SUBSET T |-> IF s = {} THEN 0 ELSE rows[First(s)].plan.amount + f[s \ {First(s)}]]
          = [s \in SUBSET T |-> IF s = {} THEN 0 ELSE v[First(s)] + f[s \ {First(s)}]]
      BY <2>1
    <3> QED
      BY <3>2 DEF SumEquation
  <2> HIDE DEF G, v, T
  <2>5. (CHOOSE f : G(f)) = (CHOOSE f : SumEquation(v, T, f))
    BY <2>4
  <2> QED
    BY <2>2, <2>3, <2>5
<1> HIDE DEF v, T
<1>3. MapThenSumSet(LAMBDA a : v[a], T) = Sum(v, T)
  BY <1>1, FoldIsSum DEF T
<1>4. Sum(v, T) \in Nat
  BY <1>1, UnitsFinite DEF T
<1> QED
  BY <1>1, <1>2, <1>3, <1>4 DEF v, T

\* The sums of the model before and after a step.
LEMMA AllocatedIsSum ==
    ASSUME AllocTypes, NEW S \in SUBSET Agents, IsFiniteSet(ActiveOf(alloc, S))
    PROVE  Allocated(S) = Sum(Amounts(alloc), ActiveOf(alloc, S)) /\ Allocated(S) \in Nat
<1>1. alloc \in [Agents -> AllocType]
  BY DEF AllocTypes
<1>2. Allocated(S) = MapThenSumSet(LAMBDA a : alloc[a].plan.amount, ActiveOf(alloc, S))
  BY DEF Allocated, ActiveOf
<1> QED
  BY <1>1, <1>2, AmountsSum

LEMMA AllocatedIsSumNext ==
    ASSUME alloc' \in [Agents -> AllocType], NEW S \in SUBSET Agents, IsFiniteSet(ActiveOf(alloc', S))
    PROVE  Allocated(S)' = Sum(Amounts(alloc'), ActiveOf(alloc', S)) /\ Allocated(S)' \in Nat
<1>1. Allocated(S)' = MapThenSumSet(LAMBDA a : alloc'[a].plan.amount, ActiveOf(alloc', S))
  BY DEF Allocated, ActiveOf, MapThenSumSet, MapThenFoldSet
<1> QED
  BY <1>1, AmountsSum

\* A step that leaves allocations, deposits and calls alone.
LEMMA AllocFrame ==
    ASSUME AllocTypes, AllocInv, UNCHANGED <<alloc, deposits, peak, call>>
    PROVE  AllocTypes' /\ AllocInv'
<1>1. Allocated(Agents)' = Allocated(Agents)
  BY DEF Allocated, MapThenSumSet, MapThenFoldSet
<1> QED
  BY <1>1 DEF AllocTypes, AllocInv, Active, AllocationsWithinDeposits

\* A call moves on; what it has seen of the deposits is not above the peak.
LEMMA CallStep ==
    ASSUME AllocTypes, AllocInv, UNCHANGED <<alloc, deposits, peak>>, NEW c \in Callers,
           NEW r \in CallType, call' = [call EXCEPT ![c] = r], r.pc = "seen" => r.seen <= peak
    PROVE  AllocTypes' /\ AllocInv'
<1>1. Allocated(Agents)' = Allocated(Agents)
  BY DEF Allocated, MapThenSumSet, MapThenFoldSet
<1>2. call' \in [Callers -> CallType] /\ call'[c] = r /\ \A d \in Callers \ {c} : call'[d] = call[d]
  BY DEF AllocTypes
<1> QED
  BY <1>1, <1>2 DEF AllocTypes, AllocInv, Active, AllocationsWithinDeposits

\* The allocation of one agent is written.
LEMMA AllocWritten ==
    ASSUME AllocTypes, AllocInv, NEW a \in Agents, NEW r \in AllocType,
           alloc' = [alloc EXCEPT ![a] = r],
           \/ r.status # "active"
           \/ Allocated(Agents \ {a}) + r.plan.amount <= peak
    PROVE  /\ alloc' \in [Agents -> AllocType] /\ IsFiniteSet(Active')
           /\ Allocated(Agents)' <= peak
<1> DEFINE B == ActiveOf(alloc, Agents \ {a})
           v == Amounts(alloc)
           w == Amounts(alloc')
<1>1. /\ alloc \in [Agents -> AllocType] /\ alloc' \in [Agents -> AllocType] /\ alloc'[a] = r
      /\ \A b \in Agents \ {a} : alloc'[b] = alloc[b]
  BY DEF AllocTypes
<1>2. Active = ActiveOf(alloc, Agents) /\ Active' = ActiveOf(alloc', Agents) /\ B = Active \ {a}
  BY DEF Active, ActiveOf
<1>3. IsFiniteSet(Active) /\ IsFiniteSet(B) /\ IsFiniteSet(B \cup {a})
  BY <1>2, FS_Subset, FS_AddElement DEF AllocInv
<1>4. Active' = IF r.status = "active" THEN B \cup {a} ELSE B
  BY <1>1 DEF Active, ActiveOf
<1>5. IsFiniteSet(Active')
  BY <1>3, <1>4
<1>6. Allocated(Agents) = Sum(v, Active) /\ Allocated(Agents) \in Nat
  BY <1>2, <1>3, AllocatedIsSum
<1>7. Allocated(Agents \ {a}) = Sum(v, B) /\ Allocated(Agents \ {a}) \in Nat
  <2>1. Agents \ {a} \in SUBSET Agents
    OBVIOUS
  <2> QED
    BY <1>3, <2>1, AllocatedIsSum
<1>8. Allocated(Agents)' = Sum(w, Active') /\ Allocated(Agents)' \in Nat
  BY <1>1, <1>2, <1>5, AllocatedIsSumNext
<1>9. (\A b \in B : w[b] = v[b]) /\ w[a] = r.plan.amount
  BY <1>1 DEF Amounts, ActiveOf
<1>10. (\A b \in Agents : v[b] \in Nat /\ w[b] \in Nat) /\ B \subseteq Agents /\ Active \subseteq Agents /\ a \notin B
  BY <1>1 DEF Amounts, AllocType, Plan, ActiveOf, Active
<1> HIDE DEF B, v, w
<1>11. Sum(w, B) = Sum(v, B)
  BY <1>9, SumEqual
<1>12. CASE r.status # "active"
  <2>1. Sum(v, B) =< Sum(v, Active)
    <3>1. B \in SUBSET Active /\ \A b \in Active : v[b] \in Nat /\ v[b] \in Nat /\ v[b] =< v[b]
      BY <1>2, <1>10
    <3> QED
      BY <1>3, <3>1, SumMonotone
  <2>2. Allocated(Agents)' <= Allocated(Agents)
    BY <2>1, <1>4, <1>6, <1>8, <1>11, <1>12
  <2> QED
    BY <1>1, <1>5, <1>6, <1>8, <2>2 DEF AllocInv, AllocTypes, AllocationsWithinDeposits
<1>13. CASE r.status = "active" /\ Allocated(Agents \ {a}) + r.plan.amount <= peak
  <2>1. Active' = B \cup {a} /\ (B \cup {a}) \ {a} = B /\ a \in B \cup {a}
    BY <1>4, <1>10, <1>13
  <2>2. Sum(w, B \cup {a}) = w[a] + Sum(w, (B \cup {a}) \ {a})
    <3>1. \A b \in B \cup {a} : w[b] \in Nat
      BY <1>10
    <3> QED
      BY <1>3, <2>1, <3>1, SumRemove
  <2>3. Allocated(Agents)' = r.plan.amount + Allocated(Agents \ {a})
    BY <1>7, <1>8, <1>9, <1>11, <2>1, <2>2
  <2>4. r.plan.amount \in Nat
    BY <1>9, <1>10
  <2> QED
    BY <1>1, <1>5, <1>7, <1>13, <2>3, <2>4
<1> QED
  BY <1>12, <1>13

\* A reputation never moves an allocation out of the numbers.
LEMMA NextAllocationNat ==
    ASSUME NEW plan \in Plan, NEW reputation \in 0..100
    PROVE  NextAllocation(plan, reputation) \in Nat
<1> DEFINE g == (plan.ceiling - plan.reserve) * reputation
           t == plan.reserve + (g * 100) \div 10000
           step == (plan.amount * 1000) \div 10000
           x == plan.amount + Clamp(t - plan.amount, -step, step)
<1>1. plan.amount \in Nat /\ plan.reserve \in Nat /\ plan.ceiling \in Nat
  BY DEF Plan
<1>2. g \in Int
  BY <1>1
<1> HIDE DEF g
<1>3. t \in Int /\ step \in Int
  BY <1>1, <1>2
<1> HIDE DEF t, step
<1>4. x \in Int
  BY <1>1, <1>3 DEF Clamp
<1> HIDE DEF x
<1>5. Clamp(x, plan.reserve, plan.ceiling) \in Nat
  BY <1>1, <1>4 DEF Clamp
<1>6. NextAllocation(plan, reputation) = Clamp(x, plan.reserve, plan.ceiling)
  BY DEF NextAllocation, x, t, step, g
<1> QED
  BY <1>5, <1>6

-----------------------------------------------------------------------------
(* The steps, all parts of the invariant together. *)

\* The work of the workers is not touched.
LEMMA WorkFrame ==
    ASSUME WorkTypes, JobsInv, UNCHANGED <<jobs, lock, worker>>
    PROVE  WorkTypes' /\ JobsInv'
<1>1. worker' \in [Workers -> WorkerType] /\ (\A v \in Workers : Busy(v)' => worker'[v] = worker[v])
      /\ (\A v \in Workers : worker'[v].todo \subseteq DOMAIN jobs) /\ lock' = lock
  BY DEF WorkTypes, JobsInv
<1> QED
  BY <1>1, JobsSame, OutsideStep

\* A job is queued by an API call.
LEMMA WorkQueued ==
    ASSUME WorkTypes, JobsInv, UNCHANGED <<lock, worker>>, NEW type \in {"create", "sweep"},
           NEW a \in Agents, jobs' = Append(jobs, NewJob(type, a, 0))
    PROVE  WorkTypes' /\ JobsInv'
<1>1. worker' \in [Workers -> WorkerType] /\ (\A v \in Workers : Busy(v)' => worker'[v] = worker[v])
      /\ (\A v \in Workers : worker'[v].todo \subseteq DOMAIN jobs) /\ lock' = lock
  BY DEF WorkTypes, JobsInv
<1>2. type \in JobTypes /\ type # "topup" /\ 0 \in Nat
  BY DEF JobTypes
<1>3. /\ jobs' \in Seq(JobType) /\ DOMAIN jobs \subseteq DOMAIN jobs'
      /\ \A j \in DOMAIN jobs : jobs'[j] = jobs[j]
      /\ PostingsBacked' /\ OnePendingTopUp'
  BY <1>2, JobQueued DEF JobsInv
<1> QED
  BY <1>1, <1>3, OutsideStep

\* Calls about wallets and allocations, up to their writes.
LEMMA CallSteps ==
    ASSUME FleetInv, NEW c \in Callers, NEW a \in Agents,
           \/ AskWallet(c, a)
           \/ \E plan \in Plans : AskAllocation(c, a, plan)
           \/ \E r \in Reputations : ApplyReputationAdjustment(c, a, r)
           \/ ReadDeposits(c)
    PROVE  FleetInv'
<1>1. UNCHANGED <<wallet, balance, treasury, deposits, peak, alloc, jobs, lock, worker, late, crashes>>
      /\ calls' \in {calls, calls + 1}
  BY DEF AskWallet, AskAllocation, ApplyReputationAdjustment, ReadDeposits, Called
<1>2. NoPlan \in Plan /\ alloc[a].plan \in Plan
  BY DEF NoPlan, Plan, FleetInv, AllocTypes, AllocType
<1>3. ASSUME NEW plan \in Plan, AskAllocation(c, a, plan)
      PROVE  \E r \in CallType : call' = [call EXCEPT ![c] = r] /\ r.pc # "seen"
  <2> DEFINE r == [pc |-> "asked", agent |-> a, plan |-> plan, seen |-> 0]
  <2>1. r \in CallType /\ r.pc # "seen" /\ call' = [call EXCEPT ![c] = r]
    BY <1>3 DEF CallType, AskAllocation
  <2> QED
    BY <2>1
<1>4. PICK r \in CallType : call' = [call EXCEPT ![c] = r] /\ (r.pc = "seen" => r.seen <= peak)
  <2>1. CASE AskWallet(c, a)
    <3> DEFINE r == [NoCall EXCEPT !.pc = "provision", !.agent = a]
    <3>1. r \in CallType /\ r.pc # "seen" /\ call' = [call EXCEPT ![c] = r]
      BY <1>2, <2>1 DEF CallType, NoCall, AskWallet
    <3> QED
      BY <3>1
  <2>2. CASE \E plan \in Plans : AskAllocation(c, a, plan)
    BY <1>3, <2>2, FleetAssumption
  <2>3. ASSUME NEW q \in Reputations, ApplyReputationAdjustment(c, a, q)
        PROVE  \E r \in CallType : call' = [call EXCEPT ![c] = r] /\ r.pc # "seen"
    <3> DEFINE n == NextAllocation(alloc[a].plan, q)
               p == alloc[a].plan
               plan == [p EXCEPT !.amount = n]
    <3>1. n \in Nat /\ p \in Plan
      BY <1>2, NextAllocationNat, FleetAssumption
    <3>2. AskAllocation(c, a, plan)
      BY <2>3 DEF ApplyReputationAdjustment
    <3> HIDE DEF n, p
    <3>3. plan \in Plan
      BY <3>1 DEF Plan
    <3> HIDE DEF plan
    <3> QED
      BY <1>3, <3>2, <3>3
  <2>4. CASE ReadDeposits(c)
    <3> DEFINE r == [call[c] EXCEPT !.pc = "seen", !.seen = deposits]
    <3>1. call[c] \in CallType /\ call[c].pc = "asked" /\ deposits \in Nat /\ deposits <= peak
      BY <2>4 DEF FleetInv, AllocTypes, AllocInv, ReadDeposits
    <3>2. call[c] \in [pc : {"asked", "seen", "provision"}, agent : Agents, plan : Plan, seen : Nat]
      BY <3>1 DEF CallType
    <3>3. r \in CallType /\ r.seen = deposits
      BY <3>1, <3>2 DEF CallType
    <3>4. call' = [call EXCEPT ![c] = r]
      BY <2>4 DEF ReadDeposits
    <3> QED
      BY <3>1, <3>3, <3>4
  <2> QED
    BY <2>1, <2>2, <2>3, <2>4
<1>5. AllocTypes' /\ AllocInv'
  BY <1>1, <1>4, CallStep DEF FleetInv
<1>6. WorkTypes' /\ JobsInv'
  BY <1>1, WorkFrame DEF FleetInv
<1>7. MoneyTypes'
  BY <1>1 DEF FleetInv, MoneyTypes
<1> QED
  BY <1>5, <1>6, <1>7 DEF FleetInv

\* No call.
LEMMA NoCallType == NoCall \in CallType /\ NoCall.pc # "seen"
<1>1. NoPlan \in Plan
  BY DEF NoPlan, Plan
<1> QED
  BY <1>1 DEF NoCall, CallType

\* A wallet is asked for.
LEMMA EnqueueStep ==
    ASSUME FleetInv, NEW c \in Callers, EnqueueAgentWalletProvisioning(c)
    PROVE  FleetInv'
<1>1. /\ call[c].pc = "provision" /\ jobs' = Append(jobs, NewJob("create", call[c].agent, 0))
      /\ call' = [call EXCEPT ![c] = NoCall]
      /\ UNCHANGED <<wallet, balance, treasury, deposits, peak, alloc, lock, worker, late, calls, crashes>>
  BY DEF EnqueueAgentWalletProvisioning
<1>2. call[c].agent \in Agents
  BY <1>1 DEF FleetInv, AllocTypes, CallType
<1>3. AllocTypes' /\ AllocInv'
  BY <1>1, NoCallType, CallStep DEF FleetInv
<1>4. WorkTypes' /\ JobsInv'
  BY <1>1, <1>2, WorkQueued DEF FleetInv
<1>5. MoneyTypes'
  BY <1>1 DEF FleetInv, MoneyTypes
<1> QED
  BY <1>3, <1>4, <1>5 DEF FleetInv

\* The upsert under the lock: the sum is taken now, the deposits were read
\* earlier, and they are at most the peak.
LEMMA SetAllocationStep ==
    ASSUME FleetInv, NEW c \in Callers, SetAllocation(c)
    PROVE  FleetInv'
<1> DEFINE a == call[c].agent
           st == IF alloc[a].status = "none" THEN "active" ELSE alloc[a].status
           r == [status |-> st, plan |-> call[c].plan]
<1>1. /\ call[c].pc = "seen" /\ call' = [call EXCEPT ![c] = NoCall]
      /\ \/ alloc' = alloc
         \/ /\ alloc' = [alloc EXCEPT ![a] = r]
            /\ Allocated(Agents \ {a}) + call[c].plan.amount <= call[c].seen
      /\ UNCHANGED <<wallet, balance, treasury, deposits, peak, jobs, lock, worker, late, calls, crashes>>
  BY DEF SetAllocation
<1>2. a \in Agents /\ call[c].plan \in Plan /\ call[c].seen \in Nat /\ call[c].seen <= peak /\ peak \in Nat
  BY <1>1 DEF FleetInv, AllocTypes, AllocInv, CallType
<1>3. WorkTypes' /\ JobsInv' /\ MoneyTypes'
  BY <1>1, WorkFrame DEF FleetInv, MoneyTypes
<1>4. CASE alloc' = alloc
  <2>1. AllocTypes' /\ AllocInv'
    BY <1>1, <1>4, NoCallType, CallStep DEF FleetInv
  <2> QED
    BY <1>3, <2>1 DEF FleetInv
<1>5. CASE /\ alloc' = [alloc EXCEPT ![a] = r]
           /\ Allocated(Agents \ {a}) + call[c].plan.amount <= call[c].seen
  <2>1. st \in {"active", "revoked"}
    BY <1>2 DEF FleetInv, AllocTypes, AllocType
  <2>2. r \in AllocType /\ r.plan = call[c].plan
    BY <1>2, <2>1 DEF AllocType
  <2>3. IsFiniteSet(ActiveOf(alloc, Agents \ {a}))
    <3>1. ActiveOf(alloc, Agents \ {a}) \subseteq Active
      BY DEF ActiveOf, Active
    <3> QED
      BY <3>1, FS_Subset DEF FleetInv, AllocInv
  <2>4. Allocated(Agents \ {a}) \in Nat
    <3>1. Agents \ {a} \in SUBSET Agents
      OBVIOUS
    <3> QED
      BY <2>3, <3>1, AllocatedIsSum DEF FleetInv
  <2>5. call[c].plan.amount \in Nat
    BY <1>2 DEF Plan
  <2>6. Allocated(Agents \ {a}) + r.plan.amount <= peak
    BY <1>2, <1>5, <2>2, <2>4, <2>5
  <2> HIDE DEF r
  <2>7. alloc' \in [Agents -> AllocType] /\ IsFiniteSet(Active') /\ Allocated(Agents)' <= peak
    BY <1>2, <1>5, <2>2, <2>6, AllocWritten DEF FleetInv
  <2>8. call' \in [Callers -> CallType] /\ call'[c].pc # "seen"
        /\ \A d \in Callers \ {c} : call'[d] = call[d]
    BY <1>1, NoCallType DEF FleetInv, AllocTypes
  <2>9. AllocTypes' /\ AllocInv'
    BY <1>1, <2>7, <2>8 DEF FleetInv, AllocTypes, AllocInv, AllocationsWithinDeposits
  <2> QED
    BY <1>3, <2>9 DEF FleetInv
<1> QED
  BY <1>1, <1>4, <1>5

\* A revocation takes the allocation out of the sum and queues the sweep.
LEMMA RevokeAgentStep ==
    ASSUME FleetInv, NEW a \in Agents, RevokeAgent(a)
    PROVE  FleetInv'
<1> DEFINE st == IF alloc[a].status = "active" THEN "revoked" ELSE alloc[a].status
           r == [alloc[a] EXCEPT !.status = st]
<1>1. /\ alloc' = [alloc EXCEPT ![a] = r]
      /\ jobs' = jobs \/ jobs' = Append(jobs, NewJob("sweep", a, 0))
      /\ UNCHANGED <<wallet, balance, treasury, deposits, peak, lock, worker, call, late, calls, crashes>>
  BY DEF RevokeAgent
<1>2. alloc[a] \in AllocType
  BY DEF FleetInv, AllocTypes
<1>3. st \in {"none", "revoked"}
  BY <1>2 DEF AllocType
<1> HIDE DEF st
<1>4. r \in AllocType /\ r.status # "active"
  BY <1>2, <1>3 DEF AllocType
<1> HIDE DEF r
<1>5. alloc' \in [Agents -> AllocType] /\ IsFiniteSet(Active') /\ Allocated(Agents)' <= peak
  BY <1>1, <1>4, AllocWritten DEF FleetInv
<1>6. AllocTypes' /\ AllocInv'
  BY <1>1, <1>5 DEF FleetInv, AllocTypes, AllocInv, AllocationsWithinDeposits
<1>7. WorkTypes' /\ JobsInv'
  BY <1>1, WorkFrame, WorkQueued DEF FleetInv
<1>8. MoneyTypes'
  BY <1>1 DEF FleetInv, MoneyTypes
<1> QED
  BY <1>6, <1>7, <1>8 DEF FleetInv

\* The larger of two numbers.
LEMMA MaxOfTwo ==
    ASSUME NEW x \in Nat, NEW y \in Nat
    PROVE  Max({x, y}) \in Nat /\ x <= Max({x, y}) /\ y <= Max({x, y})
<1>1. \E m \in {x, y} : \A n \in {x, y} : m >= n
  OBVIOUS
<1>2. Max({x, y}) \in {x, y} /\ \A n \in {x, y} : Max({x, y}) >= n
  BY <1>1 DEF Max
<1> QED
  BY <1>2

\* The org's balance changes; the peak follows it up and never down.
LEMMA DepositsStep ==
    ASSUME FleetInv, NEW d \in Deposited, DepositsChange(d)
    PROVE  FleetInv'
<1>1. /\ deposits' = d /\ peak' = Max({peak, d})
      /\ UNCHANGED <<wallet, balance, treasury, alloc, jobs, lock, worker, call, late, calls, crashes>>
  BY DEF DepositsChange
<1>2. d \in Nat /\ peak \in Nat
  BY FleetAssumption DEF FleetInv, AllocTypes
<1>3. peak' \in Nat /\ peak <= peak' /\ d <= peak'
  BY <1>1, <1>2, MaxOfTwo
<1>4. Allocated(Agents)' = Allocated(Agents)
  BY <1>1 DEF Allocated, MapThenSumSet, MapThenFoldSet
<1>5. Allocated(Agents) \in Nat /\ Allocated(Agents) <= peak
  <2>1. Active = ActiveOf(alloc, Agents)
    BY DEF Active, ActiveOf
  <2> QED
    BY <2>1, AllocatedIsSum DEF FleetInv, AllocInv, AllocationsWithinDeposits
<1>6. AllocationsWithinDeposits'
  BY <1>2, <1>3, <1>4, <1>5 DEF AllocationsWithinDeposits
<1>7. \A c \in Callers : call'[c].pc = "seen" => call'[c].seen <= peak'
  <2>1. \A c \in Callers : call[c].seen \in Nat
    BY DEF FleetInv, AllocTypes, CallType
  <2> QED
    BY <1>1, <1>2, <1>3, <2>1 DEF FleetInv, AllocInv
<1>8. AllocTypes' /\ AllocInv'
  BY <1>1, <1>2, <1>3, <1>6, <1>7 DEF FleetInv, AllocTypes, AllocInv, Active
<1>9. WorkTypes' /\ JobsInv' /\ MoneyTypes'
  BY <1>1, WorkFrame DEF FleetInv, MoneyTypes
<1> QED
  BY <1>8, <1>9 DEF FleetInv

\* Money moves beside the workers.
LEMMA MoneySteps ==
    ASSUME FleetInv,
           \/ \E a \in Agents, x \in Payments : AgentPays(a, x)
           \/ \E t \in late : LateTransferLands(t)
    PROVE  FleetInv'
<1>1. /\ UNCHANGED <<wallet, treasury, deposits, peak, alloc, jobs, lock, worker, call, calls, crashes>>
      /\ late' \subseteq late
  BY DEF AgentPays, LateTransferLands
<1>2. balance' \in [Agents -> Nat]
  <2>1. ASSUME NEW a \in Agents, NEW x \in Payments, AgentPays(a, x)
        PROVE  balance' \in [Agents -> Nat]
    <3>1. x \in Nat /\ balance[a] >= x /\ balance' = [balance EXCEPT ![a] = balance[a] - x]
      BY <2>1, FleetAssumption DEF AgentPays
    <3>2. balance[a] - x \in Nat
      BY <3>1 DEF FleetInv, MoneyTypes
    <3> QED
      BY <3>1, <3>2 DEF FleetInv, MoneyTypes
  <2>2. ASSUME NEW t \in late, LateTransferLands(t)
        PROVE  balance' \in [Agents -> Nat]
    <3>1. t.agent \in Agents /\ t.amount \in Nat
      BY DEF FleetInv, MoneyTypes, LateType
    <3>2. balance[t.agent] + t.amount \in Nat
      BY <3>1 DEF FleetInv, MoneyTypes
    <3>3. balance' = [balance EXCEPT ![t.agent] = balance[t.agent] + t.amount]
      BY <2>2 DEF LateTransferLands
    <3> QED
      BY <3>2, <3>3 DEF FleetInv, MoneyTypes
  <2> QED
    BY <2>1, <2>2
<1>3. MoneyTypes'
  BY <1>1, <1>2 DEF FleetInv, MoneyTypes
<1> QED
  BY <1>1, <1>3, AllocFrame, WorkFrame DEF FleetInv

\* What a pass does to wallets and balances.
LEMMA PassMoney ==
    ASSUME FleetInv, NEW w \in Workers, Pass(w) \/ WorkerDies(w)
    PROVE  MoneyTypes' /\ UNCHANGED <<alloc, deposits, peak, call>>
<1>1. UNCHANGED <<alloc, deposits, peak, call, calls>> /\ crashes' \in {crashes, crashes + 1}
  BY DEF Pass, ListJobs, TakeJob, JobFails, ProcessAgentWalletCreateJob, ProcessAgentWalletTopUpJob,
         TopUpUnanswered, SweepReads, SweepTransfers, MarkSwept, MarkComplete, PostJob, StartScan,
         ReadBalance, EvaluateSingleTopUp, EndPass, WorkerDies
<1>2. crashes' \in Nat /\ calls' \in Nat
  BY <1>1 DEF FleetInv, MoneyTypes
<1>3. ASSUME Busy(w)
      PROVE  Job(w).agent \in Agents /\ Job(w).amount \in Nat /\ worker[w].job \in Nat
             /\ worker[w].amount \in Nat
  BY <1>3, HeldJob DEF FleetInv, JobType, WorkerType
<1>4. CASE UNCHANGED <<wallet, balance, treasury, late>>
  BY <1>1, <1>2, <1>4 DEF FleetInv, MoneyTypes
<1>5. CASE ProcessAgentWalletCreateJob(w)
  <2>1. Busy(w) /\ UNCHANGED <<balance, treasury, late>>
    BY <1>5 DEF ProcessAgentWalletCreateJob, Busy
  <2>2. wallet' = [wallet EXCEPT ![Job(w).agent] =
                       IF wallet[Job(w).agent] = "none" THEN "active" ELSE wallet[Job(w).agent]]
    BY <1>5 DEF ProcessAgentWalletCreateJob
  <2>3. wallet' \in [Agents -> {"none", "active", "swept"}]
    BY <1>3, <2>1, <2>2 DEF FleetInv, MoneyTypes
  <2> QED
    BY <1>1, <1>2, <2>1, <2>3 DEF FleetInv, MoneyTypes
<1>6. CASE ProcessAgentWalletTopUpJob(w)
  <2> DEFINE a == Job(w).agent
             x == Job(w).amount
  <2>1. /\ Busy(w) /\ treasury >= x /\ treasury' = treasury - x
        /\ balance' = [balance EXCEPT ![a] = balance[a] + x] /\ UNCHANGED <<wallet, late>>
    BY <1>6 DEF ProcessAgentWalletTopUpJob, Busy
  <2>2. a \in Agents /\ x \in Nat
    BY <1>3, <2>1
  <2> HIDE DEF a, x
  <2>3. balance[a] + x \in Nat /\ treasury' \in Nat
    BY <2>1, <2>2 DEF FleetInv, MoneyTypes
  <2>4. balance' \in [Agents -> Nat]
    BY <2>1, <2>3 DEF FleetInv, MoneyTypes
  <2> QED
    BY <1>1, <1>2, <2>1, <2>3, <2>4 DEF FleetInv, MoneyTypes
<1>7. CASE TopUpUnanswered(w)
  <2> DEFINE a == Job(w).agent
             x == Job(w).amount
             t == [agent |-> a, amount |-> x, job |-> worker[w].job]
  <2>1. /\ Busy(w) /\ treasury >= x /\ treasury' = treasury - x
        /\ late' = late \cup {t} /\ UNCHANGED <<wallet, balance>>
    BY <1>7 DEF TopUpUnanswered, Busy
  <2>2. a \in Agents /\ x \in Nat /\ worker[w].job \in Nat
    BY <1>3, <2>1
  <2> HIDE DEF a, x
  <2>3. t \in LateType /\ treasury' \in Nat
    BY <2>1, <2>2 DEF FleetInv, MoneyTypes, LateType
  <2> QED
    BY <1>1, <1>2, <2>1, <2>3 DEF FleetInv, MoneyTypes
<1>8. CASE SweepTransfers(w)
  <2> DEFINE a == Job(w).agent
             x == worker[w].amount
  <2>1. /\ Busy(w) /\ balance[a] >= x /\ treasury' = treasury + x
        /\ balance' = [balance EXCEPT ![a] = balance[a] - x] /\ UNCHANGED <<wallet, late>>
    BY <1>8 DEF SweepTransfers, Busy
  <2>2. a \in Agents /\ x \in Nat
    BY <1>3, <2>1
  <2> HIDE DEF a, x
  <2>3. balance[a] - x \in Nat /\ treasury' \in Nat
    BY <2>1, <2>2 DEF FleetInv, MoneyTypes
  <2>4. balance' \in [Agents -> Nat]
    BY <2>1, <2>3 DEF FleetInv, MoneyTypes
  <2> QED
    BY <1>1, <1>2, <2>1, <2>3, <2>4 DEF FleetInv, MoneyTypes
<1>9. CASE MarkSwept(w)
  <2>1. UNCHANGED <<balance, treasury, late>> /\ wallet' = [wallet EXCEPT ![Job(w).agent] = "swept"]
    BY <1>9 DEF MarkSwept
  <2>2. wallet' \in [Agents -> {"none", "active", "swept"}]
    BY <2>1 DEF FleetInv, MoneyTypes
  <2> QED
    BY <1>1, <1>2, <2>1, <2>2 DEF FleetInv, MoneyTypes
<1>10. \/ UNCHANGED <<wallet, balance, treasury, late>>
       \/ ProcessAgentWalletCreateJob(w) \/ ProcessAgentWalletTopUpJob(w) \/ TopUpUnanswered(w)
       \/ SweepTransfers(w) \/ MarkSwept(w)
  BY DEF Pass, ListJobs, TakeJob, JobFails, SweepReads, MarkComplete, PostJob, StartScan,
         ReadBalance, EvaluateSingleTopUp, EndPass, WorkerDies
<1> QED
  BY <1>1, <1>4, <1>5, <1>6, <1>7, <1>8, <1>9, <1>10

\* All the steps of a worker.
LEMMA PassSteps ==
    ASSUME FleetInv, NEW w \in Workers, Pass(w) \/ WorkerDies(w)
    PROVE  FleetInv'
<1>1. MoneyTypes' /\ AllocTypes' /\ AllocInv'
  BY PassMoney, AllocFrame DEF FleetInv
<1>2. MoneyTypes /\ WorkTypes /\ JobsInv /\ AllocTypes
  BY DEF FleetInv
<1>3. CASE ListJobs(w) \/ TakeJob(w) \/ JobFails(w)
  BY <1>1, <1>2, <1>3, ListJobsStep, TakeJobStep, JobFailsStep DEF FleetInv
<1>4. CASE ProcessAgentWalletCreateJob(w) \/ ProcessAgentWalletTopUpJob(w) \/ TopUpUnanswered(w)
  BY <1>1, <1>2, <1>4, CreateJobStep, TopUpJobStep, TopUpUnansweredStep DEF FleetInv
<1>5. CASE SweepReads(w) \/ SweepTransfers(w) \/ MarkSwept(w)
  BY <1>1, <1>2, <1>5, SweepReadsStep, SweepTransfersStep, MarkSweptStep DEF FleetInv
<1>6. CASE MarkComplete(w) \/ \E written \in BOOLEAN : PostJob(w, written)
  BY <1>1, <1>2, <1>6, MarkCompleteStep, PostJobStep DEF FleetInv
<1>7. CASE StartScan(w) \/ \E r \in worker[w].rows : ReadBalance(w, r)
  BY <1>1, <1>2, <1>7, StartScanStep, ReadBalanceStep DEF FleetInv
<1>8. CASE EvaluateSingleTopUp(w)
  BY <1>1, <1>8, EvaluateStep DEF FleetInv
<1>9. CASE EndPass(w) \/ WorkerDies(w)
  BY <1>1, <1>2, <1>9, PassEnds DEF FleetInv
<1> QED
  BY <1>3, <1>4, <1>5, <1>6, <1>7, <1>8, <1>9 DEF Pass

-----------------------------------------------------------------------------
(* Theorems. *)

\* The inductive invariant: a worker in the middle of a job holds the org's
\* lock and has sent what it may post, a call that has read the deposits saw
\* no more than their peak, and the active allocations are finitely many.
THEOREM FleetInvariant == FleetSpec => []FleetInv
<1>1. FleetInit => FleetInv
  <2> SUFFICES ASSUME FleetInit PROVE FleetInv
    OBVIOUS
  <2> USE DEF FleetInit
  <2>1. MoneyTypes
    BY FleetAssumption DEF MoneyTypes
  <2>2. Idle \in WorkerType /\ Idle.pc = "idle" /\ Idle.todo = {}
    BY DEF Idle, WorkerType
  <2>3. WorkTypes
    BY <2>2 DEF WorkTypes
  <2>4. JobsInv
    BY <2>2 DEF JobsInv, Busy, PostingsBacked, OnePendingTopUp
  <2>5. NoPlan \in Plan
    BY DEF NoPlan, Plan
  <2>6. AllocTypes
    BY <2>5, NoCallType, FleetAssumption DEF AllocTypes, AllocType
  <2>7. Active = {} /\ ActiveOf(alloc, Agents) = {}
    BY DEF Active, ActiveOf
  <2>8. Allocated(Agents) = 0
    <3>1. IsFiniteSet({})
      BY FS_EmptySet
    <3>2. Allocated(Agents) = Sum(Amounts(alloc), {})
      BY <2>6, <2>7, <3>1, AllocatedIsSum
    <3> QED
      BY <3>2, SumEmpty
  <2>9. AllocInv
    <3>1. IsFiniteSet(Active)
      BY <2>7, FS_EmptySet
    <3>2. deposits <= peak /\ 0 <= peak
      BY FleetAssumption
    <3> QED
      BY <2>8, <3>1, <3>2, NoCallType DEF AllocInv, AllocationsWithinDeposits
  <2> QED
    BY <2>1, <2>3, <2>4, <2>6, <2>9 DEF FleetInv
<1>2. FleetInv /\ [FleetNext]_fleetVars => FleetInv'
  <2> SUFFICES ASSUME FleetInv, [FleetNext]_fleetVars PROVE FleetInv'
    OBVIOUS
  <2>1. CASE UNCHANGED fleetVars
    <3>1. UNCHANGED <<wallet, balance, treasury, late, calls, crashes>> /\ UNCHANGED <<jobs, lock, worker>>
          /\ UNCHANGED <<alloc, deposits, peak, call>>
      BY <2>1 DEF fleetVars
    <3> QED
      BY <3>1, WorkFrame, AllocFrame DEF FleetInv, MoneyTypes
  <2>2. ASSUME NEW c \in Callers, NEW a \in Agents,
               \/ AskWallet(c, a)
               \/ \E plan \in Plans : AskAllocation(c, a, plan)
               \/ \E r \in Reputations : ApplyReputationAdjustment(c, a, r)
        PROVE  FleetInv'
    BY <2>2, CallSteps
  <2>3. ASSUME NEW c \in Callers, ReadDeposits(c) PROVE FleetInv'
    <3>1. call[c].agent \in Agents
      BY <2>3 DEF ReadDeposits, FleetInv, AllocTypes, CallType
    <3> QED
      BY <2>3, <3>1, CallSteps
  <2>4. ASSUME NEW c \in Callers, EnqueueAgentWalletProvisioning(c) \/ SetAllocation(c) PROVE FleetInv'
    BY <2>4, EnqueueStep, SetAllocationStep
  <2>5. ASSUME NEW a \in Agents, RevokeAgent(a) PROVE FleetInv'
    BY <2>5, RevokeAgentStep
  <2>6. CASE (\E a \in Agents, x \in Payments : AgentPays(a, x)) \/ (\E t \in late : LateTransferLands(t))
    BY <2>6, MoneySteps
  <2>7. ASSUME NEW w \in Workers, Pass(w) \/ WorkerDies(w) PROVE FleetInv'
    BY <2>7, PassSteps
  <2>8. ASSUME NEW d \in Deposited, DepositsChange(d) PROVE FleetInv'
    BY <2>8, DepositsStep
  <2> QED
    BY <2>1, <2>2, <2>3, <2>4, <2>5, <2>6, <2>7, <2>8 DEF FleetNext
<1> QED
  BY <1>1, <1>2, PTL DEF FleetSpec

\* Tables, balances, jobs and calls keep their types.
THEOREM FleetTyped == FleetSpec => []FleetTypeOK
<1>1. FleetInv => FleetTypeOK
  <2> SUFFICES ASSUME FleetInv PROVE FleetTypeOK
    OBVIOUS
  <2>1. \A i \in DOMAIN jobs : jobs[i] \in JobType
    BY ElementOfSeq, LenProperties DEF FleetInv, WorkTypes
  <2>2. \A w \in Workers : worker[w].pc \in {"idle", "next", "run", "sweep", "emptied", "mark",
                                              "post", "scan", "evaluate"}
    BY DEF FleetInv, WorkTypes, WorkerType
  <2>3. \A c \in Callers : call[c].pc \in {"none", "asked", "seen", "provision"}
    BY DEF FleetInv, AllocTypes, CallType
  <2> QED
    BY <2>1, <2>2, <2>3 DEF FleetInv, MoneyTypes, WorkTypes, AllocTypes, AllocType, JobType, FleetTypeOK
<1> QED
  BY <1>1, FleetInvariant, PTL

\* However many setAllocation calls, reputation adjustments and revocations
\* overlap, the active allocations never exceed what the org had deposited.
THEOREM AllocationsWithinDepositsHolds == FleetSpec => []AllocationsWithinDeposits
<1>1. FleetInv => AllocationsWithinDeposits
  BY DEF FleetInv, AllocInv
<1> QED
  BY <1>1, FleetInvariant, PTL

\* However many workers scan the wallets at once, an agent never has two
\* queued top-ups.
THEOREM OnePendingTopUpHolds == FleetSpec => []OnePendingTopUp
<1>1. FleetInv => OnePendingTopUp
  BY DEF FleetInv, JobsInv
<1> QED
  BY <1>1, FleetInvariant, PTL

\* However often a job is run again and wherever workers die, the ledger
\* claims no transfer that was not sent.
THEOREM PostingsBackedHolds == FleetSpec => []PostingsBacked
<1>1. FleetInv => PostingsBacked
  BY DEF FleetInv, JobsInv
<1> QED
  BY <1>1, FleetInvariant, PTL

\* A step that is no worker's sends nothing.
LEMMA OnlyWorkersSend ==
    ASSUME FleetInv, FleetNext, NEW i \in DOMAIN jobs, jobs'[i].sent # jobs[i].sent
    PROVE  \E w \in Workers : \/ ProcessAgentWalletTopUpJob(w) \/ TopUpUnanswered(w) \/ SweepTransfers(w)
<1>1. jobs \in Seq(JobType) /\ i \in 1 .. Len(jobs) /\ jobs[i] \in JobType
  BY ElementOfSeq, LenProperties DEF FleetInv, WorkTypes
<1>2. \A r : Append(jobs, r)[i] = jobs[i]
  BY <1>1
<1>3. jobs' # jobs
  OBVIOUS
<1>4. \A r : jobs' # Append(jobs, r)
  BY <1>2
<1>5. ASSUME NEW w \in Workers, NEW k, NEW st, jobs' = [jobs EXCEPT ![k].status = st] PROVE FALSE
  BY <1>1, <1>5 DEF JobType
<1>6. ASSUME NEW w \in Workers, NEW k, NEW n, jobs' = [jobs EXCEPT ![k].posted = n] PROVE FALSE
  BY <1>1, <1>6 DEF JobType
<1>7. ASSUME NEW c \in Callers, NEW a \in Agents,
             \/ AskWallet(c, a)
             \/ \E plan \in Plans : AskAllocation(c, a, plan)
             \/ \E r \in Reputations : ApplyReputationAdjustment(c, a, r)
      PROVE  FALSE
  BY <1>3, <1>7 DEF AskWallet, AskAllocation, ApplyReputationAdjustment
<1>8. ASSUME NEW c \in Callers, EnqueueAgentWalletProvisioning(c) \/ ReadDeposits(c) \/ SetAllocation(c)
      PROVE  FALSE
  BY <1>3, <1>4, <1>8 DEF EnqueueAgentWalletProvisioning, ReadDeposits, SetAllocation
<1>9. ASSUME NEW a \in Agents, RevokeAgent(a) \/ \E x \in Payments : AgentPays(a, x) PROVE FALSE
  BY <1>3, <1>4, <1>9 DEF RevokeAgent, AgentPays
<1>10. ASSUME NEW w \in Workers, Pass(w) \/ WorkerDies(w)
       PROVE  ProcessAgentWalletTopUpJob(w) \/ TopUpUnanswered(w) \/ SweepTransfers(w)
  <2>1. CASE JobFails(w) \/ MarkComplete(w)
    BY <1>5, <2>1 DEF JobFails, MarkComplete, Close
  <2>2. ASSUME NEW written \in BOOLEAN, PostJob(w, written) PROVE FALSE
    BY <1>5, <1>6, <2>2 DEF PostJob
  <2>3. CASE EvaluateSingleTopUp(w)
    BY <1>3, <1>4, <2>3 DEF EvaluateSingleTopUp
  <2>4. CASE ListJobs(w) \/ TakeJob(w) \/ ProcessAgentWalletCreateJob(w) \/ SweepReads(w) \/ MarkSwept(w)
    BY <1>3, <2>4 DEF ListJobs, TakeJob, ProcessAgentWalletCreateJob, SweepReads, MarkSwept
  <2>5. CASE StartScan(w) \/ (\E r \in worker[w].rows : ReadBalance(w, r)) \/ EndPass(w) \/ WorkerDies(w)
    BY <1>3, <2>5 DEF StartScan, ReadBalance, EndPass, WorkerDies
  <2> QED
    BY <1>10, <2>1, <2>2, <2>3, <2>4, <2>5 DEF Pass
<1>11. ASSUME NEW t \in late, LateTransferLands(t) PROVE FALSE
  BY <1>3, <1>11 DEF LateTransferLands
<1>12. ASSUME NEW d \in Deposited, DepositsChange(d) PROVE FALSE
  BY <1>3, <1>12 DEF DepositsChange
<1> QED
  BY <1>7, <1>8, <1>9, <1>10, <1>11, <1>12 DEF FleetNext

\* No top-up leaves for a wallet that has been swept, whichever worker still
\* has the job on its list.
THEOREM NothingSentToSweptHolds == FleetSpec => NothingSentToSwept
<1> DEFINE Spared == \A i \in DOMAIN jobs : jobs[i].type = "topup" /\ jobs'[i].sent # jobs[i].sent
                        => wallet[jobs[i].agent] = "active"
<1>1. FleetInv /\ [FleetNext]_fleetVars => [Spared]_fleetVars
  <2> SUFFICES ASSUME FleetInv, FleetNext, NEW i \in DOMAIN jobs, jobs[i].type = "topup",
                      jobs'[i].sent # jobs[i].sent
               PROVE  wallet[jobs[i].agent] = "active"
    OBVIOUS
  <2>1. PICK w \in Workers : ProcessAgentWalletTopUpJob(w) \/ TopUpUnanswered(w) \/ SweepTransfers(w)
    BY OnlyWorkersSend
  <2>2. Busy(w)
    BY <2>1 DEF ProcessAgentWalletTopUpJob, TopUpUnanswered, SweepTransfers, Busy
  <2>3. /\ worker[w].job \in DOMAIN jobs /\ Job(w) = jobs[worker[w].job]
        /\ (worker[w].pc = "sweep" => Job(w).type = "sweep")
    BY <2>2, HeldJob DEF FleetInv, Phase
  <2>4. jobs = [j \in 1 .. Len(jobs) |-> jobs[j]] /\ DOMAIN jobs = 1 .. Len(jobs)
    BY LenProperties DEF FleetInv, WorkTypes
  <2>5. i = worker[w].job
    <3>1. \E r : jobs' = [jobs EXCEPT ![worker[w].job] = r]
      BY <2>1 DEF ProcessAgentWalletTopUpJob, TopUpUnanswered, SweepTransfers
    <3> QED
      BY <2>4, <3>1
  <2>6. ~SweepTransfers(w)
    BY <2>3, <2>5 DEF SweepTransfers
  <2>7. Payable(Job(w).agent)
    BY <2>1, <2>6 DEF ProcessAgentWalletTopUpJob, TopUpUnanswered
  <2> QED
    BY <2>3, <2>5, <2>7 DEF Payable
<1> HIDE DEF Spared
<1>2. FleetSpec => [][Spared]_fleetVars
  BY <1>1, FleetInvariant, PTL DEF FleetSpec
<1> QED
  BY <1>2 DEF NothingSentToSwept, Spared

=============================================================================
