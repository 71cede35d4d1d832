-------------------------------- MODULE Pools --------------------------------
(***************************************************************************)
(* A worker pool (bg.rs) and the mutations that run on one: each takes a   *)
(* PathSeq ticket and is queued, in that order, under MUTATION_ORDER       *)
(* (lib.rs, submit_mutation); its worker then waits for the earlier        *)
(* tickets on its path.  A worker that waits is a worker the pool does not *)
(* have, so the order in which jobs get workers is what keeps them from    *)
(* waiting on each other for ever.  An upload that a rename re-pointed     *)
(* waits once more, outside its ticket, for a job queued after its own     *)
(* (settle_live_upload), which only its deadline keeps finite.             *)
(***************************************************************************)
EXTENDS Naturals, Sequences, FiniteSets

CONSTANTS MaxWorkers,   \* max_workers
          QueueCap,     \* queue_cap
          Paths,        \* what mutations are ordered on
          MaxJobs,      \* bound on jobs
          Strands       \* may the system refuse a thread while jobs are queued?

ASSUME PoolsAssumption == MaxWorkers \in Nat \ {0} /\ QueueCap \in Nat /\ MaxJobs \in Nat

VARIABLES lingers,   \* does the pool linger?
          active,    \* workers, the ones being started included
          idle,      \* workers that linger
          queue,     \* jobs without a worker
          jobs       \* per job in ticket order, its path, where it is, what it waits for

poolVars == <<lingers, active, idle, queue, jobs>>

PoolsInit == lingers \in BOOLEAN /\ active = 0 /\ idle = 0 /\ queue = <<>> /\ jobs = <<>>

At(where) == {j \in DOMAIN jobs : jobs[j].at \in where}
Live == At({"ticketed", "spawning", "queued", "running"})

\* A ticket is taken only once the previous one's job is queued.
TakeTicket_Unordered(p) ==
    /\ Len(jobs) < MaxJobs
    /\ jobs' = Append(jobs, [path |-> p, at |-> "ticketed", settles |-> 0])
    /\ UNCHANGED <<lingers, active, idle, queue>>
TakeTicket(p) ==
    /\ Len(jobs) < MaxJobs /\ At({"ticketed"}) = {}
    /\ jobs' = Append(jobs, [path |-> p, at |-> "ticketed", settles |-> 0])
    /\ UNCHANGED <<lingers, active, idle, queue>>

\* submit(): to a lingering worker that has nothing to take yet, to a new
\* worker, to the queue, or to nobody.
FreeWorker == idle > Len(queue)
submit(j) ==
    /\ jobs[j].at = "ticketed"
    /\ IF ~FreeWorker /\ active < MaxWorkers
       THEN active' = active + 1 /\ jobs' = [jobs EXCEPT ![j].at = "spawning"] /\ UNCHANGED queue
       ELSE IF FreeWorker \/ Len(queue) < QueueCap
       THEN queue' = Append(queue, j) /\ jobs' = [jobs EXCEPT ![j].at = "queued"] /\ UNCHANGED active
       ELSE jobs' = [jobs EXCEPT ![j].at = "refused"] /\ UNCHANGED <<active, queue>>
    /\ UNCHANGED <<lingers, idle>>

\* start_worker(): without a thread the slot is given back and the job lost.
start_worker(j) ==
    /\ jobs[j].at = "spawning"
    /\ \/ jobs' = [jobs EXCEPT ![j].at = "running"] /\ UNCHANGED active
       \/ (queue = <<>> \/ Strands) /\ active' = active - 1 /\ jobs' = [jobs EXCEPT ![j].at = "refused"]
    /\ UNCHANGED <<lingers, idle, queue>>

\* Ticket::ready
ready(j) == \A i \in Live : i < j => jobs[i].path # jobs[j].path

\* Its turn come, a worker may wait once more, for a job queued after its own: a
\* re-pointed upload for a change to its new name, a DELETE for the upload of a
\* file re-created under its name (which itself waits for the DELETE's ticket).
WaitsAgain(j) ==
    /\ jobs[j].at = "running" /\ ready(j) /\ jobs[j].settles = 0
    /\ \E i \in Live : i > j /\ jobs' = [jobs EXCEPT ![j].settles = i]
    /\ UNCHANGED <<lingers, active, idle, queue>>

\* It waits no longer than SETTLE_WAIT (settle_live_upload), or 30 s (unlink).
SettleDeadline_Never(j) == FALSE /\ UNCHANGED poolVars
SettleDeadline(j) ==
    /\ jobs[j].at = "running" /\ jobs[j].settles \in Live
    /\ jobs' = [jobs EXCEPT ![j].settles = MaxJobs + 1]
    /\ UNCHANGED <<lingers, active, idle, queue>>

\* The job ends, its ticket with it, and the worker looks for the next one.
work(j) ==
    /\ jobs[j].at = "running" /\ ready(j) /\ jobs[j].settles \notin Live
    /\ IF queue # <<>>
       THEN /\ jobs' = [jobs EXCEPT ![j].at = "done", ![Head(queue)].at = "running"]
            /\ queue' = Tail(queue) /\ UNCHANGED <<active, idle>>
       ELSE /\ jobs' = [jobs EXCEPT ![j].at = "done"] /\ UNCHANGED queue
            /\ IF lingers THEN idle' = idle + 1 /\ UNCHANGED active
               ELSE active' = active - 1 /\ UNCHANGED idle
    /\ UNCHANGED lingers

\* A lingering worker is woken, or has lingered long enough.
Lingered_KeepsPlace ==
    /\ idle > 0 /\ idle' = idle - 1
    /\ IF queue # <<>>
       THEN jobs' = [jobs EXCEPT ![Head(queue)].at = "running"] /\ queue' = Tail(queue)
       ELSE UNCHANGED <<jobs, queue>>
    /\ UNCHANGED <<lingers, active>>
Lingered ==
    /\ idle > 0 /\ idle' = idle - 1
    /\ IF queue # <<>>
       THEN jobs' = [jobs EXCEPT ![Head(queue)].at = "running"] /\ queue' = Tail(queue) /\ UNCHANGED active
       ELSE active' = active - 1 /\ UNCHANGED <<jobs, queue>>
    /\ UNCHANGED lingers

PoolsNext ==
    \/ \E p \in Paths : TakeTicket(p)
    \/ \E j \in DOMAIN jobs : submit(j) \/ start_worker(j) \/ WaitsAgain(j) \/ SettleDeadline(j) \/ work(j)
    \/ Lingered

\* The caller goes on to submit, a started thread runs, a wait ends once what
\* it waits for has happened, and a notified worker wakes.
PoolsFairness ==
    /\ \A j \in 1..MaxJobs :
         WF_poolVars(j \in DOMAIN jobs /\ (submit(j) \/ start_worker(j) \/ SettleDeadline(j) \/ work(j)))
    /\ WF_poolVars(Lingered)

PoolsSpec == PoolsInit /\ [][PoolsNext]_poolVars /\ PoolsFairness

----------------------------------------------------------------------------
\* The cap never leaks: active counts the workers there are.
PoolsTypeOK ==
    /\ active = idle + Cardinality(At({"spawning", "running"})) /\ active <= MaxWorkers
    /\ {queue[i] : i \in DOMAIN queue} = At({"queued"})

\* A job is queued only for want of workers: it waits while all of them have
\* jobs, or for a lingering one that is free to take it.  Mutations depend on
\* it, for the job a worker waits for may be one that is queued.
NoNeedlessWait == Len(queue) > idle => active = MaxWorkers

\* The oldest unfinished ticket belongs to a job that has a worker or gets the
\* next free one (bg.rs, MUTATION), so tickets cannot wait in a circle.
OldestHasWorker ==
    \A j \in Live : (\A i \in Live : j <= i) /\ jobs[j].at = "queued" => idle > 0

\* Every mutation that takes a ticket ends, whatever waits for whatever.
EveryJobEnds == \A j \in 1..MaxJobs : j \in Live ~> j \notin Live
=============================================================================
