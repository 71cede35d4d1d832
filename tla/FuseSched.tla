----------------------------- MODULE FuseSched -----------------------------
(***************************************************************************)
(* The FUSE request scheduler (ncrs_core/src/fuse_sched.rs).  The dispatch *)
(* thread appends each request to the FIFO queue of every key (inode or    *)
(* handle) it touches; a request runs once every earlier request on its    *)
(* keys is compatible with it.  Finishing a request releases its keys one  *)
(* by one and starts the requests it was holding back.                     *)
(*                                                                         *)
(* A queue only ever grows at its end, in id order, and shrinks by id, so  *)
(* it is kept as a function from the ids on it to their modes: the queue's *)
(* order is the order of the ids.                                          *)
(***************************************************************************)
EXTENDS Naturals, FiniteSets

CONSTANTS Keys,         \* inodes and file handles
          Requests,     \* the key lists requests come with: sets of <<key, mode>>
          MaxInflight,  \* max_inflight
          MaxId         \* bound: how many requests are submitted

Mode == {"Shared", "Exclusive"}

Id == 1 .. MaxId

None == 0

ASSUME RequestsAssumption == \A r \in Requests : r \subseteq Keys \X Mode

ASSUME BoundsAssumption == MaxInflight \in Nat \ {0} /\ MaxId \in Nat

VARIABLES next_id,    \* the last id given out
          queues,     \* per key, the live ids on it with their modes
          tasks,      \* live tasks: their keys and whether the job was taken
          completing, \* [id, left]: complete() of id, keys left to release; id None: idle
          dispatch,   \* where the dispatch thread is in submit()
          paused      \* paused_until is set

vars == <<next_id, queues, tasks, completing, dispatch, paused>>

\* complete() holds the state lock for its whole loop.
Unlocked == completing.id = None

Compatible(m, n) == m = "Shared" /\ n = "Shared"

\* Mutant of ready: only the head of each queue counts.
ready_HeadOnly(q, t, id) ==
    \A k \in DOMAIN t[id].keys :
        \A e \in DOMAIN q[k] :
            e < id /\ (\A d \in DOMAIN q[k] : e <= d) => Compatible(t[id].keys[k], q[k][e])

\* ready(): every task ahead of id on each of its keys is compatible with it.
ready(q, t, id) ==
    \A k \in DOMAIN t[id].keys :
        \A e \in DOMAIN q[k] : e < id => Compatible(t[id].keys[k], q[k][e])

\* A key listed twice keeps its strongest mode.
Merged(r) ==
    [k \in {x[1] : x \in r} |->
        IF <<k, "Exclusive">> \in r THEN "Exclusive" ELSE "Shared"]

Restricted(f, S) == [x \in S |-> f[x]]

Without(f, x) == Restricted(f, DOMAIN f \ {x})

With(f, x, v) == [y \in DOMAIN f \cup {x} |-> IF y = x THEN v ELSE f[y]]

Init ==
    /\ next_id = 0
    /\ queues = [k \in Keys |-> [e \in {} |-> "Shared"]]
    /\ tasks = [e \in {} |-> [keys |-> [k \in {} |-> "Shared"], job |-> FALSE]]
    /\ completing = [id |-> None, left |-> {}]
    /\ dispatch = [at |-> "read", request |-> {}]
    /\ paused = FALSE

\* The kernel's next request reaches submit(), which first waits out a pause.
Read(r) ==
    /\ dispatch.at = "read"
    /\ next_id < MaxId
    /\ dispatch' = [at |-> "pause", request |-> r]
    /\ UNCHANGED <<next_id, queues, tasks, completing, paused>>

\* Not paused, but no room: submit() goes on to wait for room, and from then on does not
\* look at the pause again.
WaitForRoom ==
    /\ dispatch.at = "pause"
    /\ Unlocked
    /\ ~paused
    /\ Cardinality(DOMAIN tasks) >= MaxInflight
    /\ dispatch' = [dispatch EXCEPT !.at = "room"]
    /\ UNCHANGED <<next_id, queues, tasks, completing, paused>>

\* Mutant of NewId: the counter is read before it is increased.
NewId_Unincreased == next_id

NewId == next_id + 1

\* Room for one more: append to every key's queue and start it if it is ready.
Submit ==
    /\ \/ dispatch.at = "pause" /\ ~paused
       \/ dispatch.at = "room"
    /\ Unlocked
    /\ Cardinality(DOMAIN tasks) < MaxInflight
    /\ LET id   == NewId
           keys == Merged(dispatch.request)
           q    == [k \in Keys |-> IF k \in DOMAIN keys
                                   THEN With(queues[k], id, keys[k])
                                   ELSE queues[k]]
           t    == With(tasks, id, [keys |-> keys, job |-> TRUE])
       IN  /\ next_id' = id
           /\ queues' = q
           /\ tasks' = [t EXCEPT ![id].job = ~ready(q, t, id)]
    /\ dispatch' = [at |-> "read", request |-> {}]
    /\ UNCHANGED <<completing, paused>>

\* complete(), up to its loop: the job returned, panicked, or was dropped unrun by the
\* pool (Done's drop either way).
Complete(id) ==
    /\ Unlocked
    /\ ~tasks[id].job
    /\ completing' = [id |-> id, left |-> DOMAIN tasks[id].keys]
    /\ tasks' = Without(tasks, id)
    /\ UNCHANGED <<next_id, queues, dispatch, paused>>

\* Mutant of Candidates: a shared head does not bring the shared run behind it along.
Candidates_NoRun(q) ==
    {c \in DOMAIN q : tasks[c].job /\ \A e \in DOMAIN q : c <= e}

\* Mutant of Candidates: an exclusive head is not looked at.
Candidates_SharedOnly(q) ==
    {c \in DOMAIN q : tasks[c].job /\ \A e \in DOMAIN q : e <= c => q[e] = "Shared"}

\* The tasks complete() looks at on a key's queue q: none if its head already runs, else
\* the head and, if that is shared, the shared run behind it.
Candidates(q) ==
    {c \in DOMAIN q :
        \E head \in DOMAIN q :
            /\ \A e \in DOMAIN q : head <= e
            /\ tasks[head].job
            /\ c = head \/ \A e \in DOMAIN q : e <= c => q[e] = "Shared"}

\* One turn of complete()'s loop: take the task off k's queue and start the candidates
\* that are ready.
ReleaseKey(k) ==
    /\ k \in completing.left
    /\ queues' = [queues EXCEPT ![k] = Without(@, completing.id)]
    /\ tasks' = [e \in DOMAIN tasks |->
                    IF e \in Candidates(queues'[k]) /\ ready(queues', tasks, e)
                    THEN [tasks[e] EXCEPT !.job = FALSE]
                    ELSE tasks[e]]
    /\ completing' = [completing EXCEPT !.left = @ \ {k}]
    /\ UNCHANGED <<next_id, dispatch, paused>>

\* Mutant of EndComplete: complete() returns with keys left to release.
EndComplete_Early ==
    /\ ~Unlocked
    /\ completing' = [completing EXCEPT !.id = None]
    /\ UNCHANGED <<next_id, queues, tasks, dispatch, paused>>

\* The loop is done: drop the lock and wake whoever waits for room.
EndComplete ==
    /\ ~Unlocked
    /\ completing.left = {}
    /\ completing' = [completing EXCEPT !.id = None]
    /\ UNCHANGED <<next_id, queues, tasks, dispatch, paused>>

\* quiesce() sets the pause.
Quiesce ==
    /\ Unlocked
    /\ ~paused
    /\ paused' = TRUE
    /\ UNCHANGED <<next_id, queues, tasks, completing, dispatch>>

\* resume(), or submit() finding that the pause has run out.
Resume ==
    /\ Unlocked
    /\ paused
    /\ paused' = FALSE
    /\ UNCHANGED <<next_id, queues, tasks, completing, dispatch>>

Next ==
    \/ \E r \in Requests : Read(r)
    \/ WaitForRoom
    \/ Submit
    \/ \E id \in DOMAIN tasks : Complete(id)
    \/ \E k \in Keys : ReleaseKey(k)
    \/ EndComplete
    \/ Quiesce
    \/ Resume

Spec == Init /\ [][Next]_vars

\* Every started job returns, panics or is dropped, and complete() runs to its end.
Fairness ==
    /\ \A id \in Id : WF_vars(id \in DOMAIN tasks /\ Complete(id))
    /\ WF_vars(\E k \in Keys : ReleaseKey(k))
    /\ WF_vars(EndComplete)

FairSpec == Spec /\ Fairness

-----------------------------------------------------------------------------
\* Every variable holds a value of its type: a live task has an id already given out,
\* and complete() works on the keys of one finished task.
TypeOK ==
    /\ next_id \in 0 .. MaxId
    /\ queues = [k \in Keys |-> queues[k]]
    /\ \A k \in Keys : /\ DOMAIN queues[k] \subseteq 1 .. next_id
                       /\ queues[k] \in [DOMAIN queues[k] -> Mode]
    /\ DOMAIN tasks \subseteq 1 .. next_id
    /\ tasks = [t \in DOMAIN tasks |-> tasks[t]]
    /\ \A t \in DOMAIN tasks : /\ DOMAIN tasks[t].keys \subseteq Keys
                               /\ tasks[t] \in [keys : [DOMAIN tasks[t].keys -> Mode],
                                                job  : BOOLEAN]
    /\ completing \in [id : 0 .. next_id, left : SUBSET Keys]
    /\ dispatch \in [at : {"read", "pause", "room"}, request : SUBSET (Keys \X Mode)]
    /\ dispatch.at # "read" => next_id < MaxId
    /\ paused \in BOOLEAN

\* Two live tasks meet on a key where at least one of them is exclusive.
Conflict(s, t) ==
    \E k \in DOMAIN tasks[s].keys \cap DOMAIN tasks[t].keys :
        ~Compatible(tasks[s].keys[k], tasks[t].keys[k])

\* Requests on a key run in arrival order, exclusive ones alone: a task whose job has been
\* taken has no earlier live task it conflicts with (submit() and complete() start a task
\* only when ready()).
ArrivalOrder ==
    \A s, t \in DOMAIN tasks : s < t /\ Conflict(s, t) => tasks[t].job

\* complete() never strands a request: outside its critical section, a task that still
\* waits has an earlier live task it conflicts with, whose completion will look at it
\* again.  complete() looks only at the head of a queue and the shared run behind it, and
\* only when that head waits; this says that is enough.
NoLostWakeup ==
    Unlocked =>
        \A t \in DOMAIN tasks : tasks[t].job =>
            \E s \in DOMAIN tasks : s < t /\ Conflict(s, t)

\* The oldest live request is always started, so requests cannot wait on each other in a
\* circle (the module comment's argument for deadlock freedom).
OldestRuns ==
    Unlocked =>
        \A t \in DOMAIN tasks : (\A s \in DOMAIN tasks : t <= s) => ~tasks[t].job

\* A key is held only by live tasks, each exactly on its own keys, and by the keys
\* complete() has still to release: no finished request keeps a key busy for ever.
KeysHeldByLive ==
    \A k \in Keys : \A e \in DOMAIN queues[k] :
        \/ e \in DOMAIN tasks /\ k \in DOMAIN tasks[e].keys /\ queues[k][e] = tasks[e].keys[k]
        \/ e = completing.id /\ k \in completing.left

\* How a state of the scheduler reads as one of RequestOrder: the live tasks with their
\* keys, and among them the ones whose job was taken.
Order == INSTANCE RequestOrder WITH
    KeyLists <- {Merged(r) : r \in Requests},
    last     <- next_id,
    live     <- [t \in DOMAIN tasks |-> tasks[t].keys],
    running  <- {t \in DOMAIN tasks : ~tasks[t].job}

\* The scheduler implements the order it promises: with its per-key queues, and with
\* complete() releasing a finished request's keys one by one and looking only at the
\* heads, every start of a request is one RequestOrder allows, in the same step.
InOrder == Order!OrderSpec

\* A planned restart stops taking requests: the comment on paused_until says no new task
\* is taken while it is set.
NoTaskWhilePaused == [][paused /\ paused' => DOMAIN tasks' \subseteq DOMAIN tasks]_vars

\* Every request that was queued is completed in the end.
EveryRequestCompletes ==
    \A id \in Id : id \in DOMAIN tasks ~> id \notin DOMAIN tasks
=============================================================================
