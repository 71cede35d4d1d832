------------------------------ MODULE MCDaemon ------------------------------
(***************************************************************************)
(* TLC instances of the components that keep the daemon going: restarts,   *)
(* outages, refreshes and the order and supply of work.  They share no     *)
(* state, so a behaviour is one of one component, named by `scene`.        *)
(***************************************************************************)
EXTENDS Dispatch, Pools, DirRefresh, PushWatch, HandleRestore, Takeover, HandoffLog, MountPoint, Pacing

VARIABLE scene

restartVars == <<handleVars, takeoverVars, logVars, mountVars>>
workVars == <<poolVars, refreshVars, pushVars, backoffVars, walkVars, dispatchVars>>
daemonVars == <<scene, restartVars, workVars>>

MCIn == [x \in Nested |-> "d"]

----------------------------------------------------------------------------
\* Only the behaviours of its scene differ in how a component starts.
DaemonInit ==
    /\ scene \in {"pool", "folder", "push", "handle", "restart", "log", "mount", "table", "backoff", "walk"}
    /\ PoolsInit /\ RefreshInit /\ PushInit /\ HandleInit /\ TakeoverInit /\ LogInit
    /\ MountInit /\ BackoffInit /\ WalkInit /\ DispatchInit
    /\ scene = "pool" \/ ~lingers
    /\ scene = "handle" \/ ~handle.dirty
    /\ scene = "restart" \/ systemd
    /\ scene = "mount" \/ (dir = {} /\ \A x \in DOMAIN remote : remote[x] = Absent)

DaemonNext ==
    /\ UNCHANGED scene
    /\ \/ /\ scene = "pool" /\ UNCHANGED <<refreshVars, pushVars, backoffVars, walkVars, dispatchVars, restartVars>>
          /\ PoolsNext
       \/ /\ scene = "folder" /\ UNCHANGED <<poolVars, pushVars, backoffVars, walkVars, dispatchVars, restartVars>>
          /\ RefreshNext
       \/ /\ scene = "push" /\ UNCHANGED <<poolVars, refreshVars, backoffVars, walkVars, dispatchVars, restartVars>>
          /\ PushNext
       \/ /\ scene = "backoff" /\ UNCHANGED <<poolVars, refreshVars, pushVars, walkVars, dispatchVars, restartVars>>
          /\ BackoffNext
       \/ /\ scene = "walk" /\ UNCHANGED <<poolVars, refreshVars, pushVars, backoffVars, dispatchVars, restartVars>>
          /\ WalkNext
       \/ /\ scene = "table" /\ UNCHANGED <<poolVars, refreshVars, pushVars, backoffVars, walkVars, restartVars>>
          /\ DispatchNext
       \/ /\ scene = "handle" /\ UNCHANGED <<takeoverVars, logVars, mountVars, workVars>>
          /\ HandleNext
       \/ /\ scene = "restart" /\ UNCHANGED <<handleVars, logVars, mountVars, workVars>>
          /\ TakeoverNext
       \/ /\ scene = "log" /\ UNCHANGED <<handleVars, takeoverVars, mountVars, workVars>>
          /\ LogNext
       \/ /\ scene = "mount" /\ UNCHANGED <<handleVars, takeoverVars, logVars, workVars>>
          /\ MountNext

\* The fairness each component's module states, in its scene: what a thread has
\* begun it goes on with, and what only waits for time to pass happens.
DaemonFairness ==
    /\ WF_takeoverVars(scene = "restart" /\ Take)
    /\ WF_takeoverVars(scene = "restart" /\ Answer)
    /\ WF_takeoverVars(scene = "restart" /\ (Exec \/ Undo))
    /\ WF_takeoverVars(scene = "restart" /\ PingWithheld)
    /\ WF_takeoverVars(scene = "restart" /\ Start)
    /\ WF_takeoverVars(scene = "restart" /\ StartLimitHit)
    /\ WF_takeoverVars(scene = "restart" /\ (Reattach \/ MountFresh \/ Serve))
    /\ WF_takeoverVars(scene = "restart" /\ Disarm)
    /\ WF_takeoverVars(scene = "restart" /\ TakeoverLate)
    /\ WF_takeoverVars(scene = "restart" /\ give_up_stalled_takeover)
    /\ WF_pushVars(scene = "push" /\ MonitorReachable)
    /\ WF_pushVars(scene = "push" /\ mark_online)
    /\ WF_pushVars(scene = "push" /\ MonitorUnreachable)
    /\ WF_pushVars(scene = "push" /\ ReplayEnds)
    /\ \A r \in Reads : WF_pushVars(scene = "push" /\ mark_offline(r))
    /\ \A r \in Readers : /\ WF_refreshVars(scene = "folder" /\ ReaderStep(r))
                          /\ SF_refreshVars(scene = "folder" /\ ReadHit(r))
                          /\ WF_refreshVars(scene = "folder" /\ ReadTimeout(r) /\ idleRefresh)
    /\ \A f \in Fetches : WF_refreshVars(scene = "folder" /\ FetchStep(f))
    /\ \A j \in Jobs : WF_refreshVars(scene = "folder" /\ JobStep(j))
    /\ WF_refreshVars(scene = "folder" /\ HardExpires)
    /\ WF_refreshVars(scene = "folder" /\ CooldownsPass)
    /\ \A j \in 1..MaxJobs :
         WF_poolVars(scene = "pool" /\ j \in DOMAIN jobs
                       /\ (submit(j) \/ start_worker(j) \/ SettleDeadline(j) \/ work(j)))
    /\ WF_poolVars(scene = "pool" /\ Lingered)

DaemonSpec == DaemonInit /\ [][DaemonNext]_daemonVars /\ DaemonFairness

----------------------------------------------------------------------------
\* Every variable of every component holds a value of its type.
DaemonTypeOK ==
    /\ scene = "pool" => PoolsTypeOK
    /\ scene = "log" => LogTypeOK
    /\ scene = "handle" => HandleTypeOK
    /\ scene = "restart" => TakeoverTypeOK
    /\ scene = "mount" => MountTypeOK
    /\ scene = "push" => PushTypeOK
    /\ scene = "folder" => RefreshTypeOK
    /\ scene = "table" => DispatchTypeOK
    /\ scene = "backoff" => BackoffTypeOK
    /\ scene = "walk" => WalkTypeOK

\* What must happen does: a program's request is answered or refused whatever
\* becomes of the daemon, and a daemon that serves never loses the connection;
\* once the server is back the daemon is online and has replayed its journal; a
\* folder that is read again and again is shown as the server holds it; and
\* every mutation that takes a ticket ends.  (Outages and tickets are finitely
\* many here, so to be settled again and again is to stay settled.)
Settled ==
    /\ scene = "restart" => ~Waiting
    /\ scene = "push" /\ ServerUp => CaughtUp
    /\ scene = "folder" => \A r \in Readers : UpToDate(r)
    /\ scene = "pool" => Live = {}
Progress ==
    /\ [][scene = "restart" => ServedStep]_daemonVars
    /\ []<>Settled
=============================================================================
