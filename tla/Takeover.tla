------------------------------- MODULE Takeover -------------------------------
(***************************************************************************)
(* The FUSE connection across daemon restarts: who holds its descriptor    *)
(* (the daemon, systemd's fd store, an image about to be exec'd), a new    *)
(* daemon's taking it over, its giving up, and the watchdog.  Programs     *)
(* with a request on the mount wait as long as the connection lives and    *)
(* nobody serves it.                                                       *)
(***************************************************************************)
EXTENDS Naturals

CONSTANTS MaxMishaps    \* bound: crashes, hangs, restarts and failed starts

VARIABLES systemd,      \* the daemon runs as a service: fd store, watchdog, restarts
          proc,         \* "none", "starting", "stalled", "serving", "paused", "hung"
          armed,        \* TAKEOVER_SINCE: taken over and not served yet
          late,         \* the watchdog has found the takeover past its limit
          held,         \* holders of the connection's descriptor
          conn,         \* "live", or "dead": aborted, or its last descriptor closed
          request,      \* one program's request: "none", "queued", "taken"
          ran,          \* times this daemon has taken that request
          mishaps

takeoverVars == <<systemd, proc, armed, late, held, conn, request, ran, mishaps>>

TakeoverInit ==
    /\ systemd \in BOOLEAN
    /\ proc = "serving" /\ armed = FALSE /\ late = FALSE
    /\ held = {"daemon"} \cup (IF systemd THEN {"store"} ELSE {})       \* adopt_fresh, new_keeper
    /\ conn = "live" /\ request = "none" /\ ran = 0 /\ mishaps = 0

Mishap == mishaps < MaxMishaps /\ mishaps' = mishaps + 1

\* Holding changes to `h`; a connection nobody holds is dead, and whoever
\* waits on a dead one gets ENOTCONN.
Hold(h, dead) ==
    /\ held' = IF dead THEN {} ELSE h
    /\ conn' = IF dead \/ h = {} THEN "dead" ELSE conn
    /\ request' = IF conn' = "dead" THEN "none" ELSE request

\* give_up, abort_connection: out of the store, and aborted outright.
give_up == Hold({}, TRUE)

Exits == proc' = "none" /\ armed' = FALSE /\ late' = FALSE

----------------------------------------------------------------------------
(* Programs, and the session. *)

Ask ==
    /\ conn = "live" /\ request = "none"
    /\ request' = "queued" /\ ran' = 0
    /\ UNCHANGED <<systemd, proc, armed, late, held, conn, mishaps>>

Take ==
    /\ proc = "serving" /\ request = "queued"
    /\ request' = "taken" /\ ran' = ran + 1
    /\ UNCHANGED <<systemd, proc, armed, late, held, conn, mishaps>>

Answer ==
    /\ proc \in {"serving", "paused"} /\ request = "taken" /\ ran > 0
    /\ request' = "none"
    /\ UNCHANGED <<systemd, proc, armed, late, held, conn, ran, mishaps>>

----------------------------------------------------------------------------
(* Ends of a daemon. *)

\* A crash or a kill leaves the connection to the store, if it is there.
ProcCrash ==
    /\ proc # "none" /\ Mishap
    /\ Exits /\ Hold(held \ {"daemon", "exec"}, FALSE)
    /\ UNCHANGED <<systemd, ran>>

\* on_sigterm: hands over to the store, or ends as an unhandled SIGTERM.
Sigterm ==
    /\ proc = "serving" /\ ~armed /\ Mishap
    /\ Exits /\ Hold(held \ {"daemon"}, FALSE)
    /\ UNCHANGED <<systemd, ran>>

\* planned_restart: drain, then exec; an exec that fails resumes.
ProcDrain ==
    /\ proc = "serving" /\ ~armed /\ Mishap
    /\ proc' = "paused"
    /\ UNCHANGED <<systemd, armed, late, held, conn, request, ran>>
Exec ==
    /\ proc = "paused"
    /\ proc' = "starting" /\ ran' = 0
    /\ held' = (held \ {"daemon"}) \cup {"exec"}
    /\ UNCHANGED <<systemd, armed, late, conn, request, mishaps>>
Undo ==
    /\ proc = "paused" /\ proc' = "serving"
    /\ UNCHANGED <<systemd, armed, late, held, conn, request, ran, mishaps>>

\* A lock or the FUSE pool is stuck while serving.  sd_watchdog's verdict
\* withholds the pings and systemd kills the service.
Hang ==
    /\ systemd /\ proc = "serving" /\ ~armed /\ Mishap
    /\ proc' = "hung"
    /\ UNCHANGED <<systemd, armed, late, held, conn, request, ran>>
PingWithheld ==
    /\ proc = "hung"
    /\ Exits /\ Hold(held \ {"daemon"}, FALSE)
    /\ UNCHANGED <<systemd, ran, mishaps>>

----------------------------------------------------------------------------
(* Starts of a daemon. *)

\* systemd starts the service again; past its start limit it lets the store go.
Start ==
    /\ proc = "none" /\ systemd /\ mishaps < MaxMishaps
    /\ proc' = "starting" /\ ran' = 0
    /\ UNCHANGED <<systemd, armed, late, held, conn, request, mishaps>>
StartLimitHit ==
    /\ proc = "none" /\ mishaps = MaxMishaps /\ held # {}
    /\ Hold({}, FALSE)
    /\ UNCHANGED <<systemd, proc, armed, late, ran, mishaps>>

\* fuse_mount_dev: the mount table still shows this connection there.
validated == conn = "live"

\* try_reattach, load: the connection is taken over and the guard armed; one
\* whose state cannot be restored is abandoned.
Reattach ==
    /\ proc = "starting" /\ ~armed /\ validated
    /\ \/ armed' = TRUE /\ held' = (held \ {"exec"}) \cup {"daemon"} /\ UNCHANGED <<conn, request, mishaps>>
       \/ give_up /\ Mishap /\ UNCHANGED armed
    /\ UNCHANGED <<systemd, proc, late, ran>>

\* Nothing to take over: Session::new, adopt_fresh, start_fresh.
MountFresh ==
    /\ proc = "starting" /\ ~validated
    /\ proc' = "serving" /\ conn' = "live"
    /\ held' = {"daemon"} \cup (IF systemd THEN {"store"} ELSE {})
    /\ UNCHANGED <<systemd, armed, late, request, ran, mishaps>>

\* A configuration, keyring or setup error: dropping the guard gives up.
StartFails ==
    /\ proc = "starting" /\ Mishap
    /\ Exits /\ (IF armed THEN give_up ELSE Hold(held \ {"daemon", "exec"}, FALSE))
    /\ UNCHANGED <<systemd, ran>>

\* A start that never gets to serving; outside systemd nothing watches it.
StartStalls ==
    /\ systemd /\ proc = "starting" /\ armed /\ Mishap
    /\ proc' = "stalled"
    /\ UNCHANGED <<systemd, armed, late, held, conn, request, ran>>

\* takeover_verdict, then give_up_stalled_takeover, which looks again.
TakeoverLate ==
    /\ systemd /\ proc \in {"starting", "stalled"} /\ armed /\ ~late
    /\ late' = TRUE
    /\ UNCHANGED <<systemd, proc, armed, held, conn, request, ran, mishaps>>
give_up_stalled_takeover_Blind ==
    /\ late /\ late' = FALSE
    /\ proc' = "none" /\ armed' = FALSE /\ give_up
    /\ UNCHANGED <<systemd, ran, mishaps>>
give_up_stalled_takeover ==
    /\ late /\ late' = FALSE
    /\ IF armed THEN proc' = "none" /\ armed' = FALSE /\ give_up
       ELSE UNCHANGED <<proc, armed, held, conn, request>>
    /\ UNCHANGED <<systemd, ran, mishaps>>

\* resend_in_flight: what the predecessor took and never answered is queued
\* again, before this session reads anything; then the session serves.
Serve_Unsent ==
    /\ proc = "starting" /\ armed
    /\ proc' = "serving"
    /\ UNCHANGED <<systemd, armed, late, held, conn, request, ran, mishaps>>
Serve ==
    /\ proc = "starting" /\ armed
    /\ request' = IF request = "taken" THEN "queued" ELSE request
    /\ proc' = "serving"
    /\ UNCHANGED <<systemd, armed, late, held, conn, ran, mishaps>>

\* ReattachGuard::disarm, adopt_reattached.
Disarm_Resends ==
    /\ proc = "serving" /\ armed
    /\ armed' = FALSE
    /\ request' = IF request = "taken" THEN "queued" ELSE request
    /\ held' = held \cup (IF systemd THEN {"store"} ELSE {})
    /\ UNCHANGED <<systemd, proc, late, conn, ran, mishaps>>
Disarm ==
    /\ proc = "serving" /\ armed
    /\ armed' = FALSE
    /\ held' = held \cup (IF systemd THEN {"store"} ELSE {})
    /\ UNCHANGED <<systemd, proc, late, conn, request, ran, mishaps>>

TakeoverNext ==
    \/ Ask \/ Take \/ Answer
    \/ ProcCrash \/ Sigterm \/ ProcDrain \/ Exec \/ Undo \/ Hang \/ PingWithheld
    \/ Start \/ StartLimitHit \/ Reattach \/ MountFresh \/ StartFails \/ StartStalls
    \/ TakeoverLate \/ give_up_stalled_takeover \/ Serve \/ Disarm

\* The session thread reads and answers, systemd restarts and kills as its
\* unit says, a start that does not stall gets on, and the watchdog thread runs.
TakeoverFairness ==
    /\ WF_takeoverVars(Take) /\ WF_takeoverVars(Answer)
    /\ WF_takeoverVars(Exec \/ Undo) /\ WF_takeoverVars(PingWithheld)
    /\ WF_takeoverVars(Start) /\ WF_takeoverVars(StartLimitHit)
    /\ WF_takeoverVars(Reattach \/ MountFresh \/ Serve) /\ WF_takeoverVars(Disarm)
    /\ WF_takeoverVars(TakeoverLate) /\ WF_takeoverVars(give_up_stalled_takeover)

TakeoverSpec == TakeoverInit /\ [][TakeoverNext]_takeoverVars /\ TakeoverFairness

----------------------------------------------------------------------------
TakeoverTypeOK ==
    /\ systemd \in BOOLEAN /\ armed \in BOOLEAN /\ late \in BOOLEAN
    /\ proc \in {"none", "starting", "stalled", "serving", "paused", "hung"}
    /\ held \subseteq {"daemon", "store", "exec"}
    /\ conn \in {"live", "dead"} /\ request \in {"none", "queued", "taken"}
    /\ mishaps \in 0..MaxMishaps

\* As a service, a daemon that serves its connection loses it to no single
\* event: not to a crash, a hang, a restart or a stop, and not to the watchdog
\* that found its takeover late a moment before it got to serving.
ServedStep == proc = "serving" /\ ~armed /\ systemd => conn' = "live"
ServedSurvives == [][ServedStep]_takeoverVars

\* No daemon runs a request twice: what is resent is what its predecessor
\* left, never what it took itself (a mkdir answering EEXIST to its own
\* success).
RunsOnce == ran <= 1

\* A program never waits for ever on the mount: whatever crashed, hung,
\* stalled or failed to start, its request is answered or gets ENOTCONN.
Waiting == request # "none"
NobodyWaitsForever == Waiting ~> ~Waiting
=============================================================================
