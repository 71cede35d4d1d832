----------------------------- MODULE PushWatch -----------------------------
(***************************************************************************)
(* How the daemon notices that the server went away, came back, or has     *)
(* changed: the is_offline flag that failing requests raise and the        *)
(* connectivity monitor lowers (with the reads that wait out a blip and    *)
(* the journal replay it starts), the notify_push socket with its          *)
(* connection generation, and the push-watch service that revalidates the  *)
(* cache after a reconnect, since events sent while the socket was down    *)
(* are gone.                                                               *)
(***************************************************************************)
EXTENDS Naturals

CONSTANTS Reads,        \* FUSE reads that meet a failing server
          Grace,        \* OFFLINE_READ_GRACE
          MaxClock,     \* bound on time
          MaxConnects,  \* bound on connections of the socket
          MaxTroubles,  \* bound on outages, dead sockets and refused jobs
          MarksRace,    \* may mark_offline run between the two halves of mark_online?
          Holes         \* ways a change may escape that this instance lets happen:
                        \* "first", "busy", "offline", "refused", "failed"

ASSUME TimesAssumption == Grace \in Nat /\ MaxClock \in Nat

VARIABLES server,    \* "up", "down", or answering 401: "revoked", or "wipe"
          clock,
          flag,      \* is_offline
          since,     \* offline_since, or Never
          wentoff,   \* when the flag was last raised
          monitor,   \* the connectivity monitor: "sleep", "lowered", "wiped"
          reading,   \* per read: where it is, its deadline, wentoff when it looked
          journal,   \* changes wait in the mutation journal
          replaying, \* replay_active
          socket,    \* "down", "open"
          generation,
          event,     \* an event is on its way over the socket
          watcher,   \* the watcher's own paused flag
          seen,      \* push-watch: last_generation, and the connected flag it mirrored
          checking,  \* the validation that runs: "boot", "start", "rest", or "idle"
          missed,    \* a listing is out of date and no event will say so
          troubles

linkVars == <<server, clock, flag, since, wentoff, monitor, reading, journal, replaying>>
socketVars == <<socket, generation, event, watcher, seen, checking, missed>>
pushVars == <<linkVars, socketVars, troubles>>

OffNever == MaxClock + Grace + 1
NoRead == [at |-> "idle", deadline |-> 0, off |-> 0]

PushInit ==
    /\ server = "up" /\ clock = 0 /\ flag = FALSE /\ since = OffNever /\ wentoff = 0
    /\ monitor = "sleep" /\ reading = [r \in Reads |-> NoRead]
    /\ journal = FALSE /\ replaying = FALSE
    /\ socket = "down" /\ generation = 0 /\ event = FALSE /\ watcher = FALSE
    /\ seen = [gen |-> 0, connected |-> FALSE]
    /\ checking = "boot" /\ missed = FALSE  \* boot_validate_root
    /\ troubles = 0

----------------------------------------------------------------------------
(* The flag and the reads. *)

Trouble == troubles < MaxTroubles /\ troubles' = troubles + 1

\* Another thread is between the swap of the flag and the store of the time.
Marking == monitor = "lowered" \/ \E r \in Reads : reading[r].at = "raised"
MayMark == MarksRace \/ ~Marking

\* mark_offline in two halves: swap the flag, then (if it was lowered) the time.
ReadFails(r) ==
    /\ reading[r].at = "idle" /\ server = "down" /\ MayMark
    /\ IF flag THEN UNCHANGED <<flag, wentoff, reading>>
       ELSE /\ flag' = TRUE /\ wentoff' = clock
            /\ reading' = [reading EXCEPT ![r].at = "raised"]
    /\ UNCHANGED <<server, clock, since, monitor, journal, replaying, socketVars, troubles>>
mark_offline_Untimed(r) ==
    /\ reading[r].at = "raised"
    /\ since' = OffNever
    /\ reading' = [reading EXCEPT ![r].at = "idle"]
    /\ UNCHANGED <<server, clock, flag, wentoff, monitor, journal, replaying, socketVars, troubles>>
mark_offline(r) ==
    /\ reading[r].at = "raised"
    /\ since' = clock
    /\ reading' = [reading EXCEPT ![r].at = "idle"]
    /\ UNCHANGED <<server, clock, flag, wentoff, monitor, journal, replaying, socketVars, troubles>>

\* wait_out_offline_blip: until the outage is Grace old, measured from its
\* start; offline with no recorded start is an outage already.
ReadWaits(r) ==
    /\ reading[r].at = "idle" /\ flag /\ (since = OffNever => MayMark)
    /\ reading' = [reading EXCEPT ![r] =
         [at |-> IF since = OffNever THEN "gaveup" ELSE "waits",
          deadline |-> since + Grace, off |-> wentoff]]
    /\ UNCHANGED <<server, clock, flag, since, wentoff, monitor, journal, replaying, socketVars, troubles>>
ReadResumes(r) ==
    /\ reading[r].at = "waits"
    /\ \/ ~flag /\ reading' = [reading EXCEPT ![r] = NoRead]
       \/ clock >= reading[r].deadline /\ reading' = [reading EXCEPT ![r].at = "gaveup"]
    /\ UNCHANGED <<server, clock, flag, since, wentoff, monitor, journal, replaying, socketVars, troubles>>
ReadFailed(r) ==
    /\ reading[r].at = "gaveup" /\ reading' = [reading EXCEPT ![r] = NoRead]
    /\ UNCHANGED <<server, clock, flag, since, wentoff, monitor, journal, replaying, socketVars, troubles>>

----------------------------------------------------------------------------
(* The connectivity monitor. *)

check_wipe == server = "wipe"
check_reachability ==
    IF server = "up" THEN "Reachable" ELSE IF server = "down" THEN "Unreachable" ELSE "AuthRejected"

\* check_reachability: a server that answers, one that rejects the login
\* (401/403; remote_wipe is asked, and if no wipe is due that is an outage
\* too), or none.
MonitorReachable_Forgets ==
    /\ monitor = "sleep" /\ check_reachability = "Reachable" /\ MayMark
    /\ flag' = FALSE /\ monitor' = IF flag THEN "lowered" ELSE "sleep"
    /\ replaying' = (replaying \/ flag)
    /\ UNCHANGED <<server, clock, since, wentoff, reading, journal, socketVars, troubles>>
MonitorReachable ==
    /\ monitor = "sleep" /\ check_reachability = "Reachable" /\ MayMark
    /\ flag' = FALSE /\ monitor' = IF flag THEN "lowered" ELSE "sleep"
    /\ replaying' = (replaying \/ flag \/ journal)
    /\ UNCHANGED <<server, clock, since, wentoff, reading, journal, socketVars, troubles>>
mark_online ==
    /\ monitor = "lowered" /\ since' = OffNever /\ monitor' = "sleep"
    /\ UNCHANGED <<server, clock, flag, wentoff, reading, journal, replaying, socketVars, troubles>>
MonitorUnreachable ==
    /\ monitor = "sleep" /\ check_reachability # "Reachable" /\ ~check_wipe /\ MayMark
    /\ flag' = TRUE
    /\ IF flag THEN UNCHANGED <<since, wentoff>> ELSE since' = clock /\ wentoff' = clock
    /\ UNCHANGED <<server, clock, monitor, reading, journal, replaying, socketVars, troubles>>
MonitorWipes ==
    /\ monitor = "sleep" /\ check_reachability = "AuthRejected" /\ check_wipe /\ monitor' = "wiped"
    /\ UNCHANGED <<server, clock, flag, since, wentoff, reading, journal, replaying, socketVars, troubles>>

UploadFails ==
    /\ server # "up" /\ ~journal /\ journal' = TRUE
    /\ UNCHANGED <<server, clock, flag, since, wentoff, monitor, reading, replaying, socketVars, troubles>>

\* replay_journal runs to its end, or the job was refused and its guard dropped.
ReplayEnds ==
    /\ replaying /\ replaying' = FALSE
    /\ \/ journal' = (journal /\ server # "up") /\ UNCHANGED troubles
       \/ Trouble /\ UNCHANGED journal
    /\ UNCHANGED <<server, clock, flag, since, wentoff, monitor, reading, socketVars>>

----------------------------------------------------------------------------
(* The socket and the service that watches it. *)

\* A file changed; the server tells whoever is connected.
ServerChanges ==
    /\ server = "up" /\ ~missed /\ ~event
    /\ generation = 0 /\ checking # "boot" => "first" \in Holes
    /\ IF socket = "open" THEN event' = TRUE /\ UNCHANGED missed
       ELSE missed' = TRUE /\ UNCHANGED event
    /\ UNCHANGED <<linkVars, socket, generation, watcher, seen, checking, troubles>>

\* discover, connect, authenticate: the generation first, then `connected`.
watcher_connect ==
    /\ socket = "down" /\ ~watcher /\ server = "up" /\ generation < MaxConnects
    /\ checking \in {"start", "rest"} => "busy" \in Holes
    /\ socket' = "open" /\ generation' = generation + 1
    /\ UNCHANGED <<linkVars, event, watcher, seen, checking, missed, troubles>>

\* Closed by the server, an error, or no pong in time: what it had not
\* delivered is lost.
SocketDies ==
    /\ socket = "open" /\ Trouble /\ socket' = "down"
    /\ missed' = (missed \/ event) /\ event' = FALSE
    /\ UNCHANGED <<linkVars, generation, watcher, seen, checking>>

\* The callback; paused or offline it returns without looking.
Ignored == flag \/ watcher
HandlesEvent ==
    /\ event /\ server = "up" /\ event' = FALSE
    /\ Ignored => "offline" \in Holes
    /\ missed' = (missed \/ Ignored)
    /\ UNCHANGED <<linkVars, socket, generation, watcher, seen, checking, troubles>>

\* One turn of push-watch.  The validation is submitted to a pool, which may
\* refuse it; the generation is noted either way.
Revalidates == seen.gen # generation /\ generation > 1 /\ checking \in {"idle", "boot"}
PollPush_ByFlag ==
    /\ seen' = [gen |-> generation, connected |-> socket = "open"]
    /\ watcher' = flag
    /\ checking' = IF ~seen.connected /\ seen'.connected /\ generation > 1 /\ checking \in {"idle", "boot"}
                   THEN "start" ELSE checking
    /\ UNCHANGED <<linkVars, socket, generation, event, missed, troubles>>
PollPush ==
    /\ seen' = [gen |-> generation, connected |-> socket = "open"]
    /\ watcher' = flag
    /\ checking' \in (IF ~Revalidates THEN {checking}
                     ELSE {"start"} \cup (IF "refused" \in Holes THEN {checking} ELSE {}))
    /\ UNCHANGED <<linkVars, socket, generation, event, missed, troubles>>

\* validate_subtree: what changed before its probes is found; the descent goes on.
CheckProbes ==
    /\ checking \in {"boot", "start"} /\ (server = "up" \/ "failed" \in Holes)
    /\ checking' = IF server = "up" /\ checking = "start" THEN "rest" ELSE "idle"
    /\ missed' = (missed /\ server # "up")
    /\ UNCHANGED <<linkVars, socket, generation, event, watcher, seen, troubles>>
CheckEnds ==
    /\ checking = "rest" /\ checking' = "idle"
    /\ UNCHANGED <<linkVars, socket, generation, event, watcher, seen, missed, troubles>>

----------------------------------------------------------------------------
Outage ==
    /\ server = "up" /\ Trouble /\ server' \in {"down", "revoked", "wipe"}
    /\ UNCHANGED <<clock, flag, since, wentoff, monitor, reading, journal, replaying, socketVars>>
ServerBack ==
    /\ server = "down" /\ server' = "up"
    /\ UNCHANGED <<clock, flag, since, wentoff, monitor, reading, journal, replaying, socketVars, troubles>>
PushTick ==
    /\ clock < MaxClock /\ clock' = clock + 1
    /\ UNCHANGED <<server, flag, since, wentoff, monitor, reading, journal, replaying, socketVars, troubles>>

PushNext ==
    \/ \E r \in Reads : \/ ReadFails(r) \/ mark_offline(r) \/ ReadWaits(r)
                        \/ ReadResumes(r) \/ ReadFailed(r)
    \/ MonitorReachable \/ mark_online \/ MonitorUnreachable \/ MonitorWipes
    \/ UploadFails \/ ReplayEnds
    \/ ServerChanges \/ watcher_connect \/ SocketDies \/ HandlesEvent
    \/ PollPush \/ CheckProbes \/ CheckEnds
    \/ Outage \/ ServerBack \/ PushTick

\* The monitor probes every 5 or 30 s and the pool runs its jobs.
PushFairness ==
    /\ WF_pushVars(MonitorReachable) /\ WF_pushVars(mark_online)
    /\ WF_pushVars(MonitorUnreachable) /\ WF_pushVars(ReplayEnds)
    /\ \A r \in Reads : WF_pushVars(mark_offline(r))

PushSpec == PushInit /\ [][PushNext]_pushVars /\ PushFairness

----------------------------------------------------------------------------
PushTypeOK ==
    /\ server \in {"up", "down", "revoked", "wipe"} /\ clock \in 0..MaxClock /\ since \in 0..OffNever
    /\ generation \in 0..MaxConnects /\ checking \in {"boot", "idle", "start", "rest"}

\* A read is told the server is unreachable only once the outage it met is
\* OFFLINE_READ_GRACE old: a blip makes it wait, never fail (mark_offline
\* "recording when, so reads can distinguish a fresh blip from a sustained
\* outage").
BlipsWaitedOut ==
    \A r \in Reads : reading[r].at = "gaveup" => clock >= reading[r].off + Grace

\* Once push-watch reports the socket connected and has dealt with its
\* generation, and no validation is under way, no cached listing misses a
\* change that no event will announce: events lost while the socket was down
\* were made up for "before trusting the cache again".
GapRevalidated ==
    missed => ~seen.connected \/ socket = "down" \/ seen.gen # generation \/ checking # "idle"

\* A short outage makes reads wait, not fail, and after it the cache is not
\* trusted before the changes whose events were lost have been looked for.
OutageBridged == BlipsWaitedOut /\ GapRevalidated

\* With the server back for good, the daemon is online again and what waited
\* in the journal has been replayed.
ServerUp == server = "up"
CaughtUp == ~flag /\ ~journal
Recovers == <>[]ServerUp => <>[]CaughtUp
=============================================================================
