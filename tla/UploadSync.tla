----------------------------- MODULE UploadSync -----------------------------
(***************************************************************************)
(* How a local change reaches the server: the mount's handlers queue it in *)
(* the journal (MutationJournal) and, online, hand it to a live worker     *)
(* that runs in ticket order (path_seq.rs); a replay run sends what        *)
(* workers left behind, front first; the daemon may die and come back.     *)
(* Source: src/ncrs_core/src/lib.rs (open, release/commit_released,        *)
(* create, mkdir, unlink, rmdir, rename and their workers, UploadOrder,    *)
(* the connectivity monitor) and mutation_journal.rs (replay_journal,      *)
(* execute_op, send_move).                                                 *)
(*                                                                         *)
(* A file's content is the save that wrote it, so two saves never look     *)
(* alike.  Others may edit a file on the server.  A request to the server  *)
(* is one step: it takes effect there or not, and its answer arrives or    *)
(* is lost.                                                                *)
(***************************************************************************)
EXTENDS MutationJournal

CONSTANTS ServerFiles,  \* files the server has at first (all of them listed)
          ServerDirs,   \* folders the server has at first
          NewPaths,     \* names the user may create, or rename to
          MaxSaves, MaxOps, MaxFaults, MaxForeign, MaxRestarts,  \* bounds on what happens
          Restarts      \* how the daemon comes back: "reattach", "remount"

ASSUME TreeAssumption ==
  /\ ServerFiles \subseteq Path /\ ServerDirs \subseteq Path /\ NewPaths \subseteq Path
  /\ Root \notin ServerFiles \cup ServerDirs \cup NewPaths
ASSUME BoundsAssumption ==
  /\ {MaxSaves, MaxOps, MaxFaults, MaxForeign, MaxRestarts} \subseteq Nat
  /\ Restarts \subseteq {"reattach", "remount"}

VARIABLES
  entries, next_seq, back,  \* the journal (MutationJournal)
  staging,    \* write_<fh> files on disk: handle number -> content
  unsynced,   \* contents recover_staging preserved in unsynced/
  server,     \* path -> [data, etag] of what the server has
  clock,      \* the last etag the server gave out
  copies,     \* contents the server holds as conflicted copies
  listed,     \* FsCache: path -> [dir, etag, data] the mount lists
  uploading,  \* FsCache.uploading: paths a refresh must keep as listed
  committed,  \* UploadOrder.committed: path -> [gen, etag]
  gen,        \* UploadOrder.gen
  handles,    \* open_files with a staging file: fh -> handle
  next_fh,
  workers,    \* live mutations: seq -> worker
  replay,     \* the replay run
  offline,    \* is_offline
  saved,      \* history: for each save, its file and the contents it builds on
  landed,     \* history: contents that were on the server under their own name
  want,       \* history: path -> content, the tree as the user left it
  used        \* history: what of MaxOps, MaxFaults, MaxForeign, MaxRestarts has happened

journal == <<entries, next_seq, back, staging, unsynced>>
remote  == <<server, clock, copies, landed>>
mount   == <<listed, uploading, committed, gen, handles, next_fh>>
user    == <<saved, want>>
vars    == <<journal, remote, mount, workers, replay, offline, user, used>>

Save(n)    == <<"save", n>>
Foreign(n) == <<"foreign", n>>
Original   == <<"original", 0>>
Folder     == <<"dir", 0>>
Blank      == <<"empty", 0>>

Parent(p) == SubSeq(p, 1, Len(p) - 1)
Without(f, S) == [x \in DOMAIN f \ S |-> f[x]]
With(f, x, v) == [y \in DOMAIN f \cup {x} |-> IF y = x THEN v ELSE f[y]]
Under(f, p) == {q \in DOMAIN f : starts_with(q, p)}
(* f with everything at and under `from` moved to `to`.                    *)
Moved(f, from, to) ==
  LET kept == DOMAIN f \ (Under(f, from) \cup Under(f, to))
      moved == {rewrite(q, from, to) : q \in Under(f, from)}
  IN [q \in kept \cup moved |-> IF q \in moved THEN f[rewrite(q, to, from)] ELSE f[q]]

Spend(what) == used' = [used EXCEPT ![what] = @ + 1]
MayFault == used.faults < MaxFaults

Idle == [at |-> "idle", seq |-> None, entry |-> None, result |-> "none", etag |-> None]

Init ==
  /\ entries = Empty /\ next_seq = 1 /\ back = 1
  /\ staging = Empty /\ unsynced = {}
  /\ server = [p \in ServerFiles \cup ServerDirs |->
                 [data |-> IF p \in ServerDirs THEN Folder ELSE Original, etag |-> 1]]
  /\ clock = 1 /\ copies = {} /\ landed = {}
  /\ listed = [p \in ServerFiles \cup ServerDirs |->
                 [dir |-> p \in ServerDirs, etag |-> 1, data |-> server[p].data]]
  /\ uploading = {} /\ committed = Empty /\ gen = 0
  /\ handles = Empty /\ next_fh = 1
  /\ workers = Empty /\ replay = Idle /\ offline \in BOOLEAN
  /\ saved = << >>
  /\ want = [p \in ServerFiles \cup ServerDirs |-> server[p].data]
  /\ used = [ops |-> 0, faults |-> 0, foreign |-> 0, restarts |-> 0, odd |-> 0]

-----------------------------------------------------------------------------
(* The server.  A request answers one of                                   *)
(*   ok, conflict (412), missing (404, or the parent is not there),        *)
(*   busy (423, 5xx: transient), network (no answer), refused (permanent). *)

Exists(p) == p = Root \/ (p \in DOMAIN server /\ server[p].data = Folder)
Matches(p, cond) == cond = None \/ (p \in DOMAIN server /\ server[p].etag = cond)

PutAnswer(p, cond) ==
  IF ~Matches(p, cond) THEN "conflict" ELSE IF ~Exists(Parent(p)) THEN "missing" ELSE "ok"

(* One outcome of a request: what the server holds after it, what the      *)
(* caller hears, and whether something failed.                             *)
Heard(r) == [server |-> server, clock |-> clock, copies |-> copies, landed |-> landed,
             result |-> r, etag |-> None, fault |-> FALSE]
Failures == {[Heard(r) EXCEPT !.fault = TRUE] : r \in {"busy", "network", "refused"}}
(* A request carried out: its answer may get lost.                         *)
Done(o) == {o, [o EXCEPT !.result = "network", !.etag = None, !.fault = TRUE]}

(* The outcomes of a PUT of `data` to p.                                   *)
PutRequest(p, data, cond) ==
  Failures \cup
    IF PutAnswer(p, cond) # "ok" THEN {Heard(PutAnswer(p, cond))}
    ELSE Done([Heard("ok") EXCEPT !.server = With(server, p, [data |-> data, etag |-> clock + 1]),
                                  !.clock = @ + 1, !.etag = clock + 1, !.landed = @ \cup {data}])

(* ... and of a PUT under a conflicted-copy name beside p, unconditional.  *)
CopyRequest(p, data) ==
  Failures \cup
    IF Exists(Parent(p)) THEN Done([Heard("copied") EXCEPT !.copies = @ \cup {data}])
    ELSE {Heard("missing")}

(* The outcome that happens.                                               *)
Serve(o) ==
  /\ o.fault => MayFault
  /\ server' = o.server /\ clock' = o.clock /\ copies' = o.copies /\ landed' = o.landed
  /\ used' = IF o.fault THEN [used EXCEPT !.faults = @ + 1] ELSE used

(* Someone else saves p on the server.                                     *)
ForeignEdit(p) ==
  /\ used.foreign < MaxForeign
  /\ p \in DOMAIN server /\ server[p].data # Folder
  /\ Spend("foreign")
  /\ clock' = clock + 1
  /\ server' = [server EXCEPT ![p] = [data |-> Foreign(used'.foreign), etag |-> clock']]
  /\ UNCHANGED <<journal, mount, copies, landed, workers, replay, offline, user>>

-----------------------------------------------------------------------------
(* The mount's handlers for saving a file.                                 *)

(* PROPFIND of p's folder: what the server has, but for paths the upload   *)
(* guard pins.                                                             *)
Refresh(p) ==
  /\ ~offline
  /\ p \in DOMAIN listed \cap DOMAIN server
  /\ p \notin uploading
  /\ ~listed[p].dir /\ server[p].data # Folder
  /\ listed' = [listed EXCEPT ![p].etag = server[p].etag, ![p].data = server[p].data]
  /\ listed' # listed
  /\ UNCHANGED <<journal, remote, workers, replay, offline, user, used,
                 uploading, committed, gen, handles, next_fh>>

(***************************************************************************)
(* open() for writing: the staging file starts as the newest content still *)
(* queued for the path, else as the cached copy of the listed version,     *)
(* else as a download, whose etag replaces the listed one.  The upload     *)
(* generation is only read once that is done (OpenEnd).                    *)
(***************************************************************************)
NewHandle(p, etag, seed, created) ==
  [path |-> p, etag |-> etag, gen |-> None, seed |-> seed, open |-> FALSE,
   created |-> created, unlinked |-> FALSE]

OpenBegin(p) ==
  /\ Len(saved) + Cardinality(DOMAIN handles) < MaxSaves
  /\ p \in DOMAIN listed /\ ~listed[p].dir
  /\ \A fh \in DOMAIN handles : handles[fh].path # p
  /\ LET queued == pending_upload(entries, p)
     IN \/ /\ queued # None /\ queued \in DOMAIN staging
           /\ handles' = With(handles, next_fh,
                              NewHandle(p, listed[p].etag,
                                        IF queued = next_fh THEN Blank ELSE staging[queued], FALSE))
        \/ /\ queued = None
           /\ handles' = With(handles, next_fh, NewHandle(p, listed[p].etag, listed[p].data, FALSE))
        \/ /\ queued = None /\ ~offline
           /\ p \in DOMAIN server /\ server[p].data # Folder
           /\ handles' = With(handles, next_fh, NewHandle(p, server[p].etag, server[p].data, FALSE))
  /\ staging' = With(staging, next_fh, handles'[next_fh].seed)
  /\ next_fh' = next_fh + 1
  /\ UNCHANGED <<entries, next_seq, back, unsynced, remote, listed, uploading, committed, gen,
                 workers, replay, offline, user, used>>

OpenEnd(fh) ==
  /\ ~handles[fh].open
  /\ handles' = [handles EXCEPT ![fh].open = TRUE, ![fh].gen = gen]
  /\ UNCHANGED <<journal, remote, listed, uploading, committed, gen, next_fh,
                 workers, replay, offline, user, used>>

(* The live worker a handler starts when the mount is online.              *)
Worker(op, path, to, fh, cond, opened) ==
  [op |-> op, path |-> path, to |-> to, fh |-> fh, cond |-> cond, gen |-> opened,
   at |-> "queued", named |-> path, data |-> Blank, result |-> "none", etag |-> None]
StartWorker(w) == workers' = IF offline THEN workers ELSE With(workers, next_seq, w)

(***************************************************************************)
(* commit_released queues the upload of what a handle wrote, drops the     *)
(* older ones nobody is sending and, online, pins the listing and starts   *)
(* the worker.                                                             *)
(***************************************************************************)
commit_released(fh) ==
  LET h == handles[fh]
      n == Len(saved) + 1
      queued == enqueue(entries, Put(h.path, fh, h.etag), next_seq, back)
      stale == superseded(queued, h.path, next_seq)
      builds_on == {h.seed} \cup (IF h.seed[1] = "save" THEN saved[h.seed[2]].on ELSE {})
  IN /\ entries' = Drop(queued, stale)
     /\ next_seq' = next_seq + 1 /\ back' = back + 1
     /\ staging' = With(Without(staging, {queued[s].staging : s \in stale}), fh, Save(n))
     /\ uploading' = IF offline THEN uploading ELSE uploading \cup {h.path}
     /\ StartWorker(Worker("Put", h.path, Root, fh, h.etag, h.gen))
     /\ saved' = Append(saved, [path |-> h.path, on |-> builds_on])
     /\ want' = IF h.path \in DOMAIN want THEN With(want, h.path, Save(n)) ELSE want

(* release() of the last reference to a handle that wrote.  One whose file *)
(* was deleted or replaced commits nothing.                                *)
Release(fh) ==
  LET h == handles[fh]
  IN /\ h.open
     /\ handles' = Without(handles, {fh})
     /\ \/ /\ h.unlinked
           /\ staging' = Without(staging, {fh})
           /\ uploading' = IF h.created THEN uploading \ {h.path} ELSE uploading
           /\ UNCHANGED <<entries, next_seq, back, workers, user>>
        \/ ~h.unlinked /\ commit_released(fh)
     /\ UNCHANGED <<unsynced, remote, listed, committed, gen, next_fh, replay, offline, used>>

-----------------------------------------------------------------------------
(* A live upload's worker.                                                 *)

(* PathSeq: a ticket holds its path exclusively and the folder it is in    *)
(* shared; it waits for every earlier ticket it shares a path with.        *)
Ticket(w) ==
  {<<w.path, "Exclusive">>, <<Parent(w.path), "Shared">>}
    \cup (IF w.op = "Rename" THEN {<<w.to, "Exclusive">>, <<Parent(w.to), "Shared">>} ELSE {})

(* Mutant of TicketReady: tickets are served last in, first out.           *)
TicketReady_Later(s) ==
  \A t \in DOMAIN workers : t > s =>
    \A a \in Ticket(workers[s]), b \in Ticket(workers[t]) :
      a[1] = b[1] => a[2] = "Shared" /\ b[2] = "Shared"

TicketReady(s) ==
  \A t \in DOMAIN workers : t < s =>
    \A a \in Ticket(workers[s]), b \in Ticket(workers[t]) :
      a[1] = b[1] => a[2] = "Shared" /\ b[2] = "Shared"

etag_for(path, opened, original) ==
  IF path \in DOMAIN committed /\ committed[path].gen > opened THEN committed[path].etag ELSE original

(* The entry is claimed, or the worker has nothing to do: superseded,      *)
(* coalesced away, or being replayed.                                      *)
PutClaim(s) ==
  LET w == workers[s]
  IN /\ w.op = "Put" /\ w.at = "queued" /\ TicketReady(s)
     /\ \/ /\ claimable(entries, s)
           /\ entries' = claim(entries, s)
           /\ workers' = [workers EXCEPT ![s].at = "settle", ![s].cond = etag_for(w.path, w.gen, w.cond)]
           /\ UNCHANGED uploading
        \/ /\ ~claimable(entries, s)
           /\ workers' = Without(workers, {s})
           /\ uploading' = IF has_pending_put(entries, w.path) THEN uploading ELSE uploading \ {w.path}
           /\ UNCHANGED entries
     /\ UNCHANGED <<next_seq, back, staging, unsynced, remote, listed, committed, gen, handles, next_fh,
                    replay, offline, user, used>>

(* The bytes are read and settle_live_upload asks where they go.  Waiting  *)
(* for an earlier change is a disabled step, its SETTLE_WAIT a fault.      *)
PutSettle(s) ==
  LET w == workers[s]
      verdict == Settled(entries, s)
      replaced == verdict = "Withdrawn" /\ s \in DOMAIN entries
      deferred == verdict \in {"Deferred", "Wait"}
      current == IF s \in DOMAIN entries' THEN entries'[s].path ELSE w.path
      unguarded == {p \in {w.path, current} : deferred \/ ~has_pending_put(entries', p)}
  IN /\ w.op = "Put" /\ w.at = "settle"
     /\ \/ /\ verdict = "Go"
           /\ entries' = [entries EXCEPT ![s].dest_fixed = TRUE]
           /\ LET e == entries[s]
              IN workers' = [workers EXCEPT ![s] =
                   [w EXCEPT !.at = "send", !.data = staging[w.fh],
                             !.named = IF e.retargeted THEN e.path ELSE w.named,
                             !.cond = IF e.retargeted THEN e.cond ELSE w.cond]]
           /\ UNCHANGED <<staging, uploading, used>>
        \/ /\ verdict # "Go"
           /\ verdict = "Wait" => MayFault
           /\ IF verdict = "Wait" THEN Spend("faults") ELSE UNCHANGED used
           /\ entries' = IF deferred THEN mark_deferred(entries, s) ELSE Drop(entries, {s})
           /\ staging' = IF replaced THEN Without(staging, {w.fh}) ELSE staging
           /\ workers' = Without(workers, {s})
           /\ uploading' = uploading \ unguarded
     /\ UNCHANGED <<next_seq, back, unsynced, remote, listed, committed, gen, handles, next_fh,
                    replay, offline, user>>

(* The PUT itself.  A 412 releases the listing before the copy goes up.    *)
PutSend(s) ==
  LET w == workers[s]
  IN /\ w.op = "Put" /\ w.at = "send"
     /\ \E o \in PutRequest(w.named, w.data, w.cond) :
          /\ Serve(o)
          /\ workers' = [workers EXCEPT ![s].at = IF o.result = "conflict" THEN "copy" ELSE "done",
                                        ![s].result = o.result, ![s].etag = o.etag]
     /\ uploading' = uploading \ {w.named}
     /\ UNCHANGED <<journal, listed, committed, gen, handles, next_fh, replay, offline, user>>

PutCopy(s) ==
  LET w == workers[s]
  IN /\ w.op = "Put" /\ w.at = "copy"
     /\ \E o \in CopyRequest(w.named, w.data) :
          /\ Serve(o)
          /\ workers' = [workers EXCEPT ![s].at = "done",
                                        ![s].result = IF o.result = "network" THEN "busy" ELSE o.result]
     /\ UNCHANGED <<journal, mount, replay, offline, user>>

PutDone(s) ==
  LET w == workers[s]
      handed == takers(entries, w.named) # {}
  IN /\ w.op = "Put" /\ w.at = "done"
     /\ workers' = Without(workers, {s})
     /\ \/ /\ w.result = "ok"
           /\ gen' = gen + 1
           /\ committed' = With(committed, w.named, [gen |-> gen', etag |-> w.etag])
           /\ listed' = IF w.named \in DOMAIN listed
                        THEN [listed EXCEPT ![w.named].etag = w.etag, ![w.named].data = w.data] ELSE listed
           /\ entries' = rebase(remove(hand_staging_to_rename(entries, w.named, w.fh), s),
                                w.named, w.cond, w.etag)
           /\ staging' = IF handed THEN staging ELSE Without(staging, {w.fh})
           /\ UNCHANGED offline
        \/ /\ w.result = "copied"
           /\ entries' = remove(entries, s)
           /\ staging' = Without(staging, {w.fh})
           /\ UNCHANGED <<listed, committed, gen, offline>>
        \/ /\ w.result \in {"busy", "network"}
           /\ entries' = mark_deferred(entries, s)
           /\ offline' = (offline \/ w.result = "network")
           /\ UNCHANGED <<staging, listed, committed, gen>>
        \/ /\ w.result \in {"refused", "missing"}
           /\ entries' = mark_failed(entries, s)
           /\ UNCHANGED <<staging, listed, committed, gen, offline>>
     /\ UNCHANGED <<next_seq, back, unsynced, remote, uploading, handles, next_fh, replay, user, used>>

-----------------------------------------------------------------------------
(* The replay run: replay_journal.                                         *)

ReplayPeek ==
  LET front == peek_front(entries)
  IN /\ replay.at = "peek"
     /\ IF DOMAIN entries = {} \/ entries[front].in_flight
        THEN replay' = Idle /\ UNCHANGED entries
        ELSE /\ entries' = claim(entries, front)
             /\ replay' = [Idle EXCEPT !.at = IF entries[front].attempts >= MaxAttempts THEN "giveup" ELSE "send",
                                       !.seq = front, !.entry = entries[front]]
     /\ UNCHANGED <<next_seq, back, staging, unsynced, remote, mount, workers, offline, user, used>>

(* execute_op of an upload.                                                *)
ReplayPut ==
  LET e == replay.entry
      requests == IF e.staging \in DOMAIN staging THEN PutRequest(e.path, staging[e.staging], e.cond)
                  ELSE {Heard("unreadable")}
  IN /\ replay.at = "send" /\ e.op = "Put"
     /\ \E o \in requests :
          /\ Serve(o)
          /\ replay' = [replay EXCEPT !.at = IF o.result = "conflict" THEN "copy" ELSE "done",
                                      !.result = o.result, !.etag = o.etag]
     /\ UNCHANGED <<journal, mount, workers, offline, user>>

ReplayCopy ==
  LET e == replay.entry
      requests == IF e.staging \in DOMAIN staging THEN CopyRequest(e.path, staging[e.staging])
                  ELSE {Heard("network")}
  IN /\ replay.at = "copy" /\ e.op = "Put"
     /\ \E o \in requests :
          /\ Serve(o)
          /\ replay' = [replay EXCEPT !.at = "done",
                                      !.result = IF o.result = "missing" THEN "refused" ELSE o.result]
     /\ UNCHANGED <<journal, mount, workers, offline, user>>

Remaining == [replay EXCEPT !.at = "peek", !.seq = None, !.entry = None, !.result = "none", !.etag = None]

(* Mutant of Recover: the bytes are deleted.                               *)
Recover_Deletes(fh) ==
  /\ unsynced' = unsynced
  /\ staging' = Without(staging, {fh})

(* recover_staging: the bytes move to unsynced/.                           *)
Recover(fh) ==
  /\ unsynced' = unsynced \cup {staging[f] : f \in {fh} \cap DOMAIN staging}
  /\ staging' = Without(staging, {fh})

(* Mutant of GuardReleased: the guard stays.                               *)
GuardReleased_Never(es, path) == uploading

(* release_upload_guard.                                                   *)
GuardReleased(es, path) == IF pending_upload(es, path) = None THEN uploading \ {path} ELSE uploading

(* What replay does with the answer.  The queue is popped at its front,    *)
(* whatever is there by now.                                               *)
ReplayPutDone ==
  LET e == replay.entry
      r == replay.result
  IN /\ replay.at = "done" /\ e.op = "Put"
     /\ \/ /\ r = "ok"
           /\ entries' = dequeue_front(rebase(entries, e.path, e.cond, replay.etag))
           /\ staging' = Without(staging, {e.staging})
           /\ listed' = IF e.path \in DOMAIN listed
                        THEN [listed EXCEPT ![e.path].etag = replay.etag,
                                            ![e.path].data = staging[e.staging]] ELSE listed
           /\ uploading' = GuardReleased(entries', e.path)
           /\ replay' = Remaining
           /\ UNCHANGED unsynced
        \/ /\ r = "copied"
           /\ entries' = dequeue_front(entries)
           /\ staging' = Without(staging, {e.staging})
           /\ uploading' = GuardReleased(entries', e.path)
           /\ replay' = Remaining
           /\ UNCHANGED <<unsynced, listed>>
        \/ /\ r \in {"missing", "unreadable"}
           /\ Recover(e.staging)
           /\ entries' = dequeue_front(entries)
           /\ uploading' = GuardReleased(entries', e.path)
           /\ replay' = Remaining
           /\ UNCHANGED listed
        \/ /\ r \in {"busy", "network"}
           /\ entries' = mark_deferred(entries, replay.seq)
           /\ replay' = Idle
           /\ UNCHANGED <<staging, unsynced, listed, uploading>>
        \/ /\ r = "refused"
           /\ entries' = mark_failed(entries, replay.seq)
           /\ replay' = Remaining
           /\ UNCHANGED <<staging, unsynced, listed, uploading>>
     /\ UNCHANGED <<next_seq, back, remote, committed, gen, handles, next_fh, workers, offline, user, used>>

(* An entry the server refused MaxAttempts times: the bytes are kept.      *)
ReplayGiveUp ==
  /\ replay.at = "giveup"
  /\ IF replay.entry.op = "Put" THEN Recover(replay.entry.staging) ELSE UNCHANGED <<staging, unsynced>>
  /\ entries' = dequeue_front(entries)
  /\ replay' = Remaining
  /\ UNCHANGED <<next_seq, back, remote, mount, workers, offline, user, used>>

-----------------------------------------------------------------------------
(* The connectivity monitor, and the daemon's end.                         *)

ProbeReachable ==
  /\ offline \/ (DOMAIN entries # {} /\ replay.at = "idle")
  /\ offline' = FALSE
  /\ replay' = IF replay.at = "idle" THEN Remaining ELSE replay
  /\ UNCHANGED <<journal, remote, mount, workers, user, used>>

ProbeUnreachable ==
  /\ ~offline /\ MayFault
  /\ Spend("faults")
  /\ offline' = TRUE
  /\ UNCHANGED <<journal, remote, mount, workers, replay, user>>

(* The startup sweep: staging files the journal does not name go.          *)
Swept(es) == Without(staging, DOMAIN staging \ {es[s].staging : s \in DOMAIN es})

(***************************************************************************)
(* The daemon dies and is started again.  Workers, the replay run, open    *)
(* handles and everything in memory are gone; the journal is loaded, the   *)
(* staging files it does not name are swept, and what is queued is         *)
(* replayed.  A daemon that takes over the kernel's connection goes on     *)
(* counting handles where the old one stopped; a new mount starts at 1.    *)
(***************************************************************************)
Restart(how) ==
  /\ used.restarts < MaxRestarts
  /\ Spend("restarts")
  /\ entries' = load_or_create(entries, DOMAIN staging)
  /\ next_seq' = next_seq_of(entries')
  /\ staging' = Swept(entries')
  /\ uploading' = {} /\ committed' = Empty /\ gen' = 0
  /\ handles' = Empty
  /\ next_fh' = IF how = "remount" THEN 1 ELSE next_fh
  /\ workers' = Empty
  /\ replay' = IF DOMAIN entries' = {} THEN Idle ELSE [Idle EXCEPT !.at = "peek"]
  /\ offline' = FALSE
  /\ UNCHANGED <<back, unsynced, remote, listed, user>>

-----------------------------------------------------------------------------
(* Saving files: no other change is made to the tree.                      *)

SaveNext ==
  \/ \E p \in ServerFiles : OpenBegin(p) \/ Refresh(p) \/ ForeignEdit(p)
  \/ \E fh \in DOMAIN handles : OpenEnd(fh) \/ Release(fh)
  \/ \E s \in DOMAIN workers : PutClaim(s) \/ PutSettle(s) \/ PutSend(s) \/ PutCopy(s) \/ PutDone(s)
  \/ ReplayPeek \/ ReplayPut \/ ReplayCopy \/ ReplayPutDone \/ ReplayGiveUp
  \/ ProbeReachable \/ ProbeUnreachable
  \/ \E how \in Restarts : Restart(how)

SaveSpec == Init /\ [][SaveNext]_vars

(***************************************************************************)
(* The pool runs its jobs and the replay thread runs on; the connectivity  *)
(* monitor probes for ever, and a probe that finds the server replays what *)
(* is queued.  Nobody has to save, close or restart anything.              *)
(***************************************************************************)
LiveStep == \E s \in DOMAIN workers : PutClaim(s) \/ PutSettle(s) \/ PutSend(s) \/ PutCopy(s) \/ PutDone(s)
ReplayStep == ReplayPeek \/ ReplayPut \/ ReplayCopy \/ ReplayPutDone \/ ReplayGiveUp
FairSaveSpec == SaveSpec /\ WF_vars(LiveStep) /\ WF_vars(ReplayStep) /\ WF_vars(ProbeReachable)

-----------------------------------------------------------------------------
(* Properties.                                                             *)

Contents == {Original, Folder, Blank} \cup ({"save", "foreign"} \X Nat)
Handle == [path: Path, etag: Nat, gen: Nat, seed: Contents, open: BOOLEAN, created: BOOLEAN, unlinked: BOOLEAN]
Results == {"none", "ok", "conflict", "missing", "busy", "network", "refused", "copied", "unreadable"}
LiveWorker ==
  [op: Ops, path: Path, to: Path, fh: Nat, cond: Nat, gen: Nat,
   at: {"queued", "settle", "send", "local", "copy", "copylocal", "done"},
   named: Path, data: Contents, result: Results, etag: Nat]

(* Every variable holds values of its type: sequence numbers, positions,   *)
(* etags and attempts stay naturals, and an executor is at one of its      *)
(* steps.                                                                  *)
TypeOK ==
  /\ DOMAIN entries \subseteq Nat /\ \A s \in DOMAIN entries : entries[s] \in JournalEntry
  /\ {next_seq, back, clock, gen, next_fh} \subseteq Nat
  /\ DOMAIN staging \subseteq Nat /\ \A fh \in DOMAIN staging : staging[fh] \in Contents
  /\ DOMAIN handles \subseteq Nat /\ \A fh \in DOMAIN handles : handles[fh] \in Handle
  /\ DOMAIN workers \subseteq Nat /\ \A s \in DOMAIN workers : workers[s] \in LiveWorker
  /\ replay.at \in {"idle", "peek", "send", "local", "copy", "copylocal", "done", "giveup"}
  /\ replay.seq \in Nat /\ replay.result \in Results /\ replay.etag \in Nat
  /\ replay.at \notin {"idle", "peek"} => replay.entry \in JournalEntry
  /\ offline \in BOOLEAN

(***************************************************************************)
(* No edit is lost: what the user last saved in a file they still have is  *)
(* queued with its bytes, or has been on the server, or lies beside the    *)
(* file as a conflicted copy or in unsynced/ (commit_released,             *)
(* supersede_uploads, replay_journal, recover_staging, load_or_create).    *)
(***************************************************************************)
Queued(data) == \E s \in DOMAIN entries :
  entries[s].staging \in DOMAIN staging /\ staging[entries[s].staging] = data
NoEditLost ==
  \A p \in DOMAIN want : want[p][1] = "save" =>
    Queued(want[p]) \/ want[p] \in landed \cup copies \cup unsynced

(***************************************************************************)
(* An upload has one executor at a time: a live worker that claimed it in  *)
(* commit_released, or the replay run, and whoever has it is what its      *)
(* in_flight flag stands for (claim, mark_deferred, mark_failed).          *)
(***************************************************************************)
Replaying == replay.at \notin {"idle", "peek"}
ClaimExclusive ==
  /\ \A s \in DOMAIN workers : workers[s].op = "Put" /\ workers[s].at # "queued" =>
       ~(Replaying /\ replay.seq = s)
  /\ \A s \in DOMAIN entries : entries[s].op = "Put" /\ entries[s].in_flight =>
       \/ Replaying /\ replay.seq = s
       \/ s \in DOMAIN workers /\ workers[s].at # "queued"

(***************************************************************************)
(* What replay_journal pops is the entry it executed, although it pops the *)
(* front without looking and lets go of the journal in between: saves,     *)
(* supersede_uploads and live workers leave a claimed front where it is.   *)
(***************************************************************************)
PopsWhatItSent == Replaying => DOMAIN entries # {} /\ peek_front(entries) = replay.seq

Quiet == DOMAIN entries = {} /\ DOMAIN workers = {} /\ DOMAIN handles = {} /\ replay.at = "idle"

(***************************************************************************)
(* Once everything is uploaded no listing stays pinned by `uploading`,     *)
(* whoever finished the upload (PutDone, release_upload_guard), but for a  *)
(* file whose upload replay gave up on: that path releases nothing.        *)
(***************************************************************************)
NoStaleGuard ==
  Quiet => \A p \in uploading : \E n \in 1..Len(saved) : saved[n].path = p /\ Save(n) \in unsynced

(***************************************************************************)
(* The journal drains: once faults stop, whatever is queued is uploaded,   *)
(* kept as a conflicted copy, or moved to unsynced/ (the pool's workers,   *)
(* replay_journal and the probes that start it).                           *)
(***************************************************************************)
QueueDrains == []<>(DOMAIN entries = {})

(***************************************************************************)
(* No upload of ours replaces someone else's version it was not built on:  *)
(* a save over a file that changed on the server keeps both versions       *)
(* (CHANGELOG; the If-Match of commit_released and replay_journal).        *)
(***************************************************************************)
ForeignEditKept ==
  [][\A p \in DOMAIN server \cap DOMAIN server' :
       server[p].data[1] = "foreign" /\ server'[p].data[1] = "save" =>
         server[p].data \in saved[server'[p].data[2]].on]_vars
=============================================================================
