------------------------------ MODULE TreeSync ------------------------------
(***************************************************************************)
(* Changes to the tree beside saves: create, mkdir, unlink, rmdir and      *)
(* rename (src/ncrs_core/src/lib.rs), the live workers that send them and  *)
(* their replay (mutation_journal.rs: execute_op, send_move).  Extends     *)
(* UploadSync: same journal, server, mount and replay run.                 *)
(*                                                                         *)
(* What the kernel checks before it sends a request (the name exists or    *)
(* not, file or folder) is the guard of its handler.  A rename's           *)
(* destination version is the listed one: the versions programs read       *)
(* (ServedVersions) differ from it only after someone else's edit.         *)
(***************************************************************************)
EXTENDS UploadSync

IsDir(p) == p = Root \/ (p \in DOMAIN listed /\ listed[p].dir)
Entry(dir, data) == [dir |-> dir, etag |-> None, data |-> data]
MayChange == used.ops < MaxOps

(***************************************************************************)
(* `odd` counts the changes the queue does not carry out in the user's     *)
(* order (README, "What the queue gets wrong"):                            *)
(*   - a MOVE queued behind other changes to what it moves (overtaken),    *)
(*     which re-points or supersedes them;                                 *)
(*   - a new file renamed over a listed one while still open, and a        *)
(*     re-pointed upload renamed on, so that nothing deletes the file it   *)
(*     was meant to replace (forgotten);                                   *)
(*   - a change to a name whose live upload still holds the ticket of the  *)
(*     name it was queued under (Crossing);                                *)
(*   - an rmdir of a folder that is not empty.                             *)
(***************************************************************************)
SpendOp(odd) == used' = [used EXCEPT !.ops = @ + 1, !.odd = IF odd THEN @ + 1 ELSE @]

Crossing(p) == \E s \in DOMAIN workers \cap DOMAIN entries :
                 entries[s].retargeted /\ starts_with(entries[s].path, p)

-----------------------------------------------------------------------------
(* The server's side.                                                      *)

(* MKCOL: a folder that is there already is fine (405).                    *)
MkcolRequest(p) ==
  Failures \cup
    IF ~Exists(Parent(p)) THEN {Heard("refused")}
    ELSE IF p \in DOMAIN server THEN Done(Heard("ok"))
    ELSE Done([Heard("ok") EXCEPT !.server = With(server, p, [data |-> Folder, etag |-> clock + 1]),
                                  !.clock = @ + 1])

(* DELETE takes what is under p along; nothing there is fine too (404).    *)
DeleteRequest(p) ==
  Failures \cup Done([Heard("ok") EXCEPT !.server = Without(@, Under(@, p))])

MoveAnswer(from, to, cond) ==
  IF ~Matches(to, cond) THEN "conflict"
  ELSE IF from \notin DOMAIN server THEN "missing"
  ELSE IF ~Exists(Parent(to)) THEN "refused" ELSE "ok"
(* A moved file keeps its etag.                                            *)
MoveRequest(from, to, cond) ==
  Failures \cup
    IF MoveAnswer(from, to, cond) # "ok" THEN {Heard(MoveAnswer(from, to, cond))}
    ELSE Done([Heard("ok") EXCEPT !.server = Moved(@, from, to)])

(* MOVE of a file to a conflicted-copy name beside `to`.                   *)
MoveAsideRequest(from, to) ==
  Failures \cup
    IF from \notin DOMAIN server THEN {Heard("missing")}
    ELSE IF ~Exists(Parent(to)) THEN {Heard("refused")}
    ELSE Done([Heard("copied") EXCEPT !.copies = @ \cup {server[from].data},
                                      !.server = Without(@, {from})])

(***************************************************************************)
(* send_move: a mover is `at` one of the steps below and holds the copy    *)
(* `fh` of its file (None: it has none).                                   *)
(*   send       MOVE                                                       *)
(*   local      the source is gone: its copy goes to the destination       *)
(*   copy       the destination changed: the file goes beside it           *)
(*   copylocal  the same, from the copy                                    *)
(***************************************************************************)
Sending == {"send", "local", "copy", "copylocal"}

SendMove(at, from, to, fh, cond) ==
  IF at = "send" THEN MoveRequest(from, to, cond)
  ELSE IF at = "copy" THEN MoveAsideRequest(from, to)
  ELSE IF fh \notin DOMAIN staging THEN {Heard("network")}
  ELSE IF at = "local" THEN PutRequest(to, staging[fh], cond)
  ELSE CopyRequest(to, staging[fh])

AfterMove(at, r, fh) ==
  CASE at = "send" /\ r = "missing" /\ fh \in DOMAIN staging -> "local"
    [] at = "send" /\ r = "conflict" -> "copy"
    [] at = "copy" /\ r = "missing" /\ fh \in DOMAIN staging -> "copylocal"
    [] at = "local" /\ r = "conflict" -> "copylocal"
    [] OTHER -> "done"

(* What an operation sends when it is `at` a step, and where it is then.   *)
ChangeRequest(op, path, to, fh, cond, at) ==
  CASE op = "MkDir" -> MkcolRequest(path)
    [] op \in {"Unlink", "RmDir"} -> DeleteRequest(path)
    [] op = "Rename" -> SendMove(at, path, to, fh, cond)
AfterChange(op, at, r, fh) == IF op = "Rename" THEN AfterMove(at, r, fh) ELSE "done"

-----------------------------------------------------------------------------
(* The handlers.  Each runs while the scheduler holds the folders and the  *)
(* inodes it changes, so nothing else the kernel asks comes in between.    *)

(* create(): an empty staging file, listed without an etag and pinned.     *)
Create(p) ==
  /\ Len(saved) + Cardinality(DOMAIN handles) < MaxSaves
  /\ p \notin DOMAIN listed /\ IsDir(Parent(p))
  /\ listed' = With(listed, p, Entry(FALSE, Blank))
  /\ uploading' = uploading \cup {p}
  /\ handles' = With(handles, next_fh,
                     [NewHandle(p, None, Blank, TRUE) EXCEPT !.open = TRUE, !.gen = gen])
  /\ staging' = With(staging, next_fh, Blank)
  /\ next_fh' = next_fh + 1
  /\ want' = With(want, p, Blank)
  /\ UNCHANGED <<entries, next_seq, back, unsynced, remote, committed, gen,
                 workers, replay, offline, saved, used>>

Enqueue(op) ==
  /\ entries' = enqueue(entries, op, next_seq, back)
  /\ next_seq' = next_seq + 1 /\ back' = back + 1
  /\ staging' = Without(staging, {entries[s].staging : s \in DOMAIN entries \ DOMAIN entries'})
  /\ StartWorker(Worker(op.op, op.path, op.to, None, op.cond, None))
  /\ UNCHANGED unsynced

Mkdir(p) ==
  /\ MayChange /\ SpendOp(FALSE)
  /\ p \notin DOMAIN listed /\ IsDir(Parent(p))
  /\ listed' = With(listed, p, Entry(TRUE, Folder))
  /\ Enqueue(Change("MkDir", p))
  /\ want' = With(want, p, Folder)
  /\ UNCHANGED <<remote, uploading, committed, gen, handles, next_fh, replay, offline, saved>>

(* unlink(): open handles on the file commit nothing any more.             *)
Unlink(p) ==
  /\ MayChange /\ SpendOp(Crossing(p))
  /\ p \in DOMAIN listed /\ ~listed[p].dir
  /\ listed' = Without(listed, {p})
  /\ uploading' = uploading \ {p}
  /\ handles' = [fh \in DOMAIN handles |->
                   IF handles[fh].path = p THEN [handles[fh] EXCEPT !.unlinked = TRUE] ELSE handles[fh]]
  /\ Enqueue(Change("Unlink", p))
  /\ want' = Without(want, {p})
  /\ UNCHANGED <<remote, committed, gen, next_fh, replay, offline, saved>>

(* rmdir(): the folder goes with whatever is in it.                        *)
Rmdir(p) ==
  /\ MayChange /\ SpendOp(Under(listed, p) # {p} \/ Crossing(p))
  /\ p \in DOMAIN listed /\ listed[p].dir
  /\ listed' = Without(listed, Under(listed, p))
  /\ Enqueue(Change("RmDir", p))
  /\ want' = Without(want, Under(want, p))
  /\ UNCHANGED <<remote, uploading, committed, gen, handles, next_fh, replay, offline, saved>>

(***************************************************************************)
(* rename(): handles move along and the ones of a replaced file commit     *)
(* nothing.  A file that was never committed needs nothing more; one whose *)
(* upload has not named its path yet is uploaded as the destination;       *)
(* anything else is a MOVE.                                                *)
(***************************************************************************)
UploadingMoved(from, to) == IF from \in uploading THEN (uploading \ {from}) \cup {to} ELSE uploading

RenameFile(from, to) ==
  LET dir == listed[from].dir
      uncommitted == \E fh \in DOMAIN handles :
                       handles[fh].path = from /\ handles[fh].created /\ ~handles[fh].unlinked
      source_on_server == dir \/ listed[from].etag # None
      dest_base == IF dir THEN None
                   ELSE pending_base(entries, to, IF to \in DOMAIN listed THEN listed[to].etag ELSE None)
      carried(h) == IF starts_with(h.path, from) THEN [h EXCEPT !.path = rewrite(@, from, to)]
                    ELSE IF h.path = to THEN [h EXCEPT !.unlinked = TRUE, !.created = FALSE] ELSE h
      in_place == uncommitted /\ ~has_pending_put(entries, from)
      repoint == ~in_place /\ ~source_on_server /\ retargetable(entries, from)
      overtaken == /\ ~in_place /\ ~repoint
                   /\ \E s \in DOMAIN entries : starts_with(entries[s].path, from) \/
                        (entries[s].op = "Rename" /\ starts_with(entries[s].to, from))
      forgotten == (in_place /\ to \in DOMAIN listed) \/ (repoint /\ from \in DOMAIN server)
  IN /\ MayChange
     /\ from \in DOMAIN listed /\ IsDir(Parent(to))
     /\ ~starts_with(to, from)
     /\ to \in DOMAIN listed => ~dir /\ ~listed[to].dir
     /\ SpendOp(overtaken \/ forgotten \/ Crossing(to))
     /\ listed' = Moved(listed, from, to)
     /\ handles' = [fh \in DOMAIN handles |-> carried(handles[fh])]
     /\ want' = Moved(want, from, to)
     /\ \/ /\ in_place
           /\ uploading' = UploadingMoved(from, to)
           /\ UNCHANGED <<journal, workers>>
        \/ /\ repoint
           /\ entries' = retarget_upload(entries, from, to, dest_base, back)
           /\ back' = back + 1
           /\ uploading' = UploadingMoved(from, to)
           /\ UNCHANGED <<next_seq, staging, unsynced, workers>>
        \/ /\ ~in_place /\ ~repoint
           /\ Enqueue(Rename(from, to, dest_base))
           /\ uploading' = IF offline \/ dir THEN uploading ELSE uploading \cup {to}
     /\ UNCHANGED <<remote, committed, gen, next_fh, replay, offline, saved>>

-----------------------------------------------------------------------------
(* Their live workers.  None of them claims its journal entry.             *)

Drained(p) == p \notin uploading /\ ~has_pending_put(entries, p)

(* A DELETE or a MOVE first waits (30 s at most) for the uploads of its    *)
(* file to drain.                                                          *)
ChangeStart(s) ==
  LET w == workers[s]
  IN /\ w.op # "Put" /\ w.at = "queued" /\ TicketReady(s)
     /\ \/ (Drained(w.path) \/ w.op \in {"MkDir", "RmDir"}) /\ UNCHANGED used
        \/ ~Drained(w.path) /\ w.op \in {"Unlink", "Rename"} /\ MayFault /\ Spend("faults")
     /\ workers' = [workers EXCEPT ![s].at = "send",
                                   ![s].fh = IF s \in DOMAIN entries THEN entries[s].staging ELSE None]
     /\ committed' = IF w.op = "Unlink" THEN Without(committed, {w.path}) ELSE committed
     /\ UNCHANGED <<journal, remote, listed, uploading, gen, handles, next_fh, replay, offline, user>>

ChangeSend(s) ==
  LET w == workers[s]
  IN /\ w.op # "Put" /\ w.at \in Sending
     /\ \E o \in ChangeRequest(w.op, w.path, w.to, w.fh, w.cond, w.at) :
          /\ Serve(o)
          /\ workers' = [workers EXCEPT ![s].at = AfterChange(w.op, w.at, o.result, w.fh),
                                        ![s].result = o.result]
     /\ UNCHANGED <<journal, mount, replay, offline, user>>

(* What MKCOL and DELETE leave behind.                                     *)
ChangeDone(s) ==
  LET w == workers[s]
  IN /\ w.op \in {"MkDir", "Unlink", "RmDir"} /\ w.at = "done"
     /\ workers' = Without(workers, {s})
     /\ entries' = CASE w.result = "ok" -> remove(entries, s)
                     [] w.result \in {"busy", "network"} /\ w.op # "MkDir" -> mark_deferred(entries, s)
                     [] OTHER -> mark_failed(entries, s)
     /\ UNCHANGED <<next_seq, back, staging, unsynced, remote, mount, replay, offline, user, used>>

(* What a MOVE leaves behind: the moved file's etag is asked for, and the  *)
(* changes queued on the version it replaced become unconditional.         *)
MoveDone(s) ==
  LET w == workers[s]
      ended == w.result \in {"ok", "copied"}
      known == /\ w.result = "ok" /\ w.to \in DOMAIN listed \cap DOMAIN server
               /\ ~listed[w.to].dir /\ server[w.to].data # Folder
  IN /\ w.op = "Rename" /\ w.at = "done"
     /\ workers' = Without(workers, {s})
     /\ entries' = CASE w.result = "ok" -> rebase(remove(entries, s), w.to, w.cond, None)
                     [] w.result \in {"copied", "missing"} -> remove(entries, s)
                     [] w.result \in {"busy", "network"} -> mark_deferred(entries, s)
                     [] OTHER -> mark_failed(entries, s)
     /\ staging' = IF ended THEN Without(staging, {w.fh}) ELSE staging
     /\ uploading' = IF ended /\ pending_upload(entries', w.to) # None THEN uploading ELSE uploading \ {w.to}
     /\ listed' = IF known THEN [listed EXCEPT ![w.to].etag = server[w.to].etag] ELSE listed
     /\ committed' = IF w.result = "ok" /\ w.path \in DOMAIN committed
                     THEN With(Without(committed, {w.path}), w.to, committed[w.path]) ELSE committed
     /\ UNCHANGED <<next_seq, back, unsynced, remote, gen, handles, next_fh, replay, offline, user, used>>

-----------------------------------------------------------------------------
(* Their replay.                                                           *)

ReplayChange ==
  LET e == replay.entry
  IN /\ replay.at \in Sending /\ e.op # "Put"
     /\ \E o \in ChangeRequest(e.op, e.path, e.to, e.staging, e.cond, replay.at) :
          /\ Serve(o)
          /\ replay' = [replay EXCEPT !.at = AfterChange(e.op, replay.at, o.result, e.staging),
                                      !.result = o.result]
     /\ UNCHANGED <<journal, mount, workers, offline, user>>

ReplayChangeDone ==
  LET e == replay.entry
      r == replay.result
      ended == r \in {"ok", "copied", "missing"}
      moved == IF r = "ok" /\ e.op = "Rename" THEN rebase(entries, e.to, e.cond, None) ELSE entries
  IN /\ replay.at = "done" /\ e.op # "Put"
     /\ entries' = CASE ended -> dequeue_front(moved)
                     [] r \in {"busy", "network"} -> mark_deferred(entries, replay.seq)
                     [] OTHER -> mark_failed(entries, replay.seq)
     /\ staging' = IF ended THEN Without(staging, {e.staging}) ELSE staging
     /\ uploading' = IF ended /\ e.op = "Rename" THEN GuardReleased(entries', e.to) ELSE uploading
     /\ replay' = IF r \in {"busy", "network"} THEN Idle ELSE Remaining
     /\ UNCHANGED <<next_seq, back, unsynced, remote, listed, committed, gen, handles, next_fh,
                    workers, offline, user, used>>

-----------------------------------------------------------------------------
Paths == ServerFiles \cup ServerDirs \cup NewPaths

UserStep ==
  \/ \E p \in Paths : OpenBegin(p) \/ Create(p) \/ Mkdir(p) \/ Unlink(p) \/ Rmdir(p)
  \/ \E from, to \in Paths : RenameFile(from, to)
  \/ \E fh \in DOMAIN handles : OpenEnd(fh) \/ Release(fh)
ReplayAny ==
  \/ ReplayPeek \/ ReplayPut \/ ReplayCopy \/ ReplayPutDone \/ ReplayChange \/ ReplayChangeDone
  \/ ReplayGiveUp

(* The tree is changed offline and replayed once the server is back.       *)
OfflineNext ==
  \/ offline /\ replay.at = "idle" /\ UserStep
  \/ ReplayAny
  \/ DOMAIN handles = {} /\ ProbeReachable
  \/ \E how \in Restarts : Restart(how)
OfflineInit == Init /\ offline = TRUE
OfflineSpec == OfflineInit /\ [][OfflineNext]_vars

(* The tree is changed online; the live workers carry the changes out.     *)
WorkerStep(s) ==
  \/ PutClaim(s) \/ PutSettle(s) \/ PutSend(s) \/ PutCopy(s) \/ PutDone(s)
  \/ ChangeStart(s) \/ ChangeSend(s) \/ ChangeDone(s) \/ MoveDone(s)
LiveNext ==
  \/ UserStep
  \/ \E p \in Paths : Refresh(p)
  \/ \E s \in DOMAIN workers : WorkerStep(s)
LiveSpec == Init /\ [][LiveNext]_vars

(* The tree is changed at any time.                                        *)
TreeNext ==
  \/ UserStep
  \/ \E p \in Paths : Refresh(p) \/ ForeignEdit(p)
  \/ \E s \in DOMAIN workers : WorkerStep(s)
  \/ ReplayAny
  \/ ProbeReachable \/ ProbeUnreachable
  \/ \E how \in Restarts : Restart(how)
TreeSpec == Init /\ [][TreeNext]_vars

-----------------------------------------------------------------------------
(***************************************************************************)
(* No edit is lost on its way through deletes, folder changes and renames  *)
(* (NoEditLost, for the whole tree), as long as the user does nothing the  *)
(* queue is known to mishandle: see `odd`.                                 *)
(***************************************************************************)
EditsSurvive == used.odd = 0 => NoEditLost

(***************************************************************************)
(* Once the queue is empty the server's tree is the tree the user left:    *)
(* the same paths with the same contents.  Replaying or running live what  *)
(* create, release, mkdir, unlink, rmdir and rename queued, coalesced,     *)
(* re-pointed and re-targeted amounts to doing it in the user's order.     *)
(***************************************************************************)
Converges ==
  DOMAIN entries = {} /\ DOMAIN handles = {} /\ DOMAIN workers = {} /\ replay.at = "idle"
    /\ used.faults + used.foreign + used.restarts + used.odd = 0 =>
      [p \in DOMAIN server |-> server[p].data] = want
=============================================================================
