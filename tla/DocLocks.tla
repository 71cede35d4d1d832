------------------------------ MODULE DocLocks ------------------------------
(***************************************************************************)
(* The server lock on a document an editor has open here: app_locks'       *)
(* bookkeeping, run_app_locks' loop that takes, refreshes, renews and      *)
(* releases the lock, and the conditions a save of the document carries    *)
(* (webdav_ops::tagged_if).  Taking or releasing a lock changes the        *)
(* document's etag, so while the lock is vouched for a save sends only its *)
(* token; what must not happen is that it then replaces someone else's     *)
(* version unseen.                                                         *)
(***************************************************************************)
EXTENDS Naturals

CONSTANTS MaxEtag,          \* bound: changes of the document's etag
          ForeignWhileTaking \* may someone save between the look at the document and the LOCK?

VARIABLES doc,      \* the server's: etag, rev(ision), lock, token
          held,     \* app_locks' entry for the document
          known,    \* the version this mount last handed out or listed
          editor,   \* "open" (lock file there), "closed" (gone, or the process is)
          locker,   \* where run_app_locks is, and the state it read before
          save,     \* one save of the document: "none", "queued", "sent", its conditions
          online,
          overwrote \* a save replaced a revision this mount had not seen

lockVars == <<doc, held, known, editor, locker, save, online, overwrote>>

NoToken == 0
NotHeld == [on |-> FALSE, token |-> NoToken, vouched |-> FALSE, ours |-> FALSE]
Nowhere == [at |-> "idle", etag |-> 0, rev |-> 0]
NoSave == [at |-> "none", token |-> NoToken, etag |-> 0, rev |-> 0]

LocksInit ==
    /\ doc = [etag |-> 1, rev |-> 1, lock |-> "none", token |-> NoToken]
    /\ held = NotHeld /\ known = [etag |-> 1, rev |-> 1]
    /\ editor = "closed" /\ locker = Nowhere /\ save = NoSave
    /\ online = TRUE /\ overwrote = FALSE

\* Every change of the document on the server gives it a new etag.
Touched(d) == [d EXCEPT !.etag = @ + 1]
CanTouch == doc.etag < MaxEtag

\* doc_writes_pending
Pending == save.at # "none"

----------------------------------------------------------------------------
(* The editor. *)

\* create() of a lock file (document_for, track): tracked, to be locked later.
EditorOpens ==
    /\ editor = "closed" /\ editor' = "open"
    /\ held' = IF held.on THEN held ELSE [NotHeld EXCEPT !.on = TRUE]
    /\ UNCHANGED <<doc, known, locker, save, online, overwrote>>

\* lock_file_removed and its grace, or the process is gone.
EditorCloses ==
    /\ editor = "open" /\ editor' = "closed"
    /\ UNCHANGED <<doc, held, known, locker, save, online, overwrote>>

SaveQueued ==
    /\ save.at = "none" /\ CanTouch
    /\ save' = [NoSave EXCEPT !.at = "queued"]
    /\ UNCHANGED <<doc, held, known, editor, locker, online, overwrote>>

\* tagged_if, condition_for: the token, and the etag unless vouched for.
Condition_TokenOnly ==
    [at |-> "sent", token |-> held.token, rev |-> known.rev,
     etag |-> IF held.token # NoToken THEN 0 ELSE known.etag]
Condition ==
    [at |-> "sent", token |-> held.token, rev |-> known.rev,
     etag |-> IF held.token # NoToken /\ held.vouched THEN 0 ELSE known.etag]
SaveSent ==
    /\ save.at = "queued" /\ online
    /\ save' = Condition
    /\ UNCHANGED <<doc, held, known, editor, locker, online, overwrote>>

\* How the server answers: a lock needs its token, a token its lock.
Accepts(d, s) ==
    /\ IF s.token = NoToken THEN d.lock = "none" ELSE d.lock = "ours" /\ d.token = s.token
    /\ s.etag # 0 => s.etag = d.etag

\* A PUT keeps the lock; a MOVE over the document drops it with the file it
\* replaces, and the token with it.  A refusal becomes a conflicted copy and
\* the server's version is what the next save is based on.
SaveAnswered ==
    /\ save.at = "sent" /\ online /\ save' = NoSave
    /\ IF Accepts(doc, save) /\ CanTouch
       THEN \E moved \in BOOLEAN :
              /\ doc' = IF moved THEN [Touched(doc) EXCEPT !.rev = doc.etag + 1, !.lock = "none", !.token = NoToken]
                        ELSE [Touched(doc) EXCEPT !.rev = doc.etag + 1]
              /\ held' = IF moved THEN [held EXCEPT !.token = NoToken, !.vouched = FALSE] ELSE held
              /\ overwrote' = (overwrote \/ doc.rev # save.rev)
       ELSE UNCHANGED <<doc, held, overwrote>>
    /\ known' = [etag |-> doc'.etag, rev |-> doc'.rev]
    /\ UNCHANGED <<editor, locker, online>>

----------------------------------------------------------------------------
(* run_app_locks.  Each request to the server is a step of its own. *)

Look == [at |-> "idle", etag |-> doc.etag, rev |-> doc.rev]
Done == editor = "closed"

\* adopt_lock_etag: the etag a lock or an unlock gave the document is ours
\* too, if it was the version we knew and its content is still the same.
Ours(before) == known.etag = before.etag
Adopt(before) ==
    known' = IF online /\ Ours(before) /\ doc.rev = before.rev THEN [known EXCEPT !.etag = doc.etag] ELSE known

\* Not locked yet, and no save on its way: look, and vouch for what is known.
TakeLooks ==
    /\ locker.at = "idle" /\ held.on /\ ~Done /\ online
    /\ held.token = NoToken /\ ~Pending
    /\ locker' = [Look EXCEPT !.at = "taking"]
    /\ held' = [held EXCEPT !.vouched = (known.etag = doc.etag)]
    /\ UNCHANGED <<doc, known, editor, save, online, overwrote>>

\* The LOCK is answered.  Refused means someone else's lock.
Taken ==
    /\ locker.at = "taking" /\ held.on
    /\ IF ~online \/ ~CanTouch
       THEN held' = [held EXCEPT !.vouched = FALSE] /\ locker' = Nowhere /\ UNCHANGED doc
       ELSE IF doc.lock # "none"
       THEN held' = [held EXCEPT !.ours = FALSE, !.vouched = FALSE] /\ locker' = Nowhere /\ UNCHANGED doc
       ELSE /\ doc' = [Touched(doc) EXCEPT !.lock = "ours", !.token = doc.etag + 1]
            /\ held' = [held EXCEPT !.token = doc.etag + 1, !.ours = TRUE]
            /\ locker' = [locker EXCEPT !.at = "taken"]
    /\ UNCHANGED <<known, editor, save, online, overwrote>>

\* Only once the document is looked at again is the vouching settled.
TakenAdopted ==
    /\ locker.at = "taken"
    /\ Adopt(locker)
    /\ held' = [held EXCEPT !.vouched = online /\ Ours(locker) /\ doc.rev = locker.rev]
    /\ locker' = Nowhere
    /\ UNCHANGED <<doc, editor, save, online, overwrote>>

\* refresh_lock: a lock that expired or went with its file is taken again.
Refresh ==
    /\ locker.at = "idle" /\ held.on /\ held.token # NoToken /\ online
    /\ doc.token # held.token
    /\ held' = [held EXCEPT !.token = NoToken, !.vouched = FALSE]
    /\ UNCHANGED <<doc, known, editor, locker, save, online, overwrote>>

\* After APP_LOCK_RENEW_AFTER the lock is released to be taken anew; once the
\* editor is done it is released for good, its entry gone first.
UnlockLooks ==
    /\ locker.at = "idle" /\ held.on /\ ~Pending
    /\ online \/ (Done /\ held.token = NoToken)
    /\ IF Done THEN /\ held' = NotHeld
                    /\ locker' = IF held.token = NoToken THEN Nowhere ELSE [Look EXCEPT !.at = "releasing"]
       ELSE /\ held.token # NoToken /\ UNCHANGED held
            /\ locker' = [Look EXCEPT !.at = "renewing"]
    /\ UNCHANGED <<doc, known, editor, save, online, overwrote>>
UnlockSent ==
    /\ locker.at \in {"releasing", "renewing"}
    /\ doc' = IF online /\ doc.lock = "ours" /\ CanTouch
              THEN [Touched(doc) EXCEPT !.lock = "none", !.token = NoToken] ELSE doc
    /\ locker' = [locker EXCEPT !.at = IF @ = "renewing" THEN "renewed" ELSE "released"]
    /\ UNCHANGED <<held, known, editor, save, online, overwrote>>
UnlockAdopted ==
    /\ locker.at \in {"renewed", "released"}
    /\ Adopt(locker)
    /\ held' = IF locker.at = "renewed" THEN [held EXCEPT !.token = NoToken, !.vouched = FALSE] ELSE held
    /\ locker' = Nowhere
    /\ UNCHANGED <<doc, editor, save, online, overwrote>>

----------------------------------------------------------------------------
(* Everyone else, and time. *)

ForeignSave ==
    /\ doc.lock # "ours" /\ CanTouch
    /\ locker.at = "taking" => ForeignWhileTaking
    /\ doc' = [Touched(doc) EXCEPT !.rev = doc.etag + 1]
    /\ UNCHANGED <<held, known, editor, locker, save, online, overwrote>>
ForeignLock ==
    /\ CanTouch
    /\ \/ doc.lock = "none" /\ doc' = [Touched(doc) EXCEPT !.lock = "theirs"]
       \/ doc.lock = "theirs" /\ doc' = [Touched(doc) EXCEPT !.lock = "none"]
    /\ UNCHANGED <<held, known, editor, locker, save, online, overwrote>>

\* Offline for LOCK_TIMEOUT, nothing refreshes the lock and the server drops it.
Expires ==
    /\ ~online /\ doc.lock = "ours"
    /\ doc' = [doc EXCEPT !.lock = "none", !.token = NoToken]
    /\ UNCHANGED <<held, known, editor, locker, save, online, overwrote>>
Connection ==
    /\ online' = ~online
    /\ UNCHANGED <<doc, held, known, editor, locker, save, overwrote>>

\* The folder is listed again and the program told.
Listed ==
    /\ online /\ ~Pending
    /\ known' = [etag |-> doc.etag, rev |-> doc.rev]
    /\ UNCHANGED <<doc, held, editor, locker, save, online, overwrote>>

\* A restarted daemon releases what its predecessor held and tracks it again
\* for an editor that is still running (init, readopt).
readopt == [NotHeld EXCEPT !.on = TRUE]
LocksRestarted ==
    /\ held.on /\ save.at # "sent"
    /\ doc' = IF online /\ doc.lock = "ours" /\ held.token = doc.token /\ CanTouch
              THEN [Touched(doc) EXCEPT !.lock = "none", !.token = NoToken] ELSE doc
    /\ held' = IF editor = "open" THEN readopt ELSE NotHeld
    /\ locker' = Nowhere
    /\ UNCHANGED <<known, editor, save, online, overwrote>>

LocksNext ==
    \/ EditorOpens \/ EditorCloses \/ SaveQueued \/ SaveSent \/ SaveAnswered
    \/ TakeLooks \/ Taken \/ TakenAdopted \/ Refresh
    \/ UnlockLooks \/ UnlockSent \/ UnlockAdopted
    \/ ForeignSave \/ ForeignLock \/ Expires \/ Connection \/ Listed \/ LocksRestarted

LocksSpec == LocksInit /\ [][LocksNext]_lockVars

----------------------------------------------------------------------------
LocksTypeOK ==
    /\ doc.etag \in 1..MaxEtag /\ doc.lock \in {"none", "ours", "theirs"}
    /\ held.token \in 0..MaxEtag
    /\ locker.at \in {"idle", "taking", "taken", "releasing", "renewing", "renewed", "released"}
    /\ save.at \in {"none", "queued", "sent"}

\* A save from this mount never replaces a version it has not seen, with or
\* without a lock: what a vouched token stands in for is that nobody else
\* changed the document since the version the save is based on.
NoSilentOverwrite == ~overwrote
=============================================================================
