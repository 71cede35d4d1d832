-------------------------- MODULE UploadSyncProofs --------------------------
(***************************************************************************)
(* Proofs about saving files (SaveSpec): one executor per upload, replay   *)
(* pops what it sent, no edit is lost and no listing stays pinned, for any *)
(* files, any number of saves, faults, foreign edits and restarts.         *)
(* Restarts keep the mount, as a new one re-uses staging files' names.     *)
(***************************************************************************)
EXTENDS UploadSyncInvariant

-----------------------------------------------------------------------------
(* The replay run and the restart keep the invariant.                      *)

(* Replay claims the front, which no worker has, or stops.                 *)
LEMMA ReplayPeekIInv ==
  ASSUME IInv, ReplayPeek PROVE IInv'
<1> USE DEF IInv
<1> DEFINE front == peek_front(entries)
<1>1. /\ UNCHANGED <<next_seq, back, staging, unsynced, remote, mount, workers, offline, user, used>>
      /\ replay.at = "peek" /\ ~Replaying
  BY Zenon DEF ReplayPeek, Replaying
<1>2. \A t \in DOMAIN entries : /\ entries[t] \in JournalEntry /\ entries[t].pos \in Nat
                                /\ Same(entries[t], entries[t]) /\ t < next_seq
                                /\ entries[t].staging \in DOMAIN staging
  BY Zenon DEF Typed, TypeOK, JournalEntry, Same, QueueOK, FilesOK
<1>3. CASE DOMAIN entries = {} \/ entries[front].in_flight
  <2>1. entries' = entries /\ replay' = Idle  BY <1>3, Zenon DEF ReplayPeek
  <2>2. /\ replay'.at = "idle" /\ replay'.seq = 0 /\ replay'.result = "none" /\ replay'.etag = 0
        /\ replay' = [at |-> replay'.at, seq |-> replay'.seq, entry |-> replay'.entry,
                      result |-> replay'.result, etag |-> replay'.etag]
        /\ ~Replaying'
    BY <2>1, Zenon DEF Idle, None, Replaying
  <2>3. Typed'  BY <1>1, <2>1, <2>2 DEF Typed, TypeOK, Results, remote, mount
  <2>4. Counted' /\ QueueOK' /\ FilesOK' /\ EditsOK'
    BY <1>1, <1>2, <2>1, QueueCarried, Zenon DEF remote, mount
  <2>5. WorkersOK' /\ ReplayOK' /\ FlagsOK'
    BY <1>1, <2>1, <2>2, Zenon DEF WorkersOK, ReplayOK, FlagsOK
  <2>6. SentOK'  BY <1>1, <2>1, <2>2, Zenon DEF SentOK, remote
  <2> QED  BY <2>3, <2>4, <2>5, <2>6, Zenon
<1>4. CASE ~(DOMAIN entries = {} \/ entries[front].in_flight)
  <2>1. /\ entries' = claim(entries, front)
        /\ replay' = [Idle EXCEPT !.at = IF entries[front].attempts >= MaxAttempts THEN "giveup" ELSE "send",
                                  !.seq = front, !.entry = entries[front]]
    BY <1>4, Zenon DEF ReplayPeek
  <2>2. front \in DOMAIN entries /\ Before(entries, front) = {} /\ ~entries[front].in_flight
    BY <1>2, <1>4, FrontExists, Zenon
  <2>3. front \in Nat /\ entries[front] \in JournalEntry /\ entries[front].op = "Put"
    BY <2>2, Zenon DEF Typed, TypeOK, QueueOK
  <2> HIDE DEF front
  <2>4. /\ replay'.at \in {"giveup", "send"} /\ replay'.seq = front /\ replay'.entry = entries[front]
        /\ replay'.result = "none" /\ replay'.etag = 0
        /\ replay' = [at |-> replay'.at, seq |-> replay'.seq, entry |-> replay'.entry,
                      result |-> replay'.result, etag |-> replay'.etag]
        /\ Replaying'
    BY <2>1, Zenon DEF Idle, None, Replaying
  <2>5. /\ DOMAIN entries' = DOMAIN entries /\ \A t \in DOMAIN entries : Same(entries[t], entries'[t])
        /\ \A t \in DOMAIN entries \ {front} : entries'[t] = entries[t]
        /\ entries'[front].in_flight
    BY <1>2, <2>1, <2>2, ClaimKeeps, Zenon
  <2>6. Typed'
    <3>1. \A t \in DOMAIN entries' : entries'[t] \in JournalEntry  BY <2>5, Zenon DEF Same
    <3> QED  BY <1>1, <2>3, <2>4, <2>5, <3>1 DEF Typed, TypeOK, Results, remote, mount
  <2>7. Counted' /\ QueueOK' /\ FilesOK' /\ EditsOK'
    BY <1>1, <1>2, <2>5, QueueCarried, Zenon DEF remote, mount
  <2>8. front \in DOMAIN workers => workers[front].at = "queued"  BY <2>2, Zenon DEF WorkersOK
  <2>9. WorkersOK' /\ ReplayOK' /\ FlagsOK' /\ SentOK'
    BY <1>1, <2>2, <2>3, <2>4, <2>5, <2>8, ReplayStepKeeps, Zenon DEF remote
  <2> QED  BY <2>6, <2>7, <2>9, Zenon
<1> QED  BY <1>3, <1>4, Zenon

(* What replay holds: the front of the queue, claimed, with its bytes.     *)
LEMMA Held ==
  ASSUME IInv, Replaying
  PROVE  /\ replay.seq \in DOMAIN entries /\ Before(entries, replay.seq) = {}
         /\ entries[replay.seq].in_flight
         /\ replay.seq \in DOMAIN workers => workers[replay.seq].at = "queued"
         /\ replay.entry.op = "Put" /\ replay.entry.staging = entries[replay.seq].staging
         /\ replay.entry.staging \in DOMAIN staging /\ staging[replay.entry.staging] \in Contents
         /\ replay.entry \in JournalEntry
<1> USE DEF IInv
<1>1. replay.entry \in JournalEntry  BY Zenon DEF Typed, TypeOK, Replaying
<1> QED  BY <1>1, Zenon DEF ReplayOK, WorkersOK, FilesOK, Typed, TypeOK

(* Replay's requests change the server and what replay was told.           *)
LEMMA ReplaySendIInv ==
  ASSUME IInv, Replaying, UNCHANGED <<journal, mount, workers, offline, user>>,
         replay' = [at |-> replay'.at, seq |-> replay.seq, entry |-> replay.entry,
                    result |-> replay'.result, etag |-> replay'.etag],
         replay'.at \in {"copy", "done"}, replay'.result \in Results, replay'.etag \in Nat,
         clock' \in Nat, \A q \in DOMAIN server' : server'[q] \in Version,
         used' \in [ops: Nat, faults: Nat, foreign: Nat, restarts: Nat, odd: Nat],
         landed \subseteq landed', copies \subseteq copies',
         replay'.result = "ok" => staging[replay.entry.staging] \in landed',
         replay'.result = "copied" => staging[replay.entry.staging] \in copies'
  PROVE  IInv'
<1> USE DEF IInv
<1> DEFINE s == replay.seq
<1>1. /\ s \in DOMAIN entries /\ Before(entries, s) = {} /\ entries[s].in_flight
      /\ s \in DOMAIN workers => workers[s].at = "queued"
      /\ replay.entry.op = "Put" /\ replay.entry.staging = entries[s].staging
      /\ replay.entry \in JournalEntry
  BY Held, Zenon
<1>2. replay'.seq = s /\ replay'.entry = replay.entry /\ Replaying'  BY DEF Replaying
<1>3. Typed'
  <2>1. TypeOK'  BY <1>1, <1>2 DEF Typed, TypeOK, journal, mount
  <2> QED  BY <1>2, <2>1, Zenon DEF Typed, journal, mount
<1>4. \A t \in DOMAIN entries : /\ Same(entries[t], entries'[t]) /\ t < next_seq'
                                /\ entries[t].staging \in DOMAIN staging'
  BY Zenon DEF Typed, TypeOK, FilesOK, QueueOK, Same, journal
<1>5. Counted' /\ QueueOK' /\ FilesOK' /\ EditsOK'
  BY <1>4, QueueCarried, Zenon DEF journal, mount
<1>6. WorkersOK' /\ ReplayOK' /\ FlagsOK' /\ SentOK'
  BY <1>1, <1>2, <1>4, ReplayStepKeeps, Zenon DEF journal
<1> QED  BY <1>3, <1>5, <1>6, Zenon

(* Replay's PUT.                                                           *)
LEMMA ReplayPutIInv ==
  ASSUME IInv, ReplayPut PROVE IInv'
<1> DEFINE e == replay.entry
<1>1. UNCHANGED <<journal, mount, workers, offline, user>> /\ replay.at = "send" /\ Replaying
  BY Zenon DEF ReplayPut, Replaying
<1>2. e.staging \in DOMAIN staging /\ staging[e.staging] \in Contents  BY <1>1, Held, Zenon
<1>3. PICK o \in PutRequest(e.path, staging[e.staging], e.cond) :
        /\ Serve(o)
        /\ replay' = [replay EXCEPT !.at = IF o.result = "conflict" THEN "copy" ELSE "done",
                                    !.result = o.result, !.etag = o.etag]
  BY <1>2, Zenon DEF ReplayPut
<1>4. Typed  BY Zenon DEF IInv
<1>5. /\ landed \subseteq landed' /\ copies \subseteq copies' /\ clock' \in Nat
      /\ \A q \in DOMAIN server' : server'[q] \in Version
      /\ o.result \in Results \ {"copied"} /\ o.etag \in Nat
      /\ o.result = "ok" => staging[e.staging] \in landed'
      /\ used' \in [ops: Nat, faults: Nat, foreign: Nat, restarts: Nat, odd: Nat]
  BY <1>2, <1>3, <1>4, PutServed, Zenon
<1>6. /\ replay' = [at |-> replay'.at, seq |-> replay.seq, entry |-> replay.entry,
                    result |-> replay'.result, etag |-> replay'.etag]
      /\ replay'.at \in {"copy", "done"} /\ replay'.result = o.result /\ replay'.etag = o.etag
  BY <1>3, <1>4, Zenon DEF Typed
<1> QED  BY <1>1, <1>5, <1>6, ReplaySendIInv, Zenon

(* Replay's PUT of a conflicted copy.                                      *)
LEMMA ReplayCopyIInv ==
  ASSUME IInv, ReplayCopy PROVE IInv'
<1> DEFINE e == replay.entry
<1>1. UNCHANGED <<journal, mount, workers, offline, user>> /\ replay.at = "copy" /\ Replaying
  BY Zenon DEF ReplayCopy, Replaying
<1>2. e.staging \in DOMAIN staging  BY <1>1, Held, Zenon
<1>3. PICK o \in CopyRequest(e.path, staging[e.staging]) :
        /\ Serve(o)
        /\ replay' = [replay EXCEPT !.at = "done",
                                    !.result = IF o.result = "missing" THEN "refused" ELSE o.result]
  BY <1>2, Zenon DEF ReplayCopy
<1>4. Typed  BY Zenon DEF IInv
<1>5. /\ landed' = landed /\ copies \subseteq copies' /\ clock' = clock /\ server' = server
      /\ o.result \in Results \ {"ok"}
      /\ o.result = "copied" => staging[e.staging] \in copies'
      /\ used' \in [ops: Nat, faults: Nat, foreign: Nat, restarts: Nat, odd: Nat]
  BY <1>3, <1>4, CopyServed, Zenon
<1>6. replay.etag \in Nat /\ clock' \in Nat /\ \A q \in DOMAIN server' : server'[q] \in Version
  BY <1>4, <1>5, Zenon DEF Typed, TypeOK
<1>7. /\ replay' = [at |-> replay'.at, seq |-> replay.seq, entry |-> replay.entry,
                    result |-> replay'.result, etag |-> replay'.etag]
      /\ replay'.at = "done" /\ replay'.etag = replay.etag
      /\ replay'.result = IF o.result = "missing" THEN "refused" ELSE o.result
  BY <1>3, <1>4, Zenon DEF Typed
<1>8. /\ replay'.result \in Results /\ replay'.result # "ok"
      /\ replay'.result = "copied" => o.result = "copied"
  BY <1>5, <1>7, Zenon DEF Results
<1> QED  BY <1>1, <1>5, <1>6, <1>7, <1>8, ReplaySendIInv, Zenon

(* Replay lets go of an entry: it stays queued, or is gone with its bytes  *)
(* safe.                                                                   *)
LEMMA ReplayEndIInv ==
  ASSUME IInv, Replaying,
         UNCHANGED <<next_seq, back, remote, committed, gen, handles, next_fh, workers, offline, user, used>>,
         replay' = [at |-> replay'.at, seq |-> None, entry |-> None, result |-> "none", etag |-> None],
         replay'.at \in {"idle", "peek"},
         DOMAIN listed' \subseteq Path, \A p \in DOMAIN listed' : listed'[p] \in Listing,
         DOMAIN entries' \subseteq DOMAIN entries, DOMAIN entries \ {replay.seq} \subseteq DOMAIN entries',
         \A t \in DOMAIN entries' : Same(entries[t], entries'[t]),
         \A t \in DOMAIN entries \ {replay.seq} : entries'[t].in_flight = entries[t].in_flight,
         unsynced \subseteq unsynced',
         \/ replay.seq \in DOMAIN entries' /\ ~entries'[replay.seq].in_flight /\ UNCHANGED staging
         \/ /\ replay.seq \notin DOMAIN entries' /\ staging' = Without(staging, {replay.entry.staging})
            /\ staging[replay.entry.staging] \in (landed \cup copies \cup unsynced)'
  PROVE  IInv'
<1> USE DEF IInv
<1> DEFINE s == replay.seq
<1>1. /\ s \in DOMAIN entries
      /\ s \in DOMAIN workers => workers[s].at = "queued"
      /\ replay.entry.staging = entries[s].staging
  BY Held, Zenon
<1>2. /\ replay'.seq = 0 /\ replay'.result = "none" /\ replay'.etag = 0 /\ ~Replaying'
      /\ replay' = [at |-> replay'.at, seq |-> replay'.seq, entry |-> replay'.entry,
                    result |-> replay'.result, etag |-> replay'.etag]
  BY DEF Replaying, None
<1>3. /\ \A f \in DOMAIN staging' : f \in DOMAIN staging /\ staging'[f] = staging[f]
      /\ \A t \in DOMAIN entries' : entries[t].staging \in DOMAIN staging'
  BY <1>1 DEF Without, FilesOK
<1>4. Typed'
  <2>1. \A t \in DOMAIN entries' : entries'[t] \in JournalEntry  BY Zenon DEF Same
  <2>2. TypeOK'  BY <1>2, <1>3, <2>1 DEF Typed, TypeOK, Results, remote
  <2> QED  BY <1>2, <2>2, Zenon DEF Typed, remote
<1>5. Counted' /\ QueueOK' /\ FilesOK' /\ EditsOK'
  <2>1. \A t \in DOMAIN entries : t < next_seq'  BY Zenon DEF QueueOK
  <2>2. \A t \in DOMAIN entries \ DOMAIN entries' :
          staging[entries[t].staging] \in (landed \cup copies \cup unsynced)'
    BY <1>1, Zenon
  <2> QED  BY <1>3, <2>1, <2>2, QueueCarried, Zenon DEF remote
<1>6. WorkersOK' /\ ReplayOK' /\ FlagsOK' /\ SentOK'
  BY <1>1, <1>2, <1>3, ReplayStepKeeps, Zenon DEF remote
<1> QED  BY <1>4, <1>5, <1>6, Zenon

(* The front is what replay holds, and what it pops.                       *)
LEMMA PopsHeld ==
  ASSUME IInv, Replaying
  PROVE  /\ peek_front(entries) = replay.seq
         /\ DOMAIN dequeue_front(entries) = DOMAIN entries \ {replay.seq}
         /\ \A t \in DOMAIN entries \ {replay.seq} : dequeue_front(entries)[t] = entries[t]
<1>1. replay.seq \in DOMAIN entries /\ Before(entries, replay.seq) = {}  BY Held, Zenon
<1>2. /\ \A s \in DOMAIN entries : entries[s].pos \in Nat
      /\ \A s, t \in DOMAIN entries : s # t => entries[s].pos # entries[t].pos
  BY Zenon DEF IInv, Typed, TypeOK, JournalEntry, QueueOK
<1>3. peek_front(entries) = replay.seq /\ dequeue_front(entries) = remove(entries, replay.seq)
  BY <1>1, <1>2, FrontIsPopped, Zenon
<1>4. /\ DOMAIN remove(entries, replay.seq) = DOMAIN entries \ {replay.seq}
      /\ \A t \in DOMAIN entries \ {replay.seq} : remove(entries, replay.seq)[t] = entries[t]
  BY RemoveKeeps, Zenon
<1> QED  BY <1>3, <1>4, Zenon

(* Giving up keeps the bytes in unsynced/.                                 *)
LEMMA ReplayGiveUpIInv ==
  ASSUME IInv, ReplayGiveUp PROVE IInv'
<1> DEFINE e == replay.entry
<1>1. /\ UNCHANGED <<next_seq, back, remote, mount, workers, offline, user, used>>
      /\ replay.at = "giveup" /\ Replaying /\ entries' = dequeue_front(entries) /\ replay' = Remaining
  BY Zenon DEF ReplayGiveUp, Replaying
<1>2. e.op = "Put" /\ e.staging \in DOMAIN staging /\ replay.seq \in DOMAIN entries  BY <1>1, Held, Zenon
<1>3. Recover(e.staging)  BY <1>2, Zenon DEF ReplayGiveUp
<1>4. /\ unsynced \subseteq unsynced' /\ staging[e.staging] \in unsynced'
      /\ staging' = Without(staging, {e.staging})
  BY <1>2, <1>3, Zenon DEF Recover
<1>5. DOMAIN entries' = DOMAIN entries \ {replay.seq} /\ \A t \in DOMAIN entries' : entries'[t] = entries[t]
  BY <1>1, PopsHeld, Zenon
<1>6. /\ \A t \in DOMAIN entries : Same(entries[t], entries[t])
      /\ DOMAIN listed \subseteq Path /\ \A p \in DOMAIN listed : listed[p] \in Listing
  BY Zenon DEF IInv, Typed, TypeOK, Same
<1>7. /\ replay' = [at |-> replay'.at, seq |-> None, entry |-> None, result |-> "none", etag |-> None]
      /\ replay'.at = "peek"
  BY <1>1, Zenon DEF Remaining, IInv, Typed
<1> QED  BY <1>1, <1>4, <1>5, <1>6, <1>7, ReplayEndIInv, Zenon DEF mount

(* Replay's pop, for each answer.                                          *)
LEMMA ReplayPutDoneIInv ==
  ASSUME IInv, ReplayPutDone PROVE IInv'
<1> DEFINE e == replay.entry
           r == replay.result
           s == replay.seq
<1>1. /\ UNCHANGED <<next_seq, back, remote, committed, gen, handles, next_fh, workers, offline, user, used>>
      /\ replay.at = "done" /\ Replaying
  BY Zenon DEF ReplayPutDone, Replaying
<1>2. /\ s \in DOMAIN entries /\ Before(entries, s) = {} /\ e.staging \in DOMAIN staging
      /\ staging[e.staging] \in Contents
  BY <1>1, Held, Zenon
<1>3. /\ \A t \in DOMAIN entries : /\ entries[t] \in JournalEntry /\ entries[t].pos \in Nat
                                   /\ Same(entries[t], entries[t])
      /\ \A t, u \in DOMAIN entries : t # u => entries[t].pos # entries[u].pos
      /\ DOMAIN listed \subseteq Path /\ \A p \in DOMAIN listed : listed[p] \in Listing
      /\ replay.etag \in Nat
  BY Zenon DEF IInv, Typed, TypeOK, JournalEntry, Same, QueueOK
<1>4. replay' \in {Remaining, Idle} =>
        /\ replay' = [at |-> replay'.at, seq |-> None, entry |-> None, result |-> "none", etag |-> None]
        /\ replay'.at \in {"idle", "peek"}
  <2>1. CASE replay' = Remaining  BY <2>1, Zenon DEF Remaining, IInv, Typed
  <2>2. CASE replay' = Idle  BY <2>2, Zenon DEF Idle
  <2> QED  BY <2>1, <2>2, Zenon
<1>5. CASE r = "ok"
  <2> DEFINE es == rebase(entries, e.path, e.cond, replay.etag)
  <2>1. /\ entries' = dequeue_front(es) /\ staging' = Without(staging, {e.staging})
        /\ listed' = IF e.path \in DOMAIN listed
                     THEN [listed EXCEPT ![e.path].etag = replay.etag,
                                         ![e.path].data = staging[e.staging]] ELSE listed
        /\ replay' = Remaining /\ unsynced' = unsynced
    BY <1>5, Zenon DEF ReplayPutDone
  <2>2. /\ DOMAIN es = DOMAIN entries
        /\ \A t \in DOMAIN entries : Same(entries[t], es[t]) /\ es[t].in_flight = entries[t].in_flight
    BY <1>3, RebaseKeeps
  <2> HIDE DEF es
  <2>3. Before(es, s) = {}
    <3>1. \A t \in DOMAIN entries : ~(entries[t].pos < entries[s].pos)  BY <1>2, Zenon DEF Before
    <3> QED  BY <1>2, <2>2, <3>1, Zenon DEF Before, Same
  <2>4. /\ \A t \in DOMAIN es : es[t].pos \in Nat
        /\ \A t, u \in DOMAIN es : t # u => es[t].pos # es[u].pos
    BY <1>3, <2>2 DEF Same
  <2>5. dequeue_front(es) = remove(es, s)  BY <1>2, <2>2, <2>3, <2>4, FrontIsPopped, Zenon
  <2>6. /\ DOMAIN remove(es, s) = DOMAIN es \ {s} /\ \A t \in DOMAIN es \ {s} : remove(es, s)[t] = es[t]
    BY RemoveKeeps, Zenon
  <2>7. /\ DOMAIN entries' = DOMAIN entries \ {s}
        /\ \A t \in DOMAIN entries' : Same(entries[t], entries'[t])
                                       /\ entries'[t].in_flight = entries[t].in_flight
    BY <2>1, <2>2, <2>5, <2>6, Zenon
  <2>8. DOMAIN listed' \subseteq Path /\ \A p \in DOMAIN listed' : listed'[p] \in Listing
    BY <1>2, <1>3, <2>1 DEF Listing
  <2>9. staging[e.staging] \in landed'  BY <1>1, <1>5, Zenon DEF IInv, SentOK, remote
  <2> QED  BY <1>1, <1>4, <2>1, <2>7, <2>8, <2>9, ReplayEndIInv, Zenon
<1>6. CASE r \in {"copied", "missing", "unreadable"}
  <2>1. /\ entries' = dequeue_front(entries) /\ staging' = Without(staging, {e.staging})
        /\ listed' = listed /\ replay' = Remaining
    BY <1>6, Zenon DEF ReplayPutDone, Recover
  <2>2. DOMAIN entries' = DOMAIN entries \ {s} /\ \A t \in DOMAIN entries' : entries'[t] = entries[t]
    BY <1>1, <2>1, PopsHeld, Zenon
  <2>3. unsynced \subseteq unsynced' /\ staging[e.staging] \in (copies \cup unsynced)'
    <3>1. CASE r = "copied"
      <4>1. unsynced' = unsynced  BY <3>1, Zenon DEF ReplayPutDone
      <4>2. staging[e.staging] \in copies'  BY <1>1, <3>1, Zenon DEF IInv, SentOK, remote
      <4> QED  BY <4>1, <4>2, Zenon
    <3>2. CASE r # "copied"
      <4>1. Recover(e.staging)  BY <1>6, <3>2, Zenon DEF ReplayPutDone
      <4> QED  BY <1>2, <4>1, Zenon DEF Recover
    <3> QED  BY <3>1, <3>2, Zenon
  <2> QED  BY <1>1, <1>3, <1>4, <2>1, <2>2, <2>3, ReplayEndIInv, Zenon
<1>7. CASE r \notin {"ok", "copied", "missing", "unreadable"}
  <2>1. /\ UNCHANGED <<staging, unsynced, listed>> /\ replay' \in {Idle, Remaining}
        /\ entries' \in {mark_deferred(entries, s), mark_failed(entries, s)}
    BY <1>7, Zenon DEF ReplayPutDone
  <2>2. /\ DOMAIN entries' = DOMAIN entries /\ \A t \in DOMAIN entries : Same(entries[t], entries'[t])
        /\ \A t \in DOMAIN entries \ {s} : entries'[t] = entries[t]
        /\ ~entries'[s].in_flight
    <3>1. CASE entries' = mark_deferred(entries, s)  BY <1>2, <1>3, <3>1, DeferKeeps, Zenon
    <3>2. CASE entries' = mark_failed(entries, s)  BY <1>2, <1>3, <3>2, FailKeeps, Zenon
    <3> QED  BY <2>1, <3>1, <3>2, Zenon
  <2> QED  BY <1>1, <1>2, <1>3, <1>4, <2>1, <2>2, ReplayEndIInv, Zenon
<1> QED  BY <1>5, <1>6, <1>7, Zenon

(* A restart forgets who had claimed what, and keeps every queued upload   *)
(* and its bytes.                                                          *)
LEMMA RestartIInv ==
  ASSUME IInv, NEW how, how # "remount", Restart(how) PROVE IInv'
<1> USE DEF IInv
<1>1. /\ UNCHANGED <<back, unsynced, remote, listed, user>> /\ next_fh' = next_fh
      /\ entries' = load_or_create(entries, DOMAIN staging) /\ next_seq' = next_seq_of(entries')
      /\ staging' = Swept(entries') /\ committed' = Empty /\ gen' = 0 /\ handles' = Empty
      /\ workers' = Empty /\ offline' = FALSE
      /\ replay' = IF DOMAIN entries' = {} THEN Idle ELSE [Idle EXCEPT !.at = "peek"]
  BY Zenon DEF Restart
<1>2. \A t \in DOMAIN entries : /\ entries[t] \in JournalEntry /\ ~entries[t].retargeted
                                /\ entries[t].staging \in DOMAIN staging
  BY Zenon DEF Typed, TypeOK, QueueOK, FilesOK
<1>3. /\ DOMAIN entries' = DOMAIN entries
      /\ \A t \in DOMAIN entries : Same(entries[t], entries'[t]) /\ ~entries'[t].in_flight
  BY <1>1, <1>2, ZenonT(60) DEF load_or_create, Same, JournalEntry
<1>4. next_seq' \in Nat /\ \A t \in DOMAIN entries' : t < next_seq'
  <2>1. next_seq \in Nat /\ DOMAIN entries' \subseteq Nat /\ \A t \in DOMAIN entries' : t < next_seq
    BY <1>3, Zenon DEF Typed, TypeOK, QueueOK
  <2>2. CASE DOMAIN entries' = {}  BY <1>1, <2>2, Zenon DEF next_seq_of
  <2>3. CASE DOMAIN entries' # {}
    <3>1. \E m \in DOMAIN entries' : \A t \in DOMAIN entries' : t <= m  BY <2>1, <2>3, GreatestExists, Zenon
    <3>2. PICK m \in DOMAIN entries' : next_seq' = 1 + m /\ \A t \in DOMAIN entries' : t <= m
      BY <1>1, <2>3, <3>1, Zenon DEF next_seq_of
    <3> QED  BY <2>1, <3>2
  <2> QED  BY <2>2, <2>3, Zenon
<1>5. /\ \A f \in DOMAIN staging' : f \in DOMAIN staging /\ staging'[f] = staging[f]
      /\ \A t \in DOMAIN entries' : entries[t].staging \in DOMAIN staging'
  BY <1>1, <1>2, <1>3, Zenon DEF Swept, Without, Same
<1>6. DOMAIN handles' = {} /\ DOMAIN workers' = {} /\ DOMAIN committed' = {}  BY <1>1, Zenon DEF Empty
<1>7. /\ replay'.at \in {"idle", "peek"} /\ replay'.seq = 0 /\ replay'.result = "none" /\ replay'.etag = 0
      /\ replay' = [at |-> replay'.at, seq |-> replay'.seq, entry |-> replay'.entry,
                    result |-> replay'.result, etag |-> replay'.etag]
      /\ ~Replaying'
  BY <1>1, Zenon DEF Idle, None, Replaying
<1>8. Typed'
  <2>1. \A t \in DOMAIN entries' : entries'[t] \in JournalEntry  BY <1>3, Zenon DEF Same
  <2>2. used' \in [ops: Nat, faults: Nat, foreign: Nat, restarts: Nat, odd: Nat]
    BY DEF Restart, Spend, Typed
  <2>3. {next_seq', back', clock', gen', next_fh'} \subseteq Nat  BY <1>1, <1>4 DEF Typed, TypeOK, remote
  <2>4. TypeOK'  BY <1>1, <1>3, <1>5, <1>6, <1>7, <2>1, <2>3, Zenon DEF Typed, TypeOK, Results
  <2> QED  BY <1>1, <1>6, <1>7, <2>2, <2>4, Zenon DEF Typed, remote
<1>9. Counted' /\ QueueOK' /\ FilesOK' /\ EditsOK'
  BY <1>1, <1>3, <1>4, <1>5, <1>6, QueueCarried, Zenon DEF remote
<1>10. WorkersOK' /\ ReplayOK' /\ FlagsOK' /\ SentOK'
  BY <1>3, <1>6, <1>7, Zenon DEF WorkersOK, ReplayOK, FlagsOK, SentOK
<1> QED  BY <1>8, <1>9, <1>10, Zenon

-----------------------------------------------------------------------------
(* The theorems.                                                           *)

(* Every step keeps the invariant.                                         *)
LEMMA StepIInv ==
  ASSUME "remount" \notin Restarts, IInv, [SaveNext]_vars PROVE IInv'
<1>1. ASSUME NEW p \in ServerFiles, OpenBegin(p) \/ Refresh(p) \/ ForeignEdit(p) PROVE IInv'
  BY <1>1, OpenBeginIInv, RefreshIInv, ForeignEditIInv, Zenon
<1>2. ASSUME NEW fh \in DOMAIN handles, OpenEnd(fh) \/ Release(fh) PROVE IInv'
  BY <1>2, OpenEndIInv, ReleaseUnlinkedIInv, ReleaseCommitIInv, Zenon
<1>3. ASSUME NEW s \in DOMAIN workers, PutClaim(s) \/ PutSettle(s) \/ PutSend(s) \/ PutCopy(s) \/ PutDone(s)
      PROVE  IInv'
  BY <1>3, PutClaimIInv, PutSettleIInv, PutSendIInv, PutCopyIInv, PutDoneIInv, Zenon
<1>4. CASE ReplayPeek \/ ReplayPut \/ ReplayCopy \/ ReplayPutDone \/ ReplayGiveUp
  BY <1>4, ReplayPeekIInv, ReplayPutIInv, ReplayCopyIInv, ReplayPutDoneIInv, ReplayGiveUpIInv, Zenon
<1>5. CASE ProbeReachable \/ ProbeUnreachable  BY <1>5, ProbeIInv, Zenon
<1>6. ASSUME NEW how \in Restarts, Restart(how) PROVE IInv'  BY <1>6, RestartIInv, Zenon
<1>7. CASE UNCHANGED vars
  <2>1. UNCHANGED <<entries, next_seq, back, staging, unsynced, remote, listed, committed, gen, handles,
                    next_fh, workers, replay, offline, user, used>>
    BY <1>7, Zenon DEF vars, journal, mount
  <2>2. Typed'  BY <2>1, Zenon DEF IInv, Typed, TypeOK, remote
  <2>3. Counted' /\ FilesOK' /\ SentOK' /\ EditsOK'
    BY <2>1, Zenon DEF IInv, Counted, FilesOK, SentOK, EditsOK, QueuedFor, remote, user
  <2>4. QueueOK' /\ WorkersOK' /\ ReplayOK' /\ FlagsOK'  BY <2>1, ExecutorsAlone, Zenon
  <2> QED  BY <2>2, <2>3, <2>4, Zenon DEF IInv
<1> QED  BY <1>1, <1>2, <1>3, <1>4, <1>5, <1>6, <1>7, Zenon DEF SaveNext

(* The invariant of the journal and its executors, for a daemon that keeps *)
(* the mount's handle numbers when it restarts (handoff.rs).               *)
THEOREM JournalInvariant ==
  ASSUME "remount" \notin Restarts PROVE SaveSpec => []IInv
<1>1. IInv /\ [SaveNext]_vars => IInv'  BY StepIInv, Zenon
<1> QED  BY <1>1, InitIInv, PTL DEF SaveSpec

(* Every variable of the journal, its workers and the replay run keeps its *)
(* type, whatever is saved, fails or restarts.                             *)
THEOREM SaveTypeCorrect ==
  ASSUME "remount" \notin Restarts PROVE SaveSpec => []TypeOK
<1>1. IInv => TypeOK  BY Zenon DEF IInv, Typed
<1> QED  BY <1>1, JournalInvariant, PTL

(* No upload has two executors: claim keeps a live worker and replay apart *)
(* and mark_deferred, mark_failed, remove and load_or_create give the      *)
(* claim back.                                                             *)
THEOREM UploadsClaimedOnce ==
  ASSUME "remount" \notin Restarts PROVE SaveSpec => []ClaimExclusive
<1>1. IInv => ClaimExclusive  BY Zenon DEF IInv, WorkersOK, FlagsOK, ClaimExclusive
<1> QED  BY <1>1, JournalInvariant, PTL

(* While only files are saved, what replay_journal pops is what it sent:   *)
(* nothing moves, drops or overtakes the claimed front.                    *)
THEOREM ReplayPopsWhatItSent ==
  ASSUME "remount" \notin Restarts PROVE SaveSpec => []PopsWhatItSent
<1>1. IInv => PopsWhatItSent
  <2> SUFFICES ASSUME IInv, Replaying PROVE DOMAIN entries # {} /\ peek_front(entries) = replay.seq
    BY Zenon DEF PopsWhatItSent
  <2>1. replay.seq \in DOMAIN entries  BY Held, Zenon
  <2> QED  BY <2>1, PopsHeld, Zenon
<1> QED  BY <1>1, JournalInvariant, PTL

(* No save is lost, with any faults, foreign edits and restarts that keep  *)
(* the mount: the last content of a file is queued with its bytes, was on  *)
(* the server, or is kept beside it or in unsynced/.                       *)
THEOREM NoSaveLost ==
  ASSUME "remount" \notin Restarts PROVE SaveSpec => []NoEditLost
<1>1. IInv => NoEditLost
  BY Zenon DEF IInv, EditsOK, QueuedFor, FilesOK, NoEditLost, Queued
<1> QED  BY <1>1, JournalInvariant, PTL

-----------------------------------------------------------------------------
(***************************************************************************)
(* No listing stays pinned (NoStaleGuard): the path a live upload pinned   *)
(* is released when its bytes are sent, when replay has sent the last of   *)
(* them, or its bytes are kept in unsynced/.                               *)
(***************************************************************************)

(* The queue's places follow its sequence numbers.                         *)
OrderOK == \A s, t \in DOMAIN entries : s < t => entries[s].pos < entries[t].pos

(* An executor sends an upload to the entry's path.                        *)
NamedOK ==
  /\ \A s \in DOMAIN workers : s \in DOMAIN entries => workers[s].named = entries[s].path
  /\ Replaying => replay.entry.path = entries[replay.seq].path

(* The bytes of a queued upload are a save of its file.                    *)
SavedOK ==
  \A s \in DOMAIN entries : \E n \in 1..Len(saved) :
    staging[entries[s].staging] = Save(n) /\ saved[n].path = entries[s].path

(* A worker that sent an upload has released the guard: a guard on the     *)
(* path is that of a later save, still to be sent.                         *)
Sent(s) == s \in DOMAIN workers /\ workers[s].at \in {"copy", "done"}
Pinned(p) ==
  \E t \in DOMAIN entries :
    /\ entries[t].path = p /\ ~Sent(t)
    /\ \A s \in DOMAIN workers : Sent(s) /\ workers[s].named = p => s < t
GivenUp(p) == \E n \in 1..Len(saved) : saved[n].path = p /\ Save(n) \in unsynced
GuardsOK == \A p \in uploading : Pinned(p) \/ GivenUp(p)

GuardInv == OrderOK /\ NamedOK /\ SavedOK /\ GuardsOK

-----------------------------------------------------------------------------
(* What is queued and who holds it keep their names and bytes.             *)
LEMMA NamesCarried ==
  ASSUME GuardInv, saved' = saved, DOMAIN entries' \subseteq DOMAIN entries,
         \A t \in DOMAIN entries' : /\ Same(entries[t], entries'[t])
                                    /\ staging'[entries[t].staging] = staging[entries[t].staging],
         \A t \in DOMAIN workers' : t \in DOMAIN workers /\ workers'[t].named = workers[t].named,
         Replaying' => replay'.entry.path = entries'[replay'.seq].path
  PROVE  OrderOK' /\ NamedOK' /\ SavedOK'
<1>1. OrderOK'  BY Zenon DEF GuardInv, OrderOK, Same
<1>2. NamedOK'  BY DEF GuardInv, NamedOK, Same
<1>3. SavedOK'
  <2> SUFFICES ASSUME NEW s \in DOMAIN entries'
               PROVE  \E n \in 1..Len(saved) : staging'[entries'[s].staging] = Save(n)'
                                                /\ saved[n].path = entries'[s].path
    BY Zenon DEF SavedOK
  <2>1. PICK n \in 1..Len(saved) : staging[entries[s].staging] = Save(n) /\ saved[n].path = entries[s].path
    BY Zenon DEF GuardInv, SavedOK
  <2> QED  BY <2>1, Zenon DEF Same, Save
<1> QED  BY <1>1, <1>2, <1>3, Zenon

(* A guard whose upload is still queued and not yet sent stays good.       *)
LEMMA PinsCarried ==
  ASSUME GuardInv, saved' = saved, unsynced \subseteq unsynced', NEW p \in uploading,
         \A t \in DOMAIN entries : entries[t].path = p /\ ~Sent(t) =>
           t \in DOMAIN entries' /\ entries'[t].path = p /\ ~Sent(t)',
         \A s \in DOMAIN workers' : Sent(s)' /\ workers'[s].named = p => Sent(s) /\ workers[s].named = p
  PROVE  Pinned(p)' \/ GivenUp(p)'
<1>1. CASE Pinned(p)
  <2>1. PICK t \in DOMAIN entries :
          /\ entries[t].path = p /\ ~Sent(t)
          /\ \A s \in DOMAIN workers : Sent(s) /\ workers[s].named = p => s < t
    BY <1>1, Zenon DEF Pinned
  <2>2. \A s \in DOMAIN workers' : Sent(s)' /\ workers'[s].named = p => s < t
    BY <2>1, Zenon DEF Sent
  <2>3. t \in DOMAIN entries' /\ entries'[t].path = p /\ ~Sent(t)'  BY <2>1, Zenon
  <2> QED  BY <2>2, <2>3, Zenon DEF Pinned
<1>2. CASE GivenUp(p)  BY <1>2, Zenon DEF GivenUp, Save
<1> QED  BY <1>1, <1>2, Zenon DEF GuardInv, GuardsOK

(* A step that sends nothing and takes out of the queue only what was sent.*)
LEMMA GuardsCarried ==
  ASSUME GuardInv, saved' = saved, unsynced \subseteq unsynced', uploading' \subseteq uploading,
         DOMAIN entries' \subseteq DOMAIN entries,
         \A t \in DOMAIN entries \ DOMAIN entries' : Sent(t),
         \A t \in DOMAIN entries' : /\ Same(entries[t], entries'[t])
                                    /\ staging'[entries[t].staging] = staging[entries[t].staging],
         \A t \in DOMAIN workers' : /\ t \in DOMAIN workers /\ workers'[t].named = workers[t].named
                                    /\ workers'[t].at \in {"copy", "done"} =>
                                         workers[t].at \in {"copy", "done"},
         Replaying' => replay'.entry.path = entries'[replay'.seq].path
  PROVE  GuardInv'
<1>1. OrderOK' /\ NamedOK' /\ SavedOK'  BY NamesCarried, Zenon
<1>2. \A t : Sent(t)' => Sent(t)  BY Zenon DEF Sent
<1>3. GuardsOK'
  <2> SUFFICES ASSUME NEW p \in uploading PROVE Pinned(p)' \/ GivenUp(p)'
    BY Zenon DEF GuardsOK
  <2>1. \A t \in DOMAIN entries : entries[t].path = p /\ ~Sent(t) =>
           t \in DOMAIN entries' /\ entries'[t].path = p /\ ~Sent(t)'
    BY <1>2, Zenon DEF Same
  <2>2. \A s \in DOMAIN workers' : Sent(s)' /\ workers'[s].named = p => Sent(s) /\ workers[s].named = p
    BY <1>2, Zenon
  <2> QED  BY <2>1, <2>2, PinsCarried, Zenon
<1> QED  BY <1>1, <1>3, Zenon DEF GuardInv

-----------------------------------------------------------------------------
(* The steps.                                                              *)

(* Nothing is queued and nothing is pinned at first.                       *)
LEMMA InitGuards == Init => GuardInv
<1> SUFFICES ASSUME Init PROVE GuardInv  BY Zenon
<1>1. DOMAIN entries = {} /\ DOMAIN workers = {} /\ uploading = {} /\ replay.at = "idle"
  BY Zenon DEF Init, Empty, Idle
<1> QED  BY <1>1, Zenon DEF GuardInv, OrderOK, NamedOK, SavedOK, GuardsOK, Replaying

(* Reading, refreshing and probing leave the queue and the guards alone,   *)
(* and so does a new handle, whose staging file is nobody's.               *)
LEMMA AsideGuards ==
  ASSUME IInv, GuardInv,
         \/ \E p : OpenBegin(p) \/ Refresh(p) \/ ForeignEdit(p)
         \/ \E fh \in DOMAIN handles : OpenEnd(fh)
         \/ ProbeReachable \/ ProbeUnreachable \/ UNCHANGED vars
  PROVE  GuardInv'
<1>1. /\ UNCHANGED <<entries, unsynced, uploading, workers, saved>>
      /\ replay' = replay \/ replay'.at = "peek"
  <2>1. CASE \E p : OpenBegin(p) \/ Refresh(p) \/ ForeignEdit(p)
    BY <2>1, Zenon DEF OpenBegin, Refresh, ForeignEdit, journal, mount, user
  <2>2. CASE \E fh \in DOMAIN handles : OpenEnd(fh)  BY <2>2, Zenon DEF OpenEnd, journal, user
  <2>3. CASE ProbeReachable \/ ProbeUnreachable \/ UNCHANGED vars
    <3>1. UNCHANGED <<journal, mount, workers, user>> /\ (replay' = replay \/ replay' = Remaining)
      BY <2>3, Zenon DEF ProbeReachable, ProbeUnreachable, vars
    <3>2. Remaining.at = "peek"  BY Zenon DEF Remaining, IInv, Typed
    <3> QED  BY <3>1, <3>2, Zenon DEF journal, mount, user
  <2> QED  BY <2>1, <2>2, <2>3, Zenon
<1>2. \A t \in DOMAIN entries : /\ Same(entries[t], entries'[t])
                                /\ staging'[entries[t].staging] = staging[entries[t].staging]
  <2>1. \A t \in DOMAIN entries : Same(entries[t], entries'[t])
    BY <1>1, Zenon DEF IInv, Typed, TypeOK, Same
  <2>2. CASE \E p : OpenBegin(p)
    <3>1. PICK x : staging' = With(staging, next_fh, x)  BY <2>2, Zenon DEF OpenBegin
    <3>2. \A t \in DOMAIN entries : entries[t].staging \in DOMAIN staging \ {next_fh}
      BY DEF IInv, Typed, TypeOK, JournalEntry, FilesOK
    <3> QED  BY <2>1, <3>1, <3>2, Zenon DEF With
  <2>3. CASE ~\E p : OpenBegin(p)
    <3>1. staging' = staging
      BY <2>3, Zenon DEF Refresh, ForeignEdit, OpenEnd, ProbeReachable, ProbeUnreachable, vars, journal
    <3> QED  BY <2>1, <3>1, Zenon
  <2> QED  BY <2>2, <2>3, Zenon
<1>3. Replaying' => replay'.entry.path = entries'[replay'.seq].path
  BY <1>1, Zenon DEF Replaying, GuardInv, NamedOK
<1> QED  BY <1>1, <1>2, <1>3, GuardsCarried, Zenon

(* A save pins its path and is the last queued for it: it answers for      *)
(* every earlier guard of that path, and the uploads it drops are of that  *)
(* path only (commit_released).                                            *)
LEMMA ReleaseGuards ==
  ASSUME IInv, GuardInv, NEW fh \in DOMAIN handles, Release(fh) PROVE GuardInv'
<1> USE DEF IInv
<1> DEFINE h == handles[fh]
<1>0. UNCHANGED <<unsynced, replay>> /\ Replaying' = Replaying  BY Zenon DEF Release, Replaying
<1>1. CASE h.unlinked
  <2>1. /\ UNCHANGED <<entries, workers, saved>> /\ staging' = Without(staging, {fh})
        /\ uploading' \subseteq uploading
    BY <1>1, Zenon DEF Release, user
  <2>2. \A t \in DOMAIN entries : /\ Same(entries[t], entries'[t])
                                  /\ staging'[entries[t].staging] = staging[entries[t].staging]
    BY <2>1, Zenon DEF Typed, TypeOK, Same, FilesOK, Without
  <2>3. Replaying' => replay'.entry.path = entries'[replay'.seq].path
    BY <1>0, <2>1, Zenon DEF GuardInv, NamedOK
  <2> QED  BY <1>0, <2>1, <2>2, <2>3, GuardsCarried, Zenon
<1>2. CASE ~h.unlinked
  <2> DEFINE n == Len(saved) + 1
             queued == enqueue(entries, Put(h.path, fh, h.etag), next_seq, back)
             stale == superseded(queued, h.path, next_seq)
             gone == {queued[s].staging : s \in stale}
             w == Worker("Put", h.path, Root, fh, h.etag, h.gen)
  <2>1. /\ entries' = Drop(queued, stale)
        /\ staging' = With(Without(staging, gone), fh, Save(n))
        /\ workers' = IF offline THEN workers ELSE With(workers, next_seq, w)
        /\ uploading' \subseteq uploading \cup {h.path}
    BY <1>2, Zenon DEF Release, commit_released, StartWorker
  <2>2. PICK r : saved' = Append(saved, r) /\ r.path = h.path
    <3> DEFINE r == [path |-> h.path, on |-> {h.seed} \cup (IF h.seed[1] = "save" THEN saved[h.seed[2]].on ELSE {})]
    <3>1. saved' = Append(saved, r)  BY <1>2, Zenon DEF Release, commit_released
    <3>2. r.path = h.path  BY Zenon
    <3> QED  BY <3>1, <3>2, Zenon
  <2>3. next_seq \in Nat /\ back \in Nat /\ DOMAIN entries \subseteq Nat
        /\ \A s \in DOMAIN entries : entries[s].pos \in Nat
    BY Zenon DEF Typed, TypeOK, JournalEntry
  <2>4. /\ next_seq \notin DOMAIN entries /\ next_seq \notin DOMAIN workers
        /\ \A s \in DOMAIN workers : s \in Nat /\ s < next_seq
    BY <2>3 DEF QueueOK, WorkersOK, Typed, TypeOK
  <2>5. /\ DOMAIN queued = DOMAIN entries \cup {next_seq}
        /\ queued[next_seq].path = h.path /\ queued[next_seq].staging = fh
        /\ queued[next_seq].pos = back
        /\ \A s \in DOMAIN entries : queued[s] = entries[s]
    <3> DEFINE put == Put(h.path, fh, h.etag)
    <3>1. put.op = "Put" /\ put.path = h.path /\ put.staging = fh  BY Zenon DEF Put
    <3> HIDE DEF put
    <3>2. queued = Appended(entries, put, next_seq, back)  BY <3>1, PutIsAppended, Zenon DEF put
    <3> QED  BY <2>4, <3>1, <3>2, SMTT(30) DEF Appended, Fresh
  <2>6. /\ stale \subseteq DOMAIN entries
        /\ \A s \in stale : ~entries[s].in_flight /\ entries[s].path = h.path
    <3> HIDE DEF queued
    <3>1. DOMAIN queued \subseteq Nat  BY <2>3, <2>5, Zenon
    <3>2. stale \subseteq DOMAIN queued \ {next_seq} /\ \A s \in stale : ~queued[s].in_flight /\ queued[s].path = h.path
      BY <2>3, <3>1, SupersededAreIdle, Zenon
    <3> QED  BY <2>5, <3>2, Zenon
  <2>7. gone = {entries[s].staging : s \in stale}
    <3> HIDE DEF queued, stale
    <3>1. \A s \in stale : queued[s].staging = entries[s].staging  BY <2>5, <2>6, Zenon
    <3> QED  BY <3>1, Zenon
  <2> HIDE DEF queued, stale, gone
  <2>8. /\ DOMAIN entries' = (DOMAIN entries \ stale) \cup {next_seq}
        /\ entries'[next_seq] = queued[next_seq]
        /\ \A s \in DOMAIN entries \ stale : entries'[s] = entries[s]
    BY <2>1, <2>4, <2>5, <2>6, Zenon DEF Drop
  <2>9. \A s \in DOMAIN entries \ stale : entries[s].staging \notin gone \cup {fh}
                                            /\ entries[s].staging \in DOMAIN staging
    BY <2>6, <2>7, Zenon DEF FilesOK
  <2>10. /\ staging'[fh] = Save(n)
         /\ \A f \in DOMAIN staging \ (gone \cup {fh}) : staging'[f] = staging[f]
    BY <2>1, Zenon DEF With, Without
  <2>11. /\ Len(saved) \in Nat /\ Len(saved') = n /\ saved'[n].path = h.path
         /\ \A m \in 1..Len(saved) : saved'[m] = saved[m]
    <3>1. PICK S : saved \in Seq(S)  BY Zenon DEF Counted
    <3> QED  BY <2>2, <3>1
  <2> HIDE DEF n
  <2>12. w.named = h.path /\ w.at = "queued"  BY Zenon DEF Worker
  <2> HIDE DEF w
  <2>13. /\ DOMAIN workers' \subseteq DOMAIN workers \cup {next_seq}
         /\ DOMAIN workers \subseteq DOMAIN workers'
         /\ \A s \in DOMAIN workers : workers'[s] = workers[s]
         /\ next_seq \in DOMAIN workers' => workers'[next_seq] = w
    BY <2>1, <2>4, Zenon DEF With
  <2>14. \A s : Sent(s)' <=> Sent(s)  BY <2>4, <2>12, <2>13, Zenon DEF Sent
  <2>15. OrderOK'
    <3>1. \A s \in DOMAIN entries : s < next_seq /\ entries[s].pos < back  BY Zenon DEF QueueOK
    <3> QED  BY <2>3, <2>5, <2>8, <3>1 DEF OrderOK, GuardInv
  <2>16. NamedOK'
    <3>1. \A s \in DOMAIN workers' : s \in DOMAIN entries' => workers'[s].named = entries'[s].path
      BY <2>4, <2>5, <2>8, <2>12, <2>13 DEF NamedOK, GuardInv
    <3>2. Replaying => /\ replay.seq \in DOMAIN entries \ stale
                       /\ replay.entry.path = entries[replay.seq].path
      BY <2>6, Zenon DEF ReplayOK, GuardInv, NamedOK
    <3> QED  BY <1>0, <2>8, <3>1, <3>2, Zenon DEF NamedOK
  <2>17. SavedOK'
    <3> SUFFICES ASSUME NEW s \in DOMAIN entries'
                 PROVE  \E m \in 1..Len(saved') : staging'[entries'[s].staging] = Save(m)
                                                   /\ saved'[m].path = entries'[s].path
      BY Zenon DEF SavedOK, Save
    <3>1. CASE s = next_seq
      <4>1. n \in 1..Len(saved')  BY <2>11 DEF n
      <4> QED  BY <2>5, <2>8, <2>10, <2>11, <3>1, <4>1, Zenon
    <3>2. CASE s # next_seq
      <4>1. s \in DOMAIN entries \ stale  BY <2>8, <3>2, Zenon
      <4>2. PICK m \in 1..Len(saved) : staging[entries[s].staging] = Save(m)
                                        /\ saved[m].path = entries[s].path
        BY <4>1, Zenon DEF SavedOK, GuardInv
      <4>3. m \in 1..Len(saved')  BY <2>11 DEF n
      <4> QED  BY <2>8, <2>9, <2>10, <2>11, <4>1, <4>2, <4>3
    <3> QED  BY <3>1, <3>2, Zenon
  <2>18. GuardsOK'
    <3> SUFFICES ASSUME NEW p \in uploading' PROVE Pinned(p)' \/ GivenUp(p)'
      BY Zenon DEF GuardsOK
    <3>1. CASE p = h.path
      <4>1. PICK t : t = next_seq  BY Zenon
      <4>2. \A s \in DOMAIN workers' : Sent(s)' /\ workers'[s].named = p => s < t
        BY <2>4, <2>14, <4>1, Zenon DEF Sent
      <4>3. ~Sent(t)'  BY <2>4, <2>14, <4>1, Zenon DEF Sent
      <4>4. t \in DOMAIN entries' /\ entries'[t].path = p  BY <2>5, <2>8, <3>1, <4>1, Zenon
      <4> QED  BY <4>2, <4>3, <4>4, Zenon DEF Pinned
    <3>2. CASE p # h.path /\ GivenUp(p)
      <4>1. PICK m \in 1..Len(saved) : saved[m].path = p /\ Save(m) \in unsynced
        BY <3>2, Zenon DEF GivenUp
      <4>2. m \in 1..Len(saved')  BY <2>11 DEF n
      <4> QED  BY <1>0, <2>11, <4>1, <4>2, Zenon DEF GivenUp, Save
    <3>3. CASE p # h.path /\ Pinned(p)
      <4>1. PICK t \in DOMAIN entries :
              /\ entries[t].path = p /\ ~Sent(t)
              /\ \A s \in DOMAIN workers : Sent(s) /\ workers[s].named = p => s < t
        BY <3>3, Zenon DEF Pinned
      <4>2. t \in DOMAIN entries' /\ entries'[t].path = p /\ ~Sent(t)'
        BY <2>6, <2>8, <2>14, <3>3, <4>1, Zenon
      <4>3. \A s \in DOMAIN workers' : Sent(s)' /\ workers'[s].named = p => s < t
        BY <2>13, <2>14, <4>1, Zenon DEF Sent
      <4> QED  BY <4>2, <4>3, Zenon DEF Pinned
    <3>4. p \in uploading \cup {h.path}  BY <2>1, Zenon
    <3> QED  BY <3>1, <3>2, <3>3, <3>4, Zenon DEF GuardInv, GuardsOK
  <2> QED  BY <2>15, <2>16, <2>17, <2>18, Zenon DEF GuardInv
<1> QED  BY <1>1, <1>2, Zenon

(* Claiming and settling send nothing.                                     *)
LEMMA ClaimGuards ==
  ASSUME IInv, GuardInv, NEW s \in DOMAIN workers, PutClaim(s) \/ PutSettle(s) PROVE GuardInv'
<1> USE DEF IInv
<1>1. UNCHANGED <<unsynced, replay, saved>> /\ workers[s].at \in {"queued", "settle"}
  BY Zenon DEF PutClaim, PutSettle, user
<1>2. \A t \in DOMAIN entries : entries[t] \in JournalEntry /\ Same(entries[t], entries[t])
  BY Zenon DEF Typed, TypeOK, Same
<1>3. /\ uploading' \subseteq uploading /\ staging' = staging
      /\ DOMAIN entries' = DOMAIN entries /\ \A t \in DOMAIN entries : Same(entries[t], entries'[t])
      /\ \A t \in DOMAIN workers' : /\ t \in DOMAIN workers /\ workers'[t].named = workers[t].named
                                    /\ workers'[t].at \in {"copy", "done"} =>
                                         workers[t].at \in {"copy", "done"}
  <2>1. CASE PutClaim(s) /\ claimable(entries, s)
    <3>1. /\ uploading' = uploading /\ staging' = staging /\ entries' = claim(entries, s)
          /\ s \in DOMAIN entries
      BY <2>1, Zenon DEF PutClaim, claimable
    <3>2. workers' = [workers EXCEPT ![s].at = "settle",
                        ![s].cond = etag_for(workers[s].path, workers[s].gen, workers[s].cond)]
      BY <2>1, Zenon DEF PutClaim
    <3>3. \A t \in DOMAIN workers : workers[t] \in LiveWorker  BY Zenon DEF Typed, TypeOK
    <3>4. /\ DOMAIN workers' = DOMAIN workers /\ \A t \in DOMAIN workers \ {s} : workers'[t] = workers[t]
          /\ workers'[s].at = "settle" /\ workers'[s].named = workers[s].named
      BY <3>2, <3>3, Zenon DEF LiveWorker
    <3> QED  BY <1>2, <3>1, <3>4, ClaimKeeps, Zenon
  <2>2. CASE PutClaim(s) /\ ~claimable(entries, s)
    BY <1>2, <2>2, Zenon DEF PutClaim, Without
  <2>3. CASE PutSettle(s)
    <3>1. s \in DOMAIN entries /\ workers[s] \in LiveWorker
      BY <2>3, Claimed, Zenon DEF PutSettle
    <3>2. ~entries[s].retargeted /\ Settled(entries, s) = "Go"  BY <3>1, Zenon DEF QueueOK, Settled
    <3>3. entries' = [entries EXCEPT ![s].dest_fixed = TRUE] /\ UNCHANGED <<staging, uploading>>
      BY <2>3, <3>2, Zenon DEF PutSettle
    <3>4. workers' = [workers EXCEPT ![s] =
            [workers[s] EXCEPT !.at = "send", !.data = staging[workers[s].fh],
                               !.named = IF entries[s].retargeted THEN entries[s].path ELSE workers[s].named,
                               !.cond = IF entries[s].retargeted THEN entries[s].cond ELSE workers[s].cond]]
      BY <2>3, <3>2, Zenon DEF PutSettle
    <3>5. DOMAIN entries' = DOMAIN entries /\ \A t \in DOMAIN entries : Same(entries[t], entries'[t])
      BY <1>2, <3>1, <3>3, Zenon DEF Same, JournalEntry
    <3>6. /\ DOMAIN workers' = DOMAIN workers /\ \A t \in DOMAIN workers \ {s} : workers'[t] = workers[t]
          /\ workers'[s].at = "send" /\ workers'[s].named = workers[s].named
      BY <3>1, <3>2, <3>4, Zenon DEF LiveWorker
    <3> QED  BY <3>3, <3>5, <3>6, Zenon
  <2> QED  BY <2>1, <2>2, <2>3, Zenon
<1>4. Replaying' => replay'.entry.path = entries'[replay'.seq].path
  BY <1>1, <1>3, Zenon DEF Replaying, GuardInv, NamedOK, ReplayOK, Same
<1> QED  BY <1>1, <1>3, <1>4, GuardsCarried, Zenon

(* The PUT releases the path it sent, which no other upload waits for.     *)
LEMMA SendGuards ==
  ASSUME IInv, GuardInv, NEW s \in DOMAIN workers, PutSend(s) PROVE GuardInv'
<1> USE DEF IInv
<1>1. /\ UNCHANGED <<entries, staging, unsynced, replay, saved>>
      /\ uploading' = uploading \ {workers[s].named} /\ workers[s].at = "send"
  BY Zenon DEF PutSend, journal, user
<1>2. s \in DOMAIN entries /\ workers[s] \in LiveWorker  BY <1>1, Claimed, Zenon
<1>3. /\ DOMAIN workers' = DOMAIN workers /\ \A t \in DOMAIN workers \ {s} : workers'[t] = workers[t]
      /\ workers'[s].named = workers[s].named
  <2>1. PICK o : workers' = [workers EXCEPT ![s] =
          [workers[s] EXCEPT !.at = IF o.result = "conflict" THEN "copy" ELSE "done",
                             !.result = o.result, !.etag = o.etag]]
    BY ZenonT(60) DEF PutSend
  <2> QED  BY <1>2, <2>1, Zenon DEF LiveWorker
<1>4. \A t \in DOMAIN entries : Same(entries[t], entries'[t])
  BY <1>1, Zenon DEF Typed, TypeOK, Same
<1>5. OrderOK' /\ NamedOK' /\ SavedOK'
  <2>1. Replaying' => replay'.entry.path = entries'[replay'.seq].path
    BY <1>1, Zenon DEF Replaying, GuardInv, NamedOK
  <2>2. \A t \in DOMAIN workers' : t \in DOMAIN workers /\ workers'[t].named = workers[t].named
    BY <1>3, Zenon
  <2> QED  BY <1>1, <1>4, <2>1, <2>2, NamesCarried, Zenon
<1>6. GuardsOK'
  <2> SUFFICES ASSUME NEW p \in uploading, p # workers[s].named PROVE Pinned(p)' \/ GivenUp(p)'
    BY <1>1, Zenon DEF GuardsOK
  <2>1. entries[s].path # p  BY <1>2, Zenon DEF GuardInv, NamedOK
  <2>2. \A t : t # s => (Sent(t)' <=> Sent(t))  BY <1>3, Zenon DEF Sent
  <2>3. \A t \in DOMAIN entries : entries[t].path = p /\ ~Sent(t) =>
           t \in DOMAIN entries' /\ entries'[t].path = p /\ ~Sent(t)'
    BY <1>1, <2>1, <2>2, Zenon
  <2>4. \A t \in DOMAIN workers' : Sent(t)' /\ workers'[t].named = p => Sent(t) /\ workers[t].named = p
    BY <1>3, <2>2, Zenon
  <2> QED  BY <1>1, <2>3, <2>4, PinsCarried, Zenon
<1> QED  BY <1>5, <1>6, Zenon DEF GuardInv

(* A worker past its PUT holds no guard: it ends and takes only its own    *)
(* upload with it.                                                         *)
LEMMA FinishGuards ==
  ASSUME IInv, GuardInv, NEW s \in DOMAIN workers, PutCopy(s) \/ PutDone(s) PROVE GuardInv'
<1> USE DEF IInv
<1> DEFINE w == workers[s]
<1>1. UNCHANGED <<unsynced, uploading, replay, saved>> /\ w.at \in {"copy", "done"}
  BY Zenon DEF PutCopy, PutDone, journal, mount, user
<1>2. /\ s \in DOMAIN entries /\ w.fh = entries[s].staging /\ w \in LiveWorker /\ Sent(s)
      /\ ~(Replaying /\ replay.seq = s)
  BY <1>1, Claimed, Zenon DEF Sent
<1>3. \A t \in DOMAIN entries : entries[t] \in JournalEntry /\ Same(entries[t], entries[t])
  BY Zenon DEF Typed, TypeOK, Same
<1>4. \A t \in DOMAIN workers' : /\ t \in DOMAIN workers /\ workers'[t].named = workers[t].named
                                 /\ workers'[t].at \in {"copy", "done"} =>
                                      workers[t].at \in {"copy", "done"}
  <2>1. CASE PutCopy(s)
    <3>1. /\ DOMAIN workers' = DOMAIN workers /\ \A t \in DOMAIN workers \ {s} : workers'[t] = workers[t]
          /\ workers'[s].named = workers[s].named
      BY <1>2, <2>1, ZenonT(60) DEF PutCopy, LiveWorker
    <3> QED  BY <1>1, <3>1, Zenon
  <2>2. CASE PutDone(s)  BY <2>2, Zenon DEF PutDone, Without
  <2> QED  BY <2>1, <2>2, Zenon
<1>5. /\ DOMAIN entries' \subseteq DOMAIN entries /\ DOMAIN entries \ {s} \subseteq DOMAIN entries'
      /\ \A t \in DOMAIN entries' : Same(entries[t], entries'[t])
      /\ staging' = staging \/ (s \notin DOMAIN entries' /\ staging' = Without(staging, {w.fh}))
  <2>1. CASE PutCopy(s)  BY <1>3, <2>1, Zenon DEF PutCopy, journal
  <2>2. CASE PutDone(s) /\ w.result = "ok"
    <3>1. takers(entries, w.named) = {}  BY Zenon DEF takers, QueueOK
    <3>2. hand_staging_to_rename(entries, w.named, w.fh) = entries  BY <3>1, Zenon DEF hand_staging_to_rename
    <3> DEFINE es == remove(entries, s)
    <3>3. entries' = rebase(es, w.named, w.cond, w.etag) /\ staging' = Without(staging, {w.fh})
      BY <2>2, <3>1, <3>2, Zenon DEF PutDone
    <3>4. DOMAIN es = DOMAIN entries \ {s} /\ \A t \in DOMAIN es : es[t] = entries[t]
      BY RemoveKeeps, Zenon
    <3> HIDE DEF es
    <3>5. w.etag \in Nat /\ \A t \in DOMAIN es : es[t] \in JournalEntry
      BY <1>2, <1>3, <3>4, Zenon DEF LiveWorker
    <3>6. DOMAIN entries' = DOMAIN es /\ \A t \in DOMAIN es : Same(es[t], entries'[t])
      BY <3>3, <3>5, RebaseKeeps, SMTT(30)
    <3> QED  BY <3>3, <3>4, <3>6, Zenon
  <2>3. CASE PutDone(s) /\ w.result = "copied"
    <3>1. entries' = remove(entries, s) /\ staging' = Without(staging, {w.fh})
      BY <2>3, Zenon DEF PutDone
    <3>2. /\ DOMAIN remove(entries, s) = DOMAIN entries \ {s}
          /\ \A t \in DOMAIN entries \ {s} : remove(entries, s)[t] = entries[t]
      BY RemoveKeeps, Zenon
    <3> QED  BY <1>3, <3>1, <3>2, Zenon
  <2>4. CASE PutDone(s) /\ w.result \notin {"ok", "copied"}
    <3>1. staging' = staging /\ entries' \in {mark_deferred(entries, s), mark_failed(entries, s)}
      BY <2>4, Zenon DEF PutDone
    <3>2. CASE entries' = mark_deferred(entries, s)  BY <1>2, <1>3, <3>1, <3>2, DeferKeeps, Zenon
    <3>3. CASE entries' = mark_failed(entries, s)  BY <1>2, <1>3, <3>1, <3>3, FailKeeps, Zenon
    <3> QED  BY <3>1, <3>2, <3>3, Zenon
  <2> QED  BY <2>1, <2>2, <2>3, <2>4, Zenon
<1>6. \A t \in DOMAIN entries' : staging'[entries[t].staging] = staging[entries[t].staging]
  BY <1>2, <1>5, Zenon DEF FilesOK, Without
<1>7. Replaying' => replay'.entry.path = entries'[replay'.seq].path
  BY <1>1, <1>2, <1>5, Zenon DEF Replaying, GuardInv, NamedOK, ReplayOK, Same
<1> QED  BY <1>1, <1>2, <1>4, <1>5, <1>6, <1>7, GuardsCarried

(* Replay claims its entry and sends it to the entry's path; it touches no *)
(* guard until it has an answer.                                           *)
LEMMA ReplaySendGuards ==
  ASSUME IInv, GuardInv, ReplayPeek \/ ReplayPut \/ ReplayCopy PROVE GuardInv'
<1> USE DEF IInv
<1>1. UNCHANGED <<staging, unsynced, uploading, workers, saved>>
  BY Zenon DEF ReplayPeek, ReplayPut, ReplayCopy, journal, mount, user
<1>2. \A t \in DOMAIN entries : /\ entries[t] \in JournalEntry /\ Same(entries[t], entries[t])
                                /\ entries[t].pos \in Nat
  BY Zenon DEF Typed, TypeOK, JournalEntry, Same
<1>3. /\ DOMAIN entries' = DOMAIN entries /\ \A t \in DOMAIN entries : Same(entries[t], entries'[t])
      /\ Replaying' => replay'.entry.path = entries'[replay'.seq].path
  <2>1. CASE ReplayPeek
    <3> DEFINE front == peek_front(entries)
    <3>1. CASE DOMAIN entries = {} \/ entries[front].in_flight
      <4>1. entries' = entries /\ replay' = Idle  BY <2>1, <3>1, Zenon DEF ReplayPeek
      <4>2. ~Replaying'  BY <4>1, Zenon DEF Replaying, Idle
      <4> QED  BY <1>2, <4>1, <4>2, Zenon
    <3>2. CASE ~(DOMAIN entries = {} \/ entries[front].in_flight)
      <4>1. front \in DOMAIN entries  BY <1>2, <3>2, FrontExists, Zenon
      <4>2. /\ entries' = claim(entries, front)
            /\ replay' = [Idle EXCEPT !.at = IF entries[front].attempts >= MaxAttempts THEN "giveup" ELSE "send",
                                      !.seq = front, !.entry = entries[front]]
        BY <2>1, <3>2, Zenon DEF ReplayPeek
      <4> HIDE DEF front
      <4>3. replay'.seq = front /\ replay'.entry = entries[front]
        BY <4>2, Zenon DEF Idle
      <4>4. DOMAIN entries' = DOMAIN entries /\ \A t \in DOMAIN entries : Same(entries[t], entries'[t])
        BY <1>2, <4>1, <4>2, ClaimKeeps, Zenon
      <4> QED  BY <4>1, <4>3, <4>4 DEF Same
    <3> QED  BY <3>1, <3>2, Zenon
  <2>2. CASE ReplayPut \/ ReplayCopy
    <3>1. entries' = entries /\ Replaying  BY <2>2, Zenon DEF ReplayPut, ReplayCopy, journal, Replaying
    <3>2. replay'.entry = replay.entry /\ replay'.seq = replay.seq
      BY <2>2, Zenon DEF ReplayPut, ReplayCopy, Typed
    <3> QED  BY <1>2, <3>1, <3>2, Zenon DEF GuardInv, NamedOK
  <2> QED  BY <2>1, <2>2, Zenon
<1> QED  BY <1>1, <1>3, GuardsCarried, Zenon

(* Without renames and deletes a path has a pending upload only if an      *)
(* upload of it is queued (pending_upload).                                *)
LEMMA PendingIsQueued ==
  ASSUME NEW es, \A t \in DOMAIN es : es[t].op = "Put", NEW p, pending_upload(es, p) # None
  PROVE  \E t \in DOMAIN es : es[t].path = p
<1> SUFFICES ASSUME \A t \in DOMAIN es : es[t].path # p PROVE pending_upload(es, p) = None
  BY Zenon
<1> DEFINE onto(s) == {t \in Behind(es, s) : es[t].op = "Rename" /\ starts_with(p, es[t].to)}
           names(s) == {p} \cup {rewrite(p, es[t].to, es[t].path) : t \in onto(s)}
           found(s) == \/ es[s].op = "Put" /\ es[s].path \in names(s)
                       \/ es[s].op = "Rename" /\ es[s].to = p /\ es[s].staging # None
           gone(s) == /\ onto(s) = {}
                      /\ \/ es[s].op = "Unlink" /\ es[s].path = p
                         \/ es[s].op = "RmDir" /\ starts_with(p, es[s].path)
           settling == {s \in DOMAIN es : found(s) \/ gone(s)}
<1>1. \A s : onto(s) = {}  BY Zenon DEF Behind
<1>2. \A s : names(s) = {p}  BY <1>1, Zenon
<1>3. settling = {}
  <2>1. \A s \in DOMAIN es : ~gone(s)  BY Zenon
  <2> HIDE DEF names, gone
  <2>2. \A s \in DOMAIN es : ~found(s)  BY <1>2, Zenon
  <2> QED  BY <2>1, <2>2, Zenon
<1>4. pending_upload(es, p) = IF settling = {} THEN None ELSE es[Newest(es, settling)].staging
  BY Zenon DEF pending_upload
<1> HIDE DEF settling
<1> QED  BY <1>3, <1>4, Zenon

(* What replay takes off the queue is its front.  A guard that upload held *)
(* passes to a later one of the path; if there is none, it is released or  *)
(* the bytes are in unsynced/.                                             *)
LEMMA PopGuards ==
  ASSUME IInv, GuardInv, Replaying, ~Replaying', UNCHANGED <<workers, saved>>,
         unsynced \subseteq unsynced', uploading' \subseteq uploading,
         staging' = Without(staging, {replay.entry.staging}),
         DOMAIN entries' = DOMAIN entries \ {replay.seq},
         \A t \in DOMAIN entries' : Same(entries[t], entries'[t]),
         \/ uploading' = GuardReleased(entries', replay.entry.path)
         \/ staging[replay.entry.staging] \in unsynced'
  PROVE  GuardInv'
<1> USE DEF IInv
<1> DEFINE f == replay.seq
<1>1. /\ f \in DOMAIN entries /\ Before(entries, f) = {} /\ replay.entry.staging = entries[f].staging
      /\ f \in DOMAIN workers => workers[f].at = "queued"
      /\ replay.entry.path = entries[f].path
  BY Held, Zenon DEF GuardInv, NamedOK
<1>2. \A t \in DOMAIN entries' : staging'[entries[t].staging] = staging[entries[t].staging]
  BY <1>1, Zenon DEF FilesOK, Without
<1>3. OrderOK' /\ NamedOK' /\ SavedOK'  BY <1>2, NamesCarried, Zenon
<1>4. \A t : Sent(t)' <=> Sent(t)  BY Zenon DEF Sent
<1>5. GuardsOK'
  <2> SUFFICES ASSUME NEW p \in uploading' PROVE Pinned(p)' \/ GivenUp(p)'
    BY Zenon DEF GuardsOK
  <2>1. p \in uploading  BY Zenon
  <2>2. CASE GivenUp(p)  BY <2>2, Zenon DEF GivenUp, Save
  <2>3. CASE Pinned(p)
    <3>1. PICK t \in DOMAIN entries :
            /\ entries[t].path = p /\ ~Sent(t)
            /\ \A s \in DOMAIN workers : Sent(s) /\ workers[s].named = p => s < t
      BY <2>3, Zenon DEF Pinned
    <3>2. CASE t # f
      <4>1. t \in DOMAIN entries' /\ entries'[t].path = p  BY <3>1, <3>2, Zenon DEF Same
      <4> QED  BY <1>4, <3>1, <4>1, Zenon DEF Pinned
    <3>3. CASE t = f /\ staging[replay.entry.staging] \in unsynced'
      <4>1. PICK n \in 1..Len(saved) : staging[entries[f].staging] = Save(n)
                                        /\ saved[n].path = entries[f].path
        BY <1>1, Zenon DEF GuardInv, SavedOK
      <4> QED  BY <1>1, <3>1, <3>3, <4>1, Zenon DEF GivenUp, Save
    <3>4. CASE t = f /\ uploading' = GuardReleased(entries', replay.entry.path)
      <4>1. pending_upload(entries', p) # None
        BY <1>1, <3>1, <3>4, Zenon DEF GuardReleased
      <4>2. \A u \in DOMAIN entries' : entries'[u].op = "Put"  BY Zenon DEF QueueOK, Same
      <4>3. PICK u \in DOMAIN entries' : entries'[u].path = p
        BY <4>1, <4>2, PendingIsQueued, Zenon
      <4>4. \A s \in DOMAIN workers : ~(Sent(s) /\ workers[s].named = p)
        <5> SUFFICES ASSUME NEW s \in DOMAIN workers, Sent(s), workers[s].named = p PROVE FALSE
          BY Zenon
        <5>1. s < f /\ s \in DOMAIN entries  BY <3>1, <3>4, Zenon DEF WorkersOK, Sent
        <5>2. entries[s].pos < entries[f].pos  BY <1>1, <5>1, Zenon DEF GuardInv, OrderOK
        <5> QED  BY <1>1, <5>1, <5>2, Zenon DEF Before
      <4>5. ~Sent(u)
        <5>1. u \in DOMAIN entries /\ entries[u].path = p  BY <4>3, Zenon DEF Same
        <5> QED  BY <4>4, <5>1, Zenon DEF Sent, GuardInv, NamedOK
      <4> QED  BY <1>4, <4>3, <4>4, <4>5, Zenon DEF Pinned
    <3> QED  BY <3>2, <3>3, <3>4, Zenon
  <2> QED  BY <2>1, <2>2, <2>3, Zenon DEF GuardInv, GuardsOK
<1> QED  BY <1>3, <1>5, Zenon DEF GuardInv

(* Replay's answer and its giving up.                                      *)
LEMMA ReplayDoneGuards ==
  ASSUME IInv, GuardInv, ReplayPutDone \/ ReplayGiveUp PROVE GuardInv'
<1> USE DEF IInv
<1> DEFINE e == replay.entry
           r == replay.result
           s == replay.seq
<1>1. UNCHANGED <<workers, saved>> /\ Replaying
  BY Zenon DEF ReplayPutDone, ReplayGiveUp, Replaying, user
<1>2. /\ s \in DOMAIN entries /\ Before(entries, s) = {} /\ e.op = "Put"
      /\ e.staging \in DOMAIN staging
  BY <1>1, Held, Zenon
<1>3. /\ \A t \in DOMAIN entries : /\ entries[t] \in JournalEntry /\ entries[t].pos \in Nat
                                   /\ Same(entries[t], entries[t])
      /\ \A t, u \in DOMAIN entries : t # u => entries[t].pos # entries[u].pos
      /\ replay.etag \in Nat
  BY Zenon DEF Typed, TypeOK, JournalEntry, Same, QueueOK
<1>4. replay' \in {Remaining, Idle} => ~Replaying'
  <2>1. CASE replay' = Remaining
    <3>1. replay'.at = "peek"  BY <2>1, Zenon DEF Remaining, Typed
    <3> QED  BY <3>1, Zenon DEF Replaying
  <2>2. CASE replay' = Idle  BY <2>2, Zenon DEF Idle, Replaying
  <2> QED  BY <2>1, <2>2, Zenon
<1>5. GuardReleased(entries', e.path) \subseteq uploading  BY Zenon DEF GuardReleased
<1>6. CASE ReplayPutDone /\ r = "ok"
  <2> DEFINE es == rebase(entries, e.path, e.cond, replay.etag)
  <2>1. /\ entries' = dequeue_front(es) /\ staging' = Without(staging, {e.staging})
        /\ replay' = Remaining /\ unsynced' = unsynced
        /\ uploading' = GuardReleased(entries', e.path)
    BY <1>6, Zenon DEF ReplayPutDone
  <2>2. DOMAIN es = DOMAIN entries /\ \A t \in DOMAIN entries : Same(entries[t], es[t])
    BY <1>3, RebaseKeeps, SMTT(30)
  <2> HIDE DEF es
  <2>3. Before(es, s) = {}
    <3>1. \A t \in DOMAIN entries : ~(entries[t].pos < entries[s].pos)  BY <1>2, Zenon DEF Before
    <3> QED  BY <1>2, <2>2, <3>1, Zenon DEF Before, Same
  <2>4. /\ \A t \in DOMAIN es : es[t].pos \in Nat
        /\ \A t, u \in DOMAIN es : t # u => es[t].pos # es[u].pos
    BY <1>3, <2>2 DEF Same
  <2>5. dequeue_front(es) = remove(es, s)  BY <1>2, <2>2, <2>3, <2>4, FrontIsPopped, Zenon
  <2>6. DOMAIN remove(es, s) = DOMAIN es \ {s} /\ \A t \in DOMAIN es \ {s} : remove(es, s)[t] = es[t]
    BY RemoveKeeps, Zenon
  <2>7. /\ DOMAIN entries' = DOMAIN entries \ {s}
        /\ \A t \in DOMAIN entries' : Same(entries[t], entries'[t])
    BY <2>1, <2>2, <2>5, <2>6, Zenon
  <2> QED  BY <1>1, <1>4, <1>5, <2>1, <2>7, PopGuards, Zenon
<1>7. CASE \/ ReplayPutDone /\ r \in {"copied", "missing", "unreadable"}
           \/ ReplayGiveUp
  <2>1. /\ entries' = dequeue_front(entries) /\ staging' = Without(staging, {e.staging})
        /\ replay' = Remaining
        /\ \/ uploading' = GuardReleased(entries', e.path) /\ unsynced \subseteq unsynced'
           \/ uploading' = uploading /\ Recover(e.staging)
    BY <1>2, <1>7, Zenon DEF ReplayPutDone, ReplayGiveUp, Recover, mount
  <2>2. DOMAIN entries' = DOMAIN entries \ {s} /\ \A t \in DOMAIN entries' : entries'[t] = entries[t]
    BY <1>1, <2>1, PopsHeld, Zenon
  <2>3. /\ unsynced \subseteq unsynced' /\ uploading' \subseteq uploading
        /\ \/ uploading' = GuardReleased(entries', e.path)
           \/ staging[e.staging] \in unsynced'
    BY <1>2, <1>5, <2>1, Zenon DEF Recover
  <2> QED  BY <1>1, <1>3, <1>4, <2>1, <2>2, <2>3, PopGuards, Zenon
<1>8. CASE ReplayPutDone /\ r \notin {"ok", "copied", "missing", "unreadable"}
  <2>1. /\ UNCHANGED <<staging, unsynced, uploading>> /\ replay' \in {Idle, Remaining}
        /\ entries' \in {mark_deferred(entries, s), mark_failed(entries, s)}
    BY <1>8, Zenon DEF ReplayPutDone
  <2>2. DOMAIN entries' = DOMAIN entries /\ \A t \in DOMAIN entries : Same(entries[t], entries'[t])
    <3>1. CASE entries' = mark_deferred(entries, s)  BY <1>2, <1>3, <3>1, DeferKeeps, Zenon
    <3>2. CASE entries' = mark_failed(entries, s)  BY <1>2, <1>3, <3>2, FailKeeps, Zenon
    <3> QED  BY <2>1, <3>1, <3>2, Zenon
  <2> QED  BY <1>1, <1>4, <2>1, <2>2, GuardsCarried, Zenon
<1> QED  BY <1>6, <1>7, <1>8, Zenon

(* A restart forgets every guard and every executor.                       *)
LEMMA RestartGuards ==
  ASSUME IInv, GuardInv, NEW how, Restart(how) PROVE GuardInv'
<1> USE DEF IInv
<1>1. /\ uploading' = {} /\ saved' = saved /\ workers' = Empty
      /\ entries' = load_or_create(entries, DOMAIN staging) /\ staging' = Swept(entries')
      /\ replay' = IF DOMAIN entries' = {} THEN Idle ELSE [Idle EXCEPT !.at = "peek"]
  BY Zenon DEF Restart, user
<1>2. \A t \in DOMAIN entries : /\ entries[t] \in JournalEntry /\ ~entries[t].retargeted
                                /\ entries[t].staging \in DOMAIN staging
  BY Zenon DEF Typed, TypeOK, QueueOK, FilesOK
<1>3. DOMAIN entries' = DOMAIN entries /\ \A t \in DOMAIN entries : Same(entries[t], entries'[t])
  BY <1>1, <1>2, ZenonT(60) DEF load_or_create, Same, JournalEntry
<1>4. \A t \in DOMAIN entries' : staging'[entries[t].staging] = staging[entries[t].staging]
  BY <1>1, <1>2, <1>3, Zenon DEF Swept, Without, Same
<1>5. DOMAIN workers' = {} /\ ~Replaying'  BY <1>1, Zenon DEF Empty, Idle, Replaying
<1>6. OrderOK' /\ NamedOK' /\ SavedOK'  BY <1>1, <1>3, <1>4, <1>5, NamesCarried, Zenon
<1>7. GuardsOK'  BY <1>1, Zenon DEF GuardsOK
<1> QED  BY <1>6, <1>7, Zenon DEF GuardInv

-----------------------------------------------------------------------------
(* Once every save is uploaded and nothing is open, no listing is pinned   *)
(* by `uploading` but those of files whose bytes are in unsynced/: the     *)
(* workers and release_upload_guard between them release every guard.      *)
THEOREM GuardsAreReleased ==
  ASSUME "remount" \notin Restarts PROVE SaveSpec => []NoStaleGuard
<1>1. IInv /\ GuardInv /\ [SaveNext]_vars => GuardInv'
  <2> SUFFICES ASSUME IInv, GuardInv, [SaveNext]_vars PROVE GuardInv'  BY Zenon
  <2>1. ASSUME NEW p \in ServerFiles, OpenBegin(p) \/ Refresh(p) \/ ForeignEdit(p) PROVE GuardInv'
    BY <2>1, AsideGuards, Zenon
  <2>2. ASSUME NEW fh \in DOMAIN handles, OpenEnd(fh) PROVE GuardInv'  BY <2>2, AsideGuards, Zenon
  <2>3. ASSUME NEW fh \in DOMAIN handles, Release(fh) PROVE GuardInv'  BY <2>3, ReleaseGuards, Zenon
  <2>4. ASSUME NEW s \in DOMAIN workers,
               PutClaim(s) \/ PutSettle(s) \/ PutSend(s) \/ PutCopy(s) \/ PutDone(s)
        PROVE  GuardInv'
    BY <2>4, ClaimGuards, SendGuards, FinishGuards, Zenon
  <2>5. CASE ReplayPeek \/ ReplayPut \/ ReplayCopy  BY <2>5, ReplaySendGuards, Zenon
  <2>6. CASE ReplayPutDone \/ ReplayGiveUp  BY <2>6, ReplayDoneGuards, Zenon
  <2>7. CASE ProbeReachable \/ ProbeUnreachable \/ UNCHANGED vars  BY <2>7, AsideGuards, Zenon
  <2>8. ASSUME NEW how \in Restarts, Restart(how) PROVE GuardInv'  BY <2>8, RestartGuards, Zenon
  <2> QED  BY <2>1, <2>2, <2>3, <2>4, <2>5, <2>6, <2>7, <2>8 DEF SaveNext
<1>2. GuardInv => NoStaleGuard
  BY Zenon DEF GuardInv, GuardsOK, Pinned, GivenUp, NoStaleGuard, Quiet
<1> QED  BY <1>1, <1>2, InitGuards, JournalInvariant, PTL DEF SaveSpec
=============================================================================
