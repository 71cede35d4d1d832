------------------------ MODULE UploadSyncInvariant -------------------------
(***************************************************************************)
(* The inductive invariant of saving files (SaveSpec), and what the        *)
(* journal's methods, the server, the mount's handlers and the live        *)
(* workers do to it.  UploadSyncProofs has the replay run and the restart. *)
(***************************************************************************)
EXTENDS UploadSync, WellFoundedInduction, TLAPS

-----------------------------------------------------------------------------
(* The inductive invariant.                                                *)

(* TypeOK, and the types of what the handles and workers read.             *)
Version == [data: Contents, etag: Nat]
Listing == [dir: BOOLEAN, etag: Nat, data: Contents]
Typed ==
  /\ TypeOK
  /\ \A p \in DOMAIN server : server[p] \in Version
  /\ DOMAIN listed \subseteq Path /\ \A p \in DOMAIN listed : listed[p] \in Listing
  /\ \A p \in DOMAIN committed : committed[p] \in [gen: Nat, etag: Nat]
  /\ replay = [at |-> replay.at, seq |-> replay.seq, entry |-> replay.entry,
                result |-> replay.result, etag |-> replay.etag]
  /\ replay.at \in {"idle", "peek", "send", "copy", "done", "giveup"}
  /\ used \in [ops: Nat, faults: Nat, foreign: Nat, restarts: Nat, odd: Nat]
Counted == \E S : saved \in Seq(S)

(* The queue holds uploads in the order they were queued.                  *)
QueueOK ==
  /\ \A s \in DOMAIN entries : /\ entries[s].op = "Put" /\ ~entries[s].retargeted
                               /\ s < next_seq /\ entries[s].pos < back
  /\ \A s, t \in DOMAIN entries : s # t => entries[s].pos # entries[t].pos

(* A worker that claimed its upload still has it, and replay has another.  *)
WorkersOK ==
  \A s \in DOMAIN workers :
    /\ s < next_seq /\ workers[s].op = "Put"
    /\ s \in DOMAIN entries => workers[s].fh = entries[s].staging
    /\ workers[s].at # "queued" => s \in DOMAIN entries /\ entries[s].in_flight
                                     /\ ~(Replaying /\ replay.seq = s)

(* The replay run has claimed the front, and no one moves it.              *)
ReplayOK ==
  Replaying => /\ replay.seq \in DOMAIN entries /\ entries[replay.seq].in_flight
               /\ Before(entries, replay.seq) = {}
               /\ replay.entry.op = "Put"
               /\ replay.entry.staging = entries[replay.seq].staging

FlagsOK ==
  \A s \in DOMAIN entries : entries[s].in_flight =>
    \/ Replaying /\ replay.seq = s
    \/ s \in DOMAIN workers /\ workers[s].at # "queued"

(* Every queued upload has a staging file of its own.                      *)
FilesOK ==
  /\ \A s \in DOMAIN entries : /\ entries[s].staging \in DOMAIN staging
                               /\ entries[s].staging \notin DOMAIN handles
                               /\ entries[s].staging < next_fh
  /\ \A s, t \in DOMAIN entries : s # t => entries[s].staging # entries[t].staging
  /\ \A fh \in DOMAIN handles : fh < next_fh

(* What an executor sent is what the staging file holds, and what it was   *)
(* told is on the server is there.                                         *)
SentOK ==
  /\ \A s \in DOMAIN workers :
       /\ workers[s].at \in {"send", "copy", "done"} => workers[s].data = staging[workers[s].fh]
       /\ workers[s].at = "done" /\ workers[s].result = "ok" => workers[s].data \in landed
       /\ workers[s].at = "done" /\ workers[s].result = "copied" => workers[s].data \in copies
  /\ replay.at = "done" /\ replay.result = "ok" => staging[replay.entry.staging] \in landed
  /\ replay.at = "done" /\ replay.result = "copied" => staging[replay.entry.staging] \in copies

(* NoEditLost, with the queued upload being one of the file itself.        *)
QueuedFor(p) == \E s \in DOMAIN entries : entries[s].path = p /\ staging[entries[s].staging] = want[p]
EditsOK ==
  \A p \in DOMAIN want : want[p][1] = "save" =>
    QueuedFor(p) \/ want[p] \in landed \cup copies \cup unsynced

IInv == Typed /\ Counted /\ QueueOK /\ WorkersOK /\ ReplayOK /\ FlagsOK /\ FilesOK /\ SentOK /\ EditsOK

-----------------------------------------------------------------------------
(* The queue's methods.                                                    *)

(* Every nonempty set of numbers has a smallest one.                       *)
LEMMA LeastExists ==
  ASSUME NEW S, S \subseteq Nat, S # {}
  PROVE  \E m \in S : \A n \in S : m <= n
<1>1. PICK x \in S : \A y \in S : ~(<<y, x>> \in OpToRel(<, Nat))
  BY NatLessThanWellFounded, WFMin, Zenon
<1>2. \A y \in S : ~(y < x)  BY <1>1, Zenon DEF OpToRel
<1> QED  BY <1>2

(* A bounded one has a largest one.                                        *)
LEMMA GreatestExists ==
  ASSUME NEW S, S \subseteq Nat, S # {}, NEW n \in Nat, \A x \in S : x < n
  PROVE  \E m \in S : \A x \in S : x <= m
<1> DEFINE D == {n - x : x \in S}
<1>1. D \subseteq Nat /\ D # {}
  <2>1. \A x \in S : n - x \in Nat  OBVIOUS
  <2>2. PICK x \in S : TRUE  BY Zenon
  <2>3. n - x \in D  BY Zenon
  <2> QED  BY <2>1, <2>3, Zenon
<1>2. PICK d \in D : \A e \in D : d <= e  BY <1>1, LeastExists, Zenon
<1>3. PICK m \in S : d = n - m  BY Zenon
<1>4. \A x \in S : d <= n - x  BY <1>2, Zenon
<1>5. \A x \in S : x <= m  BY <1>3, <1>4
<1> QED  BY <1>5, Zenon

(* What stays of an entry while it is queued.                              *)
Same(e, f) == /\ f \in JournalEntry
              /\ f.op = e.op /\ f.path = e.path /\ f.staging = e.staging /\ f.pos = e.pos
              /\ f.retargeted = e.retargeted

(* claim only sets the flag of its entry.                                  *)
LEMMA ClaimKeeps ==
  ASSUME NEW es, NEW seq \in DOMAIN es, \A s \in DOMAIN es : es[s] \in JournalEntry
  PROVE  /\ DOMAIN claim(es, seq) = DOMAIN es
         /\ \A s \in DOMAIN es : Same(es[s], claim(es, seq)[s])
         /\ \A s \in DOMAIN es \ {seq} : claim(es, seq)[s] = es[s]
         /\ claim(es, seq)[seq].in_flight
BY Zenon DEF claim, Same, JournalEntry

(* mark_deferred gives the claim back and leaves the queue as it is.       *)
LEMMA DeferKeeps ==
  ASSUME NEW es, NEW seq \in DOMAIN es, \A s \in DOMAIN es : es[s] \in JournalEntry
  PROVE  /\ DOMAIN mark_deferred(es, seq) = DOMAIN es
         /\ \A s \in DOMAIN es : Same(es[s], mark_deferred(es, seq)[s])
         /\ \A s \in DOMAIN es \ {seq} : mark_deferred(es, seq)[s] = es[s]
         /\ ~mark_deferred(es, seq)[seq].in_flight
BY ZenonT(60) DEF mark_deferred, Same, JournalEntry

(* mark_failed gives the claim back and leaves the queue as it is.         *)
LEMMA FailKeeps ==
  ASSUME NEW es, NEW seq \in DOMAIN es, \A s \in DOMAIN es : es[s] \in JournalEntry
  PROVE  /\ DOMAIN mark_failed(es, seq) = DOMAIN es
         /\ \A s \in DOMAIN es : Same(es[s], mark_failed(es, seq)[s])
         /\ \A s \in DOMAIN es \ {seq} : mark_failed(es, seq)[s] = es[s]
         /\ ~mark_failed(es, seq)[seq].in_flight
<1> DEFINE d == mark_deferred(es, seq)
<1>1. /\ DOMAIN d = DOMAIN es
      /\ \A s \in DOMAIN es : Same(es[s], d[s])
      /\ \A s \in DOMAIN es \ {seq} : d[s] = es[s]
      /\ ~d[seq].in_flight
  BY DeferKeeps, Zenon
<1>2. mark_failed(es, seq) = [d EXCEPT ![seq].attempts = @ + 1]  BY Zenon DEF mark_failed
<1> HIDE DEF d
<1> QED  BY <1>1, <1>2 DEF Same, JournalEntry

(* rebase changes conditions only.                                         *)
LEMMA RebaseKeeps ==
  ASSUME NEW es, \A s \in DOMAIN es : es[s] \in JournalEntry, NEW path, NEW sent, NEW new \in Nat
  PROVE  /\ DOMAIN rebase(es, path, sent, new) = DOMAIN es
         /\ \A s \in DOMAIN es : /\ Same(es[s], rebase(es, path, sent, new)[s])
                                 /\ rebase(es, path, sent, new)[s].in_flight = es[s].in_flight
BY DEF rebase, Same, JournalEntry

(* remove takes its entry out and no other.                                *)
LEMMA RemoveKeeps ==
  ASSUME NEW es, NEW seq
  PROVE  /\ DOMAIN remove(es, seq) = DOMAIN es \ {seq}
         /\ \A s \in DOMAIN es \ {seq} : remove(es, seq)[s] = es[s]
BY Zenon DEF remove, Drop

(* The front is what nothing is before, and it is what dequeue_front pops. *)
LEMMA FrontIsPopped ==
  ASSUME NEW es, NEW f \in DOMAIN es, Before(es, f) = {},
         \A s \in DOMAIN es : es[s].pos \in Nat,
         \A s, t \in DOMAIN es : s # t => es[s].pos # es[t].pos
  PROVE  peek_front(es) = f /\ dequeue_front(es) = remove(es, f)
<1>1. \A s \in DOMAIN es : Before(es, s) = {} => s = f
  BY DEF Before
<1> QED  BY <1>1, Zenon DEF peek_front, dequeue_front

(* A queue that is not empty has a front.                                  *)
LEMMA FrontExists ==
  ASSUME NEW es, DOMAIN es # {}, \A s \in DOMAIN es : es[s].pos \in Nat
  PROVE  peek_front(es) \in DOMAIN es /\ Before(es, peek_front(es)) = {}
<1> DEFINE P == {es[s].pos : s \in DOMAIN es}
<1>1. P \subseteq Nat /\ P # {}
  <2>1. PICK s \in DOMAIN es : TRUE  BY Zenon
  <2>2. es[s].pos \in P  BY Zenon
  <2> QED  BY <2>2, Zenon
<1>2. PICK m \in P : \A n \in P : m <= n  BY <1>1, LeastExists, Zenon
<1>3. PICK f \in DOMAIN es : es[f].pos = m  BY Zenon
<1>4. \A t \in DOMAIN es : es[f].pos <= es[t].pos  BY <1>2, <1>3, Zenon
<1>5. Before(es, f) = {}  BY <1>4 DEF Before
<1> QED  BY <1>5, Zenon DEF peek_front

(* A save goes to the end of the queue and leaves the rest alone.          *)
Fresh(new, pos) ==
  [op |-> new.op, path |-> new.path, to |-> new.to, staging |-> new.staging, cond |-> new.cond,
   attempts |-> 0, error |-> FALSE, pos |-> pos,
   in_flight |-> FALSE, retargeted |-> FALSE, dest_fixed |-> FALSE]
Appended(es, new, seq, pos) ==
  [s \in DOMAIN es \cup {seq} |-> IF s = seq THEN Fresh(new, pos) ELSE es[s]]
LEMMA PutIsAppended ==
  ASSUME NEW es, NEW new, NEW seq, NEW pos, new.op = "Put"
  PROVE  enqueue(es, new, seq, pos) = Appended(es, new, seq, pos)
<1>1. coalesced(es, new) = {}  BY Zenon DEF coalesced
<1> DEFINE kept == Drop(es, coalesced(es, new))
<1>2. DOMAIN kept = DOMAIN es /\ \A s \in DOMAIN es : kept[s] = es[s]  BY <1>1, Zenon DEF Drop
<1> QED  BY <1>2, Zenon DEF enqueue, Appended, Fresh

(* Only older uploads of the same file that nobody sends are superseded.   *)
LEMMA SupersededAreIdle ==
  ASSUME NEW es, NEW path, NEW newest \in Nat, DOMAIN es \subseteq Nat
  PROVE  /\ superseded(es, path, newest) \subseteq DOMAIN es \ {newest}
         /\ \A s \in superseded(es, path, newest) : ~es[s].in_flight /\ es[s].path = path
BY DEF superseded, uploads_of, is_upload_of

-----------------------------------------------------------------------------
(* The server's outcomes.                                                  *)

(* A PUT that answers ok has put its data on the server.                   *)
LEMMA PutServed ==
  ASSUME Typed, NEW p, NEW data \in Contents, NEW cond, NEW o \in PutRequest(p, data, cond), Serve(o)
  PROVE  /\ landed \subseteq landed' /\ copies \subseteq copies' /\ clock' \in Nat
         /\ \A q \in DOMAIN server' : server'[q] \in Version
         /\ o.result \in Results \ {"copied"} /\ o.etag \in Nat
         /\ o.result = "ok" => data \in landed'
         /\ used' \in [ops: Nat, faults: Nat, foreign: Nat, restarts: Nat, odd: Nat]
<1>0. used' \in [ops: Nat, faults: Nat, foreign: Nat, restarts: Nat, odd: Nat]
  BY DEF Typed, Serve
<1>1. clock \in Nat /\ \A q \in DOMAIN server : server[q] \in Version  BY Zenon DEF Typed, TypeOK
<1>2. CASE o \in Failures
  BY <1>0, <1>1, <1>2 DEF Failures, Heard, Serve, Results, None
<1>3. CASE o = Heard(PutAnswer(p, cond)) /\ PutAnswer(p, cond) # "ok"
  <2>1. PutAnswer(p, cond) \in {"conflict", "missing"}  BY <1>3, Zenon DEF PutAnswer
  <2> QED  BY <1>0, <1>1, <1>3, <2>1, Zenon DEF Heard, Serve, Results, None
<1>4. CASE PutAnswer(p, cond) = "ok" /\ o \notin Failures
  <2> DEFINE file == [data |-> data, etag |-> clock + 1]
             done == [Heard("ok") EXCEPT !.server = With(server, p, file), !.clock = @ + 1,
                                         !.etag = clock + 1, !.landed = @ \cup {data}]
  <2>1. o \in Done(done)  BY <1>4, Zenon DEF PutRequest
  <2>2. /\ o.server = With(server, p, file) /\ o.clock = clock + 1
        /\ o.landed = landed \cup {data} /\ o.copies = copies
        /\ o.result \in {"ok", "network"} /\ o.etag \in {clock + 1, None}
    BY <2>1, Zenon DEF Done, Heard
  <2>3. file \in Version  BY <1>1 DEF Version
  <2>4. \A q \in DOMAIN With(server, p, file) : With(server, p, file)[q] \in Version
    BY <1>1, <2>3, Zenon DEF With
  <2> HIDE DEF file
  <2> QED  BY <1>0, <1>1, <2>2, <2>4 DEF Serve, Results, None
<1> QED  BY <1>0, <1>2, <1>3, <1>4, Zenon DEF PutRequest

(* A conflicted copy that answers is on the server.                        *)
LEMMA CopyServed ==
  ASSUME Typed, NEW p, NEW data, NEW o \in CopyRequest(p, data), Serve(o)
  PROVE  /\ landed' = landed /\ copies \subseteq copies' /\ clock' = clock /\ server' = server
         /\ o.result \in Results \ {"ok"}
         /\ o.result = "copied" => data \in copies'
         /\ used' \in [ops: Nat, faults: Nat, foreign: Nat, restarts: Nat, odd: Nat]
<1>0. used' \in [ops: Nat, faults: Nat, foreign: Nat, restarts: Nat, odd: Nat]
  BY DEF Typed, Serve
<1>1. CASE o \in Failures
  BY <1>0, <1>1, Zenon DEF Failures, Heard, Serve, Results
<1>2. CASE o = Heard("missing")
  BY <1>0, <1>2, Zenon DEF Heard, Serve, Results
<1>3. CASE o \in Done([Heard("copied") EXCEPT !.copies = @ \cup {data}])
  <2>1. /\ o.server = server /\ o.clock = clock /\ o.landed = landed
        /\ o.copies = copies \cup {data} /\ o.result \in {"copied", "network"}
    BY <1>3, Zenon DEF Done, Heard
  <2> QED  BY <1>0, <2>1, Zenon DEF Serve, Results
<1> QED  BY <1>0, <1>1, <1>2, <1>3, Zenon DEF CopyRequest

-----------------------------------------------------------------------------
(* The invariant holds at first, and every step keeps it.                  *)

(* An empty journal with nothing running satisfies the invariant.          *)
LEMMA InitIInv == Init => IInv
<1> SUFFICES ASSUME Init PROVE IInv  BY Zenon
<1>1. DOMAIN entries = {} /\ DOMAIN staging = {} /\ DOMAIN handles = {} /\ DOMAIN workers = {}
      /\ DOMAIN committed = {}
  BY Zenon DEF Init, Empty
<1>2. /\ replay.at = "idle" /\ replay.seq = 0 /\ replay.result = "none" /\ replay.etag = 0
      /\ replay = [at |-> replay.at, seq |-> replay.seq, entry |-> replay.entry,
                   result |-> replay.result, etag |-> replay.etag]
  BY Zenon DEF Init, Idle, None
<1>3. Original \in Contents /\ Folder \in Contents  BY Zenon DEF Contents
<1>4. \A p \in DOMAIN server : server[p] \in Version
  BY <1>3, Zenon DEF Init, Version
<1>5. DOMAIN listed \subseteq Path /\ \A p \in DOMAIN listed : listed[p] \in Listing
  BY <1>3, TreeAssumption DEF Init, Listing
<1>6. Typed
  <2>1. TypeOK
    <3>1. offline \in BOOLEAN /\ {next_seq, back, clock, gen, next_fh} \subseteq Nat  BY DEF Init
    <3> QED  BY <1>1, <1>2, <3>1 DEF TypeOK, Results
  <2>2. used \in [ops: Nat, faults: Nat, foreign: Nat, restarts: Nat, odd: Nat]  BY Zenon DEF Init
  <2> QED  BY <1>1, <1>2, <1>4, <1>5, <2>1, <2>2, Zenon DEF Typed
<1>7. Counted
  <2>1. saved = << >>  BY Zenon DEF Init
  <2>2. << >> \in Seq({})  OBVIOUS
  <2> QED  BY <2>1, <2>2, Zenon DEF Counted
<1>8. QueueOK /\ WorkersOK /\ ReplayOK /\ FlagsOK /\ FilesOK /\ SentOK
  BY <1>1, <1>2, Zenon DEF QueueOK, WorkersOK, ReplayOK, FlagsOK, FilesOK, SentOK, Replaying
<1>9. EditsOK
  <2>1. \A p \in DOMAIN want : want[p] \in {Original, Folder}  BY Zenon DEF Init
  <2> QED  BY <2>1 DEF EditsOK, Original, Folder
<1> QED  BY <1>6, <1>7, <1>8, <1>9, Zenon DEF IInv

(* A step that leaves the queue and its executors alone.                   *)
LEMMA ExecutorsAlone ==
  ASSUME IInv, UNCHANGED <<entries, next_seq, back, workers, replay>>
  PROVE  QueueOK' /\ WorkersOK' /\ ReplayOK' /\ FlagsOK'
BY Zenon DEF IInv, QueueOK, WorkersOK, ReplayOK, FlagsOK, Replaying, Before

-----------------------------------------------------------------------------
(* Executors.                                                              *)

(* What is queued keeps its path, place and bytes, and what leaves the     *)
(* queue is on the server, beside the file or in unsynced/.                *)
LEMMA QueueCarried ==
  ASSUME IInv, UNCHANGED <<back, next_fh, user>>, DOMAIN handles' \subseteq DOMAIN handles,
         DOMAIN entries' \subseteq DOMAIN entries,
         \A s \in DOMAIN entries' :
           /\ Same(entries[s], entries'[s]) /\ s < next_seq'
           /\ entries[s].staging \in DOMAIN staging'
           /\ staging'[entries[s].staging] = staging[entries[s].staging],
         \A s \in DOMAIN entries \ DOMAIN entries' :
           staging[entries[s].staging] \in (landed \cup copies \cup unsynced)',
         landed \subseteq landed', copies \subseteq copies', unsynced \subseteq unsynced'
  PROVE  Counted' /\ QueueOK' /\ FilesOK' /\ EditsOK'
<1> USE DEF IInv
<1>1. Counted'  BY Zenon DEF Counted, user
<1>2. QueueOK'  BY DEF QueueOK, Same
<1>3. FilesOK'  BY DEF FilesOK, Same
<1>4. EditsOK'
  <2> SUFFICES ASSUME NEW p \in DOMAIN want', want'[p][1] = "save"
               PROVE  QueuedFor(p)' \/ want'[p] \in (landed \cup copies \cup unsynced)'
    BY Zenon DEF EditsOK
  <2>1. want' = want  BY Zenon DEF user
  <2>2. CASE want[p] \in landed \cup copies \cup unsynced  BY <2>1, <2>2, Zenon
  <2>3. CASE QueuedFor(p)
    <3>1. PICK s \in DOMAIN entries : entries[s].path = p /\ staging[entries[s].staging] = want[p]
      BY <2>3, Zenon DEF QueuedFor
    <3>2. CASE s \in DOMAIN entries'  BY <2>1, <3>1, <3>2 DEF QueuedFor, Same
    <3>3. CASE s \notin DOMAIN entries'  BY <2>1, <3>1, <3>3, Zenon
    <3> QED  BY <3>2, <3>3, Zenon
  <2> QED  BY <2>1, <2>2, <2>3, Zenon DEF EditsOK
<1> QED  BY <1>1, <1>2, <1>3, <1>4, Zenon

(* A step of the worker of s touches no other entry and no other worker.   *)
LEMMA WorkerStep ==
  ASSUME IInv, NEW s \in DOMAIN workers, UNCHANGED <<replay, next_seq>>,
         DOMAIN workers' \subseteq DOMAIN workers, DOMAIN workers \ {s} \subseteq DOMAIN workers',
         \A t \in DOMAIN workers \ {s} : workers'[t] = workers[t],
         DOMAIN entries' \subseteq DOMAIN entries, DOMAIN entries \ {s} \subseteq DOMAIN entries',
         \A t \in DOMAIN entries' : Same(entries[t], entries'[t]),
         \A t \in DOMAIN entries \ {s} :
           /\ entries'[t].in_flight = entries[t].in_flight
           /\ staging'[entries[t].staging] = staging[entries[t].staging],
         landed \subseteq landed', copies \subseteq copies',
         \/ /\ s \in DOMAIN entries /\ ~(Replaying /\ replay.seq = s)
            /\ \/ s \notin DOMAIN workers' /\ (s \in DOMAIN entries' => ~entries'[s].in_flight)
               \/ /\ s \in DOMAIN workers' /\ s \in DOMAIN entries' /\ entries'[s].in_flight
                  /\ workers'[s].op = "Put" /\ workers'[s].fh = workers[s].fh /\ workers'[s].at # "queued"
                  /\ workers'[s].at \in {"send", "copy", "done"} => workers'[s].data = staging'[workers[s].fh]
                  /\ workers'[s].at = "done" /\ workers'[s].result = "ok" => workers'[s].data \in landed'
                  /\ workers'[s].at = "done" /\ workers'[s].result = "copied" => workers'[s].data \in copies'
         \/ /\ s \notin DOMAIN workers' /\ workers[s].at = "queued"
            /\ UNCHANGED <<entries, staging>>
  PROVE  WorkersOK' /\ ReplayOK' /\ FlagsOK' /\ SentOK'
<1> USE DEF IInv
<1>1. Replaying' = Replaying  BY Zenon DEF Replaying
<1>2. WorkersOK'
  <2> SUFFICES ASSUME NEW t \in DOMAIN workers'
               PROVE  /\ t < next_seq /\ workers'[t].op = "Put"
                      /\ t \in DOMAIN entries' => workers'[t].fh = entries'[t].staging
                      /\ workers'[t].at # "queued" => t \in DOMAIN entries' /\ entries'[t].in_flight
                                                       /\ ~(Replaying /\ replay.seq = t)
    BY <1>1, Zenon DEF WorkersOK
  <2>1. CASE t = s  BY <2>1, Zenon DEF WorkersOK, Same
  <2>2. CASE t # s  BY <2>2 DEF WorkersOK, Same
  <2> QED  BY <2>1, <2>2, Zenon
<1>3. Replaying => replay.seq \in DOMAIN entries' /\ entries'[replay.seq].in_flight
  BY Zenon DEF ReplayOK
<1>4. ReplayOK'
  <2> SUFFICES ASSUME Replaying PROVE /\ Before(entries', replay.seq) = {}
                                      /\ replay.entry.op = "Put"
                                      /\ replay.entry.staging = entries'[replay.seq].staging
    BY <1>1, <1>3, Zenon DEF ReplayOK
  <2>1. \A t \in DOMAIN entries : ~(entries[t].pos < entries[replay.seq].pos)  BY Zenon DEF ReplayOK, Before
  <2>2. Before(entries', replay.seq) = {}  BY <1>3, <2>1, Zenon DEF Before, Same
  <2> QED  BY <1>3, <2>2, Zenon DEF ReplayOK, Same
<1>5. FlagsOK'
  <2> SUFFICES ASSUME NEW t \in DOMAIN entries', entries'[t].in_flight
               PROVE  \/ Replaying /\ replay.seq = t
                      \/ t \in DOMAIN workers' /\ workers'[t].at # "queued"
    BY <1>1, Zenon DEF FlagsOK
  <2>1. CASE t # s  BY <2>1 DEF FlagsOK
  <2>2. CASE t = s /\ t \in DOMAIN workers'  BY <2>2, Zenon
  <2>3. CASE t = s /\ t \notin DOMAIN workers'  BY <2>3, Zenon DEF FlagsOK
  <2> QED  BY <2>1, <2>2, <2>3, Zenon
<1>6. SentOK'
  <2>1. \A t \in DOMAIN workers \ {s} : workers[t].at # "queued" =>
          staging'[workers[t].fh] = staging[workers[t].fh]
    BY DEF WorkersOK
  <2>2. \A t \in DOMAIN workers' :
          /\ workers'[t].at \in {"send", "copy", "done"} => workers'[t].data = staging'[workers'[t].fh]
          /\ workers'[t].at = "done" /\ workers'[t].result = "ok" => workers'[t].data \in landed'
          /\ workers'[t].at = "done" /\ workers'[t].result = "copied" => workers'[t].data \in copies'
    <3> TAKE t \in DOMAIN workers'
    <3>1. CASE t = s  BY <3>1, Zenon
    <3>2. CASE t # s  BY <2>1, <3>2, SMTT(20) DEF SentOK
    <3> QED  BY <3>1, <3>2, Zenon
  <2>3. Replaying => staging'[replay.entry.staging] = staging[replay.entry.staging]
    BY SMTT(30) DEF ReplayOK
  <2> QED  BY <2>2, <2>3, Zenon DEF SentOK, Replaying
<1> QED  BY <1>2, <1>4, <1>5, <1>6, Zenon

(* A step of the replay run touches only the entry s it holds.             *)
LEMMA ReplayStepKeeps ==
  ASSUME IInv, NEW s, UNCHANGED <<workers, next_seq>>, Replaying => replay.seq = s,
         s \in DOMAIN workers => workers[s].at = "queued",
         DOMAIN entries' \subseteq DOMAIN entries, DOMAIN entries \ {s} \subseteq DOMAIN entries',
         \A t \in DOMAIN entries' : Same(entries[t], entries'[t]),
         \A t \in DOMAIN entries \ {s} :
           /\ entries'[t].in_flight = entries[t].in_flight
           /\ staging'[entries[t].staging] = staging[entries[t].staging],
         landed \subseteq landed', copies \subseteq copies',
         \/ ~Replaying' /\ (s \in DOMAIN entries' => ~entries'[s].in_flight)
         \/ /\ Replaying' /\ replay'.seq = s
            /\ s \in DOMAIN entries' /\ entries'[s].in_flight /\ Before(entries, s) = {}
            /\ replay'.entry.op = "Put" /\ replay'.entry.staging = entries[s].staging
            /\ replay'.at = "done" /\ replay'.result = "ok" => staging'[entries[s].staging] \in landed'
            /\ replay'.at = "done" /\ replay'.result = "copied" => staging'[entries[s].staging] \in copies'
  PROVE  WorkersOK' /\ ReplayOK' /\ FlagsOK' /\ SentOK'
<1> USE DEF IInv
<1>1. WorkersOK'
  <2> SUFFICES ASSUME NEW t \in DOMAIN workers
               PROVE  /\ t < next_seq /\ workers[t].op = "Put"
                      /\ t \in DOMAIN entries' => workers[t].fh = entries'[t].staging
                      /\ workers[t].at # "queued" => t \in DOMAIN entries' /\ entries'[t].in_flight
                                                       /\ ~(Replaying' /\ replay'.seq = t)
    BY Zenon DEF WorkersOK
  <2> QED  BY DEF WorkersOK, Same
<1>2. ReplayOK'
  <2> SUFFICES ASSUME Replaying' PROVE Before(entries', s) = {} /\ entries'[s].staging = entries[s].staging
    BY Zenon DEF ReplayOK
  <2>1. \A t \in DOMAIN entries : ~(entries[t].pos < entries[s].pos)  BY Zenon DEF Before
  <2> QED  BY <2>1, Zenon DEF Before, Same
<1>3. FlagsOK'
  <2> SUFFICES ASSUME NEW t \in DOMAIN entries', entries'[t].in_flight
               PROVE  \/ Replaying' /\ replay'.seq = t
                      \/ t \in DOMAIN workers' /\ workers'[t].at # "queued"
    BY Zenon DEF FlagsOK
  <2>1. CASE t = s  BY <2>1, Zenon
  <2>2. CASE t # s
    <3>1. ~(Replaying /\ replay.seq = t)  BY <2>2, Zenon
    <3> QED  BY <2>2, <3>1, Zenon DEF FlagsOK
  <2> QED  BY <2>1, <2>2, Zenon
<1>4. SentOK'
  <2>1. \A t \in DOMAIN workers : workers[t].at # "queued" => staging'[workers[t].fh] = staging[workers[t].fh]
    BY SMTT(30) DEF WorkersOK
  <2>2. replay'.at = "done" => Replaying'  BY Zenon DEF Replaying
  <2> QED  BY <2>1, <2>2, SMTT(60) DEF SentOK
<1> QED  BY <1>1, <1>2, <1>3, <1>4, Zenon

-----------------------------------------------------------------------------
(***************************************************************************)
(* The mount's handlers, the probes and edits by others keep the invariant. *)
(***************************************************************************)

(* A refresh changes the listing only.                                     *)
LEMMA RefreshIInv ==
  ASSUME IInv, NEW p, Refresh(p) PROVE IInv'
<1> USE DEF IInv
<1>1. UNCHANGED <<journal, remote, handles, next_fh, committed, gen, workers, replay, offline, user, used>>
  BY Zenon DEF Refresh
<1>2. \A q \in DOMAIN listed' : q \in DOMAIN listed /\ listed'[q] \in Listing
  BY ZenonT(60) DEF Refresh, Typed, Listing, Version
<1>3. Typed'  BY <1>1, <1>2, Zenon DEF Typed, TypeOK, journal, remote
<1>4. Counted' /\ FilesOK' /\ SentOK' /\ EditsOK'
  BY <1>1, Zenon DEF Counted, FilesOK, SentOK, EditsOK, QueuedFor, journal, remote, user
<1>5. QueueOK' /\ WorkersOK' /\ ReplayOK' /\ FlagsOK'  BY <1>1, ExecutorsAlone, Zenon DEF journal
<1> QED  BY <1>3, <1>4, <1>5, Zenon

(* An edit by someone else changes the server only.                        *)
LEMMA ForeignEditIInv ==
  ASSUME IInv, NEW p, ForeignEdit(p) PROVE IInv'
<1> USE DEF IInv
<1>1. UNCHANGED <<journal, mount, copies, landed, workers, replay, offline, user>>
  BY Zenon DEF ForeignEdit
<1>0. used' \in [ops: Nat, faults: Nat, foreign: Nat, restarts: Nat, odd: Nat]
  BY DEF ForeignEdit, Spend, Typed
<1>2. clock' \in Nat /\ \A q \in DOMAIN server' : server'[q] \in Version
  <2>1. clock' \in Nat  BY DEF ForeignEdit, Typed, TypeOK
  <2>2. Foreign(used'.foreign) \in Contents
    BY <1>0, Zenon DEF Foreign, Contents
  <2> QED  BY <2>1, <2>2, Zenon DEF ForeignEdit, Typed, Version
<1>3. Typed'  BY <1>0, <1>1, <1>2, Zenon DEF Typed, TypeOK, journal, mount
<1>4. Counted' /\ FilesOK' /\ SentOK' /\ EditsOK'
  BY <1>1, Zenon DEF Counted, FilesOK, SentOK, EditsOK, QueuedFor, journal, mount, user
<1>5. QueueOK' /\ WorkersOK' /\ ReplayOK' /\ FlagsOK'  BY <1>1, ExecutorsAlone, Zenon DEF journal
<1> QED  BY <1>3, <1>4, <1>5, Zenon

(* A probe starts a replay run, which holds nothing yet.                   *)
LEMMA ProbeIInv ==
  ASSUME IInv, ProbeReachable \/ ProbeUnreachable PROVE IInv'
<1> USE DEF IInv
<1>1. UNCHANGED <<journal, remote, mount, workers, user>> /\ offline' \in BOOLEAN
  BY Zenon DEF ProbeReachable, ProbeUnreachable
<1>2. used' \in [ops: Nat, faults: Nat, foreign: Nat, restarts: Nat, odd: Nat]
  BY DEF ProbeReachable, ProbeUnreachable, Spend, Typed
<1>3. \/ replay' = replay
      \/ /\ replay.at = "idle" /\ replay'.at = "peek" /\ replay'.seq = 0 /\ replay'.etag = 0
         /\ replay'.result = "none"
         /\ replay' = [at |-> replay'.at, seq |-> replay'.seq, entry |-> replay'.entry,
                       result |-> replay'.result, etag |-> replay'.etag]
  BY Zenon DEF ProbeReachable, ProbeUnreachable, Remaining, None, Typed
<1>4. Typed'
  BY <1>1, <1>2, <1>3 DEF Typed, TypeOK, Results, journal, remote, mount
<1>5. Counted' /\ FilesOK' /\ EditsOK'
  BY <1>1, Zenon DEF Counted, FilesOK, EditsOK, QueuedFor, journal, remote, mount, user
<1>6. (Replaying' <=> Replaying) /\ (Replaying => replay' = replay)
  BY <1>3, Zenon DEF Replaying
<1>7. QueueOK' /\ WorkersOK' /\ ReplayOK' /\ FlagsOK'
  BY <1>1, <1>6 DEF QueueOK, WorkersOK, ReplayOK, FlagsOK, Before, journal
<1>8. SentOK'
  BY <1>1, <1>3, Zenon DEF SentOK, journal, remote
<1> QED  BY <1>4, <1>5, <1>7, <1>8, Zenon

(* The end of open() fills in the handle.                                  *)
LEMMA OpenEndIInv ==
  ASSUME IInv, NEW fh \in DOMAIN handles, OpenEnd(fh) PROVE IInv'
<1> USE DEF IInv
<1>1. UNCHANGED <<journal, remote, listed, committed, gen, next_fh, workers, replay, offline, user, used>>
  BY Zenon DEF OpenEnd
<1>2. DOMAIN handles' = DOMAIN handles /\ \A f \in DOMAIN handles' : handles'[f] \in Handle
  <2>1. gen \in Nat /\ \A f \in DOMAIN handles : handles[f] \in Handle  BY Zenon DEF Typed, TypeOK
  <2>2. handles' = [handles EXCEPT ![fh] = [handles[fh] EXCEPT !.open = TRUE, !.gen = gen]]
    BY Zenon DEF OpenEnd
  <2>3. [handles[fh] EXCEPT !.open = TRUE, !.gen = gen] \in Handle  BY <2>1, Zenon DEF Handle
  <2> QED  BY <2>1, <2>2, <2>3, Zenon
<1>3. Typed'  BY <1>1, <1>2, Zenon DEF Typed, TypeOK, journal, remote
<1>4. Counted' /\ FilesOK' /\ SentOK' /\ EditsOK'
  BY <1>1, <1>2, Zenon DEF Counted, FilesOK, SentOK, EditsOK, QueuedFor, journal, remote, user
<1>5. QueueOK' /\ WorkersOK' /\ ReplayOK' /\ FlagsOK'  BY <1>1, ExecutorsAlone, Zenon DEF journal
<1> QED  BY <1>3, <1>4, <1>5, Zenon

(* The new handle's staging file is nobody's.                              *)
LEMMA OpenBeginIInv ==
  ASSUME IInv, NEW p, OpenBegin(p) PROVE IInv'
<1> USE DEF IInv
<1>1. UNCHANGED <<entries, next_seq, back, unsynced, remote, listed, committed, gen,
                  workers, replay, offline, user, used>>
  BY Zenon DEF OpenBegin
<1>2. PICK h \in Handle : handles' = With(handles, next_fh, h)
  <2>1. p \in Path /\ listed[p] \in Listing  BY Zenon DEF OpenBegin, Typed
  <2>2. \A etag \in Nat, seed \in Contents : NewHandle(p, etag, seed, FALSE) \in Handle
    BY <2>1, Zenon DEF NewHandle, Handle, None
  <2>3. Blank \in Contents  BY Zenon DEF Contents
  <2> DEFINE queued == pending_upload(entries, p)
  <2>4. \/ /\ queued \in DOMAIN staging
           /\ handles' = With(handles, next_fh,
                              NewHandle(p, listed[p].etag,
                                        IF queued = next_fh THEN Blank ELSE staging[queued], FALSE))
        \/ handles' = With(handles, next_fh, NewHandle(p, listed[p].etag, listed[p].data, FALSE))
        \/ /\ p \in DOMAIN server
           /\ handles' = With(handles, next_fh, NewHandle(p, server[p].etag, server[p].data, FALSE))
    BY Zenon DEF OpenBegin
  <2> HIDE DEF queued
  <2>5. \A f \in DOMAIN staging : staging[f] \in Contents  BY Zenon DEF Typed, TypeOK
  <2>6. listed[p].etag \in Nat /\ listed[p].data \in Contents  BY <2>1, Zenon DEF Listing
  <2>7. p \in DOMAIN server => server[p].etag \in Nat /\ server[p].data \in Contents
    BY Zenon DEF Typed, Version
  <2> QED  BY <2>2, <2>3, <2>4, <2>5, <2>6, <2>7, Zenon
<1>3. /\ DOMAIN handles' = DOMAIN handles \cup {next_fh} /\ handles'[next_fh] = h
      /\ \A f \in DOMAIN handles \ {next_fh} : handles'[f] = handles[f]
  BY <1>2, Zenon DEF With
<1>4. next_fh \in Nat /\ next_fh' = next_fh + 1 /\ staging' = With(staging, next_fh, h.seed)
  BY <1>3, Zenon DEF OpenBegin, Typed, TypeOK
<1>5. /\ DOMAIN staging' = DOMAIN staging \cup {next_fh} /\ staging'[next_fh] = h.seed
      /\ \A f \in DOMAIN staging \ {next_fh} : staging'[f] = staging[f]
  BY <1>4, Zenon DEF With
<1>6. \A s \in DOMAIN entries : entries[s].staging \in Nat /\ entries[s].staging # next_fh
  BY <1>4 DEF Typed, TypeOK, JournalEntry, FilesOK
<1>7. Typed'
  <2>1. \A f \in DOMAIN staging' : f \in Nat /\ staging'[f] \in Contents
    BY <1>2, <1>4, <1>5, Zenon DEF Handle, Typed, TypeOK
  <2>2. \A f \in DOMAIN handles' : f \in Nat /\ handles'[f] \in Handle
    BY <1>2, <1>3, <1>4, Zenon DEF Typed, TypeOK
  <2> QED  BY <1>1, <1>4, <2>1, <2>2 DEF Typed, TypeOK, remote
<1>8. Counted'  BY <1>1, Zenon DEF Counted, user
<1>9. FilesOK'
  <2>1. \A f \in DOMAIN handles : f \in Nat /\ f < next_fh  BY Zenon DEF FilesOK, Typed, TypeOK
  <2>2. \A f \in DOMAIN handles' : f < next_fh'  BY <1>3, <1>4, <2>1
  <2>3. \A s \in DOMAIN entries : entries[s].staging < next_fh'  BY <1>4, <1>6 DEF FilesOK
  <2> QED  BY <1>1, <1>3, <1>5, <1>6, <2>2, <2>3, Zenon DEF FilesOK
<1>10. SentOK'
  <2>1. \A s \in DOMAIN workers : workers[s].at \in {"send", "copy", "done"} =>
          workers[s].fh \in DOMAIN staging \ {next_fh}
    BY <1>6 DEF WorkersOK, FilesOK
  <2>2. Replaying => replay.entry.staging \in DOMAIN staging \ {next_fh}
    BY <1>6, Zenon DEF ReplayOK, FilesOK
  <2> QED  BY <1>1, <1>5, <2>1, <2>2, Zenon DEF SentOK, Replaying, remote
<1>11. EditsOK'
  <2>1. \A s \in DOMAIN entries : staging'[entries[s].staging] = staging[entries[s].staging]
    BY <1>5, <1>6, Zenon DEF FilesOK
  <2> QED  BY <1>1, <2>1 DEF EditsOK, QueuedFor, remote, user
<1>12. QueueOK' /\ WorkersOK' /\ ReplayOK' /\ FlagsOK'  BY <1>1, ExecutorsAlone, Zenon
<1> QED  BY <1>7, <1>8, <1>9, <1>10, <1>11, <1>12, Zenon

(* A handle whose file is gone leaves nothing behind.                      *)
LEMMA ReleaseUnlinkedIInv ==
  ASSUME IInv, NEW fh \in DOMAIN handles, Release(fh), handles[fh].unlinked PROVE IInv'
<1> USE DEF IInv
<1>1. /\ UNCHANGED <<entries, next_seq, back, unsynced, remote, listed, committed, gen, next_fh,
                     workers, replay, offline, user, used>>
      /\ handles' = Without(handles, {fh}) /\ staging' = Without(staging, {fh})
  BY Zenon DEF Release
<1>2. /\ DOMAIN handles' = DOMAIN handles \ {fh} /\ \A f \in DOMAIN handles' : handles'[f] = handles[f]
      /\ DOMAIN staging' = DOMAIN staging \ {fh} /\ \A f \in DOMAIN staging' : staging'[f] = staging[f]
  BY <1>1, Zenon DEF Without
<1>3. \A s \in DOMAIN entries : entries[s].staging # fh  BY Zenon DEF FilesOK
<1>4. Typed'  BY <1>1, <1>2, Zenon DEF Typed, TypeOK, remote
<1>5. Counted'  BY <1>1, Zenon DEF Counted, user
<1>6. FilesOK'  BY <1>1, <1>2, <1>3, Zenon DEF FilesOK
<1>7. SentOK'
  <2>1. \A s \in DOMAIN workers : workers[s].at \in {"send", "copy", "done"} =>
          workers[s].fh \in DOMAIN staging'
    BY <1>2, <1>3 DEF WorkersOK, FilesOK
  <2>2. Replaying => replay.entry.staging \in DOMAIN staging'
    BY <1>2, <1>3, Zenon DEF ReplayOK, FilesOK
  <2>3. UNCHANGED <<workers, replay, landed, copies>> /\ (replay.at = "done" => Replaying)
    BY <1>1, Zenon DEF remote, Replaying
  <2> QED  BY <1>2, <2>1, <2>2, <2>3, Zenon DEF SentOK
<1>8. EditsOK'
  <2>1. \A s \in DOMAIN entries : staging'[entries[s].staging] = staging[entries[s].staging]
    BY <1>2, <1>3, Zenon DEF FilesOK
  <2> QED  BY <1>1, <2>1, ZenonT(60) DEF EditsOK, QueuedFor, remote, user
<1>9. QueueOK' /\ WorkersOK' /\ ReplayOK' /\ FlagsOK'  BY <1>1, ExecutorsAlone, Zenon
<1> QED  BY <1>4, <1>5, <1>6, <1>7, <1>8, <1>9, Zenon

(* A save is queued last, under its own name, and replaces only uploads of *)
(* the same file that nobody holds.                                        *)
LEMMA ReleaseCommitIInv ==
  ASSUME IInv, NEW fh \in DOMAIN handles, Release(fh), ~handles[fh].unlinked PROVE IInv'
<1> USE DEF IInv
<1> DEFINE h == handles[fh]
           n == Len(saved) + 1
           queued == enqueue(entries, Put(h.path, fh, h.etag), next_seq, back)
           stale == superseded(queued, h.path, next_seq)
           gone == {queued[s].staging : s \in stale}
           new == [op |-> "Put", path |-> h.path, to |-> Root, staging |-> fh, cond |-> h.etag,
                   attempts |-> 0, error |-> FALSE, pos |-> back,
                   in_flight |-> FALSE, retargeted |-> FALSE, dest_fixed |-> FALSE]
           w == Worker("Put", h.path, Root, fh, h.etag, h.gen)
<1>1. /\ entries' = Drop(queued, stale) /\ next_seq' = next_seq + 1 /\ back' = back + 1
      /\ staging' = With(Without(staging, gone), fh, Save(n))
      /\ workers' = IF offline THEN workers ELSE With(workers, next_seq, w)
      /\ \E r : saved' = Append(saved, r)
      /\ want' = IF h.path \in DOMAIN want THEN With(want, h.path, Save(n)) ELSE want
      /\ handles' = Without(handles, {fh})
      /\ UNCHANGED <<unsynced, remote, listed, committed, gen, next_fh, replay, offline, used>>
  BY Zenon DEF Release, commit_released, StartWorker
<1>2. h \in Handle /\ fh \in Nat /\ next_seq \in Nat /\ back \in Nat /\ DOMAIN entries \subseteq Nat
      /\ \A s \in DOMAIN entries : entries[s] \in JournalEntry
  BY Zenon DEF Typed, TypeOK
<1>3. next_seq \notin DOMAIN entries /\ next_seq \notin DOMAIN workers
  BY <1>2, SMTT(30) DEF QueueOK, WorkersOK
<1>4. /\ DOMAIN queued = DOMAIN entries \cup {next_seq} /\ queued[next_seq] = new
      /\ \A s \in DOMAIN entries : queued[s] = entries[s]
  <2> DEFINE put == Put(h.path, fh, h.etag)
  <2>1. put.op = "Put" /\ Fresh(put, back) = new  BY Zenon DEF Put, Fresh
  <2> HIDE DEF put
  <2>2. queued = Appended(entries, put, next_seq, back)  BY <2>1, PutIsAppended, Zenon DEF put
  <2> QED  BY <1>3, <2>1, <2>2, Zenon DEF Appended
<1>5. /\ stale \subseteq DOMAIN entries
      /\ \A s \in stale : ~entries[s].in_flight /\ entries[s].path = h.path
  <2> HIDE DEF queued
  <2>1. DOMAIN queued \subseteq Nat  BY <1>2, <1>4, Zenon
  <2>2. stale \subseteq DOMAIN queued \ {next_seq} /\ \A s \in stale : ~queued[s].in_flight /\ queued[s].path = h.path
    BY <1>2, <2>1, SupersededAreIdle, Zenon
  <2> QED  BY <1>4, <2>2, Zenon
<1>6. gone = {entries[s].staging : s \in stale}
  <2> HIDE DEF queued, stale
  <2>1. \A s \in stale : queued[s].staging = entries[s].staging  BY <1>4, <1>5, Zenon
  <2> QED  BY <2>1, Zenon
<1> HIDE DEF queued, stale, gone
<1>7. /\ DOMAIN entries' = (DOMAIN entries \ stale) \cup {next_seq}
      /\ entries'[next_seq] = new
      /\ \A s \in DOMAIN entries \ stale : entries'[s] = entries[s]
  BY <1>1, <1>3, <1>4, <1>5, Zenon DEF Drop
<1>8. \A s \in DOMAIN entries \ stale : entries[s].staging \notin gone \cup {fh}
                                          /\ entries[s].staging \in DOMAIN staging
  BY <1>5, <1>6, Zenon DEF FilesOK
<1>9. /\ DOMAIN staging' = (DOMAIN staging \ gone) \cup {fh} /\ staging'[fh] = Save(n)
      /\ \A f \in DOMAIN staging \ (gone \cup {fh}) : staging'[f] = staging[f]
  BY <1>1, Zenon DEF With, Without
<1>10. n \in Nat /\ Counted'
  <2>1. PICK S : saved \in Seq(S)  BY Zenon DEF Counted
  <2>2. PICK r : saved' = Append(saved, r)  BY <1>1, Zenon
  <2>3. saved \in Seq(S \cup {r})  BY <2>1
  <2>4. Append(saved, r) \in Seq(S \cup {r}) /\ Len(saved) \in Nat  BY <2>3
  <2> QED  BY <2>2, <2>4 DEF Counted
<1> HIDE DEF n
<1>11. Save(n) \in Contents  BY <1>10, Zenon DEF Save, Contents
<1>12. new \in JournalEntry
  <2>1. Root \in Path  BY DEF Root, Path
  <2> QED  BY <1>2, <2>1, Zenon DEF JournalEntry, Handle, Ops
<1>13. /\ new.op = "Put" /\ new.path = h.path /\ new.staging = fh /\ new.pos = back
       /\ ~new.in_flight /\ ~new.retargeted
  BY Zenon
<1> HIDE DEF new
<1>14. UNCHANGED <<next_fh, replay, landed, copies, unsynced>> /\ Replaying' = Replaying
  BY <1>1, ZenonT(20) DEF remote, Replaying
<1>15. /\ w \in LiveWorker /\ w.op = "Put" /\ w.at = "queued" /\ w.fh = fh
  <2>1. Root \in Path /\ Blank \in Contents  BY DEF Root, Path, Contents
  <2> QED  BY <1>2, <2>1, Zenon DEF Worker, LiveWorker, Handle, Ops, Results, None
<1> HIDE DEF w
<1>16. /\ DOMAIN workers' \subseteq DOMAIN workers \cup {next_seq}
       /\ DOMAIN workers \subseteq DOMAIN workers'
       /\ \A s \in DOMAIN workers : workers'[s] = workers[s]
       /\ next_seq \in DOMAIN workers' => workers'[next_seq] = w
  BY <1>1, <1>3, Zenon DEF With
<1>17. DOMAIN handles' = DOMAIN handles \ {fh} /\ \A f \in DOMAIN handles' : handles'[f] = handles[f]
  BY <1>1, Zenon DEF Without
<1>18. Typed'
  <2>1. DOMAIN entries' \subseteq Nat /\ \A s \in DOMAIN entries' : entries'[s] \in JournalEntry
    BY <1>2, <1>7, <1>12, Zenon
  <2>2. DOMAIN staging' \subseteq Nat /\ \A f \in DOMAIN staging' : staging'[f] \in Contents
    BY <1>2, <1>9, <1>11, Zenon DEF Typed, TypeOK
  <2>3. DOMAIN workers' \subseteq Nat /\ \A s \in DOMAIN workers' : workers'[s] \in LiveWorker
    BY <1>2, <1>15, <1>16, Zenon DEF Typed, TypeOK
  <2>4. DOMAIN handles' \subseteq Nat /\ \A f \in DOMAIN handles' : handles'[f] \in Handle
    BY <1>17, Zenon DEF Typed, TypeOK
  <2>5. {next_seq', back'} \subseteq Nat  BY <1>1, <1>2, SMTT(30)
  <2> QED  BY <1>1, <2>1, <2>2, <2>3, <2>4, <2>5, Zenon DEF Typed, TypeOK, remote
<1>19. QueueOK'
  <2>1. ASSUME NEW s \in DOMAIN entries'
        PROVE  /\ entries'[s].op = "Put" /\ ~entries'[s].retargeted
               /\ s < next_seq' /\ entries'[s].pos < back'
    <3>1. next_seq' = next_seq + 1 /\ back' = back + 1  BY <1>1, Zenon
    <3>2. CASE s = next_seq  BY <1>2, <1>7, <1>13, <3>1, <3>2
    <3>3. CASE s \in DOMAIN entries \ stale
      <4>1. entries'[s] = entries[s] /\ s \in Nat /\ entries[s].pos \in Nat
        BY <1>2, <1>7, <3>3, Zenon DEF JournalEntry
      <4>2. entries[s].op = "Put" /\ ~entries[s].retargeted /\ s < next_seq /\ entries[s].pos < back
        BY <3>3, Zenon DEF QueueOK
      <4> QED  BY <1>2, <3>1, <4>1, <4>2
    <3> QED  BY <1>7, <3>2, <3>3, Zenon
  <2>2. \A s \in DOMAIN entries \ stale : entries'[s].pos < back /\ entries'[s].pos \in Nat
    BY <1>2, <1>7, Zenon DEF QueueOK, JournalEntry
  <2>3. \A s, t \in DOMAIN entries' : s # t => entries'[s].pos # entries'[t].pos
    BY <1>2, <1>7, <1>13, <2>2 DEF QueueOK
  <2> QED  BY <2>1, <2>3, Zenon DEF QueueOK
<1>20. WorkersOK'
  <2>1. \A s \in DOMAIN workers : s \in Nat /\ s < next_seq  BY Zenon DEF WorkersOK, Typed, TypeOK
  <2>0. next_seq' = next_seq + 1  BY <1>1, Zenon
  <2>2. ASSUME NEW s \in DOMAIN workers' PROVE s < next_seq' /\ workers'[s].op = "Put"
    <3>1. CASE s = next_seq  BY <1>2, <1>15, <1>16, <2>0, <3>1, SMTT(30)
    <3>2. CASE s \in DOMAIN workers
      <4>1. workers'[s] = workers[s] /\ workers[s].op = "Put"  BY <1>16, <3>2, Zenon DEF WorkersOK
      <4> QED  BY <1>2, <2>0, <2>1, <3>2, <4>1
    <3> QED  BY <1>16, <3>1, <3>2, Zenon
  <2>3. ASSUME NEW s \in DOMAIN workers', s \in DOMAIN entries' PROVE workers'[s].fh = entries'[s].staging
    <3>1. CASE s = next_seq  BY <1>7, <1>13, <1>15, <1>16, <3>1, Zenon
    <3>2. CASE s \in DOMAIN workers
      <4>1. s # next_seq /\ s \in DOMAIN entries \ stale  BY <1>3, <1>7, <2>3, <3>2, Zenon
      <4>2. entries'[s] = entries[s] /\ workers'[s] = workers[s]  BY <1>7, <1>16, <3>2, <4>1, Zenon
      <4> QED  BY <3>2, <4>1, <4>2, Zenon DEF WorkersOK
    <3> QED  BY <1>16, <3>1, <3>2, Zenon
  <2>4. \A s \in DOMAIN workers' : workers'[s].at # "queued" =>
          s \in DOMAIN entries' /\ entries'[s].in_flight /\ ~(Replaying' /\ replay'.seq = s)
    BY <1>5, <1>7, <1>15, <1>16, <1>14 DEF WorkersOK
  <2> QED  BY <2>2, <2>3, <2>4, Zenon DEF WorkersOK
<1>21. ReplayOK'
  <2> SUFFICES ASSUME Replaying PROVE /\ replay.seq \in DOMAIN entries' /\ entries'[replay.seq].in_flight
                                      /\ Before(entries', replay.seq) = {}
                                      /\ replay.entry.op = "Put"
                                      /\ replay.entry.staging = entries'[replay.seq].staging
    BY <1>14, Zenon DEF ReplayOK
  <2>1. replay.seq \in DOMAIN entries \ stale  BY <1>5, Zenon DEF ReplayOK
  <2>2. \A t \in DOMAIN entries : ~(entries[t].pos < entries[replay.seq].pos)
    BY Zenon DEF ReplayOK, Before
  <2>3. ~(back < entries[replay.seq].pos)  BY <1>2, <2>1 DEF QueueOK, JournalEntry
  <2>4. Before(entries', replay.seq) = {}  BY <1>7, <1>13, <2>1, <2>2, <2>3, Zenon DEF Before
  <2> QED  BY <1>7, <2>1, <2>4, Zenon DEF ReplayOK
<1>22. FlagsOK'
  BY <1>7, <1>16, <1>13, <1>14, Zenon DEF FlagsOK
<1>23. FilesOK'
  <2>1. \A s \in DOMAIN entries' : /\ entries'[s].staging \in DOMAIN staging'
                                   /\ entries'[s].staging \notin DOMAIN handles'
                                   /\ entries'[s].staging < next_fh'
    BY <1>7, <1>8, <1>9, <1>17, <1>13, <1>14, Zenon DEF FilesOK
  <2>2. \A s, t \in DOMAIN entries' : s # t => entries'[s].staging # entries'[t].staging
    BY <1>7, <1>8, <1>13 DEF FilesOK
  <2> QED  BY <1>17, <1>14, <2>1, <2>2, Zenon DEF FilesOK
<1>24. SentOK'
  <2>1. ASSUME NEW s \in DOMAIN workers', workers'[s].at # "queued"
        PROVE  s \in DOMAIN workers /\ workers'[s] = workers[s] /\ staging'[workers[s].fh] = staging[workers[s].fh]
    <3>1. s \in DOMAIN workers /\ workers'[s] = workers[s]  BY <1>15, <1>16, <2>1, Zenon
    <3>2. s \in DOMAIN entries /\ entries[s].in_flight /\ workers[s].fh = entries[s].staging
      BY <2>1, <3>1, Zenon DEF WorkersOK
    <3>3. s \in DOMAIN entries \ stale  BY <1>5, <3>2, Zenon
    <3> QED  BY <1>8, <1>9, <3>1, <3>2, <3>3, Zenon
  <2>2. Replaying => staging'[replay.entry.staging] = staging[replay.entry.staging]
    BY <1>5, <1>8, <1>9, Zenon DEF ReplayOK
  <2>3. replay.at = "done" => Replaying  BY Zenon DEF Replaying
  <2> QED  BY <1>14, <2>1, <2>2, <2>3, SMTT(60) DEF SentOK
<1>25. EditsOK'
  <2> SUFFICES ASSUME NEW p \in DOMAIN want', want'[p][1] = "save"
               PROVE  QueuedFor(p)' \/ want'[p] \in (landed \cup copies \cup unsynced)'
    BY Zenon DEF EditsOK
  <2>1. CASE p = h.path /\ h.path \in DOMAIN want
    <3>1. want'[p] = Save(n)  BY <1>1, <2>1, Zenon DEF With
    <3>2. entries'[next_seq].path = p /\ staging'[entries'[next_seq].staging] = want'[p]
      BY <1>7, <1>9, <1>13, <2>1, <3>1, Zenon
    <3> QED  BY <1>7, <3>2, Zenon DEF QueuedFor
  <2>2. CASE ~(p = h.path /\ h.path \in DOMAIN want)
    <3>1. p \in DOMAIN want /\ want'[p] = want[p] /\ p # h.path
      BY <1>1, <2>2, Zenon DEF With
    <3>2. CASE want[p] \in landed \cup copies \cup unsynced
      <4>1. landed' = landed /\ copies' = copies /\ unsynced' = unsynced  BY <1>14, Zenon
      <4>2. (landed \cup copies \cup unsynced)' = landed \cup copies \cup unsynced  BY <4>1, Zenon
      <4>3. want'[p] \in (landed \cup copies \cup unsynced)'  BY <3>1, <3>2, <4>2, Zenon
      <4> QED  BY <4>3, Zenon
    <3>3. CASE QueuedFor(p)
      <4>1. PICK s \in DOMAIN entries : entries[s].path = p /\ staging[entries[s].staging] = want[p]
        BY <3>3, Zenon DEF QueuedFor
      <4>2. s \in DOMAIN entries \ stale  BY <1>5, <3>1, <4>1, Zenon
      <4>3. staging'[entries[s].staging] = staging[entries[s].staging]  BY <1>8, <1>9, <4>2, Zenon
      <4> QED  BY <1>7, <3>1, <4>1, <4>2, <4>3, Zenon DEF QueuedFor
    <3> QED  BY <3>1, <3>2, <3>3, Zenon DEF EditsOK
  <2> QED  BY <2>1, <2>2, Zenon
<1> QED  BY <1>10, <1>18, <1>19, <1>20, <1>21, <1>22, <1>23, <1>24, <1>25, Zenon

-----------------------------------------------------------------------------
(***************************************************************************)
(* The live workers' steps keep the invariant.                             *)
(***************************************************************************)

(* A worker that has claimed its upload is the only one to have it.        *)
LEMMA Claimed ==
  ASSUME IInv, NEW s \in DOMAIN workers, workers[s].at # "queued"
  PROVE  /\ s \in DOMAIN entries /\ entries[s].in_flight /\ ~(Replaying /\ replay.seq = s)
         /\ workers[s].fh = entries[s].staging
         /\ workers[s].fh \in DOMAIN staging /\ staging[workers[s].fh] \in Contents
         /\ workers[s] \in LiveWorker
BY DEF IInv, WorkersOK, FilesOK, Typed, TypeOK

(* A worker claims an upload nobody has, or ends.                          *)
LEMMA PutClaimIInv ==
  ASSUME IInv, NEW s \in DOMAIN workers, PutClaim(s) PROVE IInv'
<1> USE DEF IInv
<1>1. /\ UNCHANGED <<next_seq, back, staging, unsynced, remote, listed, committed, gen, handles, next_fh,
                     replay, offline, user, used>>
      /\ workers[s].at = "queued"
  BY Zenon DEF PutClaim
<1>2. /\ \A t \in DOMAIN entries : entries[t] \in JournalEntry /\ entries[t].staging \in DOMAIN staging
      /\ workers[s] \in LiveWorker
  BY Zenon DEF Typed, TypeOK, FilesOK
<1>3. CASE claimable(entries, s)
  <2>1. s \in DOMAIN entries /\ ~entries[s].in_flight /\ ~(Replaying /\ replay.seq = s)
    BY <1>3, Zenon DEF claimable, ReplayOK
  <2> DEFINE cond == etag_for(workers[s].path, workers[s].gen, workers[s].cond)
  <2>2. entries' = claim(entries, s)
        /\ workers' = [workers EXCEPT ![s] = [workers[s] EXCEPT !.at = "settle", !.cond = cond]]
    BY <1>3, Zenon DEF PutClaim
  <2>3. cond \in Nat  BY <1>2, Zenon DEF etag_for, Typed, LiveWorker
  <2> HIDE DEF cond
  <2>4. /\ DOMAIN entries' = DOMAIN entries /\ \A t \in DOMAIN entries : Same(entries[t], entries'[t])
        /\ \A t \in DOMAIN entries \ {s} : entries'[t] = entries[t]
        /\ entries'[s].in_flight
    BY <1>2, <2>1, <2>2, ClaimKeeps, Zenon
  <2>5. /\ DOMAIN workers' = DOMAIN workers /\ workers'[s] \in LiveWorker
        /\ workers'[s].at = "settle" /\ workers'[s].op = workers[s].op /\ workers'[s].fh = workers[s].fh
        /\ \A t \in DOMAIN workers \ {s} : workers'[t] = workers[t]
    BY <1>2, <2>2, <2>3, Zenon DEF LiveWorker
  <2>6. Typed'
    <3>1. \A t \in DOMAIN entries' : entries'[t] \in JournalEntry  BY <2>4, Zenon DEF Same
    <3>2. \A t \in DOMAIN workers' : workers'[t] \in LiveWorker  BY <2>5, Zenon DEF Typed, TypeOK
    <3> QED  BY <1>1, <2>4, <2>5, <3>1, <3>2, Zenon DEF Typed, TypeOK, remote
  <2>7. Counted' /\ QueueOK' /\ FilesOK' /\ EditsOK'
    <3>1. \A t \in DOMAIN entries : t < next_seq  BY Zenon DEF QueueOK
    <3> QED  BY <1>1, <1>2, <2>4, <3>1, QueueCarried, Zenon DEF remote
  <2>8. WorkersOK' /\ ReplayOK' /\ FlagsOK' /\ SentOK'
    <3>1. workers[s].op = "Put"  BY Zenon DEF PutClaim
    <3> QED  BY <1>1, <2>1, <2>4, <2>5, <3>1, WorkerStep, Zenon DEF remote
  <2> QED  BY <2>6, <2>7, <2>8, Zenon
<1>4. CASE ~claimable(entries, s)
  <2>1. entries' = entries /\ workers' = Without(workers, {s})  BY <1>4, Zenon DEF PutClaim
  <2>2. /\ DOMAIN workers' = DOMAIN workers \ {s} /\ \A t \in DOMAIN workers' : workers'[t] = workers[t]
    BY <2>1, Zenon DEF Without
  <2>3. Typed'  BY <1>1, <2>1, <2>2, Zenon DEF Typed, TypeOK, remote
  <2>4. \A t \in DOMAIN entries : Same(entries[t], entries'[t])  BY <1>2, <2>1, Zenon DEF Same
  <2>5. Counted' /\ QueueOK' /\ FilesOK' /\ EditsOK'
    <3>1. \A t \in DOMAIN entries : t < next_seq  BY Zenon DEF QueueOK
    <3> QED  BY <1>1, <1>2, <2>1, <2>4, <3>1, QueueCarried, Zenon DEF remote
  <2>6. WorkersOK' /\ ReplayOK' /\ FlagsOK' /\ SentOK'
    BY <1>1, <2>1, <2>2, <2>4, WorkerStep, Zenon DEF remote
  <2> QED  BY <2>3, <2>5, <2>6, Zenon
<1> QED  BY <1>3, <1>4, Zenon

(* An upload no rename has moved goes where it was saved.                  *)
LEMMA PutSettleIInv ==
  ASSUME IInv, NEW s \in DOMAIN workers, PutSettle(s) PROVE IInv'
<1> USE DEF IInv
<1>1. UNCHANGED <<next_seq, back, unsynced, remote, listed, committed, gen, handles, next_fh,
                  replay, offline, user>>
      /\ workers[s].op = "Put" /\ workers[s].at = "settle"
  BY Zenon DEF PutSettle
<1>2. /\ s \in DOMAIN entries /\ entries[s].in_flight /\ ~(Replaying /\ replay.seq = s)
      /\ workers[s].fh \in DOMAIN staging /\ staging[workers[s].fh] \in Contents
      /\ workers[s] \in LiveWorker
  BY <1>1, Claimed, Zenon
<1>3. ~entries[s].retargeted /\ Settled(entries, s) = "Go"  BY <1>2, Zenon DEF QueueOK, Settled
<1>4. entries' = [entries EXCEPT ![s].dest_fixed = TRUE] /\ UNCHANGED <<staging, used>>
  BY <1>3, Zenon DEF PutSettle
<1>11. workers' = [workers EXCEPT ![s] =
         [workers[s] EXCEPT !.at = "send", !.data = staging[workers[s].fh],
                            !.named = IF entries[s].retargeted THEN entries[s].path ELSE workers[s].named,
                            !.cond = IF entries[s].retargeted THEN entries[s].cond ELSE workers[s].cond]]
  BY <1>3, Zenon DEF PutSettle
<1>5. \A t \in DOMAIN entries : entries[t] \in JournalEntry /\ entries[t].staging \in DOMAIN staging
  BY Zenon DEF Typed, TypeOK, FilesOK
<1>6. /\ DOMAIN entries' = DOMAIN entries /\ \A t \in DOMAIN entries : Same(entries[t], entries'[t])
      /\ \A t \in DOMAIN entries \ {s} : entries'[t] = entries[t]
      /\ entries'[s].in_flight
  BY <1>2, <1>4, <1>5, Zenon DEF Same, JournalEntry
<1>7. /\ DOMAIN workers' = DOMAIN workers /\ workers'[s] \in LiveWorker
      /\ workers'[s].at = "send" /\ workers'[s].op = workers[s].op /\ workers'[s].fh = workers[s].fh
      /\ workers'[s].data = staging[workers[s].fh]
      /\ \A t \in DOMAIN workers \ {s} : workers'[t] = workers[t]
  BY <1>2, <1>3, <1>11, Zenon DEF LiveWorker
<1>8. Typed'
  <2>1. \A t \in DOMAIN entries' : entries'[t] \in JournalEntry  BY <1>6, Zenon DEF Same
  <2>2. \A t \in DOMAIN workers' : workers'[t] \in LiveWorker  BY <1>7, Zenon DEF Typed, TypeOK
  <2> QED  BY <1>1, <1>4, <1>6, <1>7, <2>1, <2>2, Zenon DEF Typed, TypeOK, remote
<1>9. Counted' /\ QueueOK' /\ FilesOK' /\ EditsOK'
  <2>1. \A t \in DOMAIN entries : t < next_seq  BY Zenon DEF QueueOK
  <2> QED  BY <1>1, <1>4, <1>5, <1>6, <2>1, QueueCarried, Zenon DEF remote
<1>10. WorkersOK' /\ ReplayOK' /\ FlagsOK' /\ SentOK'
  BY <1>1, <1>2, <1>4, <1>6, <1>7, WorkerStep, Zenon DEF remote
<1> QED  BY <1>8, <1>9, <1>10, Zenon

(* The PUT and the PUT of a conflicted copy: the server and what the       *)
(* worker was told change, and nothing else.                               *)
LEMMA SendIInv ==
  ASSUME IInv, NEW s \in DOMAIN workers, workers[s].op = "Put", workers[s].at \in {"send", "copy"},
         NEW w \in LiveWorker, workers' = [workers EXCEPT ![s] = w],
         w.op = "Put", w.fh = workers[s].fh, w.data = workers[s].data, w.at \in {"copy", "done"},
         UNCHANGED <<journal, listed, committed, gen, handles, next_fh, replay, offline, user>>,
         clock' \in Nat, \A q \in DOMAIN server' : server'[q] \in Version,
         used' \in [ops: Nat, faults: Nat, foreign: Nat, restarts: Nat, odd: Nat],
         landed \subseteq landed', copies \subseteq copies',
         w.result = "ok" => w.data \in landed', w.result = "copied" => w.data \in copies'
  PROVE  IInv'
<1> USE DEF IInv
<1>1. /\ s \in DOMAIN entries /\ entries[s].in_flight /\ ~(Replaying /\ replay.seq = s)
      /\ workers[s].data = staging[workers[s].fh]
  BY Claimed, Zenon DEF SentOK
<1>2. /\ DOMAIN workers' = DOMAIN workers /\ workers'[s] = w
      /\ \A t \in DOMAIN workers \ {s} : workers'[t] = workers[t]
  BY Zenon
<1>3. Typed'
  <2>1. \A t \in DOMAIN workers' : workers'[t] \in LiveWorker  BY <1>2, Zenon DEF Typed, TypeOK
  <2> QED  BY <1>2, <2>1 DEF Typed, TypeOK, journal
<1>4. \A t \in DOMAIN entries : /\ Same(entries[t], entries'[t]) /\ t < next_seq'
                                /\ entries[t].staging \in DOMAIN staging'
  BY Zenon DEF Typed, TypeOK, FilesOK, QueueOK, Same, journal
<1>5. Counted' /\ QueueOK' /\ FilesOK' /\ EditsOK'
  BY <1>4, QueueCarried, Zenon DEF journal
<1>6. WorkersOK' /\ ReplayOK' /\ FlagsOK' /\ SentOK'
  BY <1>1, <1>2, <1>4, WorkerStep, Zenon DEF journal
<1> QED  BY <1>3, <1>5, <1>6, Zenon

(* The worker's PUT.                                                       *)
LEMMA PutSendIInv ==
  ASSUME IInv, NEW s \in DOMAIN workers, PutSend(s) PROVE IInv'
<1> DEFINE w == workers[s]
<1>1. UNCHANGED <<journal, listed, committed, gen, handles, next_fh, replay, offline, user>>
      /\ w.op = "Put" /\ w.at = "send"
  BY Zenon DEF PutSend
<1>2. PICK o \in PutRequest(w.named, w.data, w.cond) :
        /\ Serve(o)
        /\ workers' = [workers EXCEPT ![s] = [w EXCEPT !.at = IF o.result = "conflict" THEN "copy" ELSE "done",
                                                       !.result = o.result, !.etag = o.etag]]
  BY ZenonT(60) DEF PutSend
<1>3. w \in LiveWorker /\ w.data \in Contents  BY Zenon DEF IInv, Typed, TypeOK, LiveWorker
<1>4. Typed  BY Zenon DEF IInv
<1>5. /\ landed \subseteq landed' /\ copies \subseteq copies' /\ clock' \in Nat
      /\ \A q \in DOMAIN server' : server'[q] \in Version
      /\ o.result \in Results \ {"copied"} /\ o.etag \in Nat
      /\ o.result = "ok" => w.data \in landed'
      /\ used' \in [ops: Nat, faults: Nat, foreign: Nat, restarts: Nat, odd: Nat]
  BY <1>2, <1>3, <1>4, PutServed, Zenon
<1> DEFINE v == [w EXCEPT !.at = IF o.result = "conflict" THEN "copy" ELSE "done",
                          !.result = o.result, !.etag = o.etag]
<1>6. /\ v \in LiveWorker /\ v.op = w.op /\ v.fh = w.fh /\ v.data = w.data /\ v.at \in {"copy", "done"}
      /\ v.result = o.result
  BY <1>3, <1>5, Zenon DEF LiveWorker
<1>7. workers' = [workers EXCEPT ![s] = v]  BY <1>2, Zenon
<1> HIDE DEF v
<1> QED  BY <1>1, <1>5, <1>6, <1>7, SendIInv, Zenon

(* The worker's PUT of a conflicted copy.                                  *)
LEMMA PutCopyIInv ==
  ASSUME IInv, NEW s \in DOMAIN workers, PutCopy(s) PROVE IInv'
<1> DEFINE w == workers[s]
<1>1. UNCHANGED <<journal, mount, replay, offline, user>>
      /\ w.op = "Put" /\ w.at = "copy"
  BY Zenon DEF PutCopy
<1>2. PICK o \in CopyRequest(w.named, w.data) :
        /\ Serve(o)
        /\ workers' = [workers EXCEPT ![s] = [w EXCEPT !.at = "done",
             !.result = IF o.result = "network" THEN "busy" ELSE o.result]]
  BY Zenon DEF PutCopy
<1>3. w \in LiveWorker /\ w.data \in Contents  BY Zenon DEF IInv, Typed, TypeOK, LiveWorker
<1>4. Typed  BY Zenon DEF IInv
<1>5. /\ landed \subseteq landed' /\ copies \subseteq copies' /\ clock' \in Nat
      /\ \A q \in DOMAIN server' : server'[q] \in Version
      /\ o.result \in Results \ {"ok"}
      /\ o.result = "copied" => w.data \in copies'
      /\ used' \in [ops: Nat, faults: Nat, foreign: Nat, restarts: Nat, odd: Nat]
  <2>1. /\ landed' = landed /\ copies \subseteq copies' /\ clock' = clock /\ server' = server
        /\ o.result \in Results \ {"ok"}
        /\ o.result = "copied" => w.data \in copies'
        /\ used' \in [ops: Nat, faults: Nat, foreign: Nat, restarts: Nat, odd: Nat]
    BY <1>2, <1>4, CopyServed, Zenon
  <2> QED  BY <1>4, <2>1, Zenon DEF Typed, TypeOK
<1> DEFINE v == [w EXCEPT !.at = "done", !.result = IF o.result = "network" THEN "busy" ELSE o.result]
<1>6. /\ v \in LiveWorker /\ v.op = w.op /\ v.fh = w.fh /\ v.data = w.data /\ v.at = "done"
      /\ v.result # "ok" /\ (v.result = "copied" => o.result = "copied")
  BY <1>3, <1>5, Zenon DEF LiveWorker, Results
<1>7. workers' = [workers EXCEPT ![s] = v]  BY <1>2, Zenon
<1> HIDE DEF v
<1> QED  BY <1>1, <1>5, <1>6, <1>7, SendIInv, Zenon DEF mount

(* A worker ends: its upload waits for replay, or is gone with its bytes   *)
(* safe.                                                                   *)
LEMMA FinishIInv ==
  ASSUME IInv, NEW s \in DOMAIN workers, workers[s].at = "done", workers' = Without(workers, {s}),
         UNCHANGED <<next_seq, back, unsynced, remote, handles, next_fh, replay, user, used>>,
         offline' \in BOOLEAN, gen' \in Nat,
         \A p \in DOMAIN committed' : committed'[p] \in [gen: Nat, etag: Nat],
         DOMAIN listed' \subseteq Path, \A p \in DOMAIN listed' : listed'[p] \in Listing,
         DOMAIN entries' \subseteq DOMAIN entries, DOMAIN entries \ {s} \subseteq DOMAIN entries',
         \A t \in DOMAIN entries' : Same(entries[t], entries'[t]),
         \A t \in DOMAIN entries \ {s} : entries'[t].in_flight = entries[t].in_flight,
         \/ s \in DOMAIN entries' /\ ~entries'[s].in_flight /\ UNCHANGED staging
         \/ /\ s \notin DOMAIN entries' /\ staging' = Without(staging, {workers[s].fh})
            /\ workers[s].data \in landed \cup copies
  PROVE  IInv'
<1> USE DEF IInv
<1>1. /\ s \in DOMAIN entries /\ entries[s].in_flight /\ ~(Replaying /\ replay.seq = s)
      /\ workers[s].fh = entries[s].staging
      /\ workers[s].data = staging[workers[s].fh]
  BY Claimed, Zenon DEF SentOK
<1>2. /\ DOMAIN workers' = DOMAIN workers \ {s} /\ \A t \in DOMAIN workers' : workers'[t] = workers[t]
  BY Zenon DEF Without
<1>3. /\ \A f \in DOMAIN staging' : f \in DOMAIN staging /\ staging'[f] = staging[f]
      /\ \A t \in DOMAIN entries' : entries[t].staging \in DOMAIN staging'
  BY <1>1, Zenon DEF Without, FilesOK
<1>4. Typed'
  <2>1. \A t \in DOMAIN entries' : entries'[t] \in JournalEntry  BY Zenon DEF Same
  <2>2. {next_seq', back', clock', gen', next_fh'} \subseteq Nat  BY DEF Typed, TypeOK, remote
  <2>3. TypeOK'  BY <1>2, <1>3, <2>1, <2>2, Zenon DEF Typed, TypeOK, remote
  <2> QED  BY <2>3, Zenon DEF Typed, remote
<1>5. Counted' /\ QueueOK' /\ FilesOK' /\ EditsOK'
  <2>1. \A t \in DOMAIN entries : t < next_seq'  BY Zenon DEF QueueOK
  <2>2. \A t \in DOMAIN entries \ DOMAIN entries' : staging[entries[t].staging] \in landed \cup copies
    BY <1>1, Zenon
  <2> QED  BY <1>3, <2>1, <2>2, QueueCarried, Zenon DEF remote
<1>6. WorkersOK' /\ ReplayOK' /\ FlagsOK' /\ SentOK'
  BY <1>1, <1>2, <1>3, WorkerStep, Zenon DEF remote
<1> QED  BY <1>4, <1>5, <1>6, Zenon

(* A worker's end, for each answer.                                        *)
LEMMA PutDoneIInv ==
  ASSUME IInv, NEW s \in DOMAIN workers, PutDone(s) PROVE IInv'
<1> USE DEF IInv
<1> DEFINE w == workers[s]
<1>1. /\ UNCHANGED <<next_seq, back, unsynced, remote, handles, next_fh, replay, user, used>>
      /\ w.at = "done" /\ workers' = Without(workers, {s})
  BY Zenon DEF PutDone
<1>2. s \in DOMAIN entries /\ w \in LiveWorker  BY <1>1, Claimed, Zenon
<1>3. \A t \in DOMAIN entries : entries[t] \in JournalEntry /\ Same(entries[t], entries[t])
  BY Zenon DEF Typed, TypeOK, Same
<1>4. /\ offline \in BOOLEAN /\ gen \in Nat
      /\ \A p \in DOMAIN committed : committed[p] \in [gen: Nat, etag: Nat]
      /\ DOMAIN listed \subseteq Path /\ \A p \in DOMAIN listed : listed[p] \in Listing
  BY Zenon DEF Typed, TypeOK
<1>5. /\ DOMAIN remove(entries, s) = DOMAIN entries \ {s}
      /\ \A t \in DOMAIN entries \ {s} : remove(entries, s)[t] = entries[t]
  BY RemoveKeeps, Zenon
<1>6. CASE w.result = "ok"
  <2>1. takers(entries, w.named) = {}  BY Zenon DEF takers, QueueOK
  <2>2. hand_staging_to_rename(entries, w.named, w.fh) = entries  BY <2>1, Zenon DEF hand_staging_to_rename
  <2> DEFINE es == remove(entries, s)
  <2>3. /\ entries' = rebase(es, w.named, w.cond, w.etag)
        /\ staging' = Without(staging, {w.fh}) /\ offline' = offline
        /\ gen' = gen + 1 /\ committed' = With(committed, w.named, [gen |-> gen', etag |-> w.etag])
        /\ listed' = IF w.named \in DOMAIN listed
                     THEN [listed EXCEPT ![w.named].etag = w.etag, ![w.named].data = w.data] ELSE listed
    BY <1>6, <2>1, <2>2, Zenon DEF PutDone
  <2>4. \A t \in DOMAIN es : es[t] \in JournalEntry  BY <1>3, <1>5, Zenon
  <2>5. w.etag \in Nat /\ w.data \in Contents  BY <1>2, Zenon DEF LiveWorker
  <2> HIDE DEF es
  <2>6. /\ DOMAIN entries' = DOMAIN es
        /\ \A t \in DOMAIN es : Same(es[t], entries'[t]) /\ entries'[t].in_flight = es[t].in_flight
    BY <2>3, <2>4, <2>5, RebaseKeeps
  <2>7. gen' \in Nat /\ \A p \in DOMAIN committed' : committed'[p] \in [gen: Nat, etag: Nat]
    BY <1>4, <2>3, <2>5 DEF With
  <2>8. DOMAIN listed' \subseteq Path /\ \A p \in DOMAIN listed' : listed'[p] \in Listing
    BY <1>4, <2>3, <2>5 DEF Listing
  <2>9. w.data \in landed  BY <1>1, <1>6, Zenon DEF SentOK
  <2>10. /\ DOMAIN entries' = DOMAIN entries \ {s}
         /\ \A t \in DOMAIN entries' : Same(entries[t], entries'[t])
                                        /\ entries'[t].in_flight = entries[t].in_flight
    BY <1>5, <2>6, Zenon DEF es
  <2> QED  BY <1>1, <1>2, <1>4, <2>3, <2>7, <2>8, <2>9, <2>10, FinishIInv, Zenon
<1>7. CASE w.result = "copied"
  <2>1. /\ entries' = remove(entries, s) /\ staging' = Without(staging, {w.fh})
        /\ UNCHANGED <<listed, committed, gen, offline>>
    BY <1>7, Zenon DEF PutDone
  <2>2. w.data \in copies  BY <1>1, <1>7, Zenon DEF SentOK
  <2>3. DOMAIN entries' = DOMAIN entries \ {s} /\ \A t \in DOMAIN entries' : entries'[t] = entries[t]
    BY <1>5, <2>1, Zenon
  <2> QED  BY <1>1, <1>3, <1>4, <2>1, <2>2, <2>3, FinishIInv, Zenon
<1>8. CASE w.result \notin {"ok", "copied"}
  <2>1. /\ UNCHANGED <<staging, listed, committed, gen>> /\ offline' \in BOOLEAN
        /\ entries' \in {mark_deferred(entries, s), mark_failed(entries, s)}
    BY <1>4, <1>8, Zenon DEF PutDone
  <2>2. /\ DOMAIN entries' = DOMAIN entries /\ \A t \in DOMAIN entries : Same(entries[t], entries'[t])
        /\ \A t \in DOMAIN entries \ {s} : entries'[t] = entries[t]
        /\ ~entries'[s].in_flight
    <3>1. CASE entries' = mark_deferred(entries, s)  BY <1>2, <1>3, <3>1, DeferKeeps, Zenon
    <3>2. CASE entries' = mark_failed(entries, s)  BY <1>2, <1>3, <3>2, FailKeeps, Zenon
    <3> QED  BY <2>1, <3>1, <3>2, Zenon
  <2> QED  BY <1>1, <1>2, <1>4, <2>1, <2>2, FinishIInv, Zenon
<1> QED  BY <1>6, <1>7, <1>8, Zenon
=============================================================================
