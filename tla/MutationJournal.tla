-------------------------- MODULE MutationJournal --------------------------
(***************************************************************************)
(* The queue of server mutations that survives a restart:                  *)
(* src/ncrs_core/src/mutation_journal.rs.  This module is the journal's    *)
(* value and what each of its methods makes of it; UploadSync composes     *)
(* those methods into the handlers, workers and replay that call them.     *)
(*                                                                         *)
(* `entries` maps a sequence number to its entry.  The VecDeque's order is *)
(* the field `pos`: push_back takes the next position, `back`.  A path is  *)
(* the sequence of its names, << >> the mount's root.  A staging file is   *)
(* named by the handle that wrote it (write_<fh>), an etag by a number;    *)
(* None is a missing Option.  FinishChunked is left out: with respect to   *)
(* this queue it is a Put.                                                 *)
(***************************************************************************)
EXTENDS Integers, FiniteSets, Sequences

CONSTANTS Names,        \* the names files and folders have
          MaxAttempts   \* MAX_ATTEMPTS: rejections after which replay gives up

ASSUME AttemptsAssumption == MaxAttempts \in Nat \ {0}

None == 0

Path == Seq(Names)
Root == << >>

Ops == {"Put", "MkDir", "Unlink", "RmDir", "Rename"}

(***************************************************************************)
(* JournalEntry with its MutationOp: `to` is Root but for a Rename,        *)
(* `staging` is None but for a Put and a Rename holding a copy, `cond` is  *)
(* if_match_etag or if_match, `error` is last_error.is_some().  The three  *)
(* flags are not persisted.                                                *)
(***************************************************************************)
JournalEntry == [op: Ops, path: Path, to: Path, staging: Nat, cond: Nat,
                 attempts: Nat, error: BOOLEAN, pos: Nat,
                 in_flight: BOOLEAN, retargeted: BOOLEAN, dest_fixed: BOOLEAN]

Put(path, staging, cond) ==
  [op |-> "Put", path |-> path, to |-> Root, staging |-> staging, cond |-> cond]
Change(op, path) ==
  [op |-> op, path |-> path, to |-> Root, staging |-> None, cond |-> None]
Rename(from, to, cond) ==
  [op |-> "Rename", path |-> from, to |-> to, staging |-> None, cond |-> cond]

-----------------------------------------------------------------------------
(* Paths and what an operation means for one.                              *)

starts_with(path, prefix) ==
  /\ Len(prefix) <= Len(path)
  /\ SubSeq(path, 1, Len(prefix)) = prefix

rewrite(path, old, new) ==
  IF starts_with(path, old) THEN new \o SubSeq(path, Len(old) + 1, Len(path)) ELSE path

is_upload_of(e, path) == e.op = "Put" /\ e.path = path

touches(e, path) ==
  \/ e.op \in {"Put", "Unlink"} /\ e.path = path
  \/ e.op \in {"MkDir", "RmDir"} /\ starts_with(path, e.path)
  \/ e.op = "Rename" /\ (starts_with(path, e.path) \/ starts_with(path, e.to))

replaces(e, path) ==
  \/ e.op \in {"Put", "Unlink"} /\ e.path = path
  \/ e.op = "RmDir" /\ starts_with(path, e.path)
  \/ e.op = "Rename" /\ starts_with(path, e.to)

-----------------------------------------------------------------------------
(* Reading the queue.                                                      *)

Empty == [s \in {} |-> None]

Before(es, s) == {t \in DOMAIN es : es[t].pos < es[s].pos}
Behind(es, s) == {t \in DOMAIN es : es[t].pos > es[s].pos}

peek_front(es) == CHOOSE s \in DOMAIN es : Before(es, s) = {}
Newest(es, S) == CHOOSE s \in S : Behind(es, s) \cap S = {}

uploads_of(es, path) == {s \in DOMAIN es : is_upload_of(es[s], path)}
has_pending_put(es, path) == uploads_of(es, path) # {}

(***************************************************************************)
(* Where a reader finds the newest content of `path` still queued.  At     *)
(* entry s the search looks for `path` and for the name every newer rename *)
(* onto it gave; the newest entry that settles the question answers: a     *)
(* Put under one of those names or a rename's copy with its staging file,  *)
(* a delete (unless the file was renamed onto the path since) with None.   *)
(***************************************************************************)
pending_upload(es, path) ==
  LET onto(s) == {t \in Behind(es, s) : es[t].op = "Rename" /\ starts_with(path, es[t].to)}
      names(s) == {path} \cup {rewrite(path, es[t].to, es[t].path) : t \in onto(s)}
      found(s) == \/ es[s].op = "Put" /\ es[s].path \in names(s)
                  \/ es[s].op = "Rename" /\ es[s].to = path /\ es[s].staging # None
      gone(s) == /\ onto(s) = {}
                 /\ \/ es[s].op = "Unlink" /\ es[s].path = path
                    \/ es[s].op = "RmDir" /\ starts_with(path, es[s].path)
      settling == {s \in DOMAIN es : found(s) \/ gone(s)}
  IN IF settling = {} THEN None ELSE es[Newest(es, settling)].staging

(***************************************************************************)
(* The version of `path` the newest change queued for it was based on;     *)
(* `listed` when nothing is queued for it.                                 *)
(***************************************************************************)
pending_base(es, path, listed) ==
  LET changing == {s \in DOMAIN es : replaces(es[s], path)}
  IN IF changing = {} THEN listed
     ELSE LET e == es[Newest(es, changing)] IN IF e.op = "Put" THEN e.cond ELSE None

-----------------------------------------------------------------------------
(* What each method makes of the queue.                                    *)

Drop(es, gone) == [s \in DOMAIN es \ gone |-> es[s]]
remove(es, seq) == Drop(es, {seq})
dequeue_front(es) == IF DOMAIN es = {} THEN es ELSE remove(es, peek_front(es))

(* The entries a new op makes pointless: an Unlink with no upload of the   *)
(* path based on a server version, and an RmDir.                           *)
coalesced(es, new) ==
  CASE new.op = "Unlink" /\ \A s \in uploads_of(es, new.path) : es[s].cond = None
         -> uploads_of(es, new.path)
              \cup {s \in DOMAIN es : es[s].op = "MkDir" /\ es[s].path = new.path}
    [] new.op = "RmDir"
         -> {s \in DOMAIN es : es[s].op = "MkDir" /\ es[s].path = new.path}
    [] OTHER -> {}

(* A rename re-points what is queued and not held by a worker; an upload   *)
(* it moves onto its own destination takes over its condition.             *)
Repointed(e, new) ==
  LET moved == [e EXCEPT !.path = rewrite(@, new.path, new.to),
                         !.to = rewrite(@, new.path, new.to)]
  IN IF e.in_flight \/ e.retargeted THEN e
     ELSE IF is_upload_of(moved, new.to) /\ moved.cond = None THEN [moved EXCEPT !.cond = new.cond]
     ELSE moved

enqueue(es, new, seq, pos) ==
  LET kept == Drop(es, coalesced(es, new))
      entry == [op |-> new.op, path |-> new.path, to |-> new.to, staging |-> new.staging,
                cond |-> new.cond, attempts |-> 0, error |-> FALSE, pos |-> pos,
                in_flight |-> FALSE, retargeted |-> FALSE, dest_fixed |-> FALSE]
  IN [s \in DOMAIN kept \cup {seq} |->
        IF s = seq THEN entry
        ELSE IF new.op = "Rename" THEN Repointed(kept[s], new) ELSE kept[s]]

(* Mutants of superseded: the newest upload itself goes too; an upload     *)
(* that is being sent goes too.                                            *)
superseded_Newest(es, path, newest) ==
  {s \in uploads_of(es, path) : s <= newest /\ ~es[s].in_flight}
superseded_InFlight(es, path, newest) == {s \in uploads_of(es, path) : s < newest}

(* Uploads of `path` older than `newest` that nobody is sending.           *)
superseded(es, path, newest) ==
  {s \in uploads_of(es, path) : s < newest /\ ~es[s].in_flight}

(* Mutant of claimable: an entry already claimed is claimed again.         *)
claimable_Twice(es, seq) == seq \in DOMAIN es

claimable(es, seq) == seq \in DOMAIN es /\ ~es[seq].in_flight
claim(es, seq) == [es EXCEPT ![seq].in_flight = TRUE]

(* Mutants of mark_deferred: the claim stays; the entry goes.              *)
mark_deferred_Claimed(es, seq) ==
  IF seq \notin DOMAIN es THEN es ELSE [es EXCEPT ![seq].error = TRUE]
mark_deferred_Dropped(es, seq) == remove(es, seq)

mark_deferred(es, seq) ==
  IF seq \notin DOMAIN es THEN es
  ELSE [es EXCEPT ![seq].error = TRUE, ![seq].in_flight = FALSE, ![seq].dest_fixed = FALSE]

(* Mutant of mark_failed: attempts are counted down.                       *)
mark_failed_Down(es, seq) ==
  IF seq \notin DOMAIN es THEN es
  ELSE [mark_deferred(es, seq) EXCEPT ![seq].attempts = @ - 1]

mark_failed(es, seq) ==
  IF seq \notin DOMAIN es THEN es
  ELSE [mark_deferred(es, seq) EXCEPT ![seq].attempts = @ + 1]

(* `path` went from version `sent` to `new`: what was based on `sent` is   *)
(* based on `new`.                                                         *)
rebase(es, path, sent, new) ==
  LET based(e) == e.cond = sent /\ (is_upload_of(e, path) \/ (e.op = "Rename" /\ e.to = path))
  IN IF sent = None THEN es
     ELSE [s \in DOMAIN es |-> IF based(es[s]) THEN [es[s] EXCEPT !.cond = new] ELSE es[s]]

(* The rename that takes a finished upload's bytes as its destination's    *)
(* copy, if one is queued without a copy.                                  *)
takers(es, path) == {s \in DOMAIN es : es[s].op = "Rename" /\ es[s].path = path /\ es[s].staging = None}
hand_staging_to_rename(es, path, staging) ==
  IF takers(es, path) = {} THEN es
  ELSE LET first == CHOOSE s \in takers(es, path) : Before(es, s) \cap takers(es, path) = {}
       IN [es EXCEPT ![first].staging = staging]

retargetable(es, from) ==
  \E s \in DOMAIN es :
    /\ uploads_of(es, from) = {s}
    /\ ~es[s].dest_fixed
    /\ es[s].cond = None
    /\ \A t \in DOMAIN es \ {s} : ~touches(es[t], from)

(* Mutant of retarget_upload: the upload keeps its place in the queue.     *)
retarget_upload_InPlace(es, from, to, base, pos) ==
  LET s == CHOOSE t \in DOMAIN es : is_upload_of(es[t], from)
  IN [es EXCEPT ![s] = [@ EXCEPT !.path = to, !.cond = base, !.retargeted = TRUE]]

retarget_upload(es, from, to, base, pos) ==
  LET s == CHOOSE t \in DOMAIN es : is_upload_of(es[t], from)
  IN [es EXCEPT ![s] = [@ EXCEPT !.path = to, !.cond = base, !.retargeted = TRUE, !.pos = pos]]

(* settle_upload's answer for a queued upload; Withdrawn when it is gone.  *)
Settled(es, seq) ==
  LET dest == es[seq].path
      earlier == {t \in Before(es, seq) : touches(es[t], dest)}
      first == CHOOSE t \in earlier : Before(es, t) \cap earlier = {}
  IN IF seq \notin DOMAIN es THEN "Withdrawn"
     ELSE IF ~es[seq].retargeted THEN "Go"
     ELSE IF \E t \in Behind(es, seq) : replaces(es[t], dest) THEN "Withdrawn"
     ELSE IF earlier = {} THEN "Go"
     ELSE IF es[first].in_flight \/ ~es[first].error THEN "Wait" ELSE "Deferred"

(* load_or_create: the flags are gone, a Put without its staging file is   *)
(* dropped and a Rename runs without its copy.                             *)
load_or_create(es, files) ==
  [s \in {t \in DOMAIN es : es[t].op = "Put" => es[t].staging \in files} |->
     [es[s] EXCEPT !.in_flight = FALSE, !.retargeted = FALSE, !.dest_fixed = FALSE,
                   !.staging = IF @ \in files THEN @ ELSE None]]

next_seq_of(es) == IF DOMAIN es = {} THEN 1 ELSE 1 + CHOOSE s \in DOMAIN es : \A t \in DOMAIN es : t <= s
=============================================================================
