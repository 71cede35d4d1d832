------------------------------ MODULE Listing ------------------------------
(***************************************************************************)
(* One directory's cached listing (`FsCache::dir_cache`), the streaming    *)
(* fetch that fills it (`pending_dirs`) and the readers that are served    *)
(* from both (`list_dir_cached_or_fresh`, called by readdir, lookup and    *)
(* getattr on pool workers).                                               *)
(*                                                                         *)
(* The server's directory is a version number; its etag is that number.    *)
(* A listing is the version it shows and how many of its Entries rows it   *)
(* holds.  Ages are the booleans the code compares them to: past the soft  *)
(* TTL, past dir_cache_max_stale, inside EXPIRY_RETRY_COOLDOWN.            *)
(***************************************************************************)
EXTENDS Naturals, FiniteSets

CONSTANTS Readers,      \* workers that read the directory
          Fetches,      \* streaming fetches that can be queued or running (1..n)
          Entries,      \* rows of the directory
          MaxChanges,   \* bound: changes made on the server
          MaxFaults     \* bound: failed requests, evictions and reconnects

VARIABLES dirver,       \* the directory's version on the server
          entry,        \* dir_cache[path]
          pending,      \* pending_dirs[path]: the fetch that feeds it
          fetch,        \* the fetch workers
          reader,       \* the readers
          blocked,      \* PathBackoff: the path is cooling down
          faults        \* mishaps so far

listVars == <<dirver, entry, pending, fetch, reader, blocked, faults>>

NoTag == MaxChanges + 1
NoEntry == [cached |-> FALSE]
NoFetch == [at |-> "idle", ver |-> 0, sent |-> 0, res |-> "ok", chain |-> FALSE]
NoReader == [at |-> "idle", ver |-> 0, got |-> 0, same |-> FALSE, inv |-> FALSE]
NoPending == 0

\* "down": not reached, cut off or timed out; "5xx": the server struggles.
Faults == {"down", "5xx"}

ListInit ==
    /\ dirver = 0 /\ entry = NoEntry /\ pending = NoPending
    /\ fetch = [f \in Fetches |-> NoFetch]
    /\ reader = [r \in Readers |-> NoReader]
    /\ blocked = FALSE /\ faults = 0

----------------------------------------------------------------------------
(* The cache entry. *)

put_dir_cache(v, n, tag) ==
    [cached |-> TRUE, ver |-> v, got |-> n, tag |-> tag, stale |-> FALSE,
     aged |-> FALSE, refreshing |-> "no", invalidated |-> FALSE,
     hard_expired |-> FALSE, cooling |-> FALSE]

trusted(e) == e.cached /\ ~e.invalidated /\ ~e.hard_expired

clear_refreshing(e) == IF e.cached THEN [e EXCEPT !.refreshing = "no"] ELSE e

\* The flag an invalidation resets belongs to whoever set it.
invalidate(e) ==
    IF e.cached THEN [e EXCEPT !.invalidated = TRUE, !.refreshing = "no"] ELSE e

\* soft_refresh_dir and refresh_one_dir on an unchanged etag.
touch_dir_cache(e) ==
    IF e.cached THEN [e EXCEPT !.stale = FALSE, !.aged = FALSE, !.refreshing = "no",
                               !.invalidated = FALSE, !.hard_expired = FALSE]
    ELSE e

confirm_dir_fresh(e) ==
    IF e.cached /\ ~e.invalidated
    THEN [e EXCEPT !.stale = FALSE, !.aged = FALSE, !.cooling = FALSE,
                   !.hard_expired = FALSE]
    ELSE e

\* get_cached_dir: a hit leaves the entry hit(e, owner), owner being what the
\* caller does with the refresh it is asked for; a miss leaves it miss(e).
hits_Forever(e) == trusted(e)
hits(e) == trusted(e) /\ (e.cooling \/ ~e.aged)
needs_refresh(e) == hits(e) /\ ~e.cooling /\ e.stale /\ e.refreshing = "no"
hit(e, owner) == IF needs_refresh(e) THEN [e EXCEPT !.refreshing = owner] ELSE e
miss(e) == IF trusted(e) /\ ~hits(e) THEN [e EXCEPT !.hard_expired = TRUE] ELSE e

\* note_listing_outcome: what an answer does to the path's cooldown.
note_listing_outcome(res) ==
    blocked' = CASE res = "ok" -> FALSE [] res = "5xx" -> TRUE [] OTHER -> blocked

Spend(res) ==
    IF res = "ok" THEN UNCHANGED faults
    ELSE faults < MaxFaults /\ faults' = faults + 1

----------------------------------------------------------------------------
(* The streaming fetch: its worker owns the senders, so the channel of rows *)
(* closes when list_dir_streaming returns, and the verdict is sent after.   *)

\* promote_pending: the rows received become the listing.  A verdict not yet
\* sent reads as no failure and no etag.
Failed(f) == fetch[f].at = "told" /\ fetch[f].res # "ok"
Promoted(f) ==
    put_dir_cache(fetch[f].ver, fetch[f].sent,
                  IF fetch[f].at \in {"told", "chain"} THEN fetch[f].ver ELSE NoTag)
Forget(f) == pending' = NoPending /\ fetch' = [fetch EXCEPT ![f] = IF @.at = "told" THEN NoFetch ELSE @]

Disconnected(f) == fetch[f].at \in {"closed", "chain", "told"}

start_pending(f, chain) ==
    /\ fetch[f].at = "idle"
    /\ fetch' = [fetch EXCEPT ![f] = [NoFetch EXCEPT !.at = "queued", !.chain = chain]]
    /\ pending' = f

\* The server answers with a listing of its version of that moment.
FetchAnswer(f) ==
    /\ fetch[f].at = "queued"
    /\ fetch' = [fetch EXCEPT ![f].at = "stream", ![f].ver = dirver]
    /\ UNCHANGED <<dirver, entry, pending, reader, blocked, faults>>

\* Rows nobody receives any more end the stream (tx.send fails).
FetchRow(f) ==
    /\ fetch[f].at = "stream" /\ fetch[f].sent < Entries
    /\ fetch' = IF pending = f THEN [fetch EXCEPT ![f].sent = @ + 1]
                ELSE [fetch EXCEPT ![f].at = "closed"]
    /\ UNCHANGED <<dirver, entry, pending, reader, blocked, faults>>

\* The request ends, whole or not; its sender of rows is dropped.
FetchClose(f, res) ==
    /\ \/ fetch[f].at = "stream" /\ res = "ok" /\ fetch[f].sent = Entries
       \/ fetch[f].at = "stream" /\ res = "down"
       \/ fetch[f].at = "queued" /\ res # "ok"
    /\ Spend(res)
    /\ fetch' = [fetch EXCEPT ![f].at = "closed", ![f].res = res]
    /\ UNCHANGED <<dirver, entry, pending, reader, blocked>>

\* The worker records the outcome and sends the verdict.
FetchTell(f) ==
    /\ fetch[f].at = "closed"
    /\ note_listing_outcome(fetch[f].res)
    /\ fetch' = [fetch EXCEPT ![f] =
                   IF @.chain /\ @.res = "ok" THEN [@ EXCEPT !.at = "chain"]
                   ELSE IF pending = f THEN [@ EXCEPT !.at = "told"] ELSE NoFetch]
    /\ UNCHANGED <<dirver, entry, pending, reader, faults>>

\* start_background_propfind's follow-up: subdir_paths_for_prefetch promotes
\* whatever fetch is pending for the path by then.
FetchChain(f) ==
    /\ fetch[f].at = "chain"
    /\ entry' = IF pending = NoPending \/ (pending # NoPending /\ Failed(pending)) THEN entry
                ELSE Promoted(pending)
    /\ pending' = NoPending
    /\ fetch' = [g \in Fetches |-> IF g = f \/ (g = pending /\ fetch[g].at = "told") THEN NoFetch
                                  ELSE fetch[g]]
    /\ UNCHANGED <<dirver, reader, blocked, faults>>

\* start_background_propfind, from a readdir of the parent: only for a path
\* neither cached nor pending, and none while the path cools down.
StartPrefetch(f) ==
    /\ ~blocked /\ ~entry.cached /\ pending = NoPending
    /\ start_pending(f, TRUE)
    /\ UNCHANGED <<dirver, entry, reader, blocked, faults>>

----------------------------------------------------------------------------
(* Readers. *)

\* get_pending_snapshot drains the rows and promotes a closed stream; what a
\* reader sees afterwards is the pending fetch, the entry, or an error.
Deliver(r, v, n) == reader' = [reader EXCEPT ![r] = [NoReader EXCEPT !.at = "served", !.ver = v, !.got = n]]
Refuse(r) == reader' = [reader EXCEPT ![r] = NoReader]

\* get_or_list_dir: a server that could not be reached leaves the listing
\* that was too old to trust to be served after all.
Fallback(r, res, e) ==
    IF res \in {"down", "5xx"} /\ e.cached /\ e.hard_expired /\ ~e.invalidated
    THEN /\ entry' = [e EXCEPT !.hard_expired = FALSE, !.cooling = TRUE]
         /\ Deliver(r, e.ver, e.got)
    ELSE /\ Refuse(r)
         /\ entry' = e

\* A miss on a path that cools down is answered with any listing there is.
\* A listing past its maximum age is probed first (dir_change_token), by one
\* reader at a time.
ReadMiss(r, res) ==
    LET e == miss(entry)
        probes == e.cached /\ e.hard_expired /\ ~e.invalidated /\ e.refreshing = "no" /\ e.tag # NoTag
    IN
    /\ reader[r].at = "idle" /\ ~hits(entry)
    /\ IF ~blocked /\ probes
       THEN /\ Spend(res) /\ note_listing_outcome(res)
            /\ entry' = [e EXCEPT !.refreshing = "probe"]
            /\ reader' = [reader EXCEPT ![r].at = "probed", ![r].same = res = "ok" /\ e.tag = dirver]
       ELSE /\ res = "ok" /\ entry' = e /\ UNCHANGED <<blocked, faults>>
            /\ IF ~blocked THEN reader' = [reader EXCEPT ![r].at = "join"]
               ELSE IF e.cached THEN Deliver(r, e.ver, e.got) ELSE Refuse(r)
    /\ UNCHANGED <<dirver, pending, fetch>>

ReadConfirmed(r) ==
    LET e == clear_refreshing(IF reader[r].same THEN confirm_dir_fresh(entry) ELSE entry) IN
    /\ reader[r].at = "probed"
    /\ entry' = e
    /\ IF reader[r].same /\ e.cached /\ ~e.invalidated THEN Deliver(r, e.ver, e.got)
       ELSE reader' = [reader EXCEPT ![r].at = "join", ![r].same = FALSE]
    /\ UNCHANGED <<dirver, pending, fetch, blocked, faults>>

\* A reader that meets a closed stream promotes it and is served the result;
\* a failed one is its error.
ReadPromotes(r) ==
    /\ reader[r].at \in {"join", "wait"} /\ pending # NoPending /\ Disconnected(pending)
    /\ IF Failed(pending)
       THEN Fallback(r, fetch[pending].res, entry) /\ Forget(pending)
       ELSE /\ entry' = Promoted(pending) /\ Forget(pending)
            /\ Deliver(r, fetch[pending].ver, fetch[pending].sent)
    /\ UNCHANGED <<dirver, blocked, faults>>

\* Rows of a stream still running are served as they are, unless a listing
\* no longer trusted lies behind them.
ReadPartial(r) ==
    /\ pending # NoPending /\ ~Disconnected(pending) /\ fetch[pending].sent > 0
    /\ \/ reader[r].at = "join" /\ (entry.cached => trusted(entry))
       \/ reader[r].at = "wait" /\ ~reader[r].inv
    /\ Deliver(r, fetch[pending].ver, fetch[pending].sent)
    /\ UNCHANGED <<dirver, entry, pending, fetch, blocked, faults>>

\* A listing somebody else brought in meanwhile is served; the refresh that
\* get_cached_dir asks for here is dropped.
ReadLanded(r) ==
    /\ \/ /\ reader[r].at = "join" /\ hits(entry)
          /\ pending # NoPending => ~Disconnected(pending) /\ fetch[pending].sent = 0
       \/ /\ reader[r].at = "wait" /\ trusted(entry)
          /\ pending # NoPending => ~Disconnected(pending)
    /\ IF hits(entry)
       THEN /\ Deliver(r, entry.ver, entry.got)
            /\ entry' = hit(entry, "nobody")
       ELSE /\ Refuse(r)
            /\ entry' = miss(entry)
    /\ UNCHANGED <<dirver, pending, fetch, blocked, faults>>

\* Joins the fetch in flight, or starts one; a full pool refuses.
ReadJoin(r) ==
    LET waits == [reader EXCEPT ![r].at = "wait", ![r].inv = entry.cached /\ ~trusted(entry)] IN
    /\ reader[r].at = "join" /\ ~hits(entry)
    /\ \/ /\ pending # NoPending
          /\ ~Disconnected(pending) /\ (fetch[pending].sent > 0 => entry.cached /\ ~trusted(entry))
          /\ reader' = waits /\ entry' = miss(entry)
          /\ UNCHANGED <<pending, fetch>>
       \/ /\ pending = NoPending
          /\ \E f \in Fetches : start_pending(f, FALSE)
          /\ reader' = waits /\ entry' = miss(entry)
       \/ /\ pending = NoPending /\ \A f \in Fetches : fetch[f].at # "idle"
          /\ Fallback(r, "down", miss(entry))
          /\ UNCHANGED <<pending, fetch>>
    /\ UNCHANGED <<dirver, blocked, faults>>

\* PROPFIND_TIMEOUT: the fetch stays in flight.
ReadTimeout(r) ==
    /\ reader[r].at = "wait" /\ (pending # NoPending => ~Disconnected(pending))
    /\ Fallback(r, "down", entry)
    /\ UNCHANGED <<dirver, pending, fetch, blocked, faults>>
=============================================================================
