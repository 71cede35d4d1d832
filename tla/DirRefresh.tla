----------------------------- MODULE DirRefresh -----------------------------
(***************************************************************************)
(* What keeps a cached listing current: the background refresh of one past *)
(* its soft TTL (soft_refresh_dir), the revalidation every readdir starts  *)
(* (revalidate_dir_on_read), the push watcher's change events              *)
(* (handle_change_event) and the etag comparison after a reconnect         *)
(* (validate_subtree).  They share one cache entry with the readers of     *)
(* Listing and none of them holds its lock across a request.               *)
(***************************************************************************)
EXTENDS Listing

CONSTANTS Jobs          \* background jobs that can be queued or running

VARIABLES job,          \* the background jobs
          recent,       \* DebounceMap: refreshed within its cooldown
          notice        \* a change event on its way from the server

refreshVars == <<listVars, job, recent, notice>>
watchVars == <<recent, notice>>

NoJob == [kind |-> "none", at |-> "idle", ans |-> "ok", seen |-> NoTag]

RefreshInit ==
    /\ ListInit
    /\ job = [j \in Jobs |-> NoJob]
    /\ recent = FALSE /\ notice = FALSE

IdleJobs == {j \in Jobs : job[j].at = "idle"}
Queued(kind) == [NoJob EXCEPT !.kind = kind, !.at = "queued"]
Busy(kind) == \E j \in Jobs : job[j].kind = kind

----------------------------------------------------------------------------
(* Readers that start work. *)

\* A hit is served at once; one past its soft TTL is refreshed behind the
\* reader's back, unless the path cools down or the pool is full.
ReadHit(r) ==
    /\ reader[r].at = "idle" /\ hits(entry)
    /\ Deliver(r, entry.ver, entry.got)
    /\ IF needs_refresh(entry) /\ ~blocked /\ IdleJobs # {}
       THEN /\ entry' = hit(entry, "soft")
            /\ \E j \in IdleJobs : job' = [job EXCEPT ![j] = Queued("soft")]
       ELSE UNCHANGED <<entry, job>>
    /\ UNCHANGED <<dirver, pending, fetch, blocked, faults, watchVars>>

\* revalidate_dir_on_read, once the listing is on its way to the reader: one
\* claim per directory, none while the path cools down, a refresh is recent or
\* running, or the listing is seconds old.
Revalidate(r) ==
    LET skips == \/ blocked \/ recent \/ ~entry.cached
                 \/ entry.cached /\ entry.refreshing # "no"
                 \/ Busy("reval") \/ IdleJobs = {}
    IN
    /\ reader[r].at = "served"
    /\ Refuse(r)
    /\ \/ /\ skips \/ (entry.cached /\ ~entry.stale)
          /\ UNCHANGED job
       \/ /\ ~skips
          /\ \E j \in IdleJobs : job' = [job EXCEPT ![j] = Queued("reval")]
    /\ UNCHANGED <<dirver, entry, pending, fetch, blocked, faults, watchVars>>

----------------------------------------------------------------------------
(* The jobs: probe the etag, list on a difference, apply the answer. *)

Noted(j, res) == IF job[j].kind \in {"soft", "reval"} THEN note_listing_outcome(res) ELSE UNCHANGED blocked
MarkRecent(j) == recent' = (recent \/ job[j].kind \in {"reval", "push"})
Finish(j) == job' = [job EXCEPT ![j] = NoJob]

\* The etag to compare with is read from the cache, then the server answers.
\* Without one, the full listing follows at once; refresh_one_dir first looks
\* whether another refresh was recent.
JobProbe(j, res) ==
    /\ job[j].at = "queued"
    /\ IF job[j].kind \in {"reval", "push"} /\ recent
       THEN Finish(j) /\ res = "ok" /\ UNCHANGED <<blocked, faults>>
       ELSE IF job[j].kind # "validate" /\ (~entry.cached \/ (entry.cached /\ entry.tag = NoTag))
       THEN job' = [job EXCEPT ![j] = [@ EXCEPT !.at = "list", !.ans = "ok", !.seen = NoTag]] /\ res = "ok" /\ UNCHANGED <<blocked, faults>>
       ELSE /\ Spend(res) /\ Noted(j, res)
            /\ job' = [job EXCEPT ![j].at = "probed",
                    ![j].ans = IF job[j].kind # "validate" /\ res = "ok" /\ entry.tag = dirver
                               THEN "same" ELSE res,
                    ![j].seen = IF job[j].kind = "validate" THEN dirver ELSE NoTag]
    /\ UNCHANGED <<dirver, entry, pending, fetch, reader, watchVars>>

\* soft_refresh_dir and refresh_one_dir act on the answer.
JobProbed(j) ==
    /\ job[j].at = "probed" /\ job[j].kind # "validate"
    /\ IF job[j].ans = "same"
       THEN entry' = touch_dir_cache(entry) /\ Finish(j) /\ MarkRecent(j)
       ELSE IF job[j].ans = "5xx"
       THEN /\ entry' = IF job[j].kind = "soft" THEN clear_refreshing(entry) ELSE entry
            /\ Finish(j) /\ MarkRecent(j)
       ELSE job' = [job EXCEPT ![j] = [@ EXCEPT !.at = "list", !.ans = "ok", !.seen = NoTag]] /\ UNCHANGED <<entry, recent>>
    /\ UNCHANGED <<dirver, pending, fetch, reader, blocked, faults>>
    /\ UNCHANGED <<notice>>

JobList(j, res) ==
    /\ job[j].at = "list"
    /\ Spend(res) /\ Noted(j, res)
    /\ job' = [job EXCEPT ![j].at = "listed", ![j].ans = res, ![j].seen = dirver]
    /\ UNCHANGED <<dirver, entry, pending, fetch, reader, watchVars>>

JobListed_Keeps(j) ==
    /\ job[j].at = "listed" /\ job[j].kind # "validate"
    /\ entry' = IF job[j].ans = "ok" THEN put_dir_cache(job[j].seen, Entries, job[j].seen) ELSE entry
    /\ Finish(j) /\ MarkRecent(j)
    /\ UNCHANGED <<dirver, pending, fetch, reader, blocked, faults>>
    /\ UNCHANGED <<notice>>

JobListed(j) ==
    /\ job[j].at = "listed" /\ job[j].kind # "validate"
    /\ entry' = IF job[j].ans = "ok" THEN put_dir_cache(job[j].seen, Entries, job[j].seen)
                ELSE IF job[j].kind = "soft" THEN clear_refreshing(entry) ELSE entry
    /\ Finish(j) /\ MarkRecent(j)
    /\ UNCHANGED <<dirver, pending, fetch, reader, blocked, faults>>
    /\ UNCHANGED <<notice>>

----------------------------------------------------------------------------
(* Reconnect: the parent's listing carries this directory's etag. *)

\* A push connection that was down has no replay (revalidate_after_reconnect,
\* boot_validate_root).
ValidateStart ==
    /\ entry.cached /\ ~Busy("validate") /\ Spend("reconnect")
    /\ \E j \in IdleJobs : job' = [job EXCEPT ![j] = Queued("validate")]
    /\ UNCHANGED <<dirver, entry, pending, fetch, reader, blocked, watchVars>>

\* A listing known to have changed leaves the cache, with a prefetch in its
\* place if the path is not cooling down and the pool has room.
Relist ==
    /\ entry' = NoEntry
    /\ \/ ~blocked /\ pending = NoPending /\ \E f \in Fetches : start_pending(f, FALSE)
       \/ /\ blocked \/ pending # NoPending \/ \A f \in Fetches : fetch[f].at # "idle"
          /\ UNCHANGED <<pending, fetch>>

\* The etag cached now against the one listed: equal confirms the listing.  A
\* different one marks it untrusted before the descent into it, or, at the
\* depth where the descent ends, drops it.
ValidateProbed(j) ==
    /\ job[j].at = "probed" /\ job[j].kind = "validate"
    /\ \/ /\ job[j].ans # "ok" \/ ~entry.cached
          /\ Finish(j) /\ UNCHANGED <<entry, pending, fetch>>
       \/ /\ job[j].ans = "ok" /\ entry.cached /\ job[j].seen = entry.tag
          /\ Finish(j) /\ entry' = confirm_dir_fresh(entry)
          /\ UNCHANGED <<pending, fetch>>
       \/ /\ job[j].ans = "ok" /\ entry.cached /\ job[j].seen # entry.tag
          /\ \/ /\ entry' = [entry EXCEPT !.invalidated = TRUE]
                /\ job' = [job EXCEPT ![j] = [@ EXCEPT !.at = "list", !.ans = "ok", !.seen = NoTag]]
                /\ UNCHANGED <<pending, fetch>>
             \/ Relist /\ Finish(j)
    /\ UNCHANGED <<dirver, reader, blocked, faults, watchVars>>

\* A descent that fails leaves no listing behind.
ValidateListed(j) ==
    /\ job[j].at = "listed" /\ job[j].kind = "validate"
    /\ Finish(j)
    /\ IF job[j].ans = "ok"
       THEN entry' = put_dir_cache(job[j].seen, Entries, job[j].seen) /\ UNCHANGED <<pending, fetch>>
       ELSE Relist
    /\ UNCHANGED <<dirver, reader, blocked, faults, watchVars>>

----------------------------------------------------------------------------
(* The server and its change events. *)

\* A change made elsewhere; its event may never arrive (no connection, an
\* external storage).
ServerChange ==
    /\ dirver < MaxChanges /\ dirver' = dirver + 1
    /\ notice' \in {TRUE, notice}
    /\ UNCHANGED <<entry, pending, fetch, reader, blocked, faults>>
    /\ UNCHANGED <<job, recent>>

\* handle_change_event, which clears the cooldown: a directory refreshed
\* lately is left alone; a listing under a second old is refreshed but not
\* distrusted.
HandleEvent ==
    /\ notice /\ ~Busy("push")
    /\ notice' = FALSE /\ blocked' = FALSE
    /\ IF recent \/ ~entry.cached \/ IdleJobs = {} THEN UNCHANGED <<entry, job>>
       ELSE /\ \E j \in IdleJobs : job' = [job EXCEPT ![j] = Queued("push")]
            /\ \/ entry' = invalidate(entry)
               \/ ~entry.stale /\ UNCHANGED entry
    /\ UNCHANGED <<dirver, pending, fetch, reader, faults, recent>>

\* The last stream to end applies the invalidation deferred while it ran.
DeferredInvalidation ==
    /\ notice /\ notice' = FALSE
    /\ entry' = invalidate(entry)
    /\ UNCHANGED <<dirver, pending, fetch, reader, blocked, faults, job, recent>>

\* evict_dir_cache, when other directories fill the cache.
Evict ==
    /\ entry.cached /\ entry.refreshing = "no"
    /\ Spend("evicted") /\ entry' = NoEntry
    /\ UNCHANGED <<dirver, pending, fetch, reader, blocked, job, watchVars>>

\* The clock.  An upload that lands here also ages the listing past its TTL.
SoftExpires ==
    /\ entry.cached /\ ~entry.stale /\ entry' = [entry EXCEPT !.stale = TRUE]
    /\ UNCHANGED <<dirver, pending, fetch, reader, blocked, faults, job, watchVars>>
HardExpires ==
    /\ entry.cached /\ ~entry.aged /\ entry' = [entry EXCEPT !.stale = TRUE, !.aged = TRUE]
    /\ UNCHANGED <<dirver, pending, fetch, reader, blocked, faults, job, watchVars>>
CooldownsPass ==
    /\ blocked \/ recent \/ (entry.cached /\ entry.cooling)
    /\ blocked' = FALSE /\ recent' = FALSE
    /\ entry' = IF entry.cached THEN [entry EXCEPT !.cooling = FALSE] ELSE entry
    /\ UNCHANGED <<dirver, pending, fetch, reader, faults>>
    /\ UNCHANGED <<job, notice>>

----------------------------------------------------------------------------
Answers == {"ok"} \cup Faults
idleRefresh == UNCHANGED <<job, watchVars>>

ReaderStep(r) ==
    \/ ReadHit(r) \/ Revalidate(r)
    \/ (\E a \in Answers : ReadMiss(r, a)) /\ idleRefresh
    \/ ReadConfirmed(r) /\ idleRefresh
    \/ ReadPromotes(r) /\ idleRefresh
    \/ ReadPartial(r) /\ idleRefresh
    \/ ReadLanded(r) /\ idleRefresh
    \/ ReadJoin(r) /\ idleRefresh
FetchStep(f) ==
    \/ FetchAnswer(f) /\ idleRefresh
    \/ FetchRow(f) /\ idleRefresh
    \/ (\E a \in Answers : FetchClose(f, a)) /\ idleRefresh
    \/ FetchTell(f) /\ idleRefresh
    \/ FetchChain(f) /\ idleRefresh
JobStep(j) ==
    \/ \E a \in Answers : JobProbe(j, a) \/ JobList(j, a)
    \/ JobProbed(j) \/ JobListed(j) \/ ValidateProbed(j) \/ ValidateListed(j)

RefreshNext ==
    \/ \E r \in Readers : ReaderStep(r) \/ (ReadTimeout(r) /\ idleRefresh)
    \/ \E f \in Fetches : FetchStep(f) \/ (StartPrefetch(f) /\ idleRefresh)
    \/ \E j \in Jobs : JobStep(j)
    \/ ValidateStart \/ ServerChange \/ HandleEvent \/ DeferredInvalidation \/ Evict
    \/ SoftExpires \/ HardExpires \/ CooldownsPass

\* Workers run, requests are answered or time out, clocks advance, and the
\* program keeps reading: more often than a listing reaches its maximum age
\* (minutes; a reader waits at most PROPFIND_TIMEOUT), hence the strong
\* fairness of a hit.
RefreshFairness ==
    /\ \A r \in Readers : /\ WF_refreshVars(ReaderStep(r)) /\ SF_refreshVars(ReadHit(r))
                          /\ WF_refreshVars(ReadTimeout(r) /\ idleRefresh)
    /\ \A f \in Fetches : WF_refreshVars(FetchStep(f))
    /\ \A j \in Jobs : WF_refreshVars(JobStep(j))
    /\ WF_refreshVars(HardExpires) /\ WF_refreshVars(CooldownsPass)

RefreshSpec == RefreshInit /\ [][RefreshNext]_refreshVars /\ RefreshFairness

----------------------------------------------------------------------------
Listed == [cached : {TRUE}, ver : 0..MaxChanges, got : 0..Entries, tag : 0..NoTag, stale : BOOLEAN,
           aged : BOOLEAN, refreshing : {"no", "soft", "probe", "nobody"}, invalidated : BOOLEAN, hard_expired : BOOLEAN,
           cooling : BOOLEAN]

\* Every variable holds what its field of FsCache, PendingDir or the watcher can.
RefreshTypeOK ==
    /\ dirver \in 0..MaxChanges /\ faults \in 0..MaxFaults
    /\ entry \in Listed \cup {NoEntry}
    /\ pending \in Fetches \cup {NoPending}
    /\ \A f \in Fetches : fetch[f].at \in {"idle", "queued", "stream", "closed", "told", "chain"}
    /\ \A j \in Jobs : job[j].at \in {"idle", "queued", "probed", "list", "listed"}
    /\ \A r \in Readers : reader[r].at \in {"idle", "probed", "join", "wait", "served"}
    /\ {blocked, recent, notice} \subseteq BOOLEAN

\* `refreshing` keeps every other refresh, revalidation and the eviction away
\* from a listing, so a flag that is set has somebody who will clear it: a
\* soft refresh or an expiry probe on its way.  The one exception is a reader
\* that found a listing landed by someone else and dropped the refresh
\* get_cached_dir had claimed for it (list_dir_cached_or_fresh's later calls).
RefreshOwned ==
    entry.cached =>
        /\ entry.refreshing = "soft" => Busy("soft")
        /\ entry.refreshing = "probe" => \E r \in Readers : reader[r].at = "probed"

\* A program that keeps reading the directory is shown, again and again, all
\* of what the server holds, whatever was lost, deferred, debounced or stale
\* on the way: lost change events, failed requests, a dropped refresh flag.
UpToDate(r) == reader[r].at = "served" /\ reader[r].ver = dirver /\ reader[r].got = Entries
KeepsUp == \A r \in Readers : []<>UpToDate(r)

\* What is cached as the directory's listing is a whole one: the comment on
\* the reader's timeout promises to "promote only a *finished* stream".
ListedWhole == entry.cached => entry.got = Entries
=============================================================================
