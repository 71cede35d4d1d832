----------------------------- MODULE FileCopies -----------------------------
(***************************************************************************)
(* The local copies of one remote file: the copy under kept/ or cache/,    *)
(* the file_cache entry that says which version it is, and everything that *)
(* makes, labels, trusts or removes one: whole-file downloads for a KEEP,  *)
(* a failed ranged read or the boot validation (ensure_file_cached), a     *)
(* listing being refreshed or read, our own upload, EVICT, "purge local    *)
(* cache", the cache limit, and a restart from file_cache.json.            *)
(***************************************************************************)
EXTENDS Naturals

CONSTANTS MaxVersion,  \* bound: versions of the file
          MaxReboots,  \* bound: restarts of the daemon
          CopyRaces    \* what this instance lets happen: "adopt", "late", "two", "purge"

VARIABLES current,  \* the server's version
          listing,  \* the version the folder's cached listing names, None if not cached
          entry,    \* file_cache's entry for the file
          copies,   \* the copy in each tree, None if there is none
          saved,    \* file_cache.json's entry
          loads,    \* the downloads on their way
          boot,     \* the boot validation of the file: "off", "check", "load"
          handle,   \* a handle writing the file: "none", "open", "closing", "queued"
          staging,  \* its write_<fh> exists
          purge,    \* where "purge local cache" is, and what it has read
          cleaner,  \* the cleanup has walked cache/ and found the copy
          reboots

copyVars == <<current, listing, entry, copies, saved, loads, boot, handle, staging, purge, cleaner, reboots>>

None == 0
NoEntry == [in |-> FALSE, etag |-> None, modified |-> None, kept |-> FALSE]
NoLoad == [at |-> "idle", kept |-> FALSE, got |-> None]
NoPurge == [at |-> "idle", pending |-> FALSE, open |-> FALSE]
Loads == {"user", "boot"}
Tree(kept) == IF kept THEN "kept" ELSE "cache"
Unsaved == [etag |-> None, kept |-> FALSE]

CopiesInit ==
    /\ current = 1 /\ listing = None /\ entry = NoEntry
    /\ copies = [t \in {"kept", "cache"} |-> None] /\ saved = Unsaved
    /\ loads = [l \in Loads |-> NoLoad] /\ boot = "off"
    /\ handle = "none" /\ staging = FALSE /\ purge = NoPurge /\ cleaner = FALSE /\ reboots = 0

save_file_cache(e) == IF e.in THEN [etag |-> e.etag, kept |-> e.kept] ELSE Unsaved

\* The copy the entry names is there and not empty.
Local == entry.in /\ copies[Tree(entry.kept)] # None

\* May an open be served from the copy?
file_cache_matches_remote_Present == Local /\ handle # "queued"
file_cache_matches_remote ==
    /\ Local /\ handle # "queued"
    /\ IF entry.etag # None /\ listing # None THEN entry.etag = listing
       ELSE (entry.modified # None /\ listing # None) => entry.modified = listing

----------------------------------------------------------------------------
(* The server and the folder's listing. *)

RemoteChanges ==
    /\ current < MaxVersion /\ current' = current + 1
    /\ UNCHANGED <<listing, entry, copies, saved, loads, boot, handle, staging, purge, cleaner, reboots>>

\* A refresh of a cached listing evicts the copy of a file that changed
\* (apply_listing); a first listing only replaces what is known.
Relisted ==
    /\ listing # current /\ listing' = current
    /\ (\E l \in Loads : loads[l].at = "got") => "late" \in CopyRaces
    /\ IF listing # None /\ entry.in
       THEN /\ entry' = NoEntry /\ copies' = [copies EXCEPT ![Tree(entry.kept)] = None]
            /\ saved' = Unsaved
       ELSE UNCHANGED <<entry, copies, saved>>
    /\ UNCHANGED <<current, loads, boot, handle, staging, purge, cleaner, reboots>>

\* The listing is dropped (invalidated, evicted from the listing cache).
Forgotten ==
    /\ listing # None /\ listing' = None
    /\ UNCHANGED <<current, entry, copies, saved, loads, boot, handle, staging, purge, cleaner, reboots>>

\* The first page of a readdir enters a copy it finds on disk, kept/ first,
\* under the listing's etag, unless the file has an entry.
Found == IF copies["kept"] # None THEN "kept" ELSE "cache"
ReadDir ==
    /\ listing # None /\ ~entry.in /\ copies[Found] # None
    /\ "adopt" \in CopyRaces \/ copies[Found] = listing
    /\ entry' = [in |-> TRUE, etag |-> listing, modified |-> listing, kept |-> Found = "kept"]
    /\ UNCHANGED <<current, listing, copies, saved, loads, boot, handle, staging, purge, cleaner, reboots>>

----------------------------------------------------------------------------
(* ensure_file_cached: for a KEEP, for a read that fell back to the whole  *)
(* file, and for the boot validation.                                      *)

\* A copy whose mtime is the listing's is used as it is; a KEEP moves it over.
EnsureStarts(l, kept) ==
    /\ loads[l].at = "idle" /\ (l = "boot") = (boot = "load")
    /\ (\E o \in Loads : loads[o].at # "idle") => "two" \in CopyRaces
    /\ IF Local /\ entry.modified = listing
       THEN /\ kept /\ ~entry.kept
            /\ copies' = [copies EXCEPT !["kept"] = copies["cache"], !["cache"] = None]
            /\ entry' = [entry EXCEPT !.kept = TRUE] /\ saved' = save_file_cache(entry')
            /\ UNCHANGED loads
       ELSE /\ loads' = [loads EXCEPT ![l] = [at |-> "getting", kept |-> kept, got |-> None]]
            /\ UNCHANGED <<copies, entry, saved>>
    /\ boot' = IF l = "boot" THEN "off" ELSE boot
    /\ UNCHANGED <<current, listing, handle, staging, purge, cleaner, reboots>>

\* The body is complete and renamed over the copy.
Downloaded(l) ==
    /\ loads[l].at = "getting"
    /\ copies' = [copies EXCEPT ![Tree(loads[l].kept)] = current]
    /\ loads' = [loads EXCEPT ![l] = [@ EXCEPT !.at = "got", !.got = current]]
    /\ UNCHANGED <<current, listing, entry, saved, boot, handle, staging, purge, cleaner, reboots>>

\* An attempt failed: the previous copy goes; after the last, its entry too.
DownloadFails(l, again) ==
    /\ loads[l].at = "getting"
    /\ copies' = [copies EXCEPT ![Tree(loads[l].kept)] = None]
    /\ loads' = IF again THEN loads ELSE [loads EXCEPT ![l] = NoLoad]
    /\ entry' = IF again THEN entry ELSE NoEntry
    /\ UNCHANGED <<current, listing, saved, boot, handle, staging, purge, cleaner, reboots>>

\* Entered under the listing's etag, the GET's own only without one.
Entered(l) ==
    /\ loads[l].at = "got"
    /\ entry' = [in |-> TRUE, etag |-> IF listing # None THEN listing ELSE loads[l].got,
                 modified |-> listing, kept |-> loads[l].kept]
    /\ saved' = save_file_cache(entry')
    /\ loads' = [loads EXCEPT ![l] = NoLoad]
    /\ UNCHANGED <<current, listing, copies, boot, handle, staging, purge, cleaner, reboots>>

----------------------------------------------------------------------------
(* A write handle: its staging file until its upload lands. *)

Quiet == purge.at = "idle" \/ "purge" \in CopyRaces

OpenWrite ==
    /\ handle = "none" /\ Quiet /\ handle' = "open" /\ staging' = TRUE
    /\ UNCHANGED <<current, listing, entry, copies, saved, loads, boot, purge, cleaner, reboots>>
\* release takes the handle out of open_files, then queues the upload.
ReleaseTakes ==
    /\ handle = "open" /\ Quiet /\ handle' = "closing"
    /\ UNCHANGED <<current, listing, entry, copies, saved, loads, boot, staging, purge, cleaner, reboots>>
ReleaseQueues ==
    /\ handle = "closing" /\ Quiet /\ handle' = "queued"
    /\ UNCHANGED <<current, listing, entry, copies, saved, loads, boot, staging, purge, cleaner, reboots>>
\* The PUT is answered: the staging file becomes the local copy, pinned if
\* the file was, under the answer's etag, which the listing takes too.
UploadLands ==
    /\ handle = "queued" /\ staging /\ current < MaxVersion
    /\ (\E l \in Loads : loads[l].at = "got") => "late" \in CopyRaces
    /\ current' = current + 1 /\ listing' = IF listing = None THEN None ELSE current + 1
    /\ copies' = [copies EXCEPT ![Tree(entry.kept)] = current + 1]
    /\ entry' = [in |-> TRUE, etag |-> current + 1, modified |-> current + 1, kept |-> entry.kept]
    /\ handle' = "none" /\ staging' = FALSE
    /\ UNCHANGED <<saved, loads, boot, purge, cleaner, reboots>>

----------------------------------------------------------------------------
(* Taking copies away. *)

\* evict_callback: what a queued upload is pending for stays.
Evict ==
    /\ entry.in /\ handle # "queued"
    /\ entry' = NoEntry /\ copies' = [copies EXCEPT ![Tree(entry.kept)] = None] /\ saved' = Unsaved
    /\ UNCHANGED <<current, listing, loads, boot, handle, staging, purge, cleaner, reboots>>

\* purge_callback reads the journal, removes the copies, reads the open
\* handles, and then removes the staging files that are in neither.
PurgeReads ==
    /\ purge.at = "idle" /\ (entry.in \/ staging)
    /\ handle # "closing" \/ "purge" \in CopyRaces
    /\ purge' = [at |-> "read", pending |-> handle = "queued", open |-> FALSE]
    /\ UNCHANGED <<current, listing, entry, copies, saved, loads, boot, handle, staging, cleaner, reboots>>
PurgeCopies ==
    /\ purge.at = "read" /\ purge' = [purge EXCEPT !.at = "copies"]
    /\ IF entry.in /\ ~purge.pending
       THEN entry' = NoEntry /\ copies' = [copies EXCEPT ![Tree(entry.kept)] = None]
       ELSE UNCHANGED <<entry, copies>>
    /\ saved' = save_file_cache(entry')
    /\ UNCHANGED <<current, listing, loads, boot, handle, staging, cleaner, reboots>>
PurgeLooks ==
    /\ purge.at = "copies" /\ purge' = [purge EXCEPT !.at = "looked", !.open = (handle = "open")]
    /\ UNCHANGED <<current, listing, entry, copies, saved, loads, boot, handle, staging, cleaner, reboots>>
PurgeStaging_Journaled ==
    /\ purge.at = "looked" /\ purge' = NoPurge
    /\ staging' = (staging /\ purge.pending)
    /\ listing' = None
    /\ UNCHANGED <<current, entry, copies, saved, loads, boot, handle, cleaner, reboots>>
PurgeStaging ==
    /\ purge.at = "looked" /\ purge' = NoPurge
    /\ staging' = (staging /\ (purge.pending \/ purge.open))
    /\ listing' = None
    /\ UNCHANGED <<current, entry, copies, saved, loads, boot, handle, cleaner, reboots>>

\* run_cache_cleanup walks cache/ and removes what is too old or too much,
\* and with each file the entry of its path.
CleanupWalks ==
    /\ ~cleaner /\ copies["cache"] # None /\ cleaner' = TRUE
    /\ UNCHANGED <<current, listing, entry, copies, saved, loads, boot, handle, staging, purge, reboots>>
CleanupRemoves ==
    /\ cleaner /\ cleaner' = FALSE
    /\ IF copies["cache"] = None THEN UNCHANGED <<copies, entry, saved>>
       ELSE /\ copies' = [copies EXCEPT !["cache"] = None] /\ entry' = NoEntry /\ saved' = Unsaved
    /\ UNCHANGED <<current, listing, loads, boot, handle, staging, purge, reboots>>

----------------------------------------------------------------------------
(* Restart. *)

\* file_cache.json is written again whenever another file's entry changes.
SavedForAnother ==
    /\ saved # save_file_cache(entry) /\ saved' = save_file_cache(entry)
    /\ UNCHANGED <<current, listing, entry, copies, loads, boot, handle, staging, purge, cleaner, reboots>>

\* A start removes the write_* files that no journal entry refers to.
Swept == staging /\ handle = "queued"

\* The daemon stops, perhaps in the middle of writing file_cache.json, and is
\* started: file_cache is empty, and a copy that file_cache.json names is validated.
Restarted(torn) ==
    /\ reboots < MaxReboots /\ reboots' = reboots + 1
    /\ handle \in {"none", "queued"}
    /\ entry' = NoEntry /\ loads' = [l \in Loads |-> NoLoad] /\ purge' = NoPurge /\ cleaner' = FALSE
    /\ saved' = IF torn THEN Unsaved ELSE saved
    /\ staging' = Swept
    /\ boot' = IF saved'.etag # None /\ copies[Found] # None THEN "check" ELSE "off"
    /\ UNCHANGED <<current, listing, copies, handle>>

\* boot-files: an etag that differs has the copy downloaded again, where it was.
BootChecks(answered) ==
    /\ boot = "check"
    /\ IF ~answered \/ saved.etag = current THEN boot' = "off" /\ UNCHANGED entry
       ELSE boot' = "load" /\ entry' = NoEntry
    /\ UNCHANGED <<current, listing, copies, saved, loads, handle, staging, purge, cleaner, reboots>>

CopiesNext ==
    \/ RemoteChanges \/ Relisted \/ Forgotten \/ ReadDir
    \/ \E l \in Loads : \/ \E kept \in BOOLEAN : EnsureStarts(l, kept)
                        \/ Downloaded(l) \/ Entered(l)
                        \/ \E again \in BOOLEAN : DownloadFails(l, again)
    \/ OpenWrite \/ ReleaseTakes \/ ReleaseQueues \/ UploadLands
    \/ Evict \/ PurgeReads \/ PurgeCopies \/ PurgeLooks \/ PurgeStaging
    \/ CleanupWalks \/ CleanupRemoves \/ SavedForAnother
    \/ \E b \in BOOLEAN : Restarted(b) \/ BootChecks(b)

CopiesSpec == CopiesInit /\ [][CopiesNext]_copyVars

----------------------------------------------------------------------------
CopiesTypeOK ==
    /\ current \in 1..MaxVersion /\ listing \in 0..MaxVersion
    /\ copies \in [{"kept", "cache"} -> 0..MaxVersion]
    /\ boot \in {"off", "check", "load"} /\ handle \in {"none", "open", "closing", "queued"}
    /\ purge.at \in {"idle", "read", "copies", "looked"}

\* A copy an open is served from (file_cache_matches_remote) is never older
\* than the version the folder lists: bytes of an earlier version behind the
\* listed size are what an office program calls a corrupt document.
StaleNeverFresh ==
    file_cache_matches_remote /\ listing # None => copies[Tree(entry.kept)] >= listing

\* Until its upload has landed, the staging file of a written handle exists:
\* purging, evicting, cleaning up and restarting leave it alone.
StagedEditKept == handle # "none" => staging

\* A local copy served as current is no older than the version the folder
\* lists, and the staging file of an edit exists until the edit is uploaded,
\* whatever purging, eviction, cleanup and restarts come in between.
CopiesHold == StaleNeverFresh /\ StagedEditKept
=============================================================================
