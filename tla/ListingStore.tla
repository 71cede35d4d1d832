---------------------------- MODULE ListingStore ----------------------------
(***************************************************************************)
(* How many cached listings are kept, and how they survive a restart: the  *)
(* eviction in put_dir_cache, the saver that schedule_save_dir_cache arms  *)
(* (it waits for a quiet moment, disarms and writes), the write itself     *)
(* (temporary file, then rename), and load_dir_cache.                      *)
(*                                                                         *)
(* Files are inodes, as two savers share the temporary's name: opening it  *)
(* again truncates the file the other one is writing.                      *)
(***************************************************************************)
EXTENDS Naturals, Sequences, FiniteSets

CONSTANTS Dirs,
          MaxDirs,      \* dir_cache_max_dirs
          Savers,       \* the housekeeping workers
          Overlaps,     \* may a write outlast SAVE_DEBOUNCE, so that another begins?
          MaxChanges,   \* bound on listings received
          MaxStops,     \* bound on restarts
          MaxFailures   \* bound on failed writes

VARIABLES cache,     \* per cached directory: when it was fetched and last used
          uploads,   \* directories with an upload on its way into them
          busy,      \* directories being refreshed
          changes,   \* listings received so far
          asked,     \* the last of them a save was asked for
          armed,     \* SAVE_ARMED
          saver,     \* per worker: where it is, its snapshot, the inode it writes
          disk,      \* the inode under the temporary's name and under the file's; 0: none
          content,   \* per inode, what is in it
          tally      \* restarts, failures

storeVars == <<cache, uploads, busy, changes, asked, armed, saver, disk, content, tally>>

Asleep == [at |-> "none", as_of |-> 0, dirs |-> <<>>, ino |-> 0]
Empty == [d \in {} |-> 0]

StoreInit ==
    /\ cache = Empty /\ uploads = {} /\ busy = {} /\ changes = 0 /\ asked = 0 /\ armed = FALSE
    /\ saver = [s \in Savers |-> Asleep]
    /\ disk = [tmp |-> 0, file |-> 0] /\ content = <<>>
    /\ tally = [stops |-> 0, failures |-> 0, lost |-> 0]

----------------------------------------------------------------------------
(* The listings. *)

NextTick(c) == 1 + Cardinality({c[d].tick : d \in DOMAIN c})

\* Ticks only matter by their order, so they are kept as ranks.
Ranked(c) == [d \in DOMAIN c |-> [c[d] EXCEPT !.tick = Cardinality({e \in DOMAIN c : c[e].tick <= @})]]
Touch(c, d, at) ==
    Ranked([e \in DOMAIN c \cup {d} |-> IF e = d THEN [fetched |-> at, tick |-> NextTick(c)] ELSE c[e]])

\* evict_dir_cache: least recently used first, but not one being refreshed nor
\* one that alone shows a file still being uploaded.
Evictable_Any(c) == DOMAIN c \ busy
Evictable(c) == DOMAIN c \ (busy \cup uploads)
evict_dir_cache(c) ==
    LET target == MaxDirs - MaxDirs \div 10
        drop == {d \in Evictable(c) :
                   Cardinality({e \in Evictable(c) : c[e].tick < c[d].tick}) < Cardinality(DOMAIN c) - target}
    IN  IF Cardinality(DOMAIN c) <= MaxDirs THEN c ELSE Ranked([d \in DOMAIN c \ drop |-> c[d]])

\* put_dir_cache: the listing arrives, and the refresh that fetched it ends.
put_dir_cache(d) ==
    /\ changes < MaxChanges /\ changes' = changes + 1
    /\ busy' = busy \ {d}
    /\ cache' = evict_dir_cache(Touch(cache, d, changes'))
    /\ UNCHANGED <<uploads, asked, armed, saver, disk, content, tally>>

\* A listing is used, is refreshed, gets a new file, whose upload ends.
Used(d) ==
    /\ d \in DOMAIN cache
    /\ cache' = Touch(cache, d, cache[d].fetched)
    /\ UNCHANGED <<uploads, busy, changes, asked, armed, saver, disk, content, tally>>
RefreshStarts(d) ==
    /\ d \in DOMAIN cache /\ busy' = busy \cup {d}
    /\ UNCHANGED <<cache, uploads, changes, asked, armed, saver, disk, content, tally>>
Upload(d) ==
    /\ d \in DOMAIN cache
    /\ uploads' = IF d \in uploads THEN uploads \ {d} ELSE uploads \cup {d}
    /\ UNCHANGED <<cache, busy, changes, asked, armed, saver, disk, content, tally>>

----------------------------------------------------------------------------
(* The saver. *)

\* schedule_save_dir_cache.  A pool that refuses the job leaves the saver
\* disarmed and nothing asked for.
schedule_save_dir_cache ==
    /\ changes > asked
    /\ IF armed THEN asked' = changes /\ UNCHANGED <<armed, saver>>
       ELSE /\ asked' = changes /\ armed' = TRUE
            /\ \E s \in Savers : saver[s].at = "none" /\ saver' = [saver EXCEPT ![s] = [@ EXCEPT !.at = "debounce"]]
    /\ UNCHANGED <<cache, uploads, busy, changes, disk, content, tally>>

\* Quiet for SAVE_DEBOUNCE, or put off for SAVE_MAX_DEFER.
Writing == {s \in Savers : saver[s].at \notin {"none", "debounce"}}
Debounced_StaysArmed(s) ==
    /\ saver[s].at = "debounce" /\ (Writing = {} \/ Overlaps)
    /\ saver' = [saver EXCEPT ![s] = [@ EXCEPT !.at = "snapshot"]]
    /\ UNCHANGED <<cache, uploads, busy, changes, asked, armed, disk, content, tally>>
Debounced(s) ==
    /\ saver[s].at = "debounce" /\ (Writing = {} \/ Overlaps)
    /\ armed' = FALSE
    /\ saver' = [saver EXCEPT ![s] = [@ EXCEPT !.at = "snapshot"]]
    /\ UNCHANGED <<cache, uploads, busy, changes, asked, disk, content, tally>>

Snapshot(s) ==
    /\ saver[s].at = "snapshot"
    /\ saver' = [saver EXCEPT ![s] = [at |-> "create", as_of |-> changes, ino |-> 0,
                                       dirs |-> [d \in DOMAIN cache |-> cache[d].fetched]]]
    /\ UNCHANGED <<cache, uploads, busy, changes, asked, armed, disk, content, tally>>

Create(s) ==
    /\ saver[s].at = "create"
    /\ LET ino == IF disk.tmp # 0 THEN disk.tmp ELSE Len(content) + 1
       IN  /\ content' = [i \in DOMAIN content \cup {ino} |->
                            IF i = ino THEN [by |-> s, whole |-> FALSE, dirs |-> Empty, as_of |-> 0] ELSE content[i]]
           /\ disk' = [disk EXCEPT !.tmp = ino]
           /\ saver' = [saver EXCEPT ![s] = [at |-> "write", as_of |-> saver[s].as_of,
                                          dirs |-> saver[s].dirs, ino |-> ino]]
    /\ UNCHANGED <<cache, uploads, busy, changes, asked, armed, tally>>

\* to_writer and sync_all are through.  If the other saver opened the file
\* meanwhile, what is in it is neither's.
Written(s) ==
    /\ saver[s].at = "write"
    /\ content' = [content EXCEPT ![saver[s].ino] =
                     IF @.by = s THEN [by |-> s, whole |-> TRUE, dirs |-> saver[s].dirs, as_of |-> saver[s].as_of]
                     ELSE [@ EXCEPT !.by = 0, !.whole = FALSE]]
    /\ saver' = [saver EXCEPT ![s] = [@ EXCEPT !.at = "rename"]]
    /\ UNCHANGED <<cache, uploads, busy, changes, asked, armed, disk, tally>>

Rename(s) ==
    /\ saver[s].at = "rename"
    /\ disk' = IF disk.tmp = 0 THEN disk ELSE [tmp |-> 0, file |-> disk.tmp]
    /\ saver' = [saver EXCEPT ![s] = Asleep]
    /\ UNCHANGED <<cache, uploads, busy, changes, asked, armed, content, tally>>

\* Create, write, sync or rename fails: a temporary is removed, the file stays.
Fails_InPlace(s) ==
    /\ saver[s].at \in {"write", "rename"} /\ tally.failures < MaxFailures
    /\ disk' = [tmp |-> 0, file |-> disk.tmp]
    /\ saver' = [saver EXCEPT ![s] = Asleep]
    /\ tally' = [tally EXCEPT !.failures = @ + 1, !.lost = saver[s].as_of]
    /\ UNCHANGED <<cache, uploads, busy, changes, asked, armed, content>>
Fails(s) ==
    /\ saver[s].at \in {"create", "write", "rename"} /\ tally.failures < MaxFailures
    /\ disk' = IF saver[s].at = "create" THEN disk ELSE [disk EXCEPT !.tmp = 0]
    /\ saver' = [saver EXCEPT ![s] = Asleep]
    /\ tally' = [tally EXCEPT !.failures = @ + 1, !.lost = saver[s].as_of]
    /\ UNCHANGED <<cache, uploads, busy, changes, asked, armed, content>>

----------------------------------------------------------------------------
(* A restart. *)

Saved == IF disk.file # 0 /\ content[disk.file].whole THEN content[disk.file].dirs ELSE Empty

\* load_dir_cache: the most recently fetched, the oldest getting the first tick.
load_dir_cache(f) ==
    LET kept == {d \in DOMAIN f : Cardinality({e \in DOMAIN f : f[e] > f[d]}) < MaxDirs}
    IN  [d \in kept |-> [fetched |-> f[d], tick |-> Cardinality({e \in kept : f[e] <= f[d]})]]

Restart ==
    /\ tally.stops < MaxStops
    /\ tally' = [tally EXCEPT !.stops = @ + 1, !.lost = changes]
    /\ cache' = load_dir_cache(Saved)
    /\ uploads' = {} /\ busy' = {} /\ asked' = changes /\ armed' = FALSE
    /\ saver' = [s \in Savers |-> Asleep]
    /\ UNCHANGED <<changes, disk, content>>

StoreNext ==
    \/ \E d \in Dirs : put_dir_cache(d) \/ Used(d) \/ RefreshStarts(d) \/ Upload(d)
    \/ schedule_save_dir_cache
    \/ \E s \in Savers : Debounced(s) \/ Snapshot(s) \/ Create(s) \/ Written(s) \/ Rename(s) \/ Fails(s)
    \/ Restart

StoreSpec == StoreInit /\ [][StoreNext]_storeVars

----------------------------------------------------------------------------
StoreTypeOK ==
    /\ DOMAIN cache \subseteq Dirs
    /\ \A d, e \in DOMAIN cache : d # e => cache[d].tick # cache[e].tick
    /\ asked \in 0..changes
    /\ {disk.tmp, disk.file} \ {0} \subseteq DOMAIN content

\* A directory with an upload on its way stays listed, however many others are
\* listed meanwhile: the new file is nowhere else yet.
UploadsListed == uploads \subseteq DOMAIN cache

\* Whenever the daemon is stopped, dir_cache.json is there whole.
FileWhole == disk.file # 0 => content[disk.file].whole

\* A listing a save was asked for is in the file, in a snapshot on its way to
\* it, or has a saver yet to take one, unless writing it failed.
SaveNotDropped ==
    LET saved == IF disk.file = 0 THEN 0 ELSE content[disk.file].as_of
    IN  asked <= saved \/ asked <= tally.lost
        \/ \E s \in Savers : saver[s].at \in {"debounce", "snapshot"} \/ saver[s].as_of >= asked

\* The saved listing cache is whole after any stop, loses no save that was
\* asked for, and the cache never evicts a folder with an upload on its way.
StoreKept == UploadsListed /\ FileWhole /\ SaveNotDropped
=============================================================================
