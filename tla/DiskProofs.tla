----------------------------- MODULE DiskProofs -----------------------------
(***************************************************************************)
(* Proofs about what is on disk: the saved listings, and files left under  *)
(* the mount point.                                                        *)
(***************************************************************************)
EXTENDS ListingStore, MountPoint, Integers, TLAPS

-----------------------------------------------------------------------------
(***************************************************************************)
(* ListingStore: with one writer at a time the saved cache is whole, and   *)
(* no save that was asked for is forgotten.                                *)
(***************************************************************************)

\* The inodes made so far are numbered from 1, and the two names are of two files.
InodesOK ==
    /\ \E n \in Nat : DOMAIN content = 1..n /\ content = [i \in 1..n |-> content[i]]
    /\ disk = [tmp |-> disk.tmp, file |-> disk.file]
    /\ disk.tmp \in DOMAIN content \cup {0} /\ disk.file \in DOMAIN content \cup {0}
    /\ disk.tmp = disk.file => disk.tmp = 0

\* Where a saver can be, and the counters.
Places == {"none", "debounce", "snapshot", "create", "write", "rename"}
CountsOK ==
    /\ changes \in Nat /\ asked \in Nat
    /\ tally = [stops |-> tally.stops, failures |-> tally.failures, lost |-> tally.lost]
    /\ tally.lost \in Nat
    /\ asked <= changes /\ tally.lost <= changes

\* The snapshot in dir_cache.json.
OnDisk == IF disk.file = 0 THEN 0 ELSE content[disk.file].as_of

\* A saver that has its snapshot has one no older than what the file holds.
SaverOK(s) ==
    LET r == saver[s]
    IN  /\ r = [at |-> r.at, as_of |-> r.as_of, dirs |-> r.dirs, ino |-> r.ino]
        /\ r.at \in Places /\ r.as_of \in Nat
        /\ r.at \in {"create", "write", "rename"} =>
             r.as_of <= changes /\ tally.lost <= r.as_of /\ OnDisk <= r.as_of
        /\ r.at \in {"write", "rename"} =>
             /\ disk.tmp = r.ino /\ r.ino # 0
             /\ content[r.ino].by = s
        /\ r.at = "rename" => content[r.ino].whole /\ content[r.ino].as_of = r.as_of

\* There is one writer at most.
SaversOK ==
    /\ DOMAIN saver = Savers
    /\ \A s \in Savers : SaverOK(s)
    /\ \A s, t \in Writing : s = t

\* The inductive invariant.
StoreInv ==
    /\ InodesOK /\ CountsOK /\ SaversOK
    /\ OnDisk \in Nat /\ OnDisk <= changes
    /\ armed => \E s \in Savers : saver[s].at = "debounce"
    /\ StoreKept

----------------------------------------------------------------------------
(* The listings. *)

\* Using or replacing a listing drops none.
LEMMA TouchKeeps == ASSUME NEW c, NEW d, NEW at PROVE DOMAIN Touch(c, d, at) = DOMAIN c \cup {d}
  BY Zenon DEF Touch, Ranked

\* evict_dir_cache drops no directory with an upload on its way.
LEMMA EvictKeeps == ASSUME NEW c, uploads \subseteq DOMAIN c PROVE uploads \subseteq DOMAIN evict_dir_cache(c)
  <1> DEFINE drop == {d \in Evictable(c) : Cardinality({e \in Evictable(c) : c[e].tick < c[d].tick})
                                             < Cardinality(DOMAIN c) - (MaxDirs - MaxDirs \div 10)}
             rest == [d \in DOMAIN c \ drop |-> c[d]]
  <1>1. drop \cap uploads = {}  BY Zenon DEF Evictable
  <1>2. DOMAIN rest = DOMAIN c \ drop  BY Zenon
  <1>3. uploads \subseteq DOMAIN rest  BY <1>1, <1>2, Zenon
  <1>4. evict_dir_cache(c) \in {c, Ranked(rest)}  BY Zenon DEF evict_dir_cache
  <1> HIDE DEF rest
  <1>5. DOMAIN Ranked(rest) = DOMAIN rest  BY Zenon DEF Ranked
  <1> QED  BY <1>3, <1>4, <1>5, Zenon

\* A step that leaves the savers and the files alone, and receives at most a
\* listing, keeps everything but perhaps the listings themselves.
LEMMA SaversCarried ==
    ASSUME StoreInv, UNCHANGED <<asked, armed, saver, disk, content, tally>>,
           changes' \in Nat, changes <= changes', UploadsListed'
    PROVE  StoreInv'
  <1>1. InodesOK'  BY Zenon DEF StoreInv, InodesOK
  <1>2. CountsOK'  BY DEF StoreInv, CountsOK
  <1>3. OnDisk' = OnDisk  BY Zenon DEF OnDisk
  <1>4. SaversOK'
    <2>1. ASSUME NEW s \in Savers PROVE SaverOK(s)'
      BY <1>3 DEF StoreInv, SaversOK, SaverOK, CountsOK
    <2> QED  BY <2>1, Zenon DEF StoreInv, SaversOK, Writing
  <1>5. OnDisk' \in Nat /\ OnDisk' <= changes'  BY <1>3 DEF StoreInv, CountsOK
  <1>6. FileWhole' /\ SaveNotDropped'  BY Zenon DEF StoreInv, StoreKept, FileWhole, SaveNotDropped
  <1> QED  BY <1>1, <1>2, <1>4, <1>5, <1>6, Zenon DEF StoreInv, StoreKept

\* The steps on listings.
LEMMA ListingsStep ==
    ASSUME StoreInv, NEW d, put_dir_cache(d) \/ Used(d) \/ RefreshStarts(d) \/ Upload(d)
    PROVE  StoreInv'
  <1>0. changes \in Nat /\ uploads \subseteq DOMAIN cache
    BY Zenon DEF StoreInv, CountsOK, StoreKept, UploadsListed
  <1>1. CASE put_dir_cache(d)
    <2>1. PICK t : t = Touch(cache, d, changes')  BY Zenon
    <2>2. uploads \subseteq DOMAIN t
      <3>1. DOMAIN Touch(cache, d, changes') = DOMAIN cache \cup {d}  BY TouchKeeps, Zenon
      <3> QED  BY <1>0, <2>1, <3>1, Zenon
    <2>3. cache' = evict_dir_cache(t)  BY <1>1, <2>1, Zenon DEF put_dir_cache
    <2>4. UploadsListed'  BY <1>1, <2>2, <2>3, EvictKeeps, Zenon DEF put_dir_cache, UploadsListed
    <2> QED  BY <1>0, <1>1, <2>4, SaversCarried DEF put_dir_cache
  <1>2. CASE Used(d)
    <2>1. UploadsListed'
      <3>1. DOMAIN Touch(cache, d, cache[d].fetched) = DOMAIN cache \cup {d}  BY TouchKeeps, Zenon
      <3> QED  BY <1>0, <1>2, <3>1, Zenon DEF Used, UploadsListed
    <2> QED  BY <1>0, <1>2, <2>1, SaversCarried DEF Used
  <1>3. CASE RefreshStarts(d)
    <2>1. UploadsListed'  BY <1>0, <1>3, Zenon DEF RefreshStarts, UploadsListed
    <2> QED  BY <1>0, <1>3, <2>1, SaversCarried DEF RefreshStarts
  <1>4. CASE Upload(d)
    <2>1. UploadsListed'  BY <1>0, <1>4, Zenon DEF Upload, UploadsListed
    <2> QED  BY <1>0, <1>4, <2>1, SaversCarried DEF Upload
  <1> QED  BY <1>1, <1>2, <1>3, <1>4, Zenon

----------------------------------------------------------------------------
(* The saver. *)

\* Everything that a step of saver s leaves alone about the others.
LEMMA OthersCarried ==
    ASSUME StoreInv, NEW s \in Savers, NEW r, saver' = [saver EXCEPT ![s] = r],
           NEW t \in Savers, t # s
    PROVE  saver'[t] = saver[t] /\ SaverOK(t) /\ saver'[s] = r /\ DOMAIN saver' = Savers
  BY Zenon DEF StoreInv, SaversOK

\* schedule_save_dir_cache: the saver that is armed, or the one armed now, has
\* still to take its snapshot.
LEMMA ScheduleStep == ASSUME StoreInv, schedule_save_dir_cache PROVE StoreInv'
  <1>0. asked' = changes /\ UNCHANGED <<cache, uploads, busy, changes, disk, content, tally>>
    BY Zenon DEF schedule_save_dir_cache
  <1>1. InodesOK'  BY <1>0, Zenon DEF StoreInv, InodesOK
  <1>2. OnDisk' = OnDisk  BY <1>0, Zenon DEF OnDisk
  <1>3. UploadsListed' /\ FileWhole'  BY <1>0, Zenon DEF StoreInv, StoreKept, UploadsListed, FileWhole
  <1>4. CASE armed
    <2>1. UNCHANGED <<armed, saver>>  BY <1>4, Zenon DEF schedule_save_dir_cache
    <2>2. CountsOK'  BY <1>0, <2>1 DEF StoreInv, CountsOK
    <2>3. SaversOK'
      <3>1. ASSUME NEW s \in Savers PROVE SaverOK(s)'
        BY <1>0, <1>2, <2>1, Zenon DEF StoreInv, SaversOK, SaverOK
      <3> QED  BY <2>1, <3>1, Zenon DEF StoreInv, SaversOK, Writing
    <2>4. \E s \in Savers : saver'[s].at = "debounce"  BY <1>4, <2>1, Zenon DEF StoreInv
    <2>5. SaveNotDropped'  BY <2>4, Zenon DEF SaveNotDropped
    <2> QED  BY <1>0, <1>1, <1>2, <1>3, <2>2, <2>3, <2>4, <2>5, Zenon DEF StoreInv, StoreKept
  <1>5. CASE ~armed
    <2>1. PICK s \in Savers : saver[s].at = "none"
                              /\ saver' = [saver EXCEPT ![s] = [saver[s] EXCEPT !.at = "debounce"]]
      BY <1>5, Zenon DEF schedule_save_dir_cache
    <2>2. armed' = TRUE  BY <1>5, Zenon DEF schedule_save_dir_cache
    <2>3. CountsOK'  BY <1>0, <2>2 DEF StoreInv, CountsOK
    <2>4. SaverOK(s)  BY Zenon DEF StoreInv, SaversOK
    <2>5. saver'[s] = [at |-> "debounce", as_of |-> saver[s].as_of, dirs |-> saver[s].dirs, ino |-> saver[s].ino]
      BY <2>1, <2>4, Zenon DEF StoreInv, SaversOK, SaverOK
    <2>6. SaversOK'
      <3>1. ASSUME NEW t \in Savers PROVE SaverOK(t)'
        <4>1. CASE t = s
          <5>1. saver'[t].at = "debounce" /\ saver'[t].as_of = saver[s].as_of  BY <2>5, <4>1
          <5>2. saver'[t] = [at |-> saver'[t].at, as_of |-> saver'[t].as_of, dirs |-> saver'[t].dirs,
                             ino |-> saver'[t].ino]
            BY <2>5, <4>1, Zenon
          <5> QED  BY <2>4, <5>1, <5>2, Zenon DEF SaverOK, Places
        <4>2. CASE t # s
          <5>1. saver'[t] = saver[t] /\ SaverOK(t)  BY <2>1, <4>2, OthersCarried, Zenon
          <5> QED  BY <1>0, <1>2, <5>1, Zenon DEF SaverOK
        <4> QED  BY <4>1, <4>2, Zenon
      <3>2. DOMAIN saver' = Savers  BY <2>1, Zenon DEF StoreInv, SaversOK
      <3>3. Writing' \subseteq Writing
        <4>1. ASSUME NEW t \in Writing' PROVE t \in Writing
          <5>1. t \in Savers /\ saver'[t].at \notin {"none", "debounce"}  BY Zenon DEF Writing
          <5>2. t # s  BY <2>5, <5>1
          <5>3. saver'[t] = saver[t]  BY <2>1, <5>1, <5>2, OthersCarried, Zenon
          <5> QED  BY <5>1, <5>3, Zenon DEF Writing
        <4> QED  BY <4>1, Zenon
      <3> QED  BY <3>1, <3>2, <3>3, Zenon DEF StoreInv, SaversOK
    <2>7. SaveNotDropped'  BY <2>5 DEF SaveNotDropped
    <2> QED  BY <1>0, <1>1, <1>2, <1>3, <2>3, <2>5, <2>6, <2>7 DEF StoreInv, StoreKept
  <1> QED  BY <1>4, <1>5, Zenon
\* A saver takes another place: what is left to show is about itself and the files.
LEMMA SaverMoves ==
    ASSUME StoreInv, NEW s \in Savers, NEW r, saver' = [saver EXCEPT ![s] = r],
           UNCHANGED <<cache, uploads, changes, asked>>,
           SaverOK(s)', InodesOK', CountsOK', FileWhole',
           OnDisk' \in Nat, OnDisk' <= changes,
           r.at \notin {"none", "debounce"} => Writing \subseteq {s},
           r.at # "debounce" => ~armed' \/ (UNCHANGED armed /\ saver[s].at # "debounce"),
           \A t \in Savers \ {s} : SaverOK(t) => SaverOK(t)',
           SaveNotDropped'
    PROVE  StoreInv'
  <1>1. saver'[s] = r /\ \A t \in Savers \ {s} : saver'[t] = saver[t]  BY Zenon DEF StoreInv, SaversOK
  <1>2. SaversOK'
    <2>1. \A t \in Savers : SaverOK(t)'  BY Zenon DEF StoreInv, SaversOK
    <2>2. Writing' \subseteq Writing \cup {s}  BY <1>1, Zenon DEF Writing
    <2>3. r.at \in {"none", "debounce"} => s \notin Writing'  BY <1>1, Zenon DEF Writing
    <2>4. \A t, u \in Writing' : t = u
      <3>1. CASE r.at \in {"none", "debounce"}  BY <2>2, <2>3, <3>1, Zenon DEF StoreInv, SaversOK
      <3>2. CASE r.at \notin {"none", "debounce"}  BY <2>2, <3>2, Zenon
      <3> QED  BY <3>1, <3>2, Zenon
    <2> QED  BY <2>1, <2>4, Zenon DEF StoreInv, SaversOK
  <1>3. UploadsListed'  BY Zenon DEF StoreInv, StoreKept, UploadsListed
  <1>4. armed' => \E t \in Savers : saver'[t].at = "debounce"
    <2>1. CASE r.at = "debounce"  BY <1>1, <2>1, Zenon
    <2>2. CASE r.at # "debounce" /\ armed'
      <3>1. armed /\ saver[s].at # "debounce"  BY <2>2, Zenon
      <3>2. PICK t \in Savers : saver[t].at = "debounce"  BY <3>1, Zenon DEF StoreInv
      <3> QED  BY <1>1, <3>1, <3>2, Zenon
    <2> QED  BY <2>1, <2>2, Zenon
  <1> QED  BY <1>2, <1>3, <1>4, Zenon DEF StoreInv, StoreKept

\* The saver wakes up and disarms: it alone writes.
LEMMA DebouncedStep ==
    ASSUME StoreInv, ~Overlaps, NEW s \in Savers, Debounced(s)
    PROVE  StoreInv'
  <1> DEFINE r == [saver[s] EXCEPT !.at = "snapshot"]
  <1>0. /\ saver[s].at = "debounce" /\ Writing = {} /\ armed' = FALSE
        /\ UNCHANGED <<cache, uploads, busy, changes, asked, disk, content, tally>>
    BY Zenon DEF Debounced
  <1>1. saver' = [saver EXCEPT ![s] = r]  BY Zenon DEF Debounced
  <1>2. SaverOK(s)  BY Zenon DEF StoreInv, SaversOK
  <1>3. r = [at |-> "snapshot", as_of |-> saver[s].as_of, dirs |-> saver[s].dirs, ino |-> saver[s].ino]
    BY <1>2 DEF SaverOK
  <1> HIDE DEF r
  <1>4. saver'[s] = r  BY <1>1, Zenon DEF StoreInv, SaversOK
  <1>5. SaverOK(s)'  BY <1>2, <1>3, <1>4 DEF SaverOK, Places
  <1>6. InodesOK' /\ OnDisk' = OnDisk /\ FileWhole'
    BY <1>0, Zenon DEF StoreInv, InodesOK, OnDisk, StoreKept, FileWhole
  <1>7. CountsOK'  BY <1>0, Zenon DEF StoreInv, CountsOK
  <1>8. \A t \in Savers \ {s} : SaverOK(t) => SaverOK(t)'
    <2>1. ASSUME NEW t \in Savers, t # s, SaverOK(t) PROVE SaverOK(t)'
      <3>1. saver'[t] = saver[t]  BY <1>1, <2>1, OthersCarried, Zenon
      <3> QED  BY <1>0, <1>6, <2>1, <3>1, Zenon DEF SaverOK
    <2> QED  BY <2>1, Zenon
  <1>9. SaveNotDropped'  BY <1>3, <1>4 DEF SaveNotDropped
  <1> QED  BY <1>0, <1>1, <1>3, <1>5, <1>6, <1>7, <1>8, <1>9, SaverMoves, Zenon DEF StoreInv

\* Saver s at "snapshot" or later is the only one there.
LEMMA OnlyWriter ==
    ASSUME StoreInv, NEW s \in Savers, saver[s].at \notin {"none", "debounce"}
    PROVE  /\ Writing \subseteq {s}
           /\ \A t \in Savers \ {s} : saver[t].at \in {"none", "debounce"}
  BY Zenon DEF StoreInv, SaversOK, Writing

\* So nothing it does to the files concerns another saver.
LEMMA IdleCarried ==
    ASSUME StoreInv, NEW s \in Savers, saver[s].at \notin {"none", "debounce"},
           NEW r, saver' = [saver EXCEPT ![s] = r]
    PROVE  \A t \in Savers \ {s} : SaverOK(t) => SaverOK(t)'
  <1>1. ASSUME NEW t \in Savers, t # s, SaverOK(t) PROVE SaverOK(t)'
    <2>1. saver'[t] = saver[t] /\ saver[t].at \in {"none", "debounce"}  BY <1>1, OthersCarried, OnlyWriter, Zenon
    <2> QED  BY <1>1, <2>1, Zenon DEF SaverOK
  <1> QED  BY <1>1, Zenon

\* The snapshot has every listing received so far.
LEMMA SnapshotStep == ASSUME StoreInv, NEW s \in Savers, Snapshot(s) PROVE StoreInv'
  <1> DEFINE r == [at |-> "create", as_of |-> changes, ino |-> 0,
                   dirs |-> [d \in DOMAIN cache |-> cache[d].fetched]]
  <1>0. /\ saver[s].at = "snapshot" /\ saver' = [saver EXCEPT ![s] = r]
        /\ UNCHANGED <<cache, uploads, busy, changes, asked, armed, disk, content, tally>>
    BY Zenon DEF Snapshot
  <1>1. r.at = "create" /\ r.as_of = changes
        /\ r = [at |-> r.at, as_of |-> r.as_of, dirs |-> r.dirs, ino |-> r.ino]
    BY Zenon
  <1> HIDE DEF r
  <1>2. saver'[s] = r  BY <1>0, Zenon DEF StoreInv, SaversOK
  <1>3. InodesOK' /\ OnDisk' = OnDisk /\ FileWhole'
    BY <1>0, Zenon DEF StoreInv, InodesOK, OnDisk, StoreKept, FileWhole
  <1>4. CountsOK'  BY <1>0, Zenon DEF StoreInv, CountsOK
  <1>5. SaverOK(s)'  BY <1>0, <1>1, <1>2, <1>3 DEF SaverOK, Places, StoreInv, CountsOK
  <1>6. SaveNotDropped'  BY <1>0, <1>1, <1>2, Zenon DEF SaveNotDropped, StoreInv, CountsOK
  <1>7. Writing \subseteq {s} /\ \A t \in Savers \ {s} : SaverOK(t) => SaverOK(t)'
    BY <1>0, OnlyWriter, IdleCarried, Zenon
  <1> QED  BY <1>0, <1>1, <1>3, <1>4, <1>5, <1>6, <1>7, SaverMoves, Zenon DEF StoreInv

\* The temporary is opened: a file of its own, or one left behind, never
\* dir_cache.json.
LEMMA CreateStep == ASSUME StoreInv, NEW s \in Savers, Create(s) PROVE StoreInv'
  <1> DEFINE ino == IF disk.tmp # 0 THEN disk.tmp ELSE Len(content) + 1
             blank == [by |-> s, whole |-> FALSE, dirs |-> Empty, as_of |-> 0]
             r == [at |-> "write", as_of |-> saver[s].as_of, dirs |-> saver[s].dirs, ino |-> ino]
  <1>0. /\ saver[s].at = "create"
        /\ UNCHANGED <<cache, uploads, busy, changes, asked, armed, tally>>
    BY Zenon DEF Create
  <1>1. content' = [i \in DOMAIN content \cup {ino} |-> IF i = ino THEN blank ELSE content[i]]
    BY Zenon DEF Create
  <1>2. disk' = [disk EXCEPT !.tmp = ino]  BY Zenon DEF Create
  <1>3. saver' = [saver EXCEPT ![s] = r]  BY Zenon DEF Create
  <1>4. PICK n \in Nat : DOMAIN content = 1..n /\ content = [k \in 1..n |-> content[k]]  BY Zenon DEF StoreInv, InodesOK
  <1>5. Len(content) = n  BY <1>4
  <1>6. ino \in 1..(n + 1) /\ ino # disk.file /\ ino # 0 /\ (ino \in DOMAIN content \/ ino = n + 1)
    BY <1>4, <1>5 DEF StoreInv, InodesOK
  <1>7. PICK i : i = ino  BY Zenon
  <1>8. SaverOK(s)  BY Zenon DEF StoreInv, SaversOK
  <1>9. r = [at |-> "write", as_of |-> saver[s].as_of, dirs |-> saver[s].dirs, ino |-> i]
    BY <1>7, Zenon
  <1>10. disk' = [tmp |-> i, file |-> disk.file]  BY <1>2, <1>7, Zenon DEF StoreInv, InodesOK
  <1>11. content' = [j \in DOMAIN content \cup {i} |-> IF j = i THEN blank ELSE content[j]]
    BY <1>1, <1>7, Zenon
  <1>12. blank.by = s  BY Zenon
  <1>13. i \in 1..(n + 1) /\ i # disk.file /\ i # 0 /\ (i \in DOMAIN content \/ i = n + 1)
    BY <1>6, <1>7, Zenon
  <1> HIDE DEF ino, blank, r
  <1>14. InodesOK'
    <2>1. DOMAIN content' = 1..n \/ DOMAIN content' = 1..(n + 1)  BY <1>4, <1>11, <1>13
    <2>2. disk'.file \in DOMAIN content' \cup {0} /\ disk'.tmp \in DOMAIN content'
      BY <1>10, <1>11, Zenon DEF StoreInv, InodesOK
    <2>3. content' = [j \in DOMAIN content' |-> content'[j]]  BY <1>11, Zenon
    <2>4. \E m \in Nat : DOMAIN content' = 1..m /\ content' = [j \in 1..m |-> content'[j]]
      <3>1. n + 1 \in Nat  BY <1>4
      <3> QED  BY <2>1, <2>3, <3>1, Zenon
    <2>5. disk' = [tmp |-> disk'.tmp, file |-> disk'.file] /\ (disk'.tmp = disk'.file => disk'.tmp = 0)
      BY <1>10, <1>13, Zenon
    <2> QED  BY <2>2, <2>4, <2>5, Zenon DEF InodesOK
  <1>15. disk.file # 0 => content'[disk.file] = content[disk.file]
    BY <1>11, <1>13, Zenon DEF StoreInv, InodesOK
  <1>16. OnDisk' = OnDisk /\ FileWhole'
    BY <1>10, <1>15, Zenon DEF OnDisk, StoreInv, StoreKept, FileWhole
  <1>17. CountsOK'  BY <1>0, Zenon DEF StoreInv, CountsOK
  <1>18. saver'[s] = r  BY <1>3, Zenon DEF StoreInv, SaversOK
  <1>19. content'[i].by = s  BY <1>11, <1>12, Zenon
  <1>20. SaverOK(s)'
    <2>1. saver'[s] = [at |-> saver'[s].at, as_of |-> saver'[s].as_of, dirs |-> saver'[s].dirs, ino |-> saver'[s].ino]
          /\ saver'[s].at = "write" /\ saver'[s].as_of = saver[s].as_of /\ saver'[s].ino = i
      BY <1>9, <1>18, SMTT(30)
    <2>2. saver[s].as_of \in Nat /\ saver[s].as_of <= changes /\ tally.lost <= saver[s].as_of /\ OnDisk <= saver[s].as_of
      BY <1>0, <1>8, Zenon DEF SaverOK
    <2>3. saver'[s].as_of <= changes' /\ tally'.lost <= saver'[s].as_of /\ OnDisk' <= saver'[s].as_of
      BY <1>0, <1>16, <2>1, <2>2, Zenon
    <2>4. disk'.tmp = i /\ i # 0  BY <1>10, <1>13, Zenon
    <2> QED  BY <1>19, <2>1, <2>2, <2>3, <2>4, Zenon DEF SaverOK, Places
  <1>21. SaveNotDropped'
    <2>1. saver'[s].as_of = saver[s].as_of  BY <1>9, <1>18, SMTT(30)
    <2>2. \A t \in Savers : saver'[t].as_of = saver[t].as_of
                            /\ (saver[t].at \in {"debounce", "snapshot"} => saver'[t].at = saver[t].at)
      BY <1>0, <1>3, <2>1, Zenon DEF StoreInv, SaversOK
    <2>3. asked <= OnDisk \/ asked <= tally.lost
          \/ \E t \in Savers : saver[t].at \in {"debounce", "snapshot"} \/ saver[t].as_of >= asked
      BY Zenon DEF StoreInv, StoreKept, SaveNotDropped, OnDisk
    <2>4. asked' <= OnDisk' \/ asked' <= tally'.lost
          \/ \E t \in Savers : saver'[t].at \in {"debounce", "snapshot"} \/ saver'[t].as_of >= asked'
      BY <1>0, <1>16, <2>2, <2>3, Zenon
    <2> QED  BY <2>4, Zenon DEF SaveNotDropped, OnDisk
  <1>22. Writing \subseteq {s} /\ \A t \in Savers \ {s} : SaverOK(t) => SaverOK(t)'
    BY <1>0, <1>3, OnlyWriter, IdleCarried, Zenon
  <1>23. r.at = "write"  BY <1>9, Zenon
  <1> QED
    BY <1>0, <1>3, <1>14, <1>16, <1>17, <1>20, <1>21, <1>22, <1>23, SaverMoves, Zenon DEF StoreInv

\* The temporary is whole: nobody else opened it meanwhile.
LEMMA WrittenStep == ASSUME StoreInv, NEW s \in Savers, Written(s) PROVE StoreInv'
  <1> DEFINE full == [by |-> s, whole |-> TRUE, dirs |-> saver[s].dirs, as_of |-> saver[s].as_of]
             r == [saver[s] EXCEPT !.at = "rename"]
  <1>0. /\ saver[s].at = "write"
        /\ UNCHANGED <<cache, uploads, busy, changes, asked, armed, disk, tally>>
    BY Zenon DEF Written
  <1>1. SaverOK(s)  BY Zenon DEF StoreInv, SaversOK
  <1>2. PICK i : i = saver[s].ino  BY Zenon
  <1>3. i = disk.tmp /\ i # 0 /\ i \in DOMAIN content /\ i # disk.file /\ content[i].by = s
    BY <1>0, <1>1, <1>2, Zenon DEF SaverOK, StoreInv, InodesOK
  <1>4. content' = [content EXCEPT ![i] = full]  BY <1>2, <1>3, Zenon DEF Written
  <1>5. saver' = [saver EXCEPT ![s] = r]  BY Zenon DEF Written
  <1>6. r = [at |-> "rename", as_of |-> saver[s].as_of, dirs |-> saver[s].dirs, ino |-> i]
    BY <1>1, <1>2 DEF SaverOK
  <1>7. full.by = s /\ full.whole /\ full.as_of = saver[s].as_of  BY Zenon
  <1> HIDE DEF full, r
  <1>8. InodesOK'  BY <1>0, <1>4, Zenon DEF StoreInv, InodesOK
  <1>9. disk.file # 0 => content'[disk.file] = content[disk.file]  BY <1>3, <1>4, Zenon DEF StoreInv, InodesOK
  <1>10. OnDisk' = OnDisk /\ FileWhole'
    BY <1>0, <1>9, Zenon DEF OnDisk, StoreInv, StoreKept, FileWhole
  <1>11. CountsOK'  BY <1>0, Zenon DEF StoreInv, CountsOK
  <1>12. saver'[s] = r  BY <1>5, Zenon DEF StoreInv, SaversOK
  <1>13. content'[i] = full  BY <1>3, <1>4, Zenon DEF StoreInv, InodesOK
  <1>14. SaverOK(s)'
    <2>1. saver'[s] = [at |-> saver'[s].at, as_of |-> saver'[s].as_of, dirs |-> saver'[s].dirs, ino |-> saver'[s].ino]
          /\ saver'[s].at = "rename" /\ saver'[s].as_of = saver[s].as_of /\ saver'[s].ino = i
      BY <1>6, <1>12, SMTT(30)
    <2>2. saver[s].as_of \in Nat /\ saver[s].as_of <= changes /\ tally.lost <= saver[s].as_of /\ OnDisk <= saver[s].as_of
      BY <1>0, <1>1, Zenon DEF SaverOK
    <2>3. saver'[s].as_of <= changes' /\ tally'.lost <= saver'[s].as_of /\ OnDisk' <= saver'[s].as_of
      BY <1>0, <1>10, <2>1, <2>2, Zenon
    <2>4. disk'.tmp = i  BY <1>0, <1>3, Zenon
    <2>5. content'[i].by = s /\ content'[i].whole /\ content'[i].as_of = saver[s].as_of  BY <1>7, <1>13, Zenon
    <2> QED  BY <1>3, <2>1, <2>2, <2>3, <2>4, <2>5, Zenon DEF SaverOK, Places
  <1>15. SaveNotDropped'
    <2>1. saver'[s].as_of = saver[s].as_of  BY <1>6, <1>12, SMTT(30)
    <2>2. \A t \in Savers : saver'[t].as_of = saver[t].as_of
                            /\ (saver[t].at \in {"debounce", "snapshot"} => saver'[t].at = saver[t].at)
      BY <1>0, <1>5, <2>1, Zenon DEF StoreInv, SaversOK
    <2>3. asked <= OnDisk \/ asked <= tally.lost
          \/ \E t \in Savers : saver[t].at \in {"debounce", "snapshot"} \/ saver[t].as_of >= asked
      BY Zenon DEF StoreInv, StoreKept, SaveNotDropped, OnDisk
    <2>4. asked' <= OnDisk' \/ asked' <= tally'.lost
          \/ \E t \in Savers : saver'[t].at \in {"debounce", "snapshot"} \/ saver'[t].as_of >= asked'
      BY <1>0, <1>10, <2>2, <2>3, Zenon
    <2> QED  BY <2>4, Zenon DEF SaveNotDropped, OnDisk
  <1>16. Writing \subseteq {s} /\ \A t \in Savers \ {s} : SaverOK(t) => SaverOK(t)'
    BY <1>0, <1>5, OnlyWriter, IdleCarried, Zenon
  <1>17. r.at = "rename"  BY <1>6, Zenon
  <1> QED
    BY <1>0, <1>5, <1>8, <1>10, <1>11, <1>14, <1>15, <1>16, <1>17, SaverMoves, Zenon DEF StoreInv

\* A saver that is done, well or badly, leaves what was asked for in the file
\* or reported lost.
LEMMA SaverEnds ==
    ASSUME StoreInv, NEW s \in Savers, saver[s].at \in {"create", "write", "rename"},
           saver' = [saver EXCEPT ![s] = Asleep],
           UNCHANGED <<cache, uploads, changes, asked, armed, content>>,
           InodesOK', CountsOK', FileWhole', OnDisk' \in Nat, OnDisk' <= changes,
           OnDisk <= OnDisk', tally.lost <= tally'.lost,
           saver[s].as_of <= OnDisk' \/ saver[s].as_of <= tally'.lost
    PROVE  StoreInv'
  <1>1. saver'[s] = Asleep /\ \A t \in Savers \ {s} : saver'[t] = saver[t]  BY Zenon DEF StoreInv, SaversOK
  <1>2. SaverOK(s)'  BY <1>1 DEF SaverOK, Asleep, Places
  <1>3. Writing \subseteq {s} /\ \A t \in Savers \ {s} : SaverOK(t) => SaverOK(t)'
    BY OnlyWriter, IdleCarried, Zenon
  <1>4. SaveNotDropped'
    <2>1. asked <= OnDisk \/ asked <= tally.lost
          \/ \E t \in Savers : saver[t].at \in {"debounce", "snapshot"} \/ saver[t].as_of >= asked
      BY Zenon DEF StoreInv, StoreKept, SaveNotDropped, OnDisk
    <2>2. /\ asked \in Nat /\ OnDisk \in Nat /\ tally.lost \in Nat /\ tally'.lost \in Nat
          /\ saver[s].as_of \in Nat
      BY Zenon DEF StoreInv, CountsOK, SaversOK, SaverOK
    <2>3. asked' <= OnDisk' \/ asked' <= tally'.lost
          \/ \E t \in Savers : saver'[t].at \in {"debounce", "snapshot"} \/ saver'[t].as_of >= asked'
      BY <1>1, <2>1, <2>2
    <2> QED  BY <2>3, Zenon DEF SaveNotDropped, OnDisk
  <1>5. Asleep.at = "none"  BY Zenon DEF Asleep
  <1> QED  BY <1>2, <1>3, <1>4, <1>5, SaverMoves, Zenon

\* The rename puts the newer snapshot in place of the older.
LEMMA RenameStep == ASSUME StoreInv, NEW s \in Savers, Rename(s) PROVE StoreInv'
  <1>0. /\ saver[s].at = "rename" /\ saver' = [saver EXCEPT ![s] = Asleep]
        /\ UNCHANGED <<cache, uploads, busy, changes, asked, armed, content, tally>>
    BY Zenon DEF Rename
  <1>1. SaverOK(s)  BY Zenon DEF StoreInv, SaversOK
  <1>2. /\ disk.tmp # 0 /\ content[disk.tmp].whole /\ content[disk.tmp].as_of = saver[s].as_of
        /\ saver[s].as_of \in Nat /\ saver[s].as_of <= changes /\ OnDisk <= saver[s].as_of
    BY <1>0, <1>1, Zenon DEF SaverOK
  <1>3. disk' = [tmp |-> 0, file |-> disk.tmp]  BY <1>2, Zenon DEF Rename
  <1>4. InodesOK'  BY <1>0, <1>2, <1>3, Zenon DEF StoreInv, InodesOK
  <1>5. OnDisk' = saver[s].as_of /\ FileWhole'  BY <1>0, <1>2, <1>3, Zenon DEF OnDisk, FileWhole
  <1>6. CountsOK'  BY <1>0, Zenon DEF StoreInv, CountsOK
  <1>7. tally.lost \in Nat /\ tally'.lost = tally.lost  BY <1>0, Zenon DEF StoreInv, CountsOK
  <1>8. /\ OnDisk' \in Nat /\ OnDisk' <= changes /\ OnDisk <= OnDisk' /\ tally.lost <= tally'.lost
        /\ saver[s].as_of <= OnDisk'
    BY <1>2, <1>5, <1>7
  <1> QED  BY <1>0, <1>4, <1>5, <1>6, <1>8, SaverEnds, Zenon

\* A failed write is reported, and dir_cache.json stays as it was.
LEMMA FailsStep == ASSUME StoreInv, NEW s \in Savers, Fails(s) PROVE StoreInv'
  <1>0. /\ saver[s].at \in {"create", "write", "rename"} /\ saver' = [saver EXCEPT ![s] = Asleep]
        /\ UNCHANGED <<cache, uploads, busy, changes, asked, armed, content>>
    BY Zenon DEF Fails
  <1>1. SaverOK(s)  BY Zenon DEF StoreInv, SaversOK
  <1>2. saver[s].as_of \in Nat /\ saver[s].as_of <= changes /\ tally.lost <= saver[s].as_of
    BY <1>0, <1>1, Zenon DEF SaverOK
  <1>3. disk' = disk \/ disk' = [tmp |-> 0, file |-> disk.file]
    BY Zenon DEF Fails, StoreInv, InodesOK
  <1>4. InodesOK'  BY <1>0, <1>3 DEF StoreInv, InodesOK
  <1>5. OnDisk' = OnDisk /\ FileWhole'  BY <1>0, <1>3 DEF OnDisk, StoreInv, StoreKept, FileWhole
  <1>6. tally' = [stops |-> tally.stops, failures |-> tally.failures + 1, lost |-> saver[s].as_of]
    BY Zenon DEF Fails, StoreInv, CountsOK
  <1>7. CountsOK'  BY <1>0, <1>2, <1>6, Zenon DEF StoreInv, CountsOK
  <1>8. /\ OnDisk' \in Nat /\ OnDisk' <= changes /\ OnDisk <= OnDisk' /\ tally.lost <= tally'.lost
        /\ saver[s].as_of <= tally'.lost
    BY <1>2, <1>5, <1>6 DEF StoreInv, CountsOK
  <1> QED  BY <1>0, <1>4, <1>5, <1>7, <1>8, SaverEnds, Zenon

\* Whenever the daemon is stopped.
LEMMA StoreRestartStep == ASSUME StoreInv, Restart PROVE StoreInv'
  <1>0. /\ uploads' = {} /\ asked' = changes /\ armed' = FALSE
        /\ saver' = [s \in Savers |-> Asleep] /\ UNCHANGED <<changes, disk, content>>
    BY Zenon DEF Restart
  <1>1. tally' = [stops |-> tally.stops + 1, failures |-> tally.failures, lost |-> changes]
    BY Zenon DEF Restart, StoreInv, CountsOK
  <1>2. InodesOK' /\ OnDisk' = OnDisk /\ FileWhole' /\ UploadsListed'
    BY <1>0, Zenon DEF StoreInv, InodesOK, OnDisk, StoreKept, FileWhole, UploadsListed
  <1>3. CountsOK'  BY <1>0, <1>1 DEF StoreInv, CountsOK
  <1>4. SaversOK'
    <2>1. ASSUME NEW s \in Savers PROVE SaverOK(s)' /\ s \notin Writing'
      BY <1>0, Zenon DEF SaverOK, Asleep, Places, Writing
    <2> QED  BY <1>0, <2>1, Zenon DEF SaversOK, Writing
  <1>5. SaveNotDropped'  BY <1>0, <1>1 DEF SaveNotDropped, StoreInv, CountsOK
  <1> QED  BY <1>0, <1>2, <1>3, <1>4, <1>5, Zenon DEF StoreInv, StoreKept

\* With one write at a time, the saved listing cache is whole whenever the daemon
\* stops, every listing schedule_save_dir_cache was called for is in it, on its
\* way to it or reported lost, and evict_dir_cache never takes a folder with an
\* upload on its way: for any number of folders, workers and changes.
THEOREM SavedListingsKept == ASSUME ~Overlaps PROVE StoreSpec => []StoreKept
  <1>1. StoreInit => StoreInv
    <2> SUFFICES ASSUME StoreInit PROVE StoreInv  BY Zenon
    <2>1. InodesOK
      <3>1. DOMAIN content = 1..0  BY DEF StoreInit
      <3> QED  BY <3>1 DEF StoreInit, InodesOK
    <2>2. CountsOK  BY DEF StoreInit, CountsOK
    <2>3. OnDisk = 0  BY Zenon DEF StoreInit, OnDisk
    <2>4. SaversOK
      <3>1. ASSUME NEW s \in Savers PROVE SaverOK(s) /\ s \notin Writing
        BY Zenon DEF StoreInit, SaverOK, Asleep, Places, Writing
      <3> QED  BY <3>1, Zenon DEF SaversOK, StoreInit, Writing
    <2>5. StoreKept  BY DEF StoreInit, StoreKept, UploadsListed, FileWhole, SaveNotDropped
    <2> QED  BY <2>1, <2>2, <2>3, <2>4, <2>5 DEF StoreInv, StoreInit
  <1>2. StoreInv /\ [StoreNext]_storeVars => StoreInv'
    <2> SUFFICES ASSUME StoreInv, [StoreNext]_storeVars PROVE StoreInv'  BY Zenon
    <2>1. CASE \E d \in Dirs : put_dir_cache(d) \/ Used(d) \/ RefreshStarts(d) \/ Upload(d)
      BY <2>1, ListingsStep, Zenon
    <2>2. CASE schedule_save_dir_cache  BY <2>2, ScheduleStep, Zenon
    <2>3. ASSUME NEW s \in Savers, Debounced(s) PROVE StoreInv'  BY <2>3, DebouncedStep, Zenon
    <2>4. ASSUME NEW s \in Savers, Snapshot(s) PROVE StoreInv'  BY <2>4, SnapshotStep, Zenon
    <2>5. ASSUME NEW s \in Savers, Create(s) PROVE StoreInv'  BY <2>5, CreateStep, Zenon
    <2>6. ASSUME NEW s \in Savers, Written(s) PROVE StoreInv'  BY <2>6, WrittenStep, Zenon
    <2>7. ASSUME NEW s \in Savers, Rename(s) PROVE StoreInv'  BY <2>7, RenameStep, Zenon
    <2>8. ASSUME NEW s \in Savers, Fails(s) PROVE StoreInv'  BY <2>8, FailsStep, Zenon
    <2>9. CASE Restart  BY <2>9, StoreRestartStep, Zenon
    <2>10. CASE UNCHANGED storeVars
      <3>1. UploadsListed'  BY <2>10, Zenon DEF storeVars, StoreInv, StoreKept, UploadsListed
      <3> QED  BY <2>10, <3>1, SaversCarried DEF storeVars, StoreInv, CountsOK
    <2> QED
      BY <2>1, <2>2, <2>3, <2>4, <2>5, <2>6, <2>7, <2>8, <2>9, <2>10, Zenon DEF StoreNext
  <1>3. StoreInv => StoreKept  BY Zenon DEF StoreInv
  <1> QED  BY <1>1, <1>2, <1>3, PTL DEF StoreSpec

-----------------------------------------------------------------------------
(***************************************************************************)
(* MountPoint: leftovers of the bare mount point are kept until they are   *)
(* uploaded, and replace nothing unseen.                                   *)
(***************************************************************************)

Names0 == Nat \X Nat
Movable == OrphanFiles \cup Folders \cup {Junk}
PathSet == OrphanFiles \cup Folders
MkdirOf(d) == [op |-> "mkdir", path |-> d]
JournalOps == {MkdirOf(d) : d \in Folders}
              \cup [op : {"put"}, path : OrphanFiles, name : Names0, base : Nat, had : Nat]

\* The types.
MountTyped ==
    /\ dir \subseteq Entries0 /\ version \in [OrphanFiles -> Nat] /\ orphans \subseteq OrphanFiles \X Nat
    /\ staged \subseteq [name : Names0, file : OrphanFiles, ver : Nat] /\ toReplay \in Seq(JournalOps)
    /\ remote \in [PathSet -> Nat] /\ starts \in Nat /\ clobbered \in BOOLEAN
LaunchTyped ==
    /\ launch = [at |-> launch.at, pid |-> launch.pid, todo |-> launch.todo, adopted |-> launch.adopted,
                 made |-> launch.made, seen |-> launch.seen]
    /\ launch.pid \in Nat /\ launch.todo \in Seq(Movable)
    /\ launch.adopted \in Seq([file : OrphanFiles, name : Names0]) /\ launch.made \subseteq Folders
    /\ \A d \in DOMAIN launch.seen : launch.seen[d] \in [PathSet -> Nat]

\* Where a start is: it has taken nothing when it is over, and everything when it serves.
Stages ==
    /\ launch.at = "down" => launch = Down
    /\ launch.at = "serving" => launch.adopted = <<>>
    /\ launch.at # "down" => launch.pid = starts

\* Staged files have names of their own: a start's pid is new, and it counts.
NamesFresh ==
    /\ \A r, s \in staged : r.name = s.name => r = s
    /\ \A s \in staged : /\ s.name[1] <= starts
                         /\ launch.at = "relocate" /\ s.name[1] = launch.pid => s.name[2] <= Len(launch.adopted)

\* What a folder holds is taken before it.
InsideFirst ==
    launch.at = "relocate" =>
        \A i \in 1..Len(launch.todo), x \in Nested :
            launch.todo[i] = In[x] /\ x \in dir => \E j \in 1..(i - 1) : launch.todo[j] = x

\* On the server, and in what was listed of it, nothing is in a folder that is not there.
Closed(r) == \A x \in Nested : r[In[x]] = Absent => r[x] = Absent
FolderThere(d, n) == remote[d] # Absent \/ \E j \in 1..n : toReplay[j] = MkdirOf(d)
Listings ==
    /\ Closed(remote)
    /\ \A d \in DOMAIN launch.seen : /\ Closed(launch.seen[d])
                                     /\ \A p \in Folders : launch.seen[d][p] # Absent => remote[p] # Absent
    /\ \A p \in launch.made : /\ Root \in DOMAIN launch.seen /\ launch.seen[Root][p] = Absent
                              /\ FolderThere(p, Len(toReplay))

\* An upload waits for its folder, and has as its base what was there.
Based ==
    \A i \in 1..Len(toReplay) : toReplay[i].op = "put" =>
        /\ toReplay[i].base = toReplay[i].had \/ toReplay[i].had = Absent
        /\ toReplay[i].path \in Nested => FolderThere(In[toReplay[i].path], i - 1)

MountInv == MountTyped /\ LaunchTyped /\ Stages /\ NamesFresh /\ InsideFirst /\ Listings /\ Based /\ LeftoversSafe

----------------------------------------------------------------------------
\* A start that has not begun or is over.
LEMMA DownIs ==
    /\ Down.at = "down" /\ Down.pid = 0 /\ Down.todo = <<>> /\ Down.adopted = <<>> /\ Down.made = {}
    /\ DOMAIN Down.seen = {} /\ Len(Down.adopted) = 0 /\ Len(Down.todo) = 0
    /\ Down = [at |-> "down", pid |-> 0, todo |-> <<>>, adopted |-> <<>>, made |-> {}, seen |-> Down.seen]
  BY DEF Down

\* The files and folders are told apart.
LEMMA FilesApart ==
    /\ OrphanFiles \cap Folders = {} /\ Junk \notin OrphanFiles /\ OrphanFiles \subseteq PathSet
    /\ Folders \subseteq PathSet /\ Nested \subseteq OrphanFiles /\ In \in [Nested -> Folders] /\ Root \notin Folders
    /\ Entries0 \subseteq OrphanFiles \cup Folders \cup {Junk, "socket"}
  BY MountAssumption, Zenon DEF OrphanFiles, PathSet, Entries0

\* The first of a sequence and the rest.
LEMMA TailIs ==
    ASSUME NEW S, NEW s \in Seq(S), s # <<>>
    PROVE  /\ Len(s) \in Nat /\ Len(s) >= 1 /\ s[1] \in S /\ Tail(s) \in Seq(S) /\ Len(Tail(s)) = Len(s) - 1
           /\ \A i \in 1..Len(Tail(s)) : Tail(s)[i] = s[i + 1]
  OBVIOUS

\* What depends on the journal and the server only through them.
LEMMA BasedSame == ASSUME Based, UNCHANGED <<toReplay, remote>> PROVE Based'
  BY Zenon DEF Based, FolderThere

\* A start that ends, having adopted nothing, or goes on without taking anything.
LEMMA StageStep ==
    ASSUME MountInv, UNCHANGED <<dir, version, orphans, staged, toReplay, remote, starts, clobbered>>,
           \/ launch' = Down /\ launch.adopted = <<>>
           \/ \E a \in {"new", "adopt", "serving"} :
                /\ launch' = [launch EXCEPT !.at = a] /\ launch.at # "down"
                /\ a = "serving" => launch.adopted = <<>>
           \/ UNCHANGED launch
    PROVE  MountInv'
  <1> USE DEF MountInv
  <1>1. MountTyped'  BY Zenon DEF MountTyped
  <1>2. CASE launch' = Down /\ launch.adopted = <<>>
    <2>1. LaunchTyped'
      <3>1. <<>> \in Seq(Movable) /\ <<>> \in Seq([file : OrphanFiles, name : Names0])  OBVIOUS
      <3> QED  BY <1>2, <3>1, DownIs DEF LaunchTyped
    <2>2. Stages' /\ InsideFirst'  BY <1>2, DownIs, Zenon DEF Stages, InsideFirst
    <2>3. NamesFresh'  BY <1>2, DownIs, Zenon DEF NamesFresh
    <2>4. Listings'  BY <1>2, DownIs, Zenon DEF Listings, Closed
    <2>5. LeftoversSafe'
      <3>1. Len(launch.adopted) = 0 /\ Len(launch'.adopted) = 0 /\ 1..0 = {}  BY <1>2, DownIs
      <3>2. LeftoversKept'  BY <3>1 DEF LeftoversSafe, LeftoversKept
      <3> QED  BY <3>2, Zenon DEF LeftoversSafe, NothingClobbered
    <2> QED  BY <1>1, <2>1, <2>2, <2>3, <2>4, <2>5, BasedSame, Zenon
  <1>3. CASE \E a \in {"new", "adopt", "serving"} :
                /\ launch' = [launch EXCEPT !.at = a] /\ launch.at # "down"
                /\ a = "serving" => launch.adopted = <<>>
    <2>1. PICK a \in {"new", "adopt", "serving"} :
                /\ launch' = [launch EXCEPT !.at = a] /\ launch.at # "down"
                /\ a = "serving" => launch.adopted = <<>>
      BY <1>3, Zenon
    <2>2. launch' = [at |-> a, pid |-> launch.pid, todo |-> launch.todo, adopted |-> launch.adopted,
                     made |-> launch.made, seen |-> launch.seen]
      BY <2>1, Zenon DEF LaunchTyped
    <2>3. launch'.at = a /\ launch'.pid = launch.pid /\ launch'.todo = launch.todo /\ launch'.adopted = launch.adopted
          /\ launch'.made = launch.made /\ launch'.seen = launch.seen /\ a # "down" /\ a # "relocate"
      BY <2>2, Zenon
    <2>4. LaunchTyped'  BY <2>2, <2>3, Zenon DEF LaunchTyped
    <2>5. Stages' /\ InsideFirst'  BY <2>1, <2>3, Zenon DEF Stages, InsideFirst
    <2>6. NamesFresh'  BY <2>3, Zenon DEF NamesFresh
    <2>7. Listings'  BY <2>3 DEF Listings, Closed, FolderThere
    <2>8. LeftoversSafe'  BY <2>3 DEF LeftoversSafe, LeftoversKept, NothingClobbered
    <2> QED  BY <1>1, <2>4, <2>5, <2>6, <2>7, <2>8, BasedSame, Zenon
  <1>4. CASE UNCHANGED launch
    BY <1>1, <1>4, BasedSame DEF LaunchTyped, Stages, NamesFresh, InsideFirst, Listings, Closed, FolderThere,
                                 LeftoversSafe, LeftoversKept, NothingClobbered
  <1> QED  BY <1>2, <1>3, <1>4, Zenon

----------------------------------------------------------------------------
\* A save into the bare directory is there, and replaces one that was there.
LEMMA SaveStep == ASSUME MountInv, NEW x \in OrphanFiles, OrphanSave(x) PROVE MountInv'
  <1> USE DEF MountInv
  <1>1. /\ launch.at = "down" /\ dir' = dir \cup {x} \cup Parent(x)
        /\ version' = [version EXCEPT ![x] = version[x] + 1]
        /\ orphans' = {o \in orphans : ~(o[1] = x /\ x \in dir)} \cup {<<x, version[x] + 1>>}
        /\ UNCHANGED <<staged, toReplay, remote, launch, starts, clobbered>>
    BY Zenon DEF OrphanSave
  <1>2. version[x] + 1 \in Nat /\ version \in [OrphanFiles -> Nat]  BY DEF MountTyped
  <1>3. MountTyped'
    <2>1. dir' \subseteq Entries0  BY <1>1, FilesApart, Zenon DEF MountTyped, Parent, Entries0
    <2>2. version' \in [OrphanFiles -> Nat] /\ orphans' \subseteq OrphanFiles \X Nat  BY <1>1, <1>2 DEF MountTyped
    <2> QED  BY <1>1, <2>1, <2>2, Zenon DEF MountTyped
  <1>4. LaunchTyped' /\ Stages' /\ NamesFresh' /\ Listings'
    BY <1>1, Zenon DEF LaunchTyped, Stages, NamesFresh, Listings, Closed, FolderThere
  <1>5. InsideFirst'  BY <1>1, Zenon DEF InsideFirst
  <1>6. LeftoversKept'
    <2> SUFFICES ASSUME NEW o \in orphans'
                 PROVE  \/ o[1] \in dir' /\ version'[o[1]] = o[2]
                        \/ \E s \in staged :
                             /\ <<s.file, s.ver>> = o
                             /\ \/ \E i \in 1..Len(launch.adopted) : launch.adopted[i].name = s.name
                                \/ \E i \in 1..Len(toReplay) : toReplay[i].op = "put" /\ toReplay[i].name = s.name
      BY <1>1 DEF LeftoversKept
    <2>1. CASE o = <<x, version[x] + 1>>  BY <1>1, <1>2, <2>1, Zenon
    <2>2. CASE o \in orphans /\ o[1] # x
      <3>1. o[1] \in OrphanFiles  BY <2>2, Zenon DEF MountTyped
      <3>2. version'[o[1]] = version[o[1]]  BY <1>1, <1>2, <2>2, <3>1, Zenon
      <3> QED  BY <1>1, <2>2, <3>2, Zenon DEF LeftoversSafe, LeftoversKept
    <2>3. CASE o \in orphans /\ o[1] = x /\ x \notin dir  BY <2>3, Zenon DEF LeftoversSafe, LeftoversKept
    <2> QED  BY <1>1, <2>1, <2>2, <2>3, Zenon
  <1>7. LeftoversSafe'  BY <1>1, <1>6, Zenon DEF LeftoversSafe, NothingClobbered
  <1> QED  BY <1>1, <1>3, <1>4, <1>5, <1>7, BasedSame, Zenon

\* Something else in the directory.
LEMMA OtherStep == ASSUME MountInv, NEW e \in Entries0, OrphanOther(e) PROVE MountInv'
  <1> USE DEF MountInv
  <1>1. /\ launch.at = "down" /\ dir' = dir \cup {e}
        /\ UNCHANGED <<version, orphans, staged, toReplay, remote, launch, starts, clobbered>>
    BY Zenon DEF OrphanOther
  <1>2. MountTyped' /\ LaunchTyped'  BY <1>1, Zenon DEF MountTyped, LaunchTyped
  <1>3. Stages' /\ NamesFresh' /\ Listings'  BY <1>1, Zenon DEF Stages, NamesFresh, Listings, Closed, FolderThere
  <1>4. InsideFirst'  BY <1>1, Zenon DEF InsideFirst
  <1>5. LeftoversSafe'  BY <1>1 DEF LeftoversSafe, LeftoversKept, NothingClobbered
  <1> QED  BY <1>1, <1>2, <1>3, <1>4, <1>5, BasedSame, Zenon

\* Another client's save, with the folder it is in.
LEMMA SomeoneStep == ASSUME MountInv, NEW x \in OrphanFiles, SomeoneSaves(x) PROVE MountInv'
  <1> USE DEF MountInv
  <1>1. UNCHANGED <<dir, version, orphans, staged, toReplay, launch, starts, clobbered>>  BY Zenon DEF SomeoneSaves
  <1>2. remote \in [PathSet -> Nat]  BY Zenon DEF MountTyped
  <1>3. remote' = [y \in PathSet |-> IF y = x THEN (IF remote[x] = Absent THEN 101 ELSE 102)
                                     ELSE IF y \in Parent(x) THEN 100 ELSE remote[y]]
    BY <1>2, Zenon DEF SomeoneSaves
  <1>4. MountTyped'
    <2>1. remote' \in [PathSet -> Nat]  BY <1>2, <1>3, Zenon
    <2> QED  BY <1>1, <2>1, Zenon DEF MountTyped
  <1>5. \A d \in Folders : remote[d] # Absent => remote'[d] # Absent
    BY <1>3, FilesApart DEF Absent
  <1>6. Closed(remote')
    <2> SUFFICES ASSUME NEW y \in Nested, remote'[In[y]] = Absent PROVE remote'[y] = Absent  BY Zenon DEF Closed
    <2>1. In[y] \in Folders /\ y \in OrphanFiles /\ y \notin Folders /\ In[y] # x  BY FilesApart, Zenon
    <2>2. In[y] \notin Parent(x) /\ remote[In[y]] = Absent
      <3>1. In[y] \in PathSet  BY <2>1, FilesApart, Zenon
      <3>2. remote'[In[y]] = IF In[y] \in Parent(x) THEN 100 ELSE remote[In[y]]  BY <1>3, <2>1, <3>1, Zenon
      <3> QED  BY <3>2 DEF Absent
    <2>3. y # x /\ y \notin Parent(x)  BY <2>1, <2>2, FilesApart, Zenon DEF Parent
    <2>4. remote[y] = Absent  BY <2>2, Zenon DEF Listings, Closed
    <2> QED  BY <1>3, <2>1, <2>3, <2>4, FilesApart, Zenon
  <1>7. \A d \in Folders : \A n : FolderThere(d, n) => FolderThere(d, n)'  BY <1>1, <1>5, Zenon DEF FolderThere
  <1>8. Listings'
    <2>1. launch.made \subseteq Folders  BY Zenon DEF LaunchTyped
    <2>2. \A p \in launch.made : FolderThere(p, Len(toReplay))'  BY <1>1, <1>5, <2>1, Zenon DEF Listings, FolderThere
    <2> QED  BY <1>1, <1>5, <1>6, <2>2, Zenon DEF Listings, Closed
  <1>9. Based'  BY <1>1, <1>7, FilesApart, Zenon DEF Based
  <1>10. LaunchTyped' /\ Stages' /\ NamesFresh' /\ InsideFirst'
    BY <1>1 DEF LaunchTyped, Stages, NamesFresh, InsideFirst
  <1>11. LeftoversSafe'  BY <1>1 DEF LeftoversSafe, LeftoversKept, NothingClobbered
  <1> QED  BY <1>4, <1>8, <1>9, <1>10, <1>11, Zenon

----------------------------------------------------------------------------
\* A start takes a pid of its own, and what a folder holds after the folder's
\* name in the scan comes before it backwards.
LEMMA StartStep == ASSUME MountInv, Mishaps = {}, NEW pid, StartDaemon(pid) PROVE MountInv'
  <1> USE DEF MountInv
  <1>1. /\ launch.at = "down" /\ starts' = starts + 1 /\ pid = starts + 1
        /\ UNCHANGED <<dir, version, orphans, staged, toReplay, remote, clobbered>>
    BY Zenon DEF StartDaemon
  <1>2. launch = Down /\ starts \in Nat  BY <1>1, Zenon DEF Stages, MountTyped
  <1>3. MountTyped'  BY <1>1, <1>2 DEF MountTyped
  <1>4. PICK a \in {"down", "new", "relocate"}, p \in Nat, t \in {<<>>} \cup {Backwards(s) : s \in Scans} :
           /\ launch' = [at |-> a, pid |-> p, todo |-> t, adopted |-> <<>>, made |-> {}, seen |-> Down.seen]
           /\ a # "down" => p = starts'
           /\ a = "down" => launch' = Down
           /\ a # "relocate" => t = <<>>
           /\ a = "relocate" => "socket" \notin dir /\ \E s \in Scans : t = Backwards(s)
    <2>1. CASE dir = {} /\ launch' = [Down EXCEPT !.at = "new", !.pid = pid]
      <3>1. launch' = [at |-> "new", pid |-> pid, todo |-> <<>>, adopted |-> <<>>, made |-> {}, seen |-> Down.seen]
        BY <2>1, DownIs, Zenon
      <3>2. pid \in Nat  BY <1>1, <1>2
      <3> QED  BY <1>1, <3>1, <3>2, Zenon
    <2>2. CASE launch' = Down
      <3>1. 0 \in Nat  BY Zenon
      <3> QED  BY <2>2, <3>1, DownIs, Zenon
    <2>3. CASE ~scan_refuses /\ \E s \in Scans : launch' = [Down EXCEPT !.at = "relocate", !.pid = pid, !.todo = Backwards(s)]
      <3>1. PICK s \in Scans : launch' = [Down EXCEPT !.at = "relocate", !.pid = pid, !.todo = Backwards(s)]  BY <2>3, Zenon
      <3>2. launch' = [at |-> "relocate", pid |-> pid, todo |-> Backwards(s), adopted |-> <<>>, made |-> {},
                       seen |-> Down.seen]
        BY <3>1, DownIs, Zenon
      <3>3. pid \in Nat  BY <1>1, <1>2
      <3>4. "socket" \notin dir  BY <2>3, Zenon DEF scan_refuses
      <3> QED  BY <1>1, <3>2, <3>3, <3>4, Zenon
    <2> QED  BY <2>1, <2>2, <2>3, Zenon DEF StartDaemon
  <1>5. launch'.at = a /\ launch'.pid = p /\ launch'.todo = t /\ launch'.adopted = <<>> /\ launch'.made = {}
        /\ launch'.seen = Down.seen
    BY <1>4, Zenon
  <1>6. ASSUME a = "relocate"
        PROVE  /\ t \in Seq(Movable)
               /\ \A i \in 1..Len(t), x \in Nested : t[i] = In[x] /\ x \in dir => \E j \in 1..(i - 1) : t[j] = x
    <2>1. PICK s \in Scans : t = Backwards(s)  BY <1>4, <1>6, Zenon
    <2>2. PICK n \in 0..MaxEntries : s \in [1..n -> dir]  BY DEF Scans
    <2>3. n \in Nat /\ DOMAIN s = 1..n  BY <2>2, MountAssumption
    <2>4. /\ \A e \in dir : \E i \in 1..n : s[i] = e
          /\ \A i, j \in 1..n : s[i] = s[j] => i = j
          /\ \A j \in 1..n : \A d \in Parent(s[j]) : \E i \in 1..(j - 1) : s[i] = d
      BY <2>3, Zenon DEF Scans
    <2>5. s \in Seq(dir) /\ Len(s) = n  BY <2>2, <2>3
    <2>6. t = [i \in 1..n |-> s[n + 1 - i]]  BY <2>1, <2>5, Zenon DEF Backwards
    <2>7. \A i \in 1..n : n + 1 - i \in 1..n  BY <2>3
    <2>8. t \in [1..n -> Movable]
      <3>1. dir \subseteq Movable  BY <1>4, <1>6, Zenon DEF MountTyped, Entries0, Movable
      <3> QED  BY <2>2, <2>6, <2>7, <3>1, Zenon
    <2>9. t \in Seq(Movable) /\ Len(t) = n  BY <2>3, <2>8
    <2>10. ASSUME NEW i \in 1..n, NEW x \in Nested, t[i] = In[x], x \in dir PROVE \E j \in 1..(i - 1) : t[j] = x
      <3>1. PICK k \in 1..n : s[k] = x  BY <2>4, <2>10, Zenon
      <3>2. PICK l \in 1..(k - 1) : s[l] = In[x]  BY <2>4, <3>1, Zenon DEF Parent
      <3>3. t[i] = s[n + 1 - i] /\ n + 1 - i \in 1..n /\ l \in 1..n  BY <2>3, <2>6, <2>7, <3>1
      <3>4. l = n + 1 - i  BY <2>4, <2>10, <3>2, <3>3
      <3>5. n + 1 - k \in 1..(i - 1) /\ n + 1 - k \in 1..n /\ n + 1 - (n + 1 - k) = k  BY <2>3, <3>1, <3>2, <3>4
      <3>6. t[n + 1 - k] = x  BY <2>6, <3>1, <3>5, Zenon
      <3> QED  BY <3>5, <3>6, Zenon
    <2> QED  BY <2>9, <2>10, Zenon
  <1>7. LaunchTyped'
    <2>1. t \in Seq(Movable)
      <3>1. CASE a = "relocate"  BY <1>6, <3>1, Zenon
      <3>2. CASE a # "relocate"
        <4>1. t = <<>>  BY <1>4, <3>2, Zenon
        <4> QED  BY <4>1
      <3> QED  BY <3>1, <3>2, Zenon
    <2>2. <<>> \in Seq([file : OrphanFiles, name : Names0])  OBVIOUS
    <2> QED  BY <1>4, <1>5, <2>1, <2>2, DownIs, Zenon DEF LaunchTyped
  <1>8. Stages'  BY <1>4, <1>5, Zenon DEF Stages
  <1>9. NamesFresh'
    <2> SUFFICES ASSUME NEW s \in staged PROVE s.name[1] <= starts' /\ s.name[1] # starts'
      BY <1>1, <1>4, <1>5, Zenon DEF NamesFresh
    <2>1. s.name[1] <= starts /\ s.name \in Nat \X Nat  BY Zenon DEF NamesFresh, MountTyped, Names0
    <2>2. PICK m \in Nat : m = s.name[1]  BY <2>1, Zenon
    <2> QED  BY <1>1, <1>2, <2>1, <2>2
  <1>10. InsideFirst'  BY <1>1, <1>5, <1>6 DEF InsideFirst
  <1>11. Listings'  BY <1>1, <1>5, DownIs, Zenon DEF Listings, Closed
  <1>12. LeftoversSafe'
    <2>1. Len(launch.adopted) = 0 /\ Len(launch'.adopted) = 0 /\ 1..0 = {}  BY <1>2, <1>5, DownIs
    <2>2. LeftoversKept'  BY <1>1, <2>1, Zenon DEF LeftoversSafe, LeftoversKept
    <2> QED  BY <1>1, <2>2, Zenon DEF LeftoversSafe, NothingClobbered
  <1> QED  BY <1>1, <1>3, <1>7, <1>8, <1>9, <1>10, <1>11, <1>12, BasedSame, Zenon

\* An entry is taken out of the directory: a folder is empty by then, and a
\* file goes to a name no staged file has.
LEMMA RelocateStep == ASSUME MountInv, Mishaps = {}, relocate_one PROVE MountInv'
  <1> USE DEF MountInv
  <1> DEFINE e == launch.todo[1]
             name == <<launch.pid, Len(launch.adopted) + 1>>
             full == IsDir(e) /\ \E x \in dir : e \in Parent(x)
             entry == [file |-> e, name |-> name]
             stage == [name |-> name, file |-> e, ver |-> version[e]]
  <1>1. /\ launch.at = "relocate" /\ launch.todo # <<>>
        /\ UNCHANGED <<version, orphans, toReplay, remote, starts, clobbered>>
    BY Zenon DEF relocate_one
  <1>2. launch.todo \in Seq(Movable) /\ launch.adopted \in Seq([file : OrphanFiles, name : Names0]) /\ launch.pid \in Nat
    BY Zenon DEF LaunchTyped
  <1>3. /\ Len(launch.todo) \in Nat /\ Len(launch.todo) >= 1 /\ e \in Movable /\ Tail(launch.todo) \in Seq(Movable)
        /\ Len(Tail(launch.todo)) = Len(launch.todo) - 1
        /\ \A i \in 1..Len(Tail(launch.todo)) : Tail(launch.todo)[i] = launch.todo[i + 1]
    BY <1>1, <1>2, TailIs, Zenon
  <1>4. ~full
    <2> SUFFICES ASSUME e \in Folders, NEW x \in dir, e \in Parent(x) PROVE FALSE  BY Zenon DEF IsDir
    <2>1. x \in Nested /\ e = In[x]  BY Zenon DEF Parent
    <2>2. \E j \in 1..(1 - 1) : launch.todo[j] = x  BY <1>1, <1>3, <2>1 DEF InsideFirst
    <2> QED  BY <2>2
  <1>5. /\ dir' = dir \ {e}
        /\ \/ (is_lock_junk(e) \/ IsDir(e)) /\ launch' = [launch EXCEPT !.todo = Tail(launch.todo)] /\ UNCHANGED staged
           \/ /\ ~is_lock_junk(e) /\ ~IsDir(e)
              /\ staged' = {s \in staged : s.name # name} \cup {stage}
              /\ launch' = [launch EXCEPT !.todo = Tail(launch.todo), !.adopted = Append(launch.adopted, entry)]
    BY <1>4, Zenon DEF relocate_one
  <1> HIDE DEF e, name, full, entry, stage
  <1>6. ASSUME NEW ad,
               launch' = [at |-> launch.at, pid |-> launch.pid, todo |-> Tail(launch.todo), adopted |-> ad,
                          made |-> launch.made, seen |-> launch.seen],
               ad \in Seq([file : OrphanFiles, name : Names0])
        PROVE  LaunchTyped' /\ Stages' /\ InsideFirst' /\ Listings' /\ Based' /\ launch'.at = "relocate"
               /\ launch'.pid = launch.pid /\ launch'.adopted = ad
    <2>1. launch'.at = "relocate" /\ launch'.pid = launch.pid /\ launch'.todo = Tail(launch.todo)
          /\ launch'.adopted = ad /\ launch'.made = launch.made /\ launch'.seen = launch.seen
      BY <1>1, <1>6, Zenon
    <2>2. LaunchTyped'  BY <1>1, <1>2, <1>3, <1>6, <2>1, Zenon DEF LaunchTyped
    <2>3. Stages'  BY <1>1, <2>1, Zenon DEF Stages
    <2>4. InsideFirst'
      <3> DEFINE q == Tail(launch.todo)
      <3> HIDE DEF q
      <3> SUFFICES ASSUME NEW i \in 1..Len(q), NEW x \in Nested, q[i] = In[x], x \in dir'
                   PROVE  \E j \in 1..(i - 1) : q[j] = x
        <4>1. launch'.todo = q  BY <2>1, Zenon DEF q
        <4> QED  BY <4>1 DEF InsideFirst
      <3> USE DEF q
      <3>1. i + 1 \in 1..Len(launch.todo) /\ launch.todo[i + 1] = In[x] /\ x \in dir /\ x # e  BY <1>3, <1>5
      <3>2. PICK j \in 1..(i + 1 - 1) : launch.todo[j] = x  BY <1>1, <3>1 DEF InsideFirst
      <3>3. j # 1  BY <3>1, <3>2, Zenon DEF e
      <3>4. j - 1 \in 1..(i - 1) /\ j - 1 \in 1..Len(Tail(launch.todo)) /\ (j - 1) + 1 = j  BY <1>3, <3>2, <3>3
      <3>5. Tail(launch.todo)[j - 1] = x  BY <1>3, <3>2, <3>4, Zenon
      <3> QED  BY <3>4, <3>5, Zenon
    <2>5. Listings'  BY <1>1, <2>1 DEF Listings, Closed, FolderThere
    <2> QED  BY <1>1, <2>1, <2>2, <2>3, <2>4, <2>5, BasedSame, Zenon
  <1>7. launch = [at |-> launch.at, pid |-> launch.pid, todo |-> launch.todo, adopted |-> launch.adopted,
                  made |-> launch.made, seen |-> launch.seen]
    BY Zenon DEF LaunchTyped
  <1>8. CASE (is_lock_junk(e) \/ IsDir(e)) /\ launch' = [launch EXCEPT !.todo = Tail(launch.todo)] /\ UNCHANGED staged
    <2>1. launch' = [at |-> launch.at, pid |-> launch.pid, todo |-> Tail(launch.todo), adopted |-> launch.adopted,
                     made |-> launch.made, seen |-> launch.seen]
      BY <1>7, <1>8, Zenon
    <2>2. LaunchTyped' /\ Stages' /\ InsideFirst' /\ Listings' /\ Based' /\ launch'.at = "relocate"
          /\ launch'.pid = launch.pid /\ launch'.adopted = launch.adopted
      BY <1>2, <1>6, <2>1, Zenon
    <2>3. e \notin OrphanFiles  BY <1>8, FilesApart, Zenon DEF is_lock_junk, IsDir
    <2>4. MountTyped'  BY <1>1, <1>5, <1>8, Zenon DEF MountTyped
    <2>5. NamesFresh'  BY <1>1, <1>8, <2>2, Zenon DEF NamesFresh
    <2>6. LeftoversKept'
      <3>1. \A o \in orphans : o[1] \in OrphanFiles  BY Zenon DEF MountTyped
      <3>2. \A o \in orphans : o[1] \in dir => o[1] \in dir'  BY <1>5, <2>3, <3>1, Zenon
      <3> QED  BY <1>1, <1>8, <2>2, <3>2 DEF LeftoversSafe, LeftoversKept
    <2> QED  BY <1>1, <2>2, <2>4, <2>5, <2>6, Zenon DEF LeftoversSafe, NothingClobbered
  <1>9. CASE /\ ~is_lock_junk(e) /\ ~IsDir(e)
             /\ staged' = {s \in staged : s.name # name} \cup {stage}
             /\ launch' = [launch EXCEPT !.todo = Tail(launch.todo), !.adopted = Append(launch.adopted, entry)]
    <2>1. e \in OrphanFiles  BY <1>3, <1>9, Zenon DEF Movable, is_lock_junk, IsDir
    <2>2. PICK n \in Nat : n = Len(launch.adopted)  BY <1>2
    <2>3. name = <<launch.pid, n + 1>> /\ name \in Names0  BY <1>2, <2>2 DEF name, Names0
    <2>4. entry \in [file : OrphanFiles, name : Names0] /\ entry.name = name  BY <2>1, <2>3, Zenon DEF entry
    <2>5. stage \in [name : Names0, file : OrphanFiles, ver : Nat] /\ stage.name = name /\ stage.file = e
          /\ stage.ver = version[e]
      BY <2>1, <2>3, Zenon DEF stage, MountTyped
    <2>6. PICK ad : ad = Append(launch.adopted, entry)  BY Zenon
    <2>7. ad \in Seq([file : OrphanFiles, name : Names0]) /\ Len(ad) = n + 1
          /\ (\A i \in 1..n : ad[i] = launch.adopted[i]) /\ ad[n + 1] = entry
      BY <1>2, <2>2, <2>4, <2>6
    <2>8. launch' = [at |-> launch.at, pid |-> launch.pid, todo |-> Tail(launch.todo), adopted |-> ad,
                     made |-> launch.made, seen |-> launch.seen]
      BY <1>7, <1>9, <2>6, Zenon
    <2>9. LaunchTyped' /\ Stages' /\ InsideFirst' /\ Listings' /\ Based' /\ launch'.at = "relocate"
          /\ launch'.pid = launch.pid /\ launch'.adopted = ad
      BY <1>6, <2>7, <2>8, Zenon
    <2>10. \A s \in staged : s.name # name
      <3> SUFFICES ASSUME NEW s \in staged, s.name = name PROVE FALSE  BY Zenon
      <3>1. s.name[1] = launch.pid /\ s.name[2] = n + 1  BY <2>3
      <3>2. s.name[2] <= n  BY <1>1, <2>2, <3>1, Zenon DEF NamesFresh
      <3> QED  BY <2>2, <3>1, <3>2
    <2>11. staged' = staged \cup {stage}  BY <1>9, <2>10, Zenon
    <2>12. MountTyped'  BY <1>1, <1>5, <2>5, <2>11, Zenon DEF MountTyped
    <2>13. NamesFresh'
      <3>1. \A r, s \in staged' : r.name = s.name => r = s  BY <2>5, <2>10, <2>11, Zenon DEF NamesFresh
      <3>2. name[1] = starts /\ name[2] = n + 1 /\ starts \in Nat  BY <1>1, <2>3, Zenon DEF Stages, MountTyped
      <3>3. ASSUME NEW s \in staged PROVE s.name[1] <= starts /\ (s.name[1] = launch.pid => s.name[2] <= n + 1)
        <4>1. s.name[1] <= starts /\ (s.name[1] = launch.pid => s.name[2] <= n)  BY <1>1, <2>2, Zenon DEF NamesFresh
        <4>2. s.name \in Nat \X Nat  BY Zenon DEF MountTyped, Names0
        <4>3. s.name[2] \in Nat  BY <4>2, Zenon
        <4> QED  BY <2>2, <4>1, <4>3
      <3>4. stage.name[1] <= starts /\ stage.name[2] <= n + 1  BY <2>2, <2>5, <3>2
      <3>5. \A s \in staged' : s.name[1] <= starts /\ (s.name[1] = launch.pid => s.name[2] <= n + 1)
        BY <2>11, <3>3, <3>4, Zenon
      <3> QED  BY <1>1, <2>7, <2>9, <3>1, <3>5, Zenon DEF NamesFresh
    <2>14. LeftoversKept'
      <3> SUFFICES ASSUME NEW o \in orphans
                   PROVE  \/ o[1] \in dir' /\ version[o[1]] = o[2]
                          \/ \E s \in staged' :
                               /\ <<s.file, s.ver>> = o
                               /\ \/ \E i \in 1..Len(ad) : ad[i].name = s.name
                                  \/ \E i \in 1..Len(toReplay) : toReplay[i].op = "put" /\ toReplay[i].name = s.name
        BY <1>1, <2>9 DEF LeftoversKept
      <3>1. CASE o[1] \in dir /\ version[o[1]] = o[2] /\ o[1] # e  BY <1>5, <3>1, Zenon
      <3>2. CASE o[1] \in dir /\ version[o[1]] = o[2] /\ o[1] = e
        <4>1. o \in OrphanFiles \X Nat  BY Zenon DEF MountTyped
        <4>2. o = <<stage.file, stage.ver>>  BY <2>5, <3>2, <4>1
        <4>3. n + 1 \in 1..Len(ad) /\ ad[n + 1].name = stage.name  BY <2>2, <2>4, <2>5, <2>7
        <4>4. stage \in staged'  BY <2>11, Zenon
        <4> QED  BY <4>2, <4>3, <4>4, Zenon
      <3>3. CASE \E s \in staged :
                   /\ <<s.file, s.ver>> = o
                   /\ \/ \E i \in 1..Len(launch.adopted) : launch.adopted[i].name = s.name
                      \/ \E i \in 1..Len(toReplay) : toReplay[i].op = "put" /\ toReplay[i].name = s.name
        <4>1. PICK s \in staged :
                   /\ <<s.file, s.ver>> = o
                   /\ \/ \E i \in 1..Len(launch.adopted) : launch.adopted[i].name = s.name
                      \/ \E i \in 1..Len(toReplay) : toReplay[i].op = "put" /\ toReplay[i].name = s.name
          BY <3>3, Zenon
        <4>2. s \in staged'  BY <2>11, Zenon
        <4>3. \A i \in 1..Len(launch.adopted) : i \in 1..Len(ad) /\ ad[i] = launch.adopted[i]  BY <2>2, <2>7
        <4> QED  BY <4>1, <4>2, <4>3, Zenon
      <3> QED  BY <3>1, <3>2, <3>3, Zenon DEF LeftoversSafe, LeftoversKept
    <2> QED  BY <1>1, <2>9, <2>12, <2>13, <2>14, Zenon DEF LeftoversSafe, NothingClobbered
  <1> QED  BY <1>5, <1>8, <1>9, Zenon

----------------------------------------------------------------------------
\* What a listing of a folder says.
LEMMA ListingIs ==
    ASSUME MountInv, NEW d
    PROVE  LET l == list_cached(d, TRUE) IN
           /\ l \in [PathSet -> Nat] /\ Closed(l) /\ \A p \in Folders : l[p] # Absent => remote[p] # Absent
           /\ d \in DOMAIN launch.seen => l = launch.seen[d]
  BY Zenon DEF list_cached, MountInv, MountTyped, LaunchTyped, Listings

\* What is queued comes after what was queued.
LEMMA QueuedLast ==
    ASSUME NEW S, NEW s \in Seq(S), NEW new \in Seq(S), NEW x \in S
    PROVE  LET q == s \o new \o <<x>> IN
           /\ q \in Seq(S) /\ Len(q) = Len(s) + Len(new) + 1 /\ q[Len(s) + Len(new) + 1] = x
           /\ \A i \in 1..Len(s) : q[i] = s[i]
           /\ \A i \in 1..Len(new) : q[Len(s) + i] = new[i]
  <1>1. Len(s) \in Nat /\ Len(new) \in Nat  OBVIOUS
  <1>2. PICK r : r = s \o new  BY Zenon
  <1>3. r \in Seq(S) /\ Len(r) = Len(s) + Len(new)
        /\ \A i \in 1..Len(r) : r[i] = IF i <= Len(s) THEN s[i] ELSE new[i - Len(s)]
    BY <1>2
  <1>0. PICK one : one = <<x>>  BY Zenon
  <1>4. one \in Seq(S) /\ Len(one) = 1 /\ one[1] = x  BY <1>0
  <1>5. PICK q : q = r \o one  BY Zenon
  <1>6. q \in Seq(S) /\ Len(q) = Len(r) + 1 /\ \A i \in 1..Len(q) : q[i] = IF i <= Len(r) THEN r[i] ELSE one[i - Len(r)]
    <2>1. r \in Seq(S) /\ one \in Seq(S)  BY <1>3, <1>4, Zenon
    <2>2. /\ q \in Seq(S) /\ Len(q) = Len(r) + Len(one)
          /\ \A i \in 1..Len(q) : q[i] = IF i <= Len(r) THEN r[i] ELSE one[i - Len(r)]
      BY <1>5, <2>1
    <2> QED  BY <1>4, <2>2, Zenon
  <1>7. q[Len(s) + Len(new) + 1] = x
    <2>1. PICK k \in Nat : k = Len(r)  BY <1>1, <1>3
    <2>2. k + 1 \in 1..Len(q) /\ ~(k + 1 <= k) /\ k + 1 - k = 1  BY <1>6, <2>1
    <2>3. q[k + 1] = one[1]  BY <1>6, <2>1, <2>2
    <2> QED  BY <1>3, <1>4, <2>1, <2>3, Zenon
  <1>8. \A i \in 1..Len(s) : q[i] = s[i]  BY <1>1, <1>3, <1>6
  <1>9. \A i \in 1..Len(new) : q[Len(s) + i] = new[i]
    <2>1. \A i \in 1..Len(new) : r[Len(s) + i] = new[i]
      <3> SUFFICES ASSUME NEW i \in 1..Len(new) PROVE r[Len(s) + i] = new[i]  BY Zenon
      <3>1. Len(s) + i \in 1..Len(r) /\ ~(Len(s) + i <= Len(s)) /\ Len(s) + i - Len(s) = i  BY <1>1, <1>3
      <3> QED  BY <1>3, <3>1
    <2> QED  BY <1>1, <1>3, <1>6, <2>1
  <1> QED  BY <1>0, <1>2, <1>3, <1>5, <1>6, <1>7, <1>8, <1>9, Zenon

\* A file is queued after its folder, with the version it was listed with.
LEMMA AdoptStep == ASSUME MountInv, Mishaps = {}, NEW listed \in BOOLEAN, adopt_one(listed) PROVE MountInv'
  <1> USE DEF MountInv
  <1> DEFINE a == launch.adopted[1]
             folder == IF a.file \in Nested THEN In[a.file] ELSE Root
             root == list_cached(Root, TRUE)
             mk == {d \in Parent(a.file) : d \notin launch.made /\ root[d] = Absent}
             made == launch.made \cup mk
             looked == (IF folder \in launch.made THEN {} ELSE {Root}) \cup ({folder} \ made)
             put == [op |-> "put", path |-> a.file, name |-> a.name,
                     base |-> IF folder \in made THEN Absent ELSE list_cached(folder, TRUE)[a.file],
                     had |-> list_cached(IF folder \in made THEN Root ELSE folder, TRUE)[a.file]]
             seen == [d \in DOMAIN launch.seen \cup looked |-> list_cached(d, TRUE)]
             new == IF mk = {} THEN <<>> ELSE <<MkdirOf(folder)>>
             q == toReplay \o new \o <<put>>
  <1>1. /\ launch.at = "adopt" /\ launch.adopted # <<>> /\ listed = TRUE
        /\ UNCHANGED <<dir, version, orphans, staged, remote, starts, clobbered>>
    BY Zenon DEF adopt_one
  <1>2. launch' = [launch EXCEPT !.adopted = Tail(launch.adopted), !.made = made, !.seen = seen] /\ toReplay' = q
    BY <1>1, Zenon DEF adopt_one, MkdirOf
  <1> HIDE DEF a, folder, root, mk, made, looked, put, seen, new, q
  <1>3. /\ launch.adopted \in Seq([file : OrphanFiles, name : Names0]) /\ launch.made \subseteq Folders
        /\ toReplay \in Seq(JournalOps) /\ remote \in [PathSet -> Nat]
    BY Zenon DEF LaunchTyped, MountTyped
  <1>4. /\ Len(launch.adopted) \in Nat /\ Len(launch.adopted) >= 1 /\ a \in [file : OrphanFiles, name : Names0]
        /\ Tail(launch.adopted) \in Seq([file : OrphanFiles, name : Names0])
        /\ Len(Tail(launch.adopted)) = Len(launch.adopted) - 1
        /\ \A i \in 1..Len(Tail(launch.adopted)) : Tail(launch.adopted)[i] = launch.adopted[i + 1]
    BY <1>1, <1>3, TailIs, Zenon DEF a
  <1>5. /\ a.file \in OrphanFiles /\ a.name \in Names0 /\ a.file \in PathSet
        /\ a.file \in Nested => folder \in Folders /\ folder = In[a.file] /\ Parent(a.file) = {folder}
        /\ a.file \notin Nested => folder = Root /\ Parent(a.file) = {}
    BY <1>4, FilesApart, Zenon DEF folder, Parent
  <1>6. mk \subseteq {folder} \cap Folders /\ made \subseteq Folders /\ made = launch.made \cup mk
    BY <1>3, <1>5, Zenon DEF mk, made
  <1>7. ASSUME NEW d \in made PROVE root[d] = Absent
    <2>1. CASE d \in mk  BY <2>1, Zenon DEF mk
    <2>2. CASE d \in launch.made  BY <2>2, ListingIs, Zenon DEF Listings, root
    <2> QED  BY <1>6, <2>1, <2>2, Zenon
  <1>8. /\ put.op = "put" /\ put.path = a.file /\ put.name = a.name
        /\ put.base = (IF folder \in made THEN Absent ELSE list_cached(folder, TRUE)[a.file])
        /\ put.had = list_cached(IF folder \in made THEN Root ELSE folder, TRUE)[a.file]
        /\ put = [op |-> "put", path |-> a.file, name |-> a.name, base |-> put.base, had |-> put.had]
    BY Zenon DEF put
  <1>9. put.base \in Nat /\ put.had \in Nat /\ (put.base = put.had \/ put.had = Absent)
    <2>1. \A d : list_cached(d, TRUE)[a.file] \in Nat  BY <1>5, ListingIs, Zenon
    <2>2. CASE folder \notin made  BY <1>8, <2>1, <2>2, Zenon
    <2>3. CASE folder \in made
      <3>1. a.file \in Nested /\ folder = In[a.file]  BY <1>5, <1>6, <2>3, FilesApart, Zenon
      <3>2. root[a.file] = Absent  BY <1>7, <2>3, <3>1, ListingIs, Zenon DEF Closed, root
      <3>3. Absent \in Nat  BY Zenon DEF Absent
      <3> QED  BY <1>8, <2>3, <3>2, <3>3, Zenon DEF root
    <2> QED  BY <2>2, <2>3, Zenon
  <1>10. put \in JournalOps  BY <1>5, <1>8, <1>9, Zenon DEF JournalOps
  <1>11. PICK n \in Nat, m \in Nat :
            /\ n = Len(toReplay) /\ m = Len(new) /\ new \in Seq(JournalOps) /\ m <= 1
            /\ m = 1 => new[1] = MkdirOf(folder)
            /\ mk # {} => m = 1
    <2>1. Len(toReplay) \in Nat  BY <1>3
    <2>2. CASE mk = {}
      <3>1. new = <<>> /\ new \in Seq(JournalOps) /\ Len(new) = 0  BY <2>2 DEF new
      <3> QED  BY <2>1, <2>2, <3>1
    <2>3. CASE mk # {}
      <3>1. folder \in Folders /\ MkdirOf(folder) \in JournalOps  BY <1>6, <2>3, Zenon DEF JournalOps
      <3>2. new = <<MkdirOf(folder)>>  BY <2>3, Zenon DEF new
      <3>3. new \in Seq(JournalOps) /\ Len(new) = 1 /\ new[1] = MkdirOf(folder)  BY <3>1, <3>2
      <3> QED  BY <2>1, <3>3
    <2> QED  BY <2>2, <2>3, Zenon
  <1>12. /\ q \in Seq(JournalOps) /\ Len(q) = n + m + 1 /\ q[n + m + 1] = put
         /\ \A i \in 1..n : q[i] = toReplay[i]
         /\ \A i \in 1..m : q[n + i] = new[i]
    BY <1>3, <1>10, <1>11, QueuedLast DEF q
  <1>13. launch' = [at |-> "adopt", pid |-> launch.pid, todo |-> launch.todo, adopted |-> Tail(launch.adopted),
                    made |-> made, seen |-> seen]
    BY <1>1, <1>2, Zenon DEF LaunchTyped
  <1>14. launch'.at = "adopt" /\ launch'.pid = launch.pid /\ launch'.todo = launch.todo
         /\ launch'.adopted = Tail(launch.adopted) /\ launch'.made = made /\ launch'.seen = seen
    BY <1>13, Zenon
  <1>15. MountTyped'  BY <1>1, <1>2, <1>12, Zenon DEF MountTyped
  <1>16. \A d \in DOMAIN seen : seen[d] = list_cached(d, TRUE)  BY Zenon DEF seen
  <1>17. LaunchTyped'
    <2>1. \A d \in DOMAIN seen : seen[d] \in [PathSet -> Nat]  BY <1>16, ListingIs, Zenon
    <2> QED  BY <1>4, <1>6, <1>13, <1>14, <2>1, Zenon DEF LaunchTyped
  <1>18. Stages' /\ NamesFresh' /\ InsideFirst'
    <2>1. NamesFresh'  BY <1>1, <1>14, Zenon DEF NamesFresh
    <2> QED  BY <1>1, <1>14, <2>1, Zenon DEF Stages, InsideFirst
  <1>19. ASSUME NEW d \in Folders, NEW k \in 0..n, FolderThere(d, k)
         PROVE  \A l \in Int : k <= l => remote[d] # Absent \/ \E j \in 1..l : q[j] = MkdirOf(d)
    <2>1. CASE remote[d] # Absent  BY <2>1, Zenon
    <2>2. CASE \E j \in 1..k : toReplay[j] = MkdirOf(d)
      <3>1. PICK j \in 1..k : toReplay[j] = MkdirOf(d)  BY <2>2, Zenon
      <3>2. j \in 1..n /\ q[j] = MkdirOf(d)  BY <1>12, <3>1
      <3> QED  BY <3>2
    <2> QED  BY <1>19, <2>1, <2>2, Zenon DEF FolderThere
  <1>20. mk # {} => q[n + 1] = MkdirOf(folder) /\ m = 1
    <2>1. 1 \in 1..1  OBVIOUS
    <2> QED  BY <1>11, <1>12, <2>1, Zenon
  <1>21. \A d \in made : remote[d] # Absent \/ \E j \in 1..(n + m) : q[j] = MkdirOf(d)
    <2> SUFFICES ASSUME NEW d \in made PROVE remote[d] # Absent \/ \E j \in 1..(n + m) : q[j] = MkdirOf(d)  BY Zenon
    <2>1. CASE d \in mk
      <3>1. d = folder /\ q[n + 1] = MkdirOf(folder) /\ m = 1  BY <1>6, <1>20, <2>1, Zenon
      <3>2. n + 1 \in 1..(n + m)  BY <1>11, <3>1
      <3> QED  BY <3>1, <3>2, Zenon
    <2>2. CASE d \in launch.made
      <3>1. FolderThere(d, n) /\ d \in Folders  BY <1>3, <1>11, <2>2, Zenon DEF Listings
      <3>2. n \in 0..n /\ n + m \in Int /\ n <= n + m  BY <1>11
      <3> QED  BY <1>19, <3>1, <3>2, Zenon
    <2> QED  BY <1>6, <2>1, <2>2, Zenon
  <1>22. Listings'
    <2>1. \A d \in DOMAIN seen : Closed(seen[d]) /\ \A p \in Folders : seen[d][p] # Absent => remote[p] # Absent
      BY <1>16, ListingIs, Zenon
    <2>2. \A p \in made : Root \in DOMAIN seen /\ seen[Root][p] = Absent
      <3> SUFFICES ASSUME NEW p \in made PROVE Root \in DOMAIN seen  BY <1>7, <1>16, Zenon DEF root
      <3>1. CASE p \in launch.made
        <4>1. Root \in DOMAIN launch.seen  BY <3>1, Zenon DEF Listings
        <4> QED  BY <4>1, Zenon DEF seen
      <3>2. CASE p \in mk
        <4>1. p = folder /\ p \notin launch.made  BY <1>6, <3>2, Zenon DEF mk
        <4>2. Root \in looked  BY <4>1, Zenon DEF looked
        <4> QED  BY <4>2, Zenon DEF seen
      <3> QED  BY <1>6, <3>1, <3>2, Zenon
    <2>3. ASSUME NEW p \in made PROVE remote[p] # Absent \/ \E j \in 1..Len(q) : q[j] = MkdirOf(p)
      <3>1. \A j \in 1..(n + m) : j \in 1..Len(q)  BY <1>11, <1>12
      <3> QED  BY <1>21, <3>1, Zenon
    <2>4. Closed(remote)  BY Zenon DEF Listings
    <2> QED  BY <1>1, <1>2, <1>14, <2>1, <2>2, <2>3, <2>4 DEF Listings, FolderThere, Closed
  <1>23. Based'
    <2> SUFFICES ASSUME NEW i \in 1..(n + m + 1), q[i].op = "put"
                 PROVE  /\ q[i].base = q[i].had \/ q[i].had = Absent
                        /\ q[i].path \in Nested =>
                             remote[In[q[i].path]] # Absent \/ \E j \in 1..(i - 1) : q[j] = MkdirOf(In[q[i].path])
      BY <1>1, <1>2, <1>12, Zenon DEF Based, FolderThere
    <2>1. CASE i \in 1..n
      <3>1. q[i] = toReplay[i] /\ i - 1 \in 0..n /\ i - 1 \in Int /\ i - 1 <= i - 1  BY <1>11, <1>12, <2>1
      <3>2. ASSUME q[i].path \in Nested PROVE In[q[i].path] \in Folders /\ FolderThere(In[q[i].path], i - 1)
        BY <1>11, <2>1, <3>1, <3>2, FilesApart, Zenon DEF Based
      <3> QED  BY <1>11, <1>19, <2>1, <3>1, <3>2, Zenon DEF Based
    <2>2. CASE i = n + 1 /\ m = 1
      <3>1. q[i] = MkdirOf(folder)
        <4>1. 1 \in 1..m  BY <2>2
        <4> QED  BY <1>11, <1>12, <2>2, <4>1, Zenon
      <3> QED  BY <3>1 DEF MkdirOf
    <2>3. CASE i = n + m + 1
      <3>1. q[i] = put /\ i - 1 = n + m  BY <1>11, <1>12, <2>3
      <3>2. ASSUME a.file \in Nested
            PROVE  remote[In[a.file]] # Absent \/ \E j \in 1..(n + m) : q[j] = MkdirOf(In[a.file])
        <4>1. folder = In[a.file] /\ folder \in Folders /\ Parent(a.file) = {folder}  BY <1>5, <3>2, Zenon
        <4>2. CASE folder \in made  BY <1>21, <4>1, <4>2, Zenon
        <4>3. CASE folder \notin made
          <5>1. root[folder] # Absent  BY <4>1, <4>3, Zenon DEF made, mk
          <5> QED  BY <4>1, <5>1, ListingIs, Zenon DEF root
        <4> QED  BY <4>2, <4>3, Zenon
      <3> QED  BY <1>8, <1>9, <3>1, <3>2, Zenon
    <2>4. i \in 1..n \/ (i = n + 1 /\ m = 1) \/ i = n + m + 1  BY <1>11
    <2> QED  BY <2>1, <2>2, <2>3, <2>4, Zenon
  <1>24. LeftoversKept'
    <2> SUFFICES ASSUME NEW s \in staged,
                        \/ \E i \in 1..Len(launch.adopted) : launch.adopted[i].name = s.name
                        \/ \E i \in 1..n : toReplay[i].op = "put" /\ toReplay[i].name = s.name
                 PROVE  \/ \E i \in 1..Len(Tail(launch.adopted)) : Tail(launch.adopted)[i].name = s.name
                        \/ \E i \in 1..(n + m + 1) : q[i].op = "put" /\ q[i].name = s.name
      <3> DEFINE Before(s) == \/ \E i \in 1..Len(launch.adopted) : launch.adopted[i].name = s.name
                              \/ \E i \in 1..n : toReplay[i].op = "put" /\ toReplay[i].name = s.name
                 After(s) == \/ \E i \in 1..Len(Tail(launch.adopted)) : Tail(launch.adopted)[i].name = s.name
                             \/ \E i \in 1..(n + m + 1) : q[i].op = "put" /\ q[i].name = s.name
      <3>1. \A s \in staged : Before(s) => After(s)  BY Zenon
      <3>2. \A o \in orphans : \/ o[1] \in dir /\ version[o[1]] = o[2]
                               \/ \E s \in staged : <<s.file, s.ver>> = o /\ Before(s)
        BY <1>11, Zenon DEF LeftoversSafe, LeftoversKept
      <3> HIDE DEF Before, After
      <3>3. \A o \in orphans : \/ o[1] \in dir /\ version[o[1]] = o[2]
                               \/ \E s \in staged : <<s.file, s.ver>> = o /\ After(s)
        BY <3>1, <3>2, Zenon
      <3> QED  BY <1>1, <1>2, <1>12, <1>14, <3>3 DEF LeftoversKept, After
    <2>1. ASSUME NEW i \in 1..n, toReplay[i].op = "put", toReplay[i].name = s.name
          PROVE  \E k \in 1..(n + m + 1) : q[k].op = "put" /\ q[k].name = s.name
      <3>1. i \in 1..(n + m + 1) /\ q[i] = toReplay[i]  BY <1>11, <1>12
      <3> QED  BY <2>1, <3>1, Zenon
    <2>2. CASE a.name = s.name
      <3>1. n + m + 1 \in 1..(n + m + 1)  BY <1>11
      <3> QED  BY <1>8, <1>12, <2>2, <3>1, Zenon
    <2>3. ASSUME NEW i \in 1..Len(launch.adopted), launch.adopted[i].name = s.name, a.name # s.name
          PROVE  \E k \in 1..Len(Tail(launch.adopted)) : Tail(launch.adopted)[k].name = s.name
      <3>1. i # 1  BY <2>3, Zenon DEF a
      <3>2. i - 1 \in 1..Len(Tail(launch.adopted)) /\ (i - 1) + 1 = i  BY <1>4, <3>1
      <3>3. Tail(launch.adopted)[i - 1] = launch.adopted[i]  BY <1>4, <3>2, Zenon
      <3> QED  BY <2>3, <3>2, <3>3, Zenon
    <2> QED  BY <2>1, <2>2, <2>3, Zenon
  <1>25. LeftoversSafe'  BY <1>1, <1>24, Zenon DEF LeftoversSafe, NothingClobbered
  <1> QED  BY <1>15, <1>17, <1>18, <1>22, <1>23, <1>25, Zenon

----------------------------------------------------------------------------
\* Replay makes the folder, or uploads the staged file: on the condition of its
\* base, if it has one.
LEMMA ReplayStep == ASSUME MountInv, ReplayFirst PROVE MountInv'
  <1> USE DEF MountInv
  <1> DEFINE q == toReplay[1]
  <1>1. /\ launch.at = "serving" /\ toReplay # <<>> /\ toReplay' = Tail(toReplay)
        /\ UNCHANGED <<dir, version, launch, starts>>
    BY Zenon DEF ReplayFirst
  <1>2. toReplay \in Seq(JournalOps) /\ remote \in [PathSet -> Nat] /\ launch.adopted = <<>>
    BY <1>1, Zenon DEF MountTyped, Stages
  <1>3. PICK n \in Nat : n = Len(Tail(toReplay)) /\ Len(toReplay) = n + 1  BY <1>1, <1>2, TailIs
  <1>4. q \in JournalOps /\ Tail(toReplay) \in Seq(JournalOps) /\ \A i \in 1..n : Tail(toReplay)[i] = toReplay[i + 1]
    BY <1>1, <1>2, <1>3, TailIs, Zenon
  <1>5. /\ \/ q.op = "mkdir" /\ remote' = [remote EXCEPT ![q.path] = IF remote[q.path] = Absent THEN 1 ELSE remote[q.path]]
              /\ UNCHANGED <<orphans, staged, clobbered>>
           \/ /\ q.op # "mkdir"
              /\ \E s \in staged :
                  /\ s.name = q.name /\ staged' = staged \ {s} /\ orphans' = orphans \ {<<s.file, s.ver>>}
                  /\ \/ UNCHANGED <<remote, clobbered>>
                     \/ /\ remote' = [remote EXCEPT ![q.path] = s.ver]
                        /\ clobbered' = (clobbered \/ (q.base = Absent /\ q.had >= 100))
    BY Zenon DEF ReplayFirst
  <1>6. q.op = "mkdir" => q.path \in Folders /\ q = MkdirOf(q.path)  BY <1>4 DEF JournalOps, MkdirOf
  <1>7. q.op # "mkdir" => q.op = "put" /\ q.path \in OrphanFiles /\ q.name \in Names0 /\ q.base \in Nat /\ q.had \in Nat
    BY <1>4 DEF JournalOps, MkdirOf
  <1> HIDE DEF q
  <1>8. /\ remote' \in [PathSet -> Nat] /\ \A d \in Folders : remote[d] # Absent => remote'[d] # Absent
        /\ \A d \in Folders : q = MkdirOf(d) => remote'[d] # Absent
        /\ Closed(remote')
    <2>1. CASE q.op = "mkdir"
      <3>1. q.path \in Folders /\ q.path \in PathSet  BY <1>6, <2>1, FilesApart, Zenon
      <3>2. remote' = [remote EXCEPT ![q.path] = IF remote[q.path] = Absent THEN 1 ELSE remote[q.path]]  BY <1>5, <2>1, Zenon
      <3>3. remote' \in [PathSet -> Nat] /\ remote'[q.path] # Absent /\ \A y \in PathSet : y # q.path => remote'[y] = remote[y]
        BY <1>2, <3>1, <3>2 DEF Absent
      <3>4. \A d \in Folders : q = MkdirOf(d) => q.path = d  BY DEF MkdirOf
      <3>5. \A x \in Nested : x \in PathSet /\ x # q.path /\ In[x] \in PathSet  BY <3>1, FilesApart, Zenon
      <3>6. Closed(remote')  BY <3>3, <3>5, Zenon DEF Closed, Listings
      <3> QED  BY <3>3, <3>4, <3>6, FilesApart, Zenon
    <2>2. CASE q.op # "mkdir" /\ remote' = remote  BY <1>2, <2>2 DEF MkdirOf, Listings
    <2>3. CASE q.op # "mkdir" /\ \E s \in staged : remote' = [remote EXCEPT ![q.path] = s.ver]
      <3>1. PICK s \in staged : remote' = [remote EXCEPT ![q.path] = s.ver]  BY <2>3, Zenon
      <3>2. q.path \in OrphanFiles /\ q.path \in PathSet /\ q.path \notin Folders /\ s.ver \in Nat
        BY <1>7, <2>3, FilesApart, Zenon DEF MountTyped
      <3>3. remote' \in [PathSet -> Nat] /\ \A y \in PathSet : y # q.path => remote'[y] = remote[y]
        BY <1>2, <3>1, <3>2, Zenon
      <3>4. \A d \in Folders : remote'[d] = remote[d]  BY <3>2, <3>3, FilesApart, Zenon
      <3>5. q.path \in Nested => remote[In[q.path]] # Absent
        <4>1. 1 \in 1..Len(toReplay) /\ q.op = "put"  BY <1>3, <1>7, <2>3
        <4>2. q.path \in Nested => FolderThere(In[q.path], 1 - 1)  BY <4>1, Zenon DEF Based, q
        <4> QED  BY <4>2 DEF FolderThere
      <3>6. Closed(remote')
        <4> SUFFICES ASSUME NEW x \in Nested, remote'[In[x]] = Absent PROVE remote'[x] = Absent  BY Zenon DEF Closed
        <4>1. remote[In[x]] = Absent  BY <3>4, FilesApart, Zenon
        <4>2. x # q.path /\ x \in PathSet /\ remote[x] = Absent  BY <3>5, <4>1, FilesApart, Zenon DEF Closed, Listings
        <4> QED  BY <3>3, <4>2, Zenon
      <3> QED  BY <2>3, <3>3, <3>4, <3>6 DEF MkdirOf
    <2> QED  BY <1>5, <2>1, <2>2, <2>3, Zenon
  <1>9. ~clobbered'
    <2>1. ~clobbered  BY Zenon DEF LeftoversSafe, NothingClobbered
    <2>2. CASE q.op # "mkdir"
      <3>1. 1 \in 1..Len(toReplay) /\ q.op = "put" /\ q.had \in Nat  BY <1>3, <1>7, <2>2
      <3>2. q.base = q.had \/ q.had = Absent  BY <3>1, Zenon DEF Based, q
      <3>3. ~(q.base = Absent /\ q.had >= 100)  BY <3>1, <3>2 DEF Absent
      <3> QED  BY <1>5, <2>1, <3>3, Zenon
    <2> QED  BY <1>5, <2>1, <2>2, Zenon
  <1>10. /\ staged' \subseteq staged /\ orphans' \subseteq orphans
    BY <1>5, Zenon
  <1>11. MountTyped'
    <2>1. clobbered' \in BOOLEAN  BY <1>5, Zenon DEF MountTyped
    <2> QED  BY <1>1, <1>4, <1>8, <1>10, <2>1, Zenon DEF MountTyped
  <1>12. LaunchTyped' /\ Stages' /\ InsideFirst'  BY <1>1, Zenon DEF LaunchTyped, Stages, InsideFirst
  <1>13. NamesFresh'  BY <1>1, <1>10, Zenon DEF NamesFresh
  <1>14. ASSUME NEW d \in Folders, NEW k \in 0..n, FolderThere(d, k + 1)
         PROVE  remote'[d] # Absent \/ \E j \in 1..k : Tail(toReplay)[j] = MkdirOf(d)
    <2>1. CASE remote[d] # Absent  BY <1>8, <2>1, Zenon
    <2>2. CASE \E j \in 1..(k + 1) : toReplay[j] = MkdirOf(d)
      <3>1. PICK j \in 1..(k + 1) : toReplay[j] = MkdirOf(d)  BY <2>2, Zenon
      <3>2. CASE j = 1  BY <1>8, <3>1, <3>2, Zenon DEF q
      <3>3. CASE j # 1
        <4>1. j - 1 \in 1..k /\ j - 1 \in 1..n /\ (j - 1) + 1 = j  BY <3>1, <3>3
        <4>2. Tail(toReplay)[j - 1] = MkdirOf(d)  BY <1>4, <3>1, <4>1, Zenon
        <4> QED  BY <4>1, <4>2, Zenon
      <3> QED  BY <3>2, <3>3, Zenon
    <2> QED  BY <1>14, <2>1, <2>2, Zenon DEF FolderThere
  <1>15. Listings'
    <2>1. ASSUME NEW p \in launch.made PROVE remote'[p] # Absent \/ \E j \in 1..n : Tail(toReplay)[j] = MkdirOf(p)
      <3>1. p \in Folders /\ FolderThere(p, n + 1)  BY <1>3, Zenon DEF Listings, LaunchTyped
      <3>2. n \in 0..n  OBVIOUS
      <3> QED  BY <1>14, <3>1, <3>2, Zenon
    <2>2. \A d \in DOMAIN launch.seen : /\ Closed(launch.seen[d])
                                        /\ \A p \in Folders : launch.seen[d][p] # Absent => remote'[p] # Absent
      BY <1>8, Zenon DEF Listings
    <2>3. \A p \in launch.made : Root \in DOMAIN launch.seen /\ launch.seen[Root][p] = Absent  BY Zenon DEF Listings
    <2> QED  BY <1>1, <1>3, <1>8, <2>1, <2>2, <2>3, Zenon DEF Listings, FolderThere, Closed
  <1>16. Based'
    <2> SUFFICES ASSUME NEW i \in 1..n, Tail(toReplay)[i].op = "put"
                 PROVE  /\ Tail(toReplay)[i].base = Tail(toReplay)[i].had \/ Tail(toReplay)[i].had = Absent
                        /\ Tail(toReplay)[i].path \in Nested =>
                             \/ remote'[In[Tail(toReplay)[i].path]] # Absent
                             \/ \E j \in 1..(i - 1) : Tail(toReplay)[j] = MkdirOf(In[Tail(toReplay)[i].path])
      BY <1>1, <1>3, Zenon DEF Based, FolderThere
    <2>1. Tail(toReplay)[i] = toReplay[i + 1] /\ i + 1 \in 1..Len(toReplay) /\ i - 1 \in 0..n /\ (i + 1) - 1 = (i - 1) + 1
      BY <1>3, <1>4
    <2>2. ASSUME toReplay[i + 1].path \in Nested
          PROVE  In[toReplay[i + 1].path] \in Folders /\ FolderThere(In[toReplay[i + 1].path], (i - 1) + 1)
      BY <2>1, <2>2, FilesApart, Zenon DEF Based
    <2> QED  BY <1>14, <2>1, <2>2, Zenon DEF Based
  <1>17. LeftoversKept'
    <2> SUFFICES ASSUME NEW o \in orphans'
                 PROVE  \/ o[1] \in dir /\ version[o[1]] = o[2]
                        \/ \E s \in staged' :
                             /\ <<s.file, s.ver>> = o
                             /\ \E i \in 1..n : Tail(toReplay)[i].op = "put" /\ Tail(toReplay)[i].name = s.name
      BY <1>1, <1>3 DEF LeftoversKept
    <2>1. o \in orphans /\ Len(launch.adopted) = 0 /\ 1..0 = {}  BY <1>2, <1>10
    <2>2. CASE o[1] \in dir /\ version[o[1]] = o[2]  BY <2>2, Zenon
    <2>3. ASSUME NEW s \in staged, <<s.file, s.ver>> = o, NEW i \in 1..Len(toReplay),
                 toReplay[i].op = "put", toReplay[i].name = s.name
          PROVE  /\ s \in staged'
                 /\ \E k \in 1..n : Tail(toReplay)[k].op = "put" /\ Tail(toReplay)[k].name = s.name
      <3>1. s \in staged'  BY <1>5, <2>3, Zenon
      <3>2. i # 1
        <4> SUFFICES ASSUME i = 1 PROVE FALSE  BY Zenon
        <4>1. q.op = "put" /\ q.name = s.name  BY <2>3, Zenon DEF q
        <4>2. PICK r \in staged : r.name = q.name /\ staged' = staged \ {r}  BY <1>5, <4>1, Zenon
        <4>3. r = s  BY <4>1, <4>2, Zenon DEF NamesFresh
        <4> QED  BY <3>1, <4>2, <4>3, Zenon
      <3>3. i - 1 \in 1..n /\ (i - 1) + 1 = i  BY <1>3, <3>2
      <3>4. Tail(toReplay)[i - 1] = toReplay[i]  BY <1>4, <3>3, Zenon
      <3> QED  BY <2>3, <3>1, <3>3, <3>4, Zenon
    <2> QED  BY <2>1, <2>2, <2>3, Zenon DEF LeftoversSafe, LeftoversKept
  <1> QED  BY <1>9, <1>11, <1>12, <1>13, <1>15, <1>16, <1>17, Zenon DEF LeftoversSafe, NothingClobbered

----------------------------------------------------------------------------
\* Every step keeps the invariant.
LEMMA MountStep == ASSUME MountInv, Mishaps = {}, [MountNext]_mountVars PROVE MountInv'
  <1>1. ASSUME NEW x \in OrphanFiles, OrphanSave(x) PROVE MountInv'  BY <1>1, SaveStep, Zenon
  <1>2. ASSUME NEW x \in OrphanFiles, SomeoneSaves(x) PROVE MountInv'  BY <1>2, SomeoneStep, Zenon
  <1>3. ASSUME NEW e \in Entries0, OrphanOther(e) PROVE MountInv'  BY <1>3, OtherStep, Zenon
  <1>4. ASSUME NEW p, StartDaemon(p) PROVE MountInv'  BY <1>4, StartStep, Zenon
  <1>5. CASE relocate_one  BY <1>5, RelocateStep, Zenon
  <1>6. CASE Relocated  BY <1>6, StageStep, Zenon DEF Relocated
  <1>7. CASE NewFs  BY <1>7, StageStep, Zenon DEF NewFs
  <1>8. ASSUME NEW listed \in BOOLEAN, adopt_one(listed) PROVE MountInv'  BY <1>8, AdoptStep, Zenon
  <1>9. CASE write_mount_marker  BY <1>9, StageStep, Zenon DEF write_mount_marker
  <1>10. CASE ReplayFirst  BY <1>10, ReplayStep, Zenon
  <1>11. CASE Unmounted  BY <1>11, StageStep, Zenon DEF Unmounted, MountInv, Stages
  <1>12. CASE Killed  BY <1>12, StageStep, Zenon DEF Killed
  <1>13. CASE Detached  BY <1>13, StageStep, Zenon DEF Detached
  <1>14. CASE UNCHANGED mountVars  BY <1>14, StageStep, Zenon DEF mountVars
  <1> QED  BY <1>1, <1>2, <1>3, <1>4, <1>5, <1>6, <1>7, <1>8, <1>9, <1>10, <1>11, <1>12, <1>13, <1>14, Zenon DEF MountNext

\* Leftovers of the bare mount point are kept until they are uploaded, and their
\* upload replaces nothing that was to be seen on the server, for any files and
\* folders and any number of starts, if no start dies or fails between moving
\* and queueing them, no listing fails and no pid returns.
THEOREM LeftoversAreSafe == ASSUME Mishaps = {} PROVE MountSpec => []LeftoversSafe
  <1>1. MountInit => MountInv
    <2> SUFFICES ASSUME MountInit PROVE MountInv  BY Zenon
    <2> USE DEF MountInit
    <2>1. MountTyped
      <3>1. dir \subseteq Entries0  BY Zenon DEF Entries0, OrphanFiles
      <3>2. remote \in [PathSet -> Nat]  BY DEF PathSet, Absent
      <3>3. toReplay \in Seq(JournalOps)  OBVIOUS
      <3> QED  BY <3>1, <3>2, <3>3, Zenon DEF MountTyped
    <2>2. LaunchTyped
      <3>1. <<>> \in Seq(Movable) /\ <<>> \in Seq([file : OrphanFiles, name : Names0])  OBVIOUS
      <3> QED  BY <3>1, DownIs DEF LaunchTyped
    <2>3. Stages /\ NamesFresh /\ InsideFirst  BY DownIs, Zenon DEF Stages, NamesFresh, InsideFirst
    <2>4. Closed(remote)
      <3>1. PICK v \in {Absent, 100} : remote = [x \in PathSet |-> v]  BY Zenon DEF PathSet
      <3> QED  BY <3>1, FilesApart DEF Closed
    <2>5. Listings  BY <2>4, DownIs, Zenon DEF Listings
    <2>6. Len(toReplay) = 0 /\ 1..0 = {}  OBVIOUS
    <2>7. Based  BY <2>6, Zenon DEF Based
    <2>8. LeftoversSafe  BY Zenon DEF LeftoversSafe, LeftoversKept, NothingClobbered
    <2> QED  BY <2>1, <2>2, <2>3, <2>5, <2>7, <2>8, Zenon DEF MountInv
  <1>2. MountInv /\ [MountNext]_mountVars => MountInv'  BY MountStep, Zenon
  <1>3. MountInv => LeftoversSafe  BY Zenon DEF MountInv
  <1> QED  BY <1>1, <1>2, <1>3, PTL DEF MountSpec
=============================================================================
