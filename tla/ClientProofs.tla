---------------------------- MODULE ClientProofs ----------------------------
(***************************************************************************)
(* Proofs about what programs get to see: they are told of changes, and a  *)
(* file's content is read from a copy that is current.                     *)
(***************************************************************************)
EXTENDS FileCopies, ChangeFeed, WellFoundedInduction, TLAPS

-----------------------------------------------------------------------------
(***************************************************************************)
(* FileCopies: without the races CopyRaces names, a copy taken for the     *)
(* server's is the server's, and an edit that is staged stays.             *)
(***************************************************************************)

\* The records of a cache entry, a download and the purge.
EntryRec(e) == e = [in |-> e.in, etag |-> e.etag, modified |-> e.modified, kept |-> e.kept]
LoadRec(l) == l = [at |-> l.at, kept |-> l.kept, got |-> l.got] /\ l.got \in Nat
PurgeRec(p) == p = [at |-> p.at, pending |-> p.pending, open |-> p.open]

\* Every variable holds a record of its kind, and versions are numbers.
CopiesType ==
    /\ current \in Nat \ {0} /\ listing \in Nat
    /\ EntryRec(entry) /\ entry.etag \in Nat
    /\ copies \in [{"kept", "cache"} -> Nat]
    /\ DOMAIN loads = Loads /\ \A l \in Loads : LoadRec(loads[l])
    /\ PurgeRec(purge)

\* Nothing is newer than what the server has.
NothingNewer ==
    /\ listing <= current /\ entry.etag <= current
    /\ \A l \in Loads : loads[l].got <= current

\* One download at a time, and between its last byte and its entry the
\* listing names no version the download has not.
Downloads ==
    /\ \A l, m \in Loads : loads[l].at # "idle" /\ loads[m].at # "idle" => l = m
    /\ \A l \in Loads : loads[l].at = "got" =>
          /\ loads[l].got # None /\ listing <= loads[l].got
          /\ LET c == copies[Tree(loads[l].kept)] IN c # None => c >= loads[l].got

\* A copy is at least the version its entry says it is.
Labelled ==
    entry.in => entry.etag # None /\ LET c == copies[Tree(entry.kept)] IN c # None => c >= entry.etag

\* A purge that has read the journal and the open handles has seen the edit
\* that is there: no handle is opened, closed or queued while it runs.
PurgeSees ==
    /\ handle \in {"none", "open", "closing", "queued"}
    /\ handle # "none" => staging
    /\ purge.at # "idle" => handle # "closing"
    /\ purge.at # "idle" /\ handle = "queued" => purge.pending
    /\ purge.at = "looked" /\ handle = "open" => purge.open

\* The inductive invariant.
CopiesInv == CopiesType /\ NothingNewer /\ Downloads /\ Labelled /\ PurgeSees

\* Nothing is cached at the start.
LEMMA CopiesInitially == CopiesInit => CopiesInv
BY DEF CopiesInit, CopiesInv, CopiesType, NothingNewer, Downloads, Labelled, PurgeSees, EntryRec, LoadRec,
       PurgeRec, NoEntry, NoLoad, NoPurge, Loads, None, Tree

\* Every step keeps the invariant when downloads, purges and saves do not meet in
\* the windows CopyRaces names.
LEMMA CopiesStep ==
    ASSUME CopyRaces = {}, CopiesInv, [CopiesNext]_copyVars
    PROVE  CopiesInv'
<1> USE DEF CopiesInv, CopiesType, NothingNewer, Downloads, Labelled, PurgeSees
<1> USE DEF EntryRec, LoadRec, PurgeRec, NoEntry, NoLoad, NoPurge, None, Tree, Quiet
<1>1. CASE RemoteChanges
  <2>1. CopiesType'  BY <1>1 DEF RemoteChanges
  <2>2. NothingNewer'  BY <1>1 DEF RemoteChanges
  <2>3. Downloads'  BY <1>1, Zenon DEF RemoteChanges
  <2>4. Labelled'  BY <1>1, Zenon DEF RemoteChanges
  <2>5. PurgeSees'  BY <1>1, Zenon DEF RemoteChanges
  <2> QED  BY <2>1, <2>2, <2>3, <2>4, <2>5, Zenon
<1>2. CASE Relisted
  <2>1. CopiesType'  BY <1>2 DEF Relisted
  <2>2. NothingNewer'  BY <1>2 DEF Relisted
  <2>3. Downloads'  BY <1>2, Zenon DEF Relisted
  <2>4. Labelled'  BY <1>2 DEF Relisted
  <2>5. PurgeSees'  BY <1>2, Zenon DEF Relisted
  <2> QED  BY <2>1, <2>2, <2>3, <2>4, <2>5, Zenon
<1>3. CASE Forgotten
  <2>1. CopiesType'  BY <1>3, Zenon DEF Forgotten
  <2>2. NothingNewer'  BY <1>3 DEF Forgotten
  <2>3. Downloads'  BY <1>3 DEF Forgotten
  <2>4. Labelled'  BY <1>3, Zenon DEF Forgotten
  <2>5. PurgeSees'  BY <1>3, Zenon DEF Forgotten
  <2> QED  BY <2>1, <2>2, <2>3, <2>4, <2>5, Zenon
<1>4. CASE ReadDir
  <2>1. CopiesType'  BY <1>4, Zenon DEF ReadDir, Found
  <2>2. NothingNewer'  BY <1>4, Zenon DEF ReadDir, Found
  <2>3. Downloads'  BY <1>4, Zenon DEF ReadDir, Found
  <2>4. Labelled'
    <3>1. UNCHANGED copies /\ entry'.etag = listing /\ listing # None /\ copies[Found] = listing
      BY <1>4, Zenon DEF ReadDir
    <3>2. Tree(entry'.kept) = Found
      <4>1. CASE Found = "kept"  BY <1>4, <4>1, Zenon DEF ReadDir
      <4>2. CASE Found # "kept"  BY <1>4, <4>2, Zenon DEF ReadDir, Found
      <4> QED  BY <4>1, <4>2, Zenon
    <3> HIDE DEF Tree
    <3> QED  BY <3>1, <3>2
  <2>5. PurgeSees'  BY <1>4, Zenon DEF ReadDir, Found
  <2> QED  BY <2>1, <2>2, <2>3, <2>4, <2>5, Zenon
<1>5. ASSUME NEW l \in Loads, NEW kept \in BOOLEAN, EnsureStarts(l, kept) PROVE CopiesInv'
  <2>1. CopiesType'  BY <1>5 DEF EnsureStarts
  <2>2. NothingNewer'  BY <1>5 DEF EnsureStarts
  <2>3. Downloads'  BY <1>5 DEF EnsureStarts
  <2>4. Labelled'  BY <1>5, Zenon DEF EnsureStarts
  <2>5. PurgeSees'  BY <1>5, Zenon DEF EnsureStarts
  <2> QED  BY <2>1, <2>2, <2>3, <2>4, <2>5, Zenon
<1>6. ASSUME NEW l \in Loads, Downloaded(l) PROVE CopiesInv'
  <2>1. CopiesType'
    <3>1. loads'[l] = [at |-> "got", kept |-> loads[l].kept, got |-> current]
      <4>1. loads'[l] = [loads[l] EXCEPT !.at = "got", !.got = current]  BY <1>6, Zenon DEF Downloaded
      <4>2. loads[l] = [at |-> loads[l].at, kept |-> loads[l].kept, got |-> loads[l].got]  BY <1>6, Zenon
      <4> QED  BY <4>1, <4>2, Zenon
    <3>2. DOMAIN loads' = Loads /\ \A m \in Loads : LoadRec(loads'[m])  BY <1>6, <3>1 DEF Downloaded
    <3> QED  BY <1>6, <3>2, Zenon DEF Downloaded
  <2>2. NothingNewer'  BY <1>6 DEF Downloaded
  <2>3. Downloads'  BY <1>6 DEF Downloaded
  <2>4. Labelled'  BY <1>6, Zenon DEF Downloaded
  <2>5. PurgeSees'  BY <1>6, Zenon DEF Downloaded
  <2> QED  BY <2>1, <2>2, <2>3, <2>4, <2>5, Zenon
<1>7. ASSUME NEW l \in Loads, Entered(l) PROVE CopiesInv'
  <2>1. CopiesType'  BY <1>7, Zenon DEF Entered
  <2>2. NothingNewer'  BY <1>7 DEF Entered
  <2>3. Downloads'  BY <1>7, Zenon DEF Entered
  <2>4. Labelled'  BY <1>7 DEF Entered
  <2>5. PurgeSees'  BY <1>7, Zenon DEF Entered
  <2> QED  BY <2>1, <2>2, <2>3, <2>4, <2>5, Zenon
<1>8. ASSUME NEW l \in Loads, NEW again \in BOOLEAN, DownloadFails(l, again) PROVE CopiesInv'
  <2>1. CopiesType'  BY <1>8, Zenon DEF DownloadFails
  <2>2. NothingNewer'  BY <1>8 DEF DownloadFails
  <2>3. Downloads'  BY <1>8 DEF DownloadFails
  <2>4. Labelled'  BY <1>8, Zenon DEF DownloadFails
  <2>5. PurgeSees'  BY <1>8, Zenon DEF DownloadFails
  <2> QED  BY <2>1, <2>2, <2>3, <2>4, <2>5, Zenon
<1>9. CASE OpenWrite
  <2>1. CopiesType'  BY <1>9, Zenon DEF OpenWrite
  <2>2. NothingNewer'  BY <1>9, Zenon DEF OpenWrite
  <2>3. Downloads'  BY <1>9, Zenon DEF OpenWrite
  <2>4. Labelled'  BY <1>9, Zenon DEF OpenWrite
  <2>5. PurgeSees'  BY <1>9, Zenon DEF OpenWrite
  <2> QED  BY <2>1, <2>2, <2>3, <2>4, <2>5, Zenon
<1>10. CASE ReleaseTakes
  <2>1. CopiesType'  BY <1>10, Zenon DEF ReleaseTakes
  <2>2. NothingNewer'  BY <1>10, Zenon DEF ReleaseTakes
  <2>3. Downloads'  BY <1>10, Zenon DEF ReleaseTakes
  <2>4. Labelled'  BY <1>10, Zenon DEF ReleaseTakes
  <2>5. PurgeSees'  BY <1>10, Zenon DEF ReleaseTakes
  <2> QED  BY <2>1, <2>2, <2>3, <2>4, <2>5, Zenon
<1>11. CASE ReleaseQueues
  <2>1. CopiesType'  BY <1>11, Zenon DEF ReleaseQueues
  <2>2. NothingNewer'  BY <1>11, Zenon DEF ReleaseQueues
  <2>3. Downloads'  BY <1>11, Zenon DEF ReleaseQueues
  <2>4. Labelled'  BY <1>11, Zenon DEF ReleaseQueues
  <2>5. PurgeSees'  BY <1>11, Zenon DEF ReleaseQueues
  <2> QED  BY <2>1, <2>2, <2>3, <2>4, <2>5, Zenon
<1>12. CASE UploadLands
  <2>1. CopiesType'  BY <1>12 DEF UploadLands
  <2>2. NothingNewer'  BY <1>12 DEF UploadLands
  <2>3. Downloads'  BY <1>12, Zenon DEF UploadLands
  <2>4. Labelled'  BY <1>12 DEF UploadLands
  <2>5. PurgeSees'  BY <1>12, Zenon DEF UploadLands
  <2> QED  BY <2>1, <2>2, <2>3, <2>4, <2>5, Zenon
<1>13. CASE Evict
  <2>1. CopiesType'  BY <1>13, Zenon DEF Evict
  <2>2. NothingNewer'  BY <1>13 DEF Evict
  <2>3. Downloads'  BY <1>13, Zenon DEF Evict
  <2>4. Labelled'  BY <1>13, Zenon DEF Evict
  <2>5. PurgeSees'  BY <1>13, Zenon DEF Evict
  <2> QED  BY <2>1, <2>2, <2>3, <2>4, <2>5, Zenon
<1>14. CASE PurgeReads
  <2>1. CopiesType'  BY <1>14, Zenon DEF PurgeReads
  <2>2. NothingNewer'  BY <1>14, Zenon DEF PurgeReads
  <2>3. Downloads'  BY <1>14, Zenon DEF PurgeReads
  <2>4. Labelled'  BY <1>14, Zenon DEF PurgeReads
  <2>5. PurgeSees'  BY <1>14, Zenon DEF PurgeReads
  <2> QED  BY <2>1, <2>2, <2>3, <2>4, <2>5, Zenon
<1>15. CASE PurgeCopies
  <2>1. CopiesType'  BY <1>15 DEF PurgeCopies
  <2>2. NothingNewer'  BY <1>15 DEF PurgeCopies
  <2>3. Downloads'  BY <1>15, Zenon DEF PurgeCopies
  <2>4. Labelled'  BY <1>15 DEF PurgeCopies
  <2>5. PurgeSees'  BY <1>15, Zenon DEF PurgeCopies
  <2> QED  BY <2>1, <2>2, <2>3, <2>4, <2>5, Zenon
<1>16. CASE PurgeLooks
  <2>1. CopiesType'  BY <1>16, Zenon DEF PurgeLooks
  <2>2. NothingNewer'  BY <1>16, Zenon DEF PurgeLooks
  <2>3. Downloads'  BY <1>16, Zenon DEF PurgeLooks
  <2>4. Labelled'  BY <1>16, Zenon DEF PurgeLooks
  <2>5. PurgeSees'  BY <1>16, Zenon DEF PurgeLooks
  <2> QED  BY <2>1, <2>2, <2>3, <2>4, <2>5, Zenon
<1>17. CASE PurgeStaging
  <2>1. CopiesType'  BY <1>17, Zenon DEF PurgeStaging
  <2>2. NothingNewer'  BY <1>17 DEF PurgeStaging
  <2>3. Downloads'  BY <1>17 DEF PurgeStaging
  <2>4. Labelled'  BY <1>17, Zenon DEF PurgeStaging
  <2>5. PurgeSees'
    <3>1. UNCHANGED handle /\ purge.at = "looked" /\ purge'.at = "idle"  BY <1>17, Zenon DEF PurgeStaging
    <3>2. ASSUME handle # "none" PROVE staging'
      <4>1. staging /\ (purge.pending \/ purge.open)  BY <3>1, <3>2, Zenon
      <4> QED  BY <1>17, <4>1, Zenon DEF PurgeStaging
    <3> QED  BY <3>1, <3>2, Zenon
  <2> QED  BY <2>1, <2>2, <2>3, <2>4, <2>5, Zenon
<1>18. CASE CleanupWalks
  <2>1. CopiesType'  BY <1>18, Zenon DEF CleanupWalks
  <2>2. NothingNewer'  BY <1>18, Zenon DEF CleanupWalks
  <2>3. Downloads'  BY <1>18, Zenon DEF CleanupWalks
  <2>4. Labelled'  BY <1>18, Zenon DEF CleanupWalks
  <2>5. PurgeSees'  BY <1>18, Zenon DEF CleanupWalks
  <2> QED  BY <2>1, <2>2, <2>3, <2>4, <2>5, Zenon
<1>19. CASE CleanupRemoves
  <2>1. CopiesType'  BY <1>19 DEF CleanupRemoves
  <2>2. NothingNewer'  BY <1>19 DEF CleanupRemoves
  <2>3. Downloads'  BY <1>19, Zenon DEF CleanupRemoves
  <2>4. Labelled'  BY <1>19 DEF CleanupRemoves
  <2>5. PurgeSees'  BY <1>19, Zenon DEF CleanupRemoves
  <2> QED  BY <2>1, <2>2, <2>3, <2>4, <2>5, Zenon
<1>20. CASE SavedForAnother
  <2>1. CopiesType'  BY <1>20, Zenon DEF SavedForAnother
  <2>2. NothingNewer'  BY <1>20, Zenon DEF SavedForAnother
  <2>3. Downloads'  BY <1>20, Zenon DEF SavedForAnother
  <2>4. Labelled'  BY <1>20, Zenon DEF SavedForAnother
  <2>5. PurgeSees'  BY <1>20, Zenon DEF SavedForAnother
  <2> QED  BY <2>1, <2>2, <2>3, <2>4, <2>5, Zenon
<1>21. ASSUME NEW b \in BOOLEAN, Restarted(b) PROVE CopiesInv'
  <2>1. CopiesType'  BY <1>21, Zenon DEF Restarted, Swept
  <2>2. NothingNewer'  BY <1>21 DEF Restarted, Swept
  <2>3. Downloads'  BY <1>21, Zenon DEF Restarted, Swept
  <2>4. Labelled'  BY <1>21, Zenon DEF Restarted, Swept
  <2>5. PurgeSees'  BY <1>21, Zenon DEF Restarted, Swept
  <2> QED  BY <2>1, <2>2, <2>3, <2>4, <2>5, Zenon
<1>22. ASSUME NEW b \in BOOLEAN, BootChecks(b) PROVE CopiesInv'
  <2>1. CopiesType'  BY <1>22 DEF BootChecks
  <2>2. NothingNewer'  BY <1>22 DEF BootChecks
  <2>3. Downloads'  BY <1>22, Zenon DEF BootChecks
  <2>4. Labelled'  BY <1>22 DEF BootChecks
  <2>5. PurgeSees'  BY <1>22, Zenon DEF BootChecks
  <2> QED  BY <2>1, <2>2, <2>3, <2>4, <2>5, Zenon
<1>23. CASE UNCHANGED copyVars
  <2>1. CopiesType'  BY <1>23, Zenon DEF copyVars
  <2>2. NothingNewer'  BY <1>23, Zenon DEF copyVars
  <2>3. Downloads'  BY <1>23, Zenon DEF copyVars
  <2>4. Labelled'  BY <1>23, Zenon DEF copyVars
  <2>5. PurgeSees'  BY <1>23, Zenon DEF copyVars
  <2> QED  BY <2>1, <2>2, <2>3, <2>4, <2>5, Zenon
<1> QED
  BY <1>1, <1>2, <1>3, <1>4, <1>5, <1>6, <1>7, <1>8, <1>9, <1>10, <1>11, <1>12,
     <1>13, <1>14, <1>15, <1>16, <1>17, <1>18, <1>19, <1>20, <1>21, <1>22, <1>23, Zenon DEF CopiesNext

\* A copy served as current is never older than the listed version
\* (file_cache_matches_remote, ensure_file_cached_within), and the staging file of
\* an edit outlives purge_callback, evict_callback, run_cache_cleanup and every
\* restart until its upload has landed, for any number of versions and downloads,
\* when none of the races in CopyRaces happens.
THEOREM CopiesStayTrue ==
    ASSUME CopyRaces = {}
    PROVE  CopiesSpec => []CopiesHold
<1>1. CopiesInit => CopiesInv  BY CopiesInitially, Zenon
<1>2. CopiesInv /\ [CopiesNext]_copyVars => CopiesInv'  BY CopiesStep, Zenon
<1>3. CopiesInv => CopiesHold
  <2> SUFFICES ASSUME CopiesInv PROVE StaleNeverFresh /\ StagedEditKept  BY Zenon DEF CopiesHold
  <2>1. StaleNeverFresh
    BY Zenon DEF CopiesInv, Labelled, StaleNeverFresh, file_cache_matches_remote, Local, None
  <2>2. StagedEditKept  BY Zenon DEF CopiesInv, PurgeSees, StagedEditKept
  <2> QED  BY <2>1, <2>2, Zenon
<1> QED  BY <1>1, <1>2, <1>3, PTL DEF CopiesSpec

-----------------------------------------------------------------------------
(***************************************************************************)
(* ChangeFeed: every client is told of every change, or that it missed     *)
(* some.                                                                   *)
(***************************************************************************)

\* A record, the numbers of the changes in a sequence of records, and that none
\* of them is there twice.
FeedRecs == [n : Nat, kind : Kinds]
Nums(s) == {s[i].n : i \in 1..Len(s)}
Distinct(s) == \A i, j \in 1..Len(s) : s[i].n = s[j].n => i = j

\* Every variable holds what its name says.
BuffersTyped == made \in Nat /\ recorded \in Seq(FeedRecs) /\ drained \in [Pumps -> Seq(FeedRecs)]
RingTyped ==
    /\ ring = [base |-> ring.base, entries |-> ring.entries]
    /\ ring.base \in Nat /\ ring.entries \in Seq(FeedRecs)
EventsTyped ==
    /\ events = [on |-> events.on, live |-> events.live, since |-> events.since, told |-> events.told]
    /\ events.since \in Nat
LegacyTyped ==
    /\ legacy = [refs |-> legacy.refs, status |-> legacy.status, file |-> legacy.file, due |-> legacy.due,
                 told |-> legacy.told, skipped |-> legacy.skipped, again |-> legacy.again]
    /\ legacy.refs \in Nat /\ legacy.status \in Nat /\ legacy.file \in Nat /\ legacy.due \in Nat
FeedTyped == BuffersTyped /\ RingTyped /\ EventsTyped /\ LegacyTyped

\* A change is in one place: recorded, taken by one pump, or in the ring.
OnePlace ==
    /\ Nums(recorded) \subseteq 1..made /\ Distinct(recorded)
    /\ \A p \in Pumps : Nums(drained[p]) \subseteq 1..made /\ Distinct(drained[p])
    /\ Nums(ring.entries) \subseteq 1..made /\ Distinct(ring.entries)
    /\ Nums(recorded) \cap Nums(ring.entries) = {}
    /\ \A p \in Pumps : /\ Nums(drained[p]) \cap Nums(recorded) = {}
                        /\ Nums(drained[p]) \cap Nums(ring.entries) = {}
    /\ \A p, q \in Pumps : p # q => Nums(drained[p]) \cap Nums(drained[q]) = {}

\* No cursor is past the head.
Cursors ==
    /\ events.on => events.since <= head
    /\ legacy.refs > 0 => legacy.status <= head /\ legacy.file <= head

\* What a legacy process was told is behind the cursor of its kind.
Behind ==
    /\ legacy.told \subseteq 1..made
    /\ legacy.told \cap Nums(recorded) = {}
    /\ \A p \in Pumps : legacy.told \cap Nums(drained[p]) = {}
    /\ \A i \in 1..Len(ring.entries) : ring.entries[i].n \in legacy.told =>
          ring.base + i <= IF ring.entries[i].kind = "file" THEN legacy.file ELSE legacy.status

\* The inductive invariant.
FeedInv == FeedTyped /\ OnePlace /\ Cursors /\ Behind /\ ClientsTold

----------------------------------------------------------------------------
\* Records at the end of others.
LEMMA NumsJoined ==
    ASSUME NEW s \in Seq(FeedRecs), NEW t \in Seq(FeedRecs)
    PROVE  /\ s \o t \in Seq(FeedRecs) /\ Nums(s \o t) = Nums(s) \cup Nums(t)
           /\ Distinct(s) /\ Distinct(t) /\ Nums(s) \cap Nums(t) = {} => Distinct(s \o t)
  <1>1. s \o t \in Seq(FeedRecs) /\ Len(s \o t) = Len(s) + Len(t) /\ Len(s) \in Nat /\ Len(t) \in Nat  OBVIOUS
  <1>2. \A i \in 1..Len(s) : (s \o t)[i] = s[i]  OBVIOUS
  <1>3. \A i \in 1..Len(t) : (s \o t)[Len(s) + i] = t[i]  OBVIOUS
  <1> DEFINE u == s \o t
  <1>4. \A i \in 1..Len(u) : i \in 1..Len(s) \/ i - Len(s) \in 1..Len(t)  BY <1>1
  <1>5. \A i \in 1..Len(u) : i \notin 1..Len(s) => i - Len(s) \in 1..Len(t) /\ u[i] = t[i - Len(s)]
    <2>1. SUFFICES ASSUME NEW i \in 1..Len(u), i \notin 1..Len(s)
                   PROVE  i - Len(s) \in 1..Len(t) /\ u[i] = t[i - Len(s)]
      BY Zenon
    <2>2. i - Len(s) \in 1..Len(t) /\ Len(s) + (i - Len(s)) = i  BY <1>1, <2>1
    <2> QED  BY <1>3, <2>2, Zenon
  <1>6. \A i \in 1..Len(s) : i \in 1..Len(u)  BY <1>1
  <1>7. \A i \in 1..Len(t) : Len(s) + i \in 1..Len(u)  BY <1>1
  <1> HIDE DEF u
  <1>8. Nums(u) = Nums(s) \cup Nums(t)
    <2>1. ASSUME NEW i \in 1..Len(u) PROVE u[i].n \in Nums(s) \cup Nums(t)
      <3>1. CASE i \in 1..Len(s)
        <4>1. u[i] = s[i]  BY <1>2, <3>1, Zenon DEF u
        <4> QED  BY <3>1, <4>1, Zenon DEF Nums
      <3>2. CASE i \notin 1..Len(s)  BY <1>5, <3>2, Zenon DEF Nums
      <3> QED  BY <3>1, <3>2, Zenon
    <2>2. ASSUME NEW i \in 1..Len(s) PROVE s[i].n \in Nums(u)
      <3>1. u[i] = s[i] /\ i \in 1..Len(u)  BY <1>2, <1>6, Zenon DEF u
      <3> QED  BY <3>1, Zenon DEF Nums
    <2>3. ASSUME NEW i \in 1..Len(t) PROVE t[i].n \in Nums(u)
      <3>1. u[Len(s) + i] = t[i] /\ Len(s) + i \in 1..Len(u)  BY <1>3, <1>7, Zenon DEF u
      <3> QED  BY <3>1, Zenon DEF Nums
    <2>4. Nums(u) \subseteq Nums(s) \cup Nums(t)  BY <2>1, Zenon DEF Nums
    <2>5. Nums(s) \subseteq Nums(u)  BY <2>2, Zenon DEF Nums
    <2>6. Nums(t) \subseteq Nums(u)  BY <2>3, Zenon DEF Nums
    <2> QED  BY <2>4, <2>5, <2>6, Zenon
  <1>9. ASSUME Distinct(s), Distinct(t), Nums(s) \cap Nums(t) = {} PROVE Distinct(u)
    <2>1. SUFFICES ASSUME NEW i \in 1..Len(u), NEW j \in 1..Len(u), u[i].n = u[j].n PROVE i = j
      BY Zenon DEF Distinct
    <2>2. CASE i \in 1..Len(s) /\ j \in 1..Len(s)
      <3>1. u[i] = s[i] /\ u[j] = s[j]  BY <1>2, <2>2, Zenon DEF u
      <3> QED  BY <1>9, <2>1, <2>2, <3>1, Zenon DEF Distinct
    <2>3. CASE i \notin 1..Len(s) /\ j \notin 1..Len(s)
      <3>1. i - Len(s) = j - Len(s)  BY <1>5, <1>9, <2>1, <2>3, ZenonT(60) DEF Distinct
      <3> QED  BY <1>1, <3>1
    <2>4. CASE i \in 1..Len(s) /\ j \notin 1..Len(s)
      <3>1. u[i].n \in Nums(s)
        <4>1. u[i] = s[i]  BY <1>2, <2>4, Zenon DEF u
        <4> QED  BY <2>4, <4>1, Zenon DEF Nums
      <3>2. u[j].n \in Nums(t)  BY <1>5, <2>4, Zenon DEF Nums
      <3> QED  BY <1>9, <2>1, <3>1, <3>2, Zenon
    <2>5. CASE i \notin 1..Len(s) /\ j \in 1..Len(s)
      <3>1. u[j].n \in Nums(s)
        <4>1. u[j] = s[j]  BY <1>2, <2>5, Zenon DEF u
        <4> QED  BY <2>5, <4>1, Zenon DEF Nums
      <3>2. u[i].n \in Nums(t)  BY <1>5, <2>5, Zenon DEF Nums
      <3> QED  BY <1>9, <2>1, <3>1, <3>2, Zenon
    <2> QED  BY <2>2, <2>3, <2>4, <2>5, Zenon
  <1> QED  BY <1>1, <1>8, <1>9, Zenon DEF u

\* No records.
LEMMA NumsNone == <<>> \in Seq(FeedRecs) /\ Nums(<<>>) = {} /\ Distinct(<<>>)
  BY DEF Nums, Distinct

\* One record at the end of others.
LEMMA NumsAppended ==
    ASSUME NEW s \in Seq(FeedRecs), NEW r \in FeedRecs
    PROVE  /\ Append(s, r) \in Seq(FeedRecs) /\ Nums(Append(s, r)) = Nums(s) \cup {r.n}
           /\ Distinct(s) /\ r.n \notin Nums(s) => Distinct(Append(s, r))
  <1>1. Append(s, r) \in Seq(FeedRecs) /\ Len(Append(s, r)) = Len(s) + 1 /\ Len(s) \in Nat  OBVIOUS
  <1>2. \A i \in 1..Len(s) : Append(s, r)[i] = s[i]  OBVIOUS
  <1>3. Append(s, r)[Len(s) + 1] = r  OBVIOUS
  <1> DEFINE u == Append(s, r)
  <1>4. 1..Len(u) = (1..Len(s)) \cup {Len(s) + 1}  BY <1>1
  <1>5. (\A i \in 1..Len(s) : u[i] = s[i]) /\ u[Len(s) + 1] = r  BY <1>2, <1>3, Zenon
  <1>6. Len(s) + 1 \notin 1..Len(s)  BY <1>1
  <1> HIDE DEF u
  <1>7. Nums(u) = Nums(s) \cup {r.n}  BY <1>4, <1>5 DEF Nums
  <1>8. ASSUME Distinct(s), r.n \notin Nums(s) PROVE Distinct(u)
    BY <1>4, <1>5, <1>6, <1>8, Zenon DEF Distinct, Nums
  <1> QED  BY <1>1, <1>7, <1>8, Zenon DEF u

\* The last records of some.
LEMMA NumsLast ==
    ASSUME NEW s \in Seq(FeedRecs), NEW k \in 0..Len(s), NEW u, u = SubSeq(s, k + 1, Len(s))
    PROVE  /\ u \in Seq(FeedRecs) /\ Len(u) = Len(s) - k
           /\ \A i \in 1..Len(u) : u[i] = s[k + i] /\ k + i \in 1..Len(s)
           /\ Nums(u) \subseteq Nums(s) /\ (Distinct(s) => Distinct(u))
  <1>1. Len(s) \in Nat /\ k \in Nat /\ k <= Len(s)  OBVIOUS
  <1>2. u \in Seq(FeedRecs) /\ Len(u) = Len(s) - k  BY <1>1
  <1>3. \A i \in 1..Len(u) : u[i] = s[k + i] /\ k + i \in 1..Len(s)
    <2>1. ASSUME NEW i \in 1..Len(u) PROVE u[i] = s[k + i] /\ k + i \in 1..Len(s)
      <3>1. i \in 1..(Len(s) - k)  BY <1>2, Zenon
      <3>2. k + i \in 1..Len(s) /\ (k + 1) + i - 1 = k + i  BY <1>1, <3>1
      <3> QED  BY <1>1, <3>1, <3>2
    <2> QED  BY <2>1, Zenon
  <1>4. Nums(u) \subseteq Nums(s)  BY <1>3 DEF Nums
  <1>5. ASSUME Distinct(s) PROVE Distinct(u)
    <2>1. SUFFICES ASSUME NEW i \in 1..Len(u), NEW j \in 1..Len(u), u[i].n = u[j].n PROVE i = j
      BY Zenon DEF Distinct
    <2>2. k + i = k + j  BY <1>3, <1>5, <2>1 DEF Distinct
    <2> QED  BY <1>1, <1>2, <2>2
  <1> QED  BY <1>2, <1>3, <1>4, <1>5, Zenon

----------------------------------------------------------------------------
\* The ring in numbers.
LEMMA RingHas ==
    ASSUME RingTyped
    PROVE  /\ ring.base \in Nat /\ Len(ring.entries) \in Nat /\ ring.entries \in Seq(FeedRecs)
           /\ DOMAIN ring.entries = 1..Len(ring.entries)
           /\ head \in Nat /\ head = ring.base + Len(ring.entries) /\ ring.base <= head
  <1>1. ring.base \in Nat /\ ring.entries \in Seq(FeedRecs)  BY Zenon DEF RingTyped
  <1>2. Len(ring.entries) \in Nat /\ DOMAIN ring.entries = 1..Len(ring.entries)  BY <1>1
  <1>3. PICK b \in Nat, x \in Nat : b = ring.base /\ x = Len(ring.entries)  BY <1>1, <1>2, Zenon
  <1>4. head = b + x  BY <1>3, Zenon DEF head
  <1>5. head \in Nat /\ b <= head  BY <1>4
  <1> QED  BY <1>1, <1>2, <1>3, <1>4, <1>5, Zenon

\* A step of a client leaves the changes where they are.
LEMMA RingStays ==
    ASSUME UNCHANGED <<made, recorded, drained, ring>>
    PROVE  /\ BuffersTyped => BuffersTyped' /\ (RingTyped => RingTyped')
           /\ OnePlace => OnePlace' /\ head' = head
           /\ \A n : Coming(n)' <=> Coming(n)
           /\ \A n, K, c : Ahead(n, K, c)' <=> Ahead(n, K, c)
  <1>1. BuffersTyped => BuffersTyped'  BY Zenon DEF BuffersTyped
  <1>2. RingTyped => RingTyped'  BY Zenon DEF RingTyped
  <1>3. OnePlace => OnePlace'  BY Zenon DEF OnePlace
  <1>4. head' = head  BY Zenon DEF head
  <1>5. ASSUME NEW n PROVE Coming(n)' <=> Coming(n)  BY Zenon DEF Coming
  <1>6. ASSUME NEW n, NEW K, NEW c PROVE Ahead(n, K, c)' <=> Ahead(n, K, c)  BY Zenon DEF Ahead
  <1> QED  BY <1>1, <1>2, <1>3, <1>4, <1>5, <1>6, Zenon

\* A step of other clients leaves the EVENTS client as it is.
LEMMA EventsStay ==
    ASSUME UNCHANGED <<made, recorded, drained, ring>>,
           events'.on = events.on, events'.since = events.since, events'.told = events.told
    PROVE  EventsTold => EventsTold'
  <1>1. \A n : Ahead(n, Kinds, events.since)' <=> Ahead(n, Kinds, events.since)
    <2>1. PICK c : c = events.since  BY Zenon
    <2>2. ASSUME NEW n PROVE Ahead(n, Kinds, events.since)' <=> Ahead(n, Kinds, c)'  BY <2>1, Zenon DEF Ahead
    <2> QED  BY <2>1, <2>2, RingStays, Zenon
  <1>2. \A n : Coming(n)' <=> Coming(n)  BY RingStays, Zenon
  <1> QED  BY <1>1, <1>2, Zenon DEF EventsTold

\* And of a legacy process, all but the number of its connections.
LEMMA LegacyStays ==
    ASSUME UNCHANGED <<made, recorded, drained, ring>>, legacy'.refs > 0 => legacy.refs > 0,
           legacy'.status = legacy.status, legacy'.file = legacy.file, legacy'.due = legacy.due,
           legacy'.told = legacy.told, legacy'.skipped = legacy.skipped, legacy'.again = legacy.again
    PROVE  (Behind => Behind') /\ (LegacyTold => LegacyTold') /\ (~legacy.again => ~legacy'.again)
  <1>1. Behind => Behind'  BY Zenon DEF Behind
  <1>2. \A n : /\ Ahead(n, {"p", "q"}, legacy.status)' <=> Ahead(n, {"p", "q"}, legacy.status)
               /\ Ahead(n, {"file"}, legacy.file)' <=> Ahead(n, {"file"}, legacy.file)
    <2>1. PICK s, f : s = legacy.status /\ f = legacy.file  BY Zenon
    <2>2. ASSUME NEW n PROVE /\ Ahead(n, {"p", "q"}, legacy.status)' <=> Ahead(n, {"p", "q"}, s)'
                             /\ Ahead(n, {"file"}, legacy.file)' <=> Ahead(n, {"file"}, f)'
      BY <2>1, Zenon DEF Ahead
    <2> QED  BY <2>1, <2>2, RingStays, Zenon
  <1>3. \A n : Coming(n)' <=> Coming(n)  BY RingStays, Zenon
  <1>4. LegacyTold => LegacyTold'  BY <1>2, <1>3, Zenon DEF LegacyTold
  <1> QED  BY <1>1, <1>4, Zenon

----------------------------------------------------------------------------
\* append: the ring drops k records from its beginning, all if nobody reads.
LEMMA RingAppended ==
    ASSUME FeedTyped, NEW p \in Pumps, AppendTo(p)
    PROVE  \A all : all = ring.entries \o drained[p] =>
             /\ all \in Seq(FeedRecs) /\ Len(all) = Len(ring.entries) + Len(drained[p])
             /\ \E k \in 0..Len(all) : ring' = [base |-> ring.base + k, entries |-> SubSeq(all, k + 1, Len(all))]
  <1>0. SUFFICES ASSUME NEW all, all = ring.entries \o drained[p]
        PROVE  /\ all \in Seq(FeedRecs) /\ Len(all) = Len(ring.entries) + Len(drained[p])
               /\ \E k \in 0..Len(all) : ring' = [base |-> ring.base + k, entries |-> SubSeq(all, k + 1, Len(all))]
    BY Zenon
  <1>1. PICK e, d : e = ring.entries /\ d = drained[p]  BY Zenon
  <1>2. all = e \o d /\ e \in Seq(FeedRecs) /\ d \in Seq(FeedRecs)  BY <1>0, <1>1, Zenon DEF FeedTyped, BuffersTyped, RingTyped
  <1>3. all \in Seq(FeedRecs) /\ Len(all) = Len(e) + Len(d)  BY <1>2
  <1>4. PICK n \in Nat : n = Len(all)  BY <1>3
  <1>5. PICK b \in Nat : b = ring.base  BY Zenon DEF FeedTyped, RingTyped
  <1> DEFINE over == IF n > Capacity THEN n - Capacity ELSE 0
             kept == IF Unread THEN <<>> ELSE SubSeq(all, over + 1, n)
  <1>6. ring' = [base |-> b + n - Len(kept), entries |-> kept]
    BY <1>0, <1>4, <1>5, Zenon DEF AppendTo, appended
  <1>7. over \in 0..n  BY FeedAssumption
  <1> HIDE DEF over
  <1> DEFINE Dropped == \E k \in 0..Len(all) : ring' = [base |-> ring.base + k, entries |-> SubSeq(all, k + 1, Len(all))]
  <1>8. ASSUME Unread PROVE Dropped
    <2>1. kept = <<>> /\ Len(kept) = 0  BY <1>8, Zenon
    <2> HIDE DEF kept
    <2>2. SubSeq(all, n + 1, n) = <<>>  BY <1>3, <1>4
    <2>3. b + n - Len(kept) = b + n /\ n \in 0..n  BY <2>1
    <2>4. ring' = [base |-> b + n, entries |-> SubSeq(all, n + 1, n)]  BY <1>6, <2>1, <2>2, <2>3, Zenon
    <2> QED  BY <1>4, <1>5, <2>3, <2>4, Zenon
  <1>9. ASSUME ~Unread PROVE Dropped
    <2>1. kept = SubSeq(all, over + 1, n)  BY <1>9, Zenon
    <2> HIDE DEF kept
    <2>2. over \in 0..Len(all) /\ kept = SubSeq(all, over + 1, Len(all))  BY <1>4, <1>7, <2>1, Zenon
    <2>3. Len(kept) = Len(all) - over  BY <1>3, <2>2, NumsLast, Zenon
    <2>4. b + n - Len(kept) = b + over  BY <1>4, <1>7, <2>3
    <2> QED  BY <1>4, <1>5, <1>6, <1>7, <2>1, <2>4, Zenon
  <1>10. Dropped  BY <1>8, <1>9, Zenon
  <1> QED  BY <1>1, <1>3, <1>10, Zenon

----------------------------------------------------------------------------
\* No change has been made at the start.
LEMMA FeedInitially == FeedInit => FeedInv
  <1> SUFFICES ASSUME FeedInit PROVE FeedInv  BY Zenon
  <1> USE NumsNone
  <1>1. FeedTyped
    <2>1. BuffersTyped /\ RingTyped  BY Zenon DEF FeedInit, BuffersTyped, RingTyped
    <2>2. EventsTyped /\ LegacyTyped  BY Zenon DEF FeedInit, EventsTyped, LegacyTyped, NoEvents, NoLegacy
    <2> QED  BY <2>1, <2>2, Zenon DEF FeedTyped
  <1>2. OnePlace  BY Zenon DEF FeedInit, OnePlace
  <1>3. Cursors  BY DEF FeedInit, Cursors, NoEvents, NoLegacy
  <1>4. Behind  BY Zenon DEF FeedInit, Behind, NoLegacy
  <1>5. ClientsTold  BY DEF FeedInit, ClientsTold, EventsTold, LegacyTold, NoEvents, NoLegacy
  <1> QED  BY <1>1, <1>2, <1>3, <1>4, <1>5, Zenon DEF FeedInv

\* The numbers in a buffer, as Coming has them.
LEMMA BufferNums ==
    ASSUME NEW s \in Seq(FeedRecs), NEW n
    PROVE  (\E i \in DOMAIN s : s[i].n = n) <=> n \in Nums(s)
  BY DEF Nums

LEMMA ComingNums ==
    ASSUME NEW n
    PROVE  /\ FeedTyped => (Coming(n) <=> n \in Nums(recorded) \/ \E p \in Pumps : n \in Nums(drained[p]))
           /\ FeedTyped' => (Coming(n)' <=> n \in Nums(recorded') \/ \E p \in Pumps : n \in Nums(drained'[p]))
  <1>1. ASSUME FeedTyped PROVE Coming(n) <=> n \in Nums(recorded) \/ \E p \in Pumps : n \in Nums(drained[p])
    <2>1. recorded \in Seq(FeedRecs) /\ \A p \in Pumps : drained[p] \in Seq(FeedRecs)  BY <1>1, Zenon DEF FeedTyped, BuffersTyped
    <2> QED  BY <2>1, BufferNums DEF Coming
  <1>2. ASSUME FeedTyped' PROVE Coming(n)' <=> n \in Nums(recorded') \/ \E p \in Pumps : n \in Nums(drained'[p])
    <2>1. recorded' \in Seq(FeedRecs) /\ \A p \in Pumps : drained'[p] \in Seq(FeedRecs)  BY <1>2, Zenon DEF FeedTyped, BuffersTyped
    <2> QED  BY <2>1, BufferNums DEF Coming
  <1> QED  BY <1>1, <1>2, Zenon

\* A change is recorded: it is coming, and nothing else has moved.
LEMMA ChangeStep == ASSUME FeedInv, NEW kind \in Kinds, Change(kind) PROVE FeedInv'
  <1>0. FeedTyped /\ OnePlace /\ Cursors /\ Behind /\ ClientsTold  BY Zenon DEF FeedInv
  <1>1. made' = made + 1 /\ made \in Nat /\ UNCHANGED <<drained, ring, events, legacy>>
    BY <1>0, Zenon DEF Change, FeedTyped, BuffersTyped
  <1>2. PICK r : r = [n |-> made', kind |-> kind]  BY Zenon
  <1>3. recorded' = Append(recorded, r) /\ r \in FeedRecs /\ r.n = made + 1
    BY <1>1, <1>2 DEF Change, FeedRecs
  <1>4. recorded \in Seq(FeedRecs)  BY <1>0, Zenon DEF FeedTyped, BuffersTyped
  <1>5. recorded' \in Seq(FeedRecs) /\ Nums(recorded') = Nums(recorded) \cup {made + 1}
    BY <1>3, <1>4, NumsAppended, Zenon
  <1>6. made + 1 \notin 1..made /\ 1..made \subseteq 1..made' /\ made + 1 \in 1..made'
        /\ 1..made' = (1..made) \cup {made + 1}
    BY <1>1
  <1>7. Distinct(recorded')  BY <1>0, <1>3, <1>4, <1>6, NumsAppended, Zenon DEF OnePlace
  <1>8. FeedTyped'
    <2>1. BuffersTyped'  BY <1>0, <1>1, <1>5 DEF FeedTyped, BuffersTyped
    <2>2. RingTyped' /\ EventsTyped' /\ LegacyTyped'  BY <1>0, <1>1, Zenon DEF FeedTyped, RingTyped, EventsTyped, LegacyTyped
    <2> QED  BY <2>1, <2>2, Zenon DEF FeedTyped
  <1>9. OnePlace'  BY <1>0, <1>1, <1>5, <1>6, <1>7, Zenon DEF OnePlace
  <1>10. Cursors'  BY <1>0, <1>1, Zenon DEF Cursors, head
  <1>11. Behind'  BY <1>0, <1>1, <1>5, <1>6, Zenon DEF Behind
  <1>12. ASSUME NEW n PROVE (Coming(n) => Coming(n)') /\ (n = made + 1 => Coming(n)')
    BY <1>0, <1>1, <1>5, <1>8, ComingNums, Zenon
  <1>13. ASSUME NEW n, NEW K, NEW c PROVE Ahead(n, K, c)' <=> Ahead(n, K, c)  BY <1>1, Zenon DEF Ahead
  <1>14. EventsTold'  BY <1>0, <1>1, <1>6, <1>12, <1>13, Zenon DEF ClientsTold, EventsTold
  <1>15. LegacyTold'
    <2>1. \A n \in legacy.due..made' : n \in legacy.due..made \/ n = made + 1  BY <1>0, <1>1 DEF FeedTyped, LegacyTyped
    <2> QED  BY <1>0, <1>1, <1>12, <1>13, <2>1, Zenon DEF ClientsTold, LegacyTold
  <1>16. ~legacy'.again  BY <1>0, <1>1, Zenon DEF ClientsTold
  <1> QED  BY <1>8, <1>9, <1>10, <1>11, <1>14, <1>15, <1>16, Zenon DEF FeedInv, ClientsTold

\* drain: what was recorded is with the pump, and coming still.
LEMMA DrainStep == ASSUME FeedInv, NEW p \in Pumps, Drain(p) PROVE FeedInv'
  <1>0. FeedTyped /\ OnePlace /\ Cursors /\ Behind /\ ClientsTold  BY Zenon DEF FeedInv
  <1>1. recorded' = <<>> /\ UNCHANGED <<made, ring, events, legacy>>  BY Zenon DEF Drain
  <1>2. recorded \in Seq(FeedRecs) /\ drained \in [Pumps -> Seq(FeedRecs)]  BY <1>0, Zenon DEF FeedTyped, BuffersTyped
  <1>3. drained' \in [Pumps -> Seq(FeedRecs)] /\ drained'[p] = recorded /\ Nums(drained[p]) = {}
        /\ \A q \in Pumps : q # p => drained'[q] = drained[q]
    BY <1>2, NumsNone, Zenon DEF Drain
  <1>4. Nums(recorded') = {} /\ Distinct(recorded') /\ recorded' \in Seq(FeedRecs)  BY <1>1, NumsNone, Zenon
  <1>5. FeedTyped'
    <2>1. BuffersTyped'  BY <1>0, <1>1, <1>3, <1>4, Zenon DEF FeedTyped, BuffersTyped
    <2>2. RingTyped' /\ EventsTyped' /\ LegacyTyped'  BY <1>0, <1>1, Zenon DEF FeedTyped, RingTyped, EventsTyped, LegacyTyped
    <2> QED  BY <2>1, <2>2, Zenon DEF FeedTyped
  <1>6. OnePlace'
    <2>1. \A q \in Pumps : Nums(drained'[q]) \subseteq 1..made /\ Distinct(drained'[q])
                        /\ Nums(drained'[q]) \cap Nums(ring.entries) = {}
      BY <1>0, <1>3, Zenon DEF OnePlace
    <2>2. \A q, r \in Pumps : q # r => Nums(drained'[q]) \cap Nums(drained'[r]) = {}
      BY <1>0, <1>3, Zenon DEF OnePlace
    <2> QED  BY <1>0, <1>1, <1>4, <2>1, <2>2, Zenon DEF OnePlace
  <1>7. Cursors'  BY <1>0, <1>1, Zenon DEF Cursors, head
  <1>8. Behind'
    <2>1. \A q \in Pumps : legacy.told \cap Nums(drained'[q]) = {}  BY <1>0, <1>3, Zenon DEF Behind
    <2> QED  BY <1>0, <1>1, <1>4, <2>1, Zenon DEF Behind
  <1>9. ASSUME NEW n, Coming(n) PROVE Coming(n)'
    <2>1. n \in Nums(recorded) \/ \E q \in Pumps : n \in Nums(drained[q])  BY <1>0, <1>9, ComingNums, Zenon
    <2>2. \E q \in Pumps : n \in Nums(drained'[q])  BY <1>3, <2>1, Zenon
    <2> QED  BY <1>5, <2>2, ComingNums, Zenon
  <1>10. ASSUME NEW n, NEW K, NEW c PROVE Ahead(n, K, c)' <=> Ahead(n, K, c)  BY <1>1, Zenon DEF Ahead
  <1>11. EventsTold'  BY <1>0, <1>1, <1>9, <1>10, Zenon DEF ClientsTold, EventsTold
  <1>12. LegacyTold'  BY <1>0, <1>1, <1>9, <1>10, Zenon DEF ClientsTold, LegacyTold
  <1>13. ~legacy'.again  BY <1>0, <1>1, Zenon DEF ClientsTold
  <1> QED  BY <1>5, <1>6, <1>7, <1>8, <1>11, <1>12, <1>13, Zenon DEF FeedInv, ClientsTold

\* append: the ring moves on by as many records as it drops.  A record ahead of
\* a cursor the ring has not passed stays ahead of it, and the appended ones
\* are ahead of every such cursor.
LEMMA AppendStep == ASSUME FeedInv, NEW p \in Pumps, AppendTo(p) PROVE FeedInv'
  <1>0. FeedTyped /\ OnePlace /\ Cursors /\ Behind /\ ClientsTold  BY Zenon DEF FeedInv
  <1>1. UNCHANGED <<made, recorded, events, legacy>>  BY Zenon DEF AppendTo
  <1>2. PICK e, d, all : e = ring.entries /\ d = drained[p] /\ all = ring.entries \o drained[p]  BY Zenon
  <1>3. e \in Seq(FeedRecs) /\ d \in Seq(FeedRecs) /\ all = e \o d /\ drained \in [Pumps -> Seq(FeedRecs)]
    BY <1>0, <1>2, Zenon DEF FeedTyped, BuffersTyped, RingTyped
  <1>4. PICK b \in Nat : b = ring.base  BY <1>0, Zenon DEF FeedTyped, RingTyped
  <1>5. PICK x \in Nat, y \in Nat : x = Len(e) /\ y = Len(d)  BY <1>3
  <1>6. all \in Seq(FeedRecs) /\ Len(all) = x + y  BY <1>0, <1>2, <1>5, RingAppended, Zenon
  <1>7. PICK k \in 0..(x + y) : ring' = [base |-> b + k, entries |-> SubSeq(all, k + 1, Len(all))]
    <2>1. \E j \in 0..Len(all) : ring' = [base |-> ring.base + j, entries |-> SubSeq(all, j + 1, Len(all))]
      BY <1>0, <1>2, RingAppended, Zenon
    <2> QED  BY <1>4, <1>6, <2>1, Zenon
  <1>8. PICK u : u = SubSeq(all, k + 1, Len(all))  BY Zenon
  <1>9. ring' = [base |-> b + k, entries |-> u] /\ ring'.base = b + k /\ ring'.entries = u  BY <1>7, <1>8, Zenon
  <1>10. /\ u \in Seq(FeedRecs) /\ Len(u) = x + y - k
         /\ \A i \in 1..Len(u) : u[i] = all[k + i] /\ k + i \in 1..(x + y)
         /\ Nums(u) \subseteq Nums(all) /\ (Distinct(all) => Distinct(u))
    <2>1. k \in 0..Len(all)  BY <1>6, Zenon
    <2>2. u \in Seq(FeedRecs) /\ Len(u) = Len(all) - k  BY <1>6, <1>8, <2>1, NumsLast, Zenon
    <2>3. \A i \in 1..Len(u) : u[i] = all[k + i] /\ k + i \in 1..Len(all)  BY <1>6, <1>8, <2>1, NumsLast
    <2>4. Nums(u) \subseteq Nums(all)  BY <2>3, Zenon DEF Nums
    <2>5. ASSUME Distinct(all) PROVE Distinct(u)
      <3>1. ASSUME NEW i \in 1..Len(u), NEW j \in 1..Len(u), u[i].n = u[j].n PROVE k + i = k + j
        <4>1. all[k + i].n = all[k + j].n /\ k + i \in 1..Len(all) /\ k + j \in 1..Len(all)  BY <2>3, <3>1, Zenon
        <4> QED  BY <2>5, <4>1, Zenon DEF Distinct
      <3>2. \A i, j \in 1..Len(u) : k + i = k + j => i = j  OBVIOUS
      <3> QED  BY <3>1, <3>2, Zenon DEF Distinct
    <2>6. PICK m : m = Len(all) /\ m = x + y  BY <1>6, Zenon
    <2> QED  BY <2>2, <2>3, <2>4, <2>5, <2>6
  <1>11. Nums(all) = Nums(e) \cup Nums(d) /\ Distinct(all)
    <2>1. Distinct(e) /\ Distinct(d) /\ Nums(e) \cap Nums(d) = {}  BY <1>0, <1>2, Zenon DEF OnePlace
    <2> QED  BY <1>3, <2>1, NumsJoined, Zenon
  <1>12. \A i \in 1..x : all[i] = e[i]  BY <1>3, <1>5
  <1>13. \A j \in 1..y : all[x + j] = d[j]
    <2>1. \A j \in 1..Len(d) : (e \o d)[Len(e) + j] = d[j]  BY <1>3
    <2> QED  BY <1>3, <1>5, <2>1, Zenon
  <1>14. drained' \in [Pumps -> Seq(FeedRecs)] /\ Nums(drained'[p]) = {} /\ Distinct(drained'[p])
         /\ \A q \in Pumps : q # p => drained'[q] = drained[q]
    BY <1>3, NumsNone, Zenon DEF AppendTo
  <1>15. head = b + x /\ head' = b + x + y
    <2>1. head' = (b + k) + Len(u)  BY <1>9, Zenon DEF head
    <2>2. (b + k) + (x + y - k) = b + x + y  OBVIOUS
    <2>3. head = b + x  BY <1>2, <1>4, <1>5, Zenon DEF head
    <2>4. Len(u) = x + y - k  BY <1>10, Zenon
    <2>5. head' = b + x + y  BY <2>1, <2>2, <2>4, Zenon
    <2> QED  BY <2>3, <2>5, Zenon
  <1>16. FeedTyped'
    <2>1. ring' = [base |-> ring'.base, entries |-> ring'.entries] /\ ring'.base \in Nat
          /\ ring'.entries \in Seq(FeedRecs)
      BY <1>9, <1>10
    <2>2. drained' \in [Pumps -> Seq(FeedRecs)]  BY <1>14, Zenon
    <2>3. RingTyped'  BY <2>1, Zenon DEF RingTyped
    <2>4. BuffersTyped'  BY <1>0, <1>1, <2>2, Zenon DEF FeedTyped, BuffersTyped
    <2>5. EventsTyped' /\ LegacyTyped'  BY <1>0, <1>1, Zenon DEF FeedTyped, EventsTyped, LegacyTyped
    <2> QED  BY <2>3, <2>4, <2>5, Zenon DEF FeedTyped
  <1>17. OnePlace'
    <2>1. Nums(u) \subseteq Nums(e) \cup Nums(d) /\ Distinct(u)  BY <1>10, <1>11, Zenon
    <2>2. /\ Nums(e) \subseteq 1..made /\ Nums(d) \subseteq 1..made
          /\ Nums(recorded) \cap Nums(e) = {} /\ Nums(recorded) \cap Nums(d) = {}
          /\ \A q \in Pumps : q # p => Nums(drained[q]) \cap Nums(d) = {} /\ Nums(drained[q]) \cap Nums(e) = {}
      BY <1>0, <1>2, Zenon DEF OnePlace
    <2>3. \A q \in Pumps : /\ Nums(drained'[q]) \subseteq 1..made /\ Distinct(drained'[q])
                           /\ Nums(drained'[q]) \cap Nums(recorded) = {} /\ Nums(drained'[q]) \cap Nums(u) = {}
      BY <1>0, <1>14, <2>1, <2>2, Zenon DEF OnePlace
    <2>4. \A q, r \in Pumps : q # r => Nums(drained'[q]) \cap Nums(drained'[r]) = {}
      BY <1>0, <1>14, Zenon DEF OnePlace
    <2>5. Nums(u) \subseteq 1..made /\ Nums(recorded) \cap Nums(u) = {}  BY <2>1, <2>2, Zenon
    <2>6. Nums(recorded) \subseteq 1..made /\ Distinct(recorded)  BY <1>0, Zenon DEF OnePlace
    <2> QED  BY <1>1, <1>9, <2>1, <2>3, <2>4, <2>5, <2>6, Zenon DEF OnePlace
  <1>18. Cursors'
    <2>1. \A c \in Nat : c <= head => c <= head'  BY <1>15
    <2> QED  BY <1>0, <1>1, <2>1, Zenon DEF Cursors, FeedTyped, EventsTyped, LegacyTyped
  <1>19. Behind'
    <2>1. \A q \in Pumps : legacy.told \cap Nums(drained'[q]) = {}  BY <1>0, <1>14, Zenon DEF Behind
    <2>2. ASSUME NEW i \in 1..Len(u), u[i].n \in legacy.told
          PROVE  b + k + i <= IF u[i].kind = "file" THEN legacy.file ELSE legacy.status
      <3>1. u[i] = all[k + i] /\ k + i \in 1..(x + y)  BY <1>10, Zenon
      <3>2. CASE k + i <= x
        <4>1. k + i \in 1..x  BY <3>1, <3>2
        <4>2. u[i] = e[k + i]  BY <1>12, <3>1, <4>1, Zenon
        <4>3. b + (k + i) <= IF u[i].kind = "file" THEN legacy.file ELSE legacy.status
          BY <1>0, <1>2, <1>4, <1>5, <2>2, <4>1, <4>2, Zenon DEF Behind
        <4>4. b + k + i = b + (k + i)  OBVIOUS
        <4> QED  BY <4>3, <4>4, Zenon
      <3>3. CASE ~(k + i <= x)
        <4>1. PICK j \in 1..y : k + i = x + j
          <5>1. k + i - x \in 1..y /\ k + i = x + (k + i - x)  BY <3>1, <3>3
          <5> QED  BY <5>1, Zenon
        <4>2. u[i] = d[j]  BY <1>13, <3>1, <4>1, Zenon
        <4>3. u[i].n \in Nums(d)  BY <1>5, <4>2, Zenon DEF Nums
        <4> QED  BY <1>0, <1>2, <2>2, <4>3, Zenon DEF Behind
      <3> QED  BY <3>2, <3>3, Zenon
    <2> QED  BY <1>0, <1>1, <1>9, <2>1, <2>2, Zenon DEF Behind
  <1>20. ASSUME NEW n, NEW K, NEW c \in Nat, c >= b + k, Ahead(n, K, c) PROVE Ahead(n, K, c)'
    <2>1. PICK i \in 1..x : e[i].n = n /\ e[i].kind \in K /\ b + i > c
      <3>1. DOMAIN e = 1..x  BY <1>3, <1>5
      <3> QED  BY <1>2, <1>4, <1>20, <3>1, Zenon DEF Ahead
    <2>2. PICK j \in Nat : j = i - k /\ j \in 1..(x + y - k) /\ k + j = i /\ b + k + j > c
      <3>1. i - k \in Nat /\ i - k \in 1..(x + y - k) /\ k + (i - k) = i /\ b + k + (i - k) > c  BY <1>20, <2>1
      <3> QED  BY <3>1, Zenon
    <2>3. j \in 1..Len(u) /\ DOMAIN u = 1..Len(u) /\ all[i] = e[i]
      <3>1. u \in Seq(FeedRecs) /\ Len(u) = x + y - k  BY <1>10, Zenon
      <3>2. DOMAIN u = 1..Len(u)  BY <3>1
      <3>3. j \in 1..Len(u)  BY <2>2, <3>1, Zenon
      <3>4. all[i] = e[i]  BY <1>12, Zenon
      <3> QED  BY <3>2, <3>3, <3>4, Zenon
    <2>4. u[j] = e[i]  BY <1>10, <2>2, <2>3, Zenon
    <2> QED  BY <1>9, <2>1, <2>2, <2>3, <2>4, Zenon DEF Ahead
  <1>21. ASSUME NEW n \in Nums(d), NEW c \in Nat, c >= b + k, c <= head
         PROVE  \E j \in DOMAIN u : u[j].n = n /\ u[j].kind \in Kinds /\ b + k + j > c
    <2>1. PICK i \in 1..y : d[i].n = n  BY <1>5, Zenon DEF Nums
    <2>2. PICK j \in Nat : j \in 1..(x + y - k) /\ k + j = x + i /\ b + k + j > c
      <3>1. k <= x  BY <1>15, <1>21
      <3>2. x + i - k \in Nat /\ x + i - k \in 1..(x + y - k) /\ k + (x + i - k) = x + i /\ b + k + (x + i - k) > c
        BY <1>15, <1>21, <3>1
      <3> QED  BY <3>2, Zenon
    <2>3. j \in 1..Len(u) /\ DOMAIN u = 1..Len(u) /\ all[x + i] = d[i]  BY <1>10, <1>13, <2>1, <2>2
    <2>4. u[j] = d[i]  BY <1>10, <2>2, <2>3, Zenon
    <2>5. d[i] \in FeedRecs  BY <1>3, <1>5
    <2>6. d[i].kind \in Kinds  BY <2>5, Zenon DEF FeedRecs
    <2> QED  BY <2>1, <2>2, <2>3, <2>4, <2>6, Zenon
  <1>22. ASSUME NEW n, Coming(n) PROVE Coming(n)' \/ n \in Nums(d)
    <2>1. n \in Nums(recorded) \/ \E q \in Pumps : n \in Nums(drained[q])  BY <1>0, <1>22, ComingNums, Zenon
    <2> QED  BY <1>1, <1>2, <1>14, <1>16, <2>1, ComingNums, Zenon
  <1>23. EventsTold'
    <2>1. SUFFICES ASSUME events.on, events.since >= b + k, NEW n \in 1..made
                   PROVE  n \in events.told \/ Coming(n)' \/ Ahead(n, Kinds, events.since)'
      BY <1>1, <1>9, Zenon DEF EventsTold
    <2>2. events.since \in Nat /\ events.since <= head /\ events.since >= b
      BY <1>0, <1>4, <2>1 DEF FeedTyped, EventsTyped, Cursors
    <2>3. CASE n \in events.told  BY <2>3, Zenon
    <2>4. CASE Coming(n)
      <3>1. CASE n \in Nums(d)
        <4>1. \E j \in DOMAIN u : u[j].n = n /\ u[j].kind \in Kinds /\ b + k + j > events.since
          BY <1>21, <2>1, <2>2, <3>1, Zenon
        <4> QED  BY <1>1, <1>9, <4>1, Zenon DEF Ahead
      <3> QED  BY <1>22, <2>4, <3>1, Zenon
    <2>5. CASE Ahead(n, Kinds, events.since)
      <3>1. PICK c \in Nat : c = events.since  BY <2>2, Zenon
      <3>2. Ahead(n, Kinds, c)'  BY <1>20, <2>1, <2>5, <3>1, Zenon
      <3> QED  BY <1>1, <3>1, <3>2, Zenon
    <2> QED  BY <1>0, <1>4, <2>1, <2>2, <2>3, <2>4, <2>5, Zenon DEF ClientsTold, EventsTold
  <1>24. LegacyTold'
    <2>1. SUFFICES ASSUME legacy.refs > 0, ~legacy.skipped, legacy.status >= b + k, legacy.file >= b + k,
                          NEW n \in legacy.due..made
                   PROVE  \/ n \in legacy.told \/ Coming(n)'
                          \/ Ahead(n, {"p", "q"}, legacy.status)' \/ Ahead(n, {"file"}, legacy.file)'
      BY <1>1, <1>9, Zenon DEF LegacyTold
    <2>2. PICK s \in Nat, f \in Nat : s = legacy.status /\ f = legacy.file /\ s <= head /\ f <= head
      BY <1>0, <2>1, Zenon DEF FeedTyped, LegacyTyped, Cursors
    <2>3. s >= b + k /\ f >= b + k /\ s >= b /\ f >= b  BY <2>1, <2>2
    <2>4. SUFFICES n \in legacy.told \/ Coming(n)' \/ Ahead(n, {"p", "q"}, s)' \/ Ahead(n, {"file"}, f)'
      BY <1>1, <2>2, Zenon
    <2>5. n \in legacy.told \/ Coming(n) \/ Ahead(n, {"p", "q"}, s) \/ Ahead(n, {"file"}, f)
      BY <1>0, <1>4, <2>1, <2>2, <2>3, Zenon DEF ClientsTold, LegacyTold
    <2>6. CASE Coming(n)
      <3>1. CASE n \in Nums(d)
        <4>1. PICK i \in DOMAIN u : u[i].n = n /\ u[i].kind \in Kinds /\ b + k + i > s  BY <1>21, <2>2, <2>3, <3>1, Zenon
        <4>2. PICK j \in DOMAIN u : u[j].n = n /\ u[j].kind \in Kinds /\ b + k + j > f  BY <1>21, <2>2, <2>3, <3>1, Zenon
        <4>3. i = j
          <5>1. Distinct(u) /\ DOMAIN u = 1..Len(u)  BY <1>10, <1>11
          <5> QED  BY <4>1, <4>2, <5>1, Zenon DEF Distinct
        <4>4. u[i].kind \in {"p", "q"} \/ u[i].kind \in {"file"}  BY <4>1, Zenon DEF Kinds
        <4> QED  BY <1>9, <4>1, <4>2, <4>3, <4>4, Zenon DEF Ahead
      <3> QED  BY <1>22, <2>6, <3>1, Zenon
    <2> QED  BY <1>20, <2>3, <2>5, <2>6, Zenon
  <1>25. ~legacy'.again  BY <1>0, <1>1, Zenon DEF ClientsTold
  <1> QED  BY <1>16, <1>17, <1>18, <1>19, <1>23, <1>24, <1>25, Zenon DEF FeedInv, ClientsTold

----------------------------------------------------------------------------
\* The records of the ring between two cursors.
LEMMA RecordsBetween ==
    ASSUME RingTyped, NEW from \in Nat, NEW to \in Nat, ring.base <= from, to <= head
    PROVE  \A r : r \in Records(from, to) <=>
             \E i \in 1..Len(ring.entries) : r = ring.entries[i] /\ from < ring.base + i /\ ring.base + i <= to
  <1>1. PICK b \in Nat : b = ring.base  BY RingHas, Zenon
  <1>2. PICK x \in Nat : x = Len(ring.entries)  BY RingHas, Zenon
  <1>3. b <= from /\ to <= b + x  BY <1>1, <1>2, Zenon DEF head
  <1>4. \A i : i \in from - b + 1 .. to - b <=> i \in 1..x /\ from < b + i /\ b + i <= to  BY <1>3
  <1> QED  BY <1>1, <1>2, <1>4, Zenon DEF Records

\* A cursor that is not past the head is clamped to the ring.
LEMMA Clamped ==
    ASSUME RingTyped, NEW c \in Nat, c <= head
    PROVE  /\ clamped(c) \in Nat /\ ring.base <= clamped(c) /\ clamped(c) <= head /\ c <= clamped(c)
           /\ ring.base <= c => clamped(c) = c
  <1>1. PICK b \in Nat : b = ring.base  BY RingHas, Zenon
  <1>2. PICK h \in Nat : h = head /\ b <= h  BY <1>1, RingHas, Zenon
  <1> QED  BY <1>1, <1>2 DEF clamped

\* An EVENTS client starts: it has the state, and reads on from the head.
LEMMA EventsStartStep == ASSUME FeedInv, EventsStart PROVE FeedInv'
  <1>0. FeedTyped /\ OnePlace /\ Cursors /\ Behind /\ ClientsTold  BY Zenon DEF FeedInv
  <1>t. BuffersTyped /\ RingTyped /\ EventsTyped /\ LegacyTyped /\ EventsTold /\ LegacyTold /\ ~legacy.again
    BY <1>0, Zenon DEF FeedTyped, ClientsTold
  <1>1. /\ events' = [on |-> TRUE, live |-> TRUE, since |-> head, told |-> 1..made]
        /\ UNCHANGED <<made, recorded, drained, ring, legacy>>
    BY Zenon DEF EventsStart
  <1>2. head \in Nat /\ head' = head
    <2>1. head \in Nat  BY <1>t, RingHas, Zenon
    <2>2. head' = head  BY <1>1, Zenon DEF head
    <2> QED  BY <2>1, <2>2, Zenon
  <1>3. BuffersTyped' /\ RingTyped' /\ OnePlace'  BY <1>0, <1>t, <1>1, RingStays, Zenon
  <1>4. EventsTyped'  BY <1>1, <1>2, Zenon DEF EventsTyped
  <1>5. LegacyTyped'  BY <1>t, <1>1, Zenon DEF LegacyTyped
  <1>6. Behind' /\ LegacyTold' /\ ~legacy'.again  BY <1>0, <1>t, <1>1, LegacyStays, Zenon
  <1>7. Cursors'  BY <1>0, <1>1, <1>2 DEF Cursors
  <1>8. EventsTold'  BY <1>1, Zenon DEF EventsTold
  <1> QED  BY <1>3, <1>4, <1>5, <1>6, <1>7, <1>8, Zenon DEF FeedInv, FeedTyped, ClientsTold

\* read_since: the records up to the new cursor are told, or RESYNC is.
LEMMA EventsReadStep == ASSUME FeedInv, EventsRead PROVE FeedInv'
  <1>0. FeedTyped /\ OnePlace /\ Cursors /\ Behind /\ ClientsTold  BY Zenon DEF FeedInv
  <1>t. BuffersTyped /\ RingTyped /\ EventsTyped /\ LegacyTyped /\ EventsTold /\ LegacyTold /\ ~legacy.again
    BY <1>0, Zenon DEF FeedTyped, ClientsTold
  <1>1. UNCHANGED <<made, recorded, drained, ring, legacy>> /\ events.on  BY Zenon DEF EventsRead
  <1>2. PICK b \in Nat, h \in Nat, c \in Nat : b = ring.base /\ h = head /\ c = events.since /\ c <= h
    <2>1. events.since \in Nat /\ events.since <= head  BY <1>0, <1>t, <1>1, Zenon DEF EventsTyped, Cursors
    <2> QED  BY <1>t, <2>1, RingHas, Zenon
  <1>3. PICK start \in Nat : start = clamped(c) /\ b <= start /\ start <= h /\ c <= start /\ (b <= c => start = c)
    BY <1>t, <1>2, Clamped
  <1>4. PICK next \in Nat : next = Min2(start + PageSize, h) /\ start <= next /\ next <= h
    BY <1>3, FeedAssumption DEF Min2
  <1>5. events' = [on |-> events.on, live |-> TRUE, since |-> next,
                   told |-> IF c < b THEN 1..made ELSE events.told \cup {r.n : r \in Records(start, next)}]
    <2>1. events = [on |-> events.on, live |-> events.live, since |-> events.since, told |-> events.told]
      BY <1>t, Zenon DEF EventsTyped
    <2>2. events' = [events EXCEPT !.live = TRUE, !.since = next,
                       !.told = IF c < b THEN 1..made ELSE @ \cup {r.n : r \in Records(start, next)}]
      BY <1>2, <1>3, <1>4, Zenon DEF EventsRead
    <2> QED  BY <2>1, <2>2, Zenon
  <1>6. BuffersTyped' /\ RingTyped' /\ OnePlace' /\ head' = head  BY <1>0, <1>t, <1>1, RingStays, Zenon
  <1>7. EventsTyped' /\ LegacyTyped'
    <2>1. EventsTyped'  BY <1>5, Zenon DEF EventsTyped
    <2>2. LegacyTyped'  BY <1>t, <1>1, Zenon DEF LegacyTyped
    <2> QED  BY <2>1, <2>2, Zenon
  <1>8. Cursors'
    <2>1. events'.since = next /\ next <= head'  BY <1>2, <1>4, <1>5, <1>6, Zenon
    <2> QED  BY <1>0, <1>1, <1>6, <2>1, Zenon DEF Cursors
  <1>9. EventsTold'
    <2>1. CASE c < b  BY <1>1, <1>5, <2>1, Zenon DEF EventsTold
    <2>2. CASE ~(c < b)
      <3>1. start = c /\ c >= b  BY <1>3, <2>2
      <3>2. SUFFICES ASSUME NEW n \in 1..made
                     PROVE  n \in events'.told \/ Coming(n)' \/ Ahead(n, Kinds, next)'
        BY <1>1, <1>5, Zenon DEF EventsTold
      <3>3. n \in events.told \/ Coming(n) \/ Ahead(n, Kinds, c)
        BY <1>t, <1>1, <1>2, <3>1, Zenon DEF EventsTold
      <3>4. CASE n \in events.told  BY <1>5, <2>2, <3>4, Zenon
      <3>5. CASE Coming(n)  BY <1>1, <3>5, RingStays, Zenon
      <3>6. CASE Ahead(n, Kinds, c)
        <4>1. PICK i \in 1..Len(ring.entries) : ring.entries[i].n = n /\ ring.entries[i].kind \in Kinds /\ b + i > c
          <5>1. DOMAIN ring.entries = 1..Len(ring.entries)  BY <1>t, RingHas, Zenon
          <5> QED  BY <1>2, <3>6, <5>1, Zenon DEF Ahead
        <4>2. CASE b + i <= next
          <5>1. ring.entries[i] \in Records(start, next)  BY <1>t, <1>2, <1>3, <1>4, <3>1, <4>1, <4>2, RecordsBetween, Zenon
          <5>2. n \in {r.n : r \in Records(start, next)}  BY <4>1, <5>1, Zenon
          <5> QED  BY <1>5, <2>2, <5>2, Zenon
        <4>3. CASE ~(b + i <= next)
          <5>1. b + i > next  BY <4>3
          <5>2. i \in DOMAIN ring.entries  BY <1>t, RingHas, Zenon
          <5>3. Ahead(n, Kinds, next)  BY <1>2, <4>1, <5>1, <5>2, Zenon DEF Ahead
          <5> QED  BY <1>1, <5>3, RingStays, Zenon
        <4> QED  BY <4>2, <4>3, Zenon
      <3> QED  BY <3>3, <3>4, <3>5, <3>6, Zenon
    <2> QED  BY <2>1, <2>2, Zenon
  <1>10. Behind' /\ LegacyTold' /\ ~legacy'.again  BY <1>0, <1>t, <1>1, LegacyStays, Zenon
  <1> QED  BY <1>6, <1>7, <1>8, <1>9, <1>10, Zenon DEF FeedInv, FeedTyped, ClientsTold

\* The connection of an EVENTS client closes: its cursor stays.
LEMMA EventsGoneStep == ASSUME FeedInv, EventsGone PROVE FeedInv'
  <1>0. FeedTyped /\ OnePlace /\ Cursors /\ Behind /\ ClientsTold  BY Zenon DEF FeedInv
  <1>t. BuffersTyped /\ RingTyped /\ EventsTyped /\ LegacyTyped /\ EventsTold /\ LegacyTold /\ ~legacy.again
    BY <1>0, Zenon DEF FeedTyped, ClientsTold
  <1>1. UNCHANGED <<made, recorded, drained, ring, legacy>>  BY Zenon DEF EventsGone
  <1>2. events' = [on |-> events.on, live |-> FALSE, since |-> events.since, told |-> events.told]
    BY <1>t, Zenon DEF EventsGone, EventsTyped
  <1>3. BuffersTyped' /\ RingTyped' /\ OnePlace' /\ head' = head  BY <1>0, <1>t, <1>1, RingStays, Zenon
  <1>4. EventsTyped'  BY <1>t, <1>2, Zenon DEF EventsTyped
  <1>5. LegacyTyped'  BY <1>t, <1>1, Zenon DEF LegacyTyped
  <1>6. Behind' /\ LegacyTold' /\ ~legacy'.again  BY <1>0, <1>t, <1>1, LegacyStays, Zenon
  <1>7. Cursors'  BY <1>0, <1>1, <1>2, <1>3, Zenon DEF Cursors
  <1>8. EventsTold'  BY <1>t, <1>1, <1>2, EventsStay, Zenon
  <1> QED  BY <1>3, <1>4, <1>5, <1>6, <1>7, <1>8, Zenon DEF FeedInv, FeedTyped, ClientsTold

----------------------------------------------------------------------------
\* attach: a process' first connection starts from the head, the others share
\* its cursors.
LEMMA AttachStep == ASSUME FeedInv, attach PROVE FeedInv'
  <1>0. FeedTyped /\ OnePlace /\ Cursors /\ Behind /\ ClientsTold  BY Zenon DEF FeedInv
  <1>t. BuffersTyped /\ RingTyped /\ EventsTyped /\ LegacyTyped /\ EventsTold /\ LegacyTold /\ ~legacy.again
    BY <1>0, Zenon DEF FeedTyped, ClientsTold
  <1>1. UNCHANGED <<made, recorded, drained, ring, events>>  BY Zenon DEF attach
  <1>2. head \in Nat /\ made \in Nat /\ legacy.refs \in Nat  BY <1>t, RingHas, Zenon DEF BuffersTyped, LegacyTyped
  <1>3. BuffersTyped' /\ RingTyped' /\ OnePlace' /\ head' = head  BY <1>0, <1>t, <1>1, RingStays, Zenon
  <1>4. EventsTyped' /\ EventsTold'
    <2>1. EventsTyped'  BY <1>t, <1>1, Zenon DEF EventsTyped
    <2>2. EventsTold'  BY <1>t, <1>1, EventsStay, Zenon
    <2> QED  BY <2>1, <2>2, Zenon
  <1>5. ASSUME LegacyTyped', Cursors', Behind', LegacyTold', ~legacy'.again PROVE FeedInv'
    BY <1>3, <1>4, <1>5, Zenon DEF FeedInv, FeedTyped, ClientsTold
  <1>6. CASE legacy.refs > 0
    <2>1. legacy' = [refs |-> legacy.refs + 1, status |-> legacy.status, file |-> legacy.file, due |-> legacy.due,
                     told |-> legacy.told, skipped |-> legacy.skipped, again |-> legacy.again]
      BY <1>t, <1>6, Zenon DEF attach, LegacyTyped
    <2>2. LegacyTyped'  BY <1>t, <1>2, <2>1 DEF LegacyTyped
    <2>3. Cursors'  BY <1>0, <1>1, <1>3, <1>6, <2>1, Zenon DEF Cursors
    <2>4. Behind' /\ LegacyTold' /\ ~legacy'.again  BY <1>0, <1>t, <1>1, <1>6, <2>1, LegacyStays, Zenon
    <2> QED  BY <1>5, <2>2, <2>3, <2>4, Zenon
  <1>7. CASE ~(legacy.refs > 0)
    <2>1. legacy' = [refs |-> 1, status |-> head, file |-> head, due |-> made + 1,
                     told |-> {}, skipped |-> FALSE, again |-> FALSE]
      BY <1>7, Zenon DEF attach, NoLegacy
    <2>2. LegacyTyped'  BY <1>2, <2>1 DEF LegacyTyped
    <2>3. Cursors'  BY <1>0, <1>1, <1>2, <1>3, <2>1 DEF Cursors
    <2>4. Behind'  BY <2>1, Zenon DEF Behind
    <2>5. \A n : n \notin made + 1 .. made  BY <1>2
    <2>6. LegacyTold' /\ ~legacy'.again  BY <1>1, <2>1, <2>5, Zenon DEF LegacyTold
    <2> QED  BY <1>5, <2>2, <2>3, <2>4, <2>6, Zenon
  <1> QED  BY <1>6, <1>7, Zenon

\* detach: the last connection takes the cursors with it.
LEMMA DetachStep == ASSUME FeedInv, detach PROVE FeedInv'
  <1>0. FeedTyped /\ OnePlace /\ Cursors /\ Behind /\ ClientsTold  BY Zenon DEF FeedInv
  <1>t. BuffersTyped /\ RingTyped /\ EventsTyped /\ LegacyTyped /\ EventsTold /\ LegacyTold /\ ~legacy.again
    BY <1>0, Zenon DEF FeedTyped, ClientsTold
  <1>1. UNCHANGED <<made, recorded, drained, ring, events>> /\ legacy.refs > 0  BY Zenon DEF detach
  <1>2. legacy.refs \in Nat  BY <1>t, Zenon DEF LegacyTyped
  <1>3. BuffersTyped' /\ RingTyped' /\ OnePlace' /\ head' = head  BY <1>0, <1>t, <1>1, RingStays, Zenon
  <1>4. EventsTyped' /\ EventsTold'
    <2>1. EventsTyped'  BY <1>t, <1>1, Zenon DEF EventsTyped
    <2>2. EventsTold'  BY <1>t, <1>1, EventsStay, Zenon
    <2> QED  BY <2>1, <2>2, Zenon
  <1>5. ASSUME LegacyTyped', Cursors', Behind', LegacyTold', ~legacy'.again PROVE FeedInv'
    BY <1>3, <1>4, <1>5, Zenon DEF FeedInv, FeedTyped, ClientsTold
  <1>6. CASE legacy.refs # 1
    <2>1. legacy' = [refs |-> legacy.refs - 1, status |-> legacy.status, file |-> legacy.file, due |-> legacy.due,
                     told |-> legacy.told, skipped |-> legacy.skipped, again |-> legacy.again]
      BY <1>t, <1>6, Zenon DEF detach, LegacyTyped
    <2>2. legacy.refs - 1 \in Nat  BY <1>1, <1>2
    <2>3. LegacyTyped'  BY <1>t, <2>1, <2>2, Zenon DEF LegacyTyped
    <2>4. Cursors'  BY <1>0, <1>1, <1>3, <2>1, Zenon DEF Cursors
    <2>5. Behind' /\ LegacyTold' /\ ~legacy'.again  BY <1>0, <1>t, <1>1, <2>1, LegacyStays, Zenon
    <2> QED  BY <1>5, <2>3, <2>4, <2>5, Zenon
  <1>7. CASE legacy.refs = 1
    <2>1. legacy' = [refs |-> 0, status |-> 0, file |-> 0, due |-> 0, told |-> {}, skipped |-> FALSE, again |-> FALSE]
      BY <1>7, Zenon DEF detach, NoLegacy
    <2>2. LegacyTyped'  BY <2>1, Zenon DEF LegacyTyped
    <2>3. Cursors'  BY <1>0, <1>1, <1>3, <2>1 DEF Cursors
    <2>4. Behind'  BY <2>1, Zenon DEF Behind
    <2>5. LegacyTold' /\ ~legacy'.again  BY <2>1 DEF LegacyTold
    <2> QED  BY <1>5, <2>2, <2>3, <2>4, <2>5, Zenon
  <1> QED  BY <1>6, <1>7, Zenon

\* What both take_status and take_file_changes do: of the records between a
\* cursor and its new place, those of its kinds are told.
Takes(file, old, next, recs) ==
    /\ old = IF file THEN legacy.file ELSE legacy.status
    /\ recs = {r \in Records(clamped(old), next) : (r.kind = "file") = file}
    /\ legacy' = [refs |-> legacy.refs, status |-> IF file THEN legacy.status ELSE next,
                  file |-> IF file THEN next ELSE legacy.file, due |-> legacy.due,
                  told |-> legacy.told \cup {r.n : r \in recs},
                  skipped |-> legacy.skipped \/ old < ring.base,
                  again |-> legacy.again \/ \E r \in recs : r.n \in legacy.told]

\* None of the records taken was told before, as those are behind the cursor, and
\* none of its kinds is left behind.
LEMMA TakeStep ==
    ASSUME FeedInv, legacy.refs > 0, UNCHANGED <<made, recorded, drained, ring, events>>,
           NEW file \in BOOLEAN, NEW old \in Nat, NEW next \in Nat, clamped(old) <= next, next <= head,
           NEW recs, Takes(file, old, next, recs)
    PROVE  FeedInv'
  <1>0. FeedTyped /\ OnePlace /\ Cursors /\ Behind /\ ClientsTold  BY Zenon DEF FeedInv
  <1>1. BuffersTyped /\ RingTyped /\ EventsTyped /\ LegacyTyped /\ EventsTold /\ LegacyTold /\ ~legacy.again
    BY <1>0, Zenon DEF FeedTyped, ClientsTold
  <1>2. PICK b \in Nat, h \in Nat : b = ring.base /\ h = head  BY <1>1, RingHas, Zenon
  <1>3. PICK e : e = ring.entries /\ e \in Seq(FeedRecs) /\ DOMAIN e = 1..Len(e)  BY <1>1, RingHas, Zenon
  <1>4. PICK s \in Nat, f \in Nat : s = legacy.status /\ f = legacy.file /\ s <= h /\ f <= h
    BY <1>0, <1>1, <1>2, Zenon DEF LegacyTyped, Cursors
  <1>5. old = IF file THEN f ELSE s  BY <1>4, Zenon DEF Takes
  <1>6. old <= h  BY <1>4, <1>5, Zenon
  <1>7. PICK start \in Nat : start = clamped(old) /\ b <= start /\ old <= start /\ (b <= old => start = old)
    BY <1>1, <1>2, <1>6, Clamped
  <1>8. start <= next /\ next <= h /\ old <= next
    <2>1. start <= next /\ next <= h  BY <1>2, <1>7, Zenon
    <2> QED  BY <1>7, <2>1
  <1>9. \A r : r \in recs <=> \E i \in 1..Len(e) : /\ r = e[i] /\ start < b + i /\ b + i <= next
                                                   /\ (e[i].kind = "file") = file
    <2>1. \A r : r \in Records(start, next) <=>
             \E i \in 1..Len(e) : r = e[i] /\ start < b + i /\ b + i <= next
      BY <1>1, <1>2, <1>3, <1>7, <1>8, RecordsBetween, Zenon
    <2>2. recs = {r \in Records(start, next) : (r.kind = "file") = file}  BY <1>7, Zenon DEF Takes
    <2>3. \A r : r \in recs <=> r \in Records(start, next) /\ (r.kind = "file") = file  BY <2>2, Zenon
    <2> QED  BY <2>1, <2>3
  <1>10. PICK news : news = {r.n : r \in recs}  BY Zenon
  <1>11. legacy' = [refs |-> legacy.refs, status |-> IF file THEN s ELSE next, file |-> IF file THEN next ELSE f,
                   due |-> legacy.due, told |-> legacy.told \cup news, skipped |-> legacy.skipped \/ old < b,
                   again |-> legacy.again \/ \E r \in recs : r.n \in legacy.told]
    BY <1>2, <1>10, <1>4, Zenon DEF Takes
  <1>12. legacy'.told = legacy.told \cup news  BY <1>11, Zenon
  <1>13. news \subseteq Nums(e)  BY <1>9, <1>10 DEF Nums
  <1>14. \A i \in 1..Len(e) : e[i].n \in news => b + i <= next /\ (e[i].kind = "file") = file
    <2>1. SUFFICES ASSUME NEW i \in 1..Len(e), e[i].n \in news PROVE b + i <= next /\ (e[i].kind = "file") = file
      BY Zenon
    <2>2. PICK r \in recs : r.n = e[i].n  BY <1>10, <2>1, Zenon
    <2>3. PICK j \in 1..Len(e) : r = e[j] /\ b + j <= next /\ (e[j].kind = "file") = file  BY <1>9, <2>2, Zenon
    <2>4. Distinct(e)  BY <1>0, <1>3, Zenon DEF OnePlace
    <2>5. i = j  BY <2>2, <2>3, <2>4, Zenon DEF Distinct
    <2> QED  BY <2>3, <2>5, Zenon
  <1>15. \A i \in 1..Len(e) : e[i].n \in legacy.told =>
            b + i <= IF e[i].kind = "file" THEN legacy.file ELSE legacy.status
    BY <1>0, <1>2, <1>3, Zenon DEF Behind
  <1>16. ~legacy'.again
    <2>1. ~\E r \in recs : r.n \in legacy.told
      <3>1. SUFFICES ASSUME NEW r \in recs, r.n \in legacy.told PROVE FALSE  BY Zenon
      <3>2. PICK i \in 1..Len(e) : r = e[i] /\ start < b + i /\ (e[i].kind = "file") = file  BY <1>9, <3>1, Zenon
      <3>3. b + i <= old  BY <1>15, <1>4, <1>5, <3>1, <3>2, Zenon
      <3>4. b + i <= start /\ b + i \in Nat  BY <1>7, <3>3
      <3> QED  BY <3>2, <3>4
    <2> QED  BY <1>1, <1>11, <2>1, Zenon
  <1>17. legacy'.status = (IF file THEN s ELSE next) /\ legacy'.file = (IF file THEN next ELSE f)
    BY <1>11, Zenon
  <1>18. LegacyTyped'
    <2>1. legacy.refs \in Nat /\ legacy.due \in Nat  BY <1>1, Zenon DEF LegacyTyped
    <2>2. legacy'.status \in Nat /\ legacy'.file \in Nat  BY <1>17, Zenon
    <2>3. legacy'.refs = legacy.refs /\ legacy'.due = legacy.due  BY <1>11, Zenon
    <2>4. legacy' = [refs |-> legacy'.refs, status |-> legacy'.status, file |-> legacy'.file, due |-> legacy'.due,
                     told |-> legacy'.told, skipped |-> legacy'.skipped, again |-> legacy'.again]
      BY <1>11, Zenon
    <2> QED  BY <2>1, <2>2, <2>3, <2>4, Zenon DEF LegacyTyped
  <1>19. BuffersTyped' /\ RingTyped' /\ OnePlace' /\ EventsTyped' /\ EventsTold' /\ head' = h
    <2>1. BuffersTyped' /\ RingTyped' /\ OnePlace' /\ head' = head  BY <1>0, <1>1, RingStays, Zenon
    <2>2. EventsTyped'  BY <1>1, Zenon DEF EventsTyped
    <2>3. EventsTold'  BY <1>1, EventsStay, Zenon
    <2> QED  BY <1>2, <2>1, <2>2, <2>3, Zenon
  <1>20. Cursors'
    <2>1. legacy'.status <= h /\ legacy'.file <= h  BY <1>8, <1>4, <1>17, Zenon
    <2> QED  BY <1>0, <1>2, <1>19, <2>1, Zenon DEF Cursors
  <1>21. Behind'
    <2>1. Nums(e) \subseteq 1..made /\ Nums(e) \cap Nums(recorded) = {}
          /\ \A p \in Pumps : Nums(e) \cap Nums(drained[p]) = {}
      BY <1>0, <1>3, Zenon DEF OnePlace
    <2>2. legacy'.told \subseteq 1..made /\ legacy'.told \cap Nums(recorded) = {}
          /\ \A p \in Pumps : legacy'.told \cap Nums(drained[p]) = {}
      BY <1>0, <1>12, <1>13, <2>1, Zenon DEF Behind
    <2>3. \A i \in 1..Len(e) : e[i].n \in legacy'.told =>
             b + i <= IF e[i].kind = "file" THEN legacy'.file ELSE legacy'.status
      <3>1. SUFFICES ASSUME NEW i \in 1..Len(e), e[i].n \in legacy'.told
                     PROVE  b + i <= IF e[i].kind = "file" THEN legacy'.file ELSE legacy'.status
        BY Zenon
      <3>2. CASE e[i].n \in news  BY <1>14, <1>17, <3>2, Zenon
      <3>3. CASE e[i].n \in legacy.told
        <4>1. b + i <= IF e[i].kind = "file" THEN f ELSE s  BY <1>15, <1>4, <3>3, Zenon
        <4>2. CASE e[i].kind = "file"
          <5>1. b + i <= f  BY <4>1, <4>2, Zenon
          <5>2. legacy'.file = f \/ (legacy'.file = next /\ old = f)  BY <1>17, <1>5, Zenon
          <5>3. b + i <= legacy'.file  BY <1>8, <5>1, <5>2
          <5> QED  BY <4>2, <5>3, Zenon
        <4>3. CASE e[i].kind # "file"
          <5>1. b + i <= s  BY <4>1, <4>3, Zenon
          <5>2. legacy'.status = s \/ (legacy'.status = next /\ old = s)  BY <1>17, <1>5, Zenon
          <5>3. b + i <= legacy'.status  BY <1>8, <5>1, <5>2
          <5> QED  BY <4>3, <5>3, Zenon
        <4> QED  BY <4>2, <4>3, Zenon
      <3> QED  BY <1>12, <3>1, <3>2, <3>3, Zenon
    <2> QED  BY <1>2, <1>3, <2>2, <2>3, Zenon DEF Behind
  <1>22. LegacyTold'
    <2>1. SUFFICES ASSUME ~legacy.skipped, ~(old < b), legacy'.status >= b, legacy'.file >= b,
                          NEW n \in legacy.due..made
                   PROVE  \/ n \in legacy'.told \/ Coming(n)'
                          \/ Ahead(n, {"p", "q"}, legacy.status)' \/ Ahead(n, {"file"}, legacy.file)'
      <3>1. legacy'.skipped = (legacy.skipped \/ old < b) /\ legacy'.due = legacy.due  BY <1>11, Zenon
      <3> QED  BY <1>2, <3>1, Zenon DEF LegacyTold
    <2>2. start = old /\ s >= b /\ f >= b
      <3>1. old >= b  BY <2>1
      <3>2. CASE file
        <4>1. old = f /\ legacy'.status = s  BY <1>17, <1>5, <3>2, Zenon
        <4> QED  BY <1>7, <2>1, <3>1, <4>1, Zenon
      <3>3. CASE ~file
        <4>1. old = s /\ legacy'.file = f  BY <1>17, <1>5, <3>3, Zenon
        <4> QED  BY <1>7, <2>1, <3>1, <4>1, Zenon
      <3> QED  BY <3>2, <3>3, Zenon
    <2>3. n \in legacy.told \/ Coming(n) \/ Ahead(n, {"p", "q"}, s) \/ Ahead(n, {"file"}, f)
      BY <1>1, <1>2, <1>4, <2>1, <2>2, Zenon DEF LegacyTold
    <2>4. CASE n \in legacy.told  BY <1>12, <2>4, Zenon
    <2>5. CASE Coming(n)  BY <2>5, RingStays, Zenon
    <2>6. ASSUME NEW i \in 1..Len(e), e[i].n = n, (e[i].kind = "file") = file, b + i > old
          PROVE  n \in legacy'.told \/ b + i > next
      <3>1. CASE b + i <= next
        <4>1. e[i] \in recs  BY <1>9, <2>2, <2>6, <3>1, Zenon
        <4>2. n \in news  BY <1>10, <2>6, <4>1, Zenon
        <4> QED  BY <1>12, <4>2, Zenon
      <3>2. CASE ~(b + i <= next)  BY <3>2
      <3> QED  BY <3>1, <3>2, Zenon
    <2>7. CASE Ahead(n, {"p", "q"}, s)
      <3>1. PICK i \in 1..Len(e) : e[i].n = n /\ e[i].kind \in {"p", "q"} /\ b + i > s
        BY <1>2, <1>3, <2>7, Zenon DEF Ahead
      <3>2. b + i > legacy'.status \/ n \in legacy'.told
        <4>1. CASE file  BY <1>17, <3>1, <4>1, Zenon
        <4>2. CASE ~file
          <5>1. old = s /\ (e[i].kind = "file") = file  BY <1>5, <3>1, <4>2, Zenon
          <5> QED  BY <1>17, <2>6, <3>1, <4>2, <5>1, Zenon
        <4> QED  BY <4>1, <4>2, Zenon
      <3> QED  BY <1>2, <1>3, <3>1, <3>2, Zenon DEF Ahead
    <2>8. CASE Ahead(n, {"file"}, f)
      <3>1. PICK i \in 1..Len(e) : e[i].n = n /\ e[i].kind \in {"file"} /\ b + i > f
        BY <1>2, <1>3, <2>8, Zenon DEF Ahead
      <3>2. b + i > legacy'.file \/ n \in legacy'.told
        <4>1. CASE ~file  BY <1>17, <3>1, <4>1, Zenon
        <4>2. CASE file
          <5>1. old = f /\ (e[i].kind = "file") = file  BY <1>5, <3>1, <4>2, Zenon
          <5> QED  BY <1>17, <2>6, <3>1, <4>2, <5>1, Zenon
        <4> QED  BY <4>1, <4>2, Zenon
      <3> QED  BY <1>2, <1>3, <3>1, <3>2, Zenon DEF Ahead
    <2> QED  BY <2>3, <2>4, <2>5, <2>7, <2>8, Zenon
  <1> QED  BY <1>16, <1>18, <1>19, <1>20, <1>21, <1>22, Zenon DEF FeedInv, FeedTyped, ClientsTold

\* take_status ends at the last record before one path too many, or the head.
LEMMA StatusEnds ==
    ASSUME RingTyped, NEW start \in Nat, ring.base <= start, start <= head
    PROVE  StatusEnd(start) \in start..head
  <1>1. PICK h \in Nat : h = head  BY RingHas, Zenon
  <1> DEFINE Fits(to) == Cardinality2(Paths(to, start)) <= PageSize
             Last(to) == to = h \/ ~Fits(to + 1)
  <1>2. Fits(start)
    <2>1. Records(start, start) = {}
      <3>1. \A i \in 1..Len(ring.entries) : ~(start < ring.base + i /\ ring.base + i <= start)
        BY RingHas
      <3> QED  BY <3>1, RecordsBetween, Zenon
    <2>2. Paths(start, start) = {}  BY <2>1, Zenon DEF Paths
    <2> QED  BY <2>2, FeedAssumption DEF Cardinality2
  <1>3. PICK m \in start..h : Last(m) /\ \A to \in start..h : Last(to) => ~(to < m)
    <2> DEFINE S == {to \in start..h : Last(to)}
    <2> HIDE DEF Last
    <2>1. h \in S  BY <1>1 DEF Last
    <2>2. S \subseteq Nat /\ S # {}  BY <1>1, <2>1
    <2> HIDE DEF S
    <2>3. PICK m \in S : \A to \in S : <<to, m>> \notin OpToRel(<, Nat)
      BY <2>2, NatLessThanWellFounded, WFMin, Zenon
    <2>4. m \in start..h /\ Last(m)  BY Zenon DEF S
    <2>5. ASSUME NEW to \in start..h, Last(to) PROVE ~(to < m)
      <3>1. to \in S  BY <2>5, Zenon DEF S
      <3> QED  BY <2>2, <2>3, <3>1, Zenon DEF OpToRel
    <2> QED  BY <2>4, <2>5, Zenon
  <1>4. Fits(m)
    <2>1. CASE m = start  BY <1>2, <2>1, Zenon
    <2>2. CASE m # start
      <3>1. m - 1 \in start..h /\ m - 1 < m /\ m - 1 # h /\ (m - 1) + 1 = m  BY <1>3, <2>2
      <3>2. ~Last(m - 1)  BY <1>3, <3>1, Zenon
      <3> QED  BY <3>1, <3>2, Zenon
    <2> QED  BY <2>1, <2>2, Zenon
  <1>5. Cardinality2(Paths(m, start)) <= PageSize /\ (m = head \/ Cardinality2(Paths(m + 1, start)) > PageSize)
    <2>1. Cardinality2(Paths(m + 1, start)) \in Nat  BY Zenon DEF Cardinality2
    <2> QED  BY <1>1, <1>3, <1>4, <2>1, FeedAssumption
  <1> QED  BY <1>1, <1>5, Zenon DEF StatusEnd

\* take_status, a take of status changes.
LEMMA TakeStatusStep == ASSUME FeedInv, take_status PROVE FeedInv'
  <1>0. RingTyped /\ LegacyTyped /\ Cursors  BY Zenon DEF FeedInv, FeedTyped
  <1>1. legacy.refs > 0 /\ UNCHANGED <<made, recorded, drained, ring, events>>  BY Zenon DEF take_status
  <1>2. PICK old \in Nat : old = legacy.status /\ old <= head  BY <1>0, <1>1, Zenon DEF LegacyTyped, Cursors
  <1>3. PICK start \in Nat : start = clamped(old) /\ ring.base <= start /\ start <= head  BY <1>0, <1>2, Clamped, Zenon
  <1>4. PICK next \in Nat : next = StatusEnd(start) /\ start <= next /\ next <= head
    <2>1. PICK h \in Nat : h = head  BY <1>0, RingHas, Zenon
    <2>2. StatusEnd(start) \in start..h  BY <1>0, <1>3, <2>1, StatusEnds, Zenon
    <2> QED  BY <2>1, <2>2
  <1>5. PICK recs : recs = {r \in Records(start, next) : r.kind # "file"}  BY Zenon
  <1>6. legacy' = [Told(recs) EXCEPT !.status = next, !.skipped = @ \/ legacy.status < ring.base]
    BY <1>2, <1>3, <1>4, <1>5, Zenon DEF take_status
  <1>7. legacy' = [refs |-> legacy.refs, status |-> next, file |-> legacy.file, due |-> legacy.due,
                   told |-> legacy.told \cup {r.n : r \in recs}, skipped |-> legacy.skipped \/ old < ring.base,
                   again |-> legacy.again \/ \E r \in recs : r.n \in legacy.told]
    BY <1>0, <1>2, <1>6, Zenon DEF Told, LegacyTyped
  <1>8. recs = {r \in Records(start, next) : (r.kind = "file") = FALSE}  BY <1>5, Zenon
  <1>9. Takes(FALSE, old, next, recs)  BY <1>2, <1>3, <1>7, <1>8, Zenon DEF Takes
  <1>10. clamped(old) <= next /\ next <= head  BY <1>3, <1>4, Zenon
  <1> QED  BY <1>1, <1>9, <1>10, TakeStep, Zenon

\* take_file_changes, a take of structural changes up to the head.
LEMMA TakeFileStep == ASSUME FeedInv, take_file_changes PROVE FeedInv'
  <1>0. RingTyped /\ LegacyTyped /\ Cursors  BY Zenon DEF FeedInv, FeedTyped
  <1>1. legacy.refs > 0 /\ UNCHANGED <<made, recorded, drained, ring, events>>  BY Zenon DEF take_file_changes
  <1>2. PICK old \in Nat : old = legacy.file /\ old <= head  BY <1>0, <1>1, Zenon DEF LegacyTyped, Cursors
  <1>3. PICK start \in Nat : start = clamped(old) /\ ring.base <= start /\ start <= head  BY <1>0, <1>2, Clamped, Zenon
  <1>4. PICK next \in Nat : next = head /\ start <= next /\ next <= head  BY <1>0, <1>3, RingHas
  <1>5. PICK recs : recs = {r \in Records(start, next) : r.kind = "file"}  BY Zenon
  <1>6. legacy' = [Told(recs) EXCEPT !.file = next, !.skipped = @ \/ legacy.file < ring.base]
    BY <1>2, <1>3, <1>4, <1>5, Zenon DEF take_file_changes
  <1>7. legacy' = [refs |-> legacy.refs, status |-> legacy.status, file |-> next, due |-> legacy.due,
                   told |-> legacy.told \cup {r.n : r \in recs}, skipped |-> legacy.skipped \/ old < ring.base,
                   again |-> legacy.again \/ \E r \in recs : r.n \in legacy.told]
    BY <1>0, <1>2, <1>6, Zenon DEF Told, LegacyTyped
  <1>8. recs = {r \in Records(start, next) : (r.kind = "file") = TRUE}  BY <1>5, Zenon
  <1>9. Takes(TRUE, old, next, recs)  BY <1>2, <1>3, <1>7, <1>8, Zenon DEF Takes
  <1>10. clamped(old) <= next /\ next <= head  BY <1>3, <1>4, Zenon
  <1> QED  BY <1>1, <1>9, <1>10, TakeStep, Zenon

----------------------------------------------------------------------------
\* The daemon restarts, and every client starts over.
LEMMA FeedRestartStep == ASSUME KeepsCursor = FALSE, FeedInv, FeedRestart PROVE FeedInv'
  <1>0. made \in Nat /\ made' = made  BY Zenon DEF FeedInv, FeedTyped, BuffersTyped, FeedRestart
  <1>1. /\ ring' = [base |-> 0, entries |-> <<>>] /\ recorded' = <<>> /\ drained' = [p \in Pumps |-> <<>>]
        /\ events' = NoEvents /\ legacy' = NoLegacy
    BY Zenon DEF FeedRestart
  <1> USE NumsNone
  <1>2. FeedTyped'
    <2>1. BuffersTyped' /\ RingTyped'  BY <1>0, <1>1, Zenon DEF BuffersTyped, RingTyped
    <2>2. EventsTyped' /\ LegacyTyped'  BY <1>1, Zenon DEF EventsTyped, LegacyTyped, NoEvents, NoLegacy
    <2> QED  BY <2>1, <2>2, Zenon DEF FeedTyped
  <1>3. OnePlace'  BY <1>1, Zenon DEF OnePlace
  <1>4. Cursors'  BY <1>1 DEF Cursors, NoEvents, NoLegacy
  <1>5. Behind'  BY <1>1, Zenon DEF Behind, NoLegacy
  <1>6. ClientsTold'  BY <1>1 DEF ClientsTold, EventsTold, LegacyTold, NoEvents, NoLegacy
  <1> QED  BY <1>2, <1>3, <1>4, <1>5, <1>6, Zenon DEF FeedInv

\* A change reaches every client.  One that keeps its own cursor has been told
\* of every change made, will find it ahead of its cursor or on its way to the
\* ring, or is told RESYNC; a legacy process hears of each change made while it
\* is connected, once, unless the ring has moved past it.  For any capacity and
\* page, any pumps and any number of changes; clients start over when the
\* daemon does.
THEOREM ClientsAreTold == ASSUME KeepsCursor = FALSE PROVE FeedSpec => []ClientsTold
  <1>1. FeedInv /\ [FeedNext]_feedVars => FeedInv'
    <2>1. SUFFICES ASSUME FeedInv, [FeedNext]_feedVars PROVE FeedInv'  BY Zenon
    <2>2. CASE UNCHANGED feedVars
      <3>1. UNCHANGED <<made, recorded, drained, ring, events, legacy>>  BY <2>2, Zenon DEF feedVars
      <3>2. BuffersTyped' /\ RingTyped' /\ OnePlace' /\ head' = head  BY <2>1, <3>1, RingStays, Zenon DEF FeedInv, FeedTyped
      <3>3. EventsTyped' /\ LegacyTyped'  BY <2>1, <3>1, Zenon DEF FeedInv, FeedTyped, EventsTyped, LegacyTyped
      <3>4. Cursors'  BY <2>1, <3>1, <3>2, Zenon DEF FeedInv, Cursors
      <3>5. EventsTold'  BY <2>1, <3>1, EventsStay, Zenon DEF FeedInv, ClientsTold
      <3>6. Behind' /\ LegacyTold' /\ ~legacy'.again  BY <2>1, <3>1, LegacyStays, Zenon DEF FeedInv, ClientsTold
      <3> QED  BY <3>2, <3>3, <3>4, <3>5, <3>6, Zenon DEF FeedInv, FeedTyped, ClientsTold
    <2>3. CASE FeedNext
      BY <2>1, <2>3, ChangeStep, DrainStep, AppendStep, EventsStartStep, EventsReadStep, EventsGoneStep,
         AttachStep, DetachStep, TakeStatusStep, TakeFileStep, FeedRestartStep, Zenon DEF FeedNext
    <2> QED  BY <2>1, <2>2, <2>3, Zenon
  <1>2. FeedInv => ClientsTold  BY Zenon DEF FeedInv
  <1> QED  BY <1>1, <1>2, FeedInitially, PTL DEF FeedSpec
=============================================================================
