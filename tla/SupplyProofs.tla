---------------------------- MODULE SupplyProofs ----------------------------
(***************************************************************************)
(* Proofs about what a request meets on its way: a server that is out of   *)
(* reach, the I/O mode of its file, and workers that are busy.             *)
(***************************************************************************)
EXTENDS PushWatch, IoModes, Pools, FiniteSetTheorems, TLAPS

-----------------------------------------------------------------------------
(***************************************************************************)
(* PushWatch: no read fails during an outage shorter than the grace        *)
(* period, whenever it began to wait.                                      *)
(***************************************************************************)

\* The record of a read.
ReadRec(d) == /\ d = [at |-> d.at, deadline |-> d.deadline, off |-> d.off]
              /\ d.at \in {"idle", "raised", "waits", "gaveup"} /\ d.deadline \in Nat /\ d.off \in Nat

\* The types of the offline flag, its times and the reads.
LinkType ==
    /\ clock \in 0..MaxClock /\ wentoff \in 0..MaxClock
    /\ since \in (0..MaxClock) \cup {OffNever}
    /\ flag \in BOOLEAN
    /\ DOMAIN reading = Reads /\ \A r \in Reads : ReadRec(reading[r])

\* The types of the push socket and the validation.
SocketType ==
    /\ socket \in {"down", "open"} /\ checking \in {"idle", "boot", "start", "rest"}
    /\ generation \in Nat /\ seen.gen \in Nat /\ seen.gen <= generation

\* An outage has its time once no thread is between the two halves of a mark,
\* and only one thread at a time is.
Timed ==
    /\ wentoff <= clock
    /\ \A r \in Reads : reading[r].at = "raised" => flag /\ since = OffNever /\ monitor # "lowered"
    /\ \A q, r \in Reads : reading[q].at = "raised" /\ reading[r].at = "raised" => q = r
    /\ monitor = "lowered" => ~flag
    /\ ~Marking => (flag <=> since # OffNever)
    /\ flag /\ since # OffNever => since >= wentoff

\* A read waits from the start of the outage it met, to the end of its grace.
Waits ==
    \A r \in Reads :
        /\ reading[r].at = "waits" => reading[r].deadline >= reading[r].off + Grace
        /\ reading[r].at = "gaveup" => clock >= reading[r].off + Grace

\* A change nobody will hear of is one that some validation is still to find.
FoundOut ==
    /\ seen.gen # generation => checking \in {"idle", "boot"}
    /\ missed /\ checking \in {"idle", "rest"} => socket = "down" \/ seen.gen # generation
    /\ missed /\ generation = 0 => checking = "boot"
    /\ missed /\ socket = "open" /\ generation <= 1 => checking = "boot"
    /\ socket = "open" => generation > 0

\* The inductive invariants of the flag and the reads, and of the socket and the
\* validation: no step needs both.
LinkInv == LinkType /\ Timed /\ Waits
SocketInv == SocketType /\ FoundOut

\* No outage and no connection at the start.
LEMMA PushInitially == PushInit => LinkInv /\ SocketInv
  <1> SUFFICES ASSUME PushInit PROVE LinkInv /\ SocketInv  BY Zenon
  <1>1. \A r \in Reads : reading[r] = NoRead  BY Zenon DEF PushInit
  <1>2. ReadRec(NoRead) /\ NoRead.at = "idle"  BY Zenon DEF ReadRec, NoRead
  <1>3. LinkType
    <2>1. clock \in 0..MaxClock /\ wentoff \in 0..MaxClock  BY TimesAssumption DEF PushInit
    <2> QED  BY <1>1, <1>2, <2>1, Zenon DEF PushInit, LinkType
  <1>4. Timed  BY <1>1, <1>2, TimesAssumption DEF PushInit, Timed, OffNever
  <1>5. Waits  BY <1>1, <1>2, Zenon DEF Waits
  <1>6. SocketInv
    <2>1. seen.gen = 0  BY Zenon DEF PushInit
    <2> QED  BY <2>1 DEF PushInit, SocketInv, SocketType, FoundOut
  <1> QED  BY <1>3, <1>4, <1>5, <1>6, Zenon DEF LinkInv

\* What a step that gives one read another record leaves of the others.
LEMMA ReadSet ==
    ASSUME LinkType, NEW r \in Reads, NEW d, ReadRec(d), reading' = [reading EXCEPT ![r] = d]
    PROVE  /\ DOMAIN reading' = Reads /\ \A q \in Reads : ReadRec(reading'[q])
           /\ reading'[r] = d /\ \A q \in Reads \ {r} : reading'[q] = reading[q]
  BY Zenon DEF LinkType

\* The flag, its time and the reads, when no mark is interrupted by another.
LEMMA LinkStep ==
    ASSUME MarksRace = FALSE
    PROVE  LinkInv /\ [PushNext]_pushVars => LinkInv'
  <1> SUFFICES ASSUME LinkInv, [PushNext]_pushVars PROVE LinkInv'  BY Zenon
  <1> USE DEF LinkInv
  <1>0. clock \in Nat /\ MaxClock \in Nat /\ Grace \in Nat /\ OffNever \in Nat /\ OffNever > clock
        /\ \A t \in 0..MaxClock : t # OffNever
    BY TimesAssumption DEF LinkType, OffNever
  <1>1. ASSUME NEW r \in Reads, ReadFails(r) PROVE LinkInv'
    <2>1. CASE flag
      BY <1>1, <2>1, Zenon DEF ReadFails, LinkType, Timed, Waits, Marking
    <2>2. CASE ~flag
      <3>1. /\ flag' = TRUE /\ wentoff' = clock /\ UNCHANGED <<clock, since, monitor>> /\ ~Marking
            /\ reading' = [reading EXCEPT ![r] = [reading[r] EXCEPT !.at = "raised"]]
        BY <1>1, <2>2, Zenon DEF ReadFails, MayMark, LinkType
      <3>2. /\ ReadRec([reading[r] EXCEPT !.at = "raised"])
            /\ [reading[r] EXCEPT !.at = "raised"].at = "raised"
        BY DEF LinkType, ReadRec
      <3>3. /\ DOMAIN reading' = Reads /\ \A q \in Reads : ReadRec(reading'[q])
            /\ reading'[r].at = "raised" /\ \A q \in Reads \ {r} : reading'[q] = reading[q]
        BY <3>1, <3>2, ReadSet, Zenon
      <3>4. LinkType'  BY <3>1, <3>3, Zenon DEF LinkType
      <3>5. since = OffNever  BY <2>2, <3>1, Zenon DEF Timed
      <3>6. Timed'  BY <1>0, <3>1, <3>3, <3>5 DEF Timed, Marking
      <3>7. Waits'  BY <3>1, <3>3, Zenon DEF Waits
      <3> QED  BY <3>4, <3>6, <3>7, Zenon
    <2> QED  BY <2>1, <2>2, Zenon DEF LinkType
  <1>2. ASSUME NEW r \in Reads, mark_offline(r) PROVE LinkInv'
    <2>1. /\ UNCHANGED <<clock, flag, wentoff, monitor>> /\ since' = clock /\ reading[r].at = "raised"
          /\ reading' = [reading EXCEPT ![r] = [reading[r] EXCEPT !.at = "idle"]]
      BY <1>2, Zenon DEF mark_offline, LinkType
    <2>2. /\ ReadRec([reading[r] EXCEPT !.at = "idle"])
          /\ [reading[r] EXCEPT !.at = "idle"].at = "idle"
      BY DEF LinkType, ReadRec
    <2>3. /\ DOMAIN reading' = Reads /\ \A q \in Reads : ReadRec(reading'[q])
          /\ reading'[r].at = "idle" /\ \A q \in Reads \ {r} : reading'[q] = reading[q]
      BY <2>1, <2>2, ReadSet, Zenon
    <2>4. \A q \in Reads : reading'[q].at # "raised"  BY <2>1, <2>3, Zenon DEF Timed
    <2>5. LinkType'  BY <2>1, <2>3, Zenon DEF LinkType
    <2>6. Timed'  BY <1>0, <2>1, <2>4, Zenon DEF Timed, Marking, LinkType
    <2>7. Waits'  BY <2>1, <2>3, Zenon DEF Waits
    <2> QED  BY <2>5, <2>6, <2>7, Zenon
  <1>3. ASSUME NEW r \in Reads, ReadWaits(r) PROVE LinkInv'
    <2> DEFINE d == [at |-> "waits", deadline |-> since + Grace, off |-> wentoff]
    <2>1. since # OffNever
      BY <1>3, Zenon DEF ReadWaits, MayMark, Timed, Marking
    <2>2. /\ since \in Nat /\ wentoff \in Nat /\ since >= wentoff
      BY <1>3, <2>1, TimesAssumption DEF ReadWaits, LinkType, Timed
    <2>3. /\ UNCHANGED <<clock, flag, since, wentoff, monitor>> /\ reading[r].at = "idle"
          /\ reading' = [reading EXCEPT ![r] = d]
      BY <1>3, <2>1, Zenon DEF ReadWaits
    <2>4. ReadRec(d) /\ d.at = "waits" /\ d.deadline >= d.off + Grace
      BY <1>0, <2>2 DEF ReadRec
    <2> HIDE DEF d
    <2>5. /\ DOMAIN reading' = Reads /\ \A q \in Reads : ReadRec(reading'[q])
          /\ reading'[r] = d /\ \A q \in Reads \ {r} : reading'[q] = reading[q]
      BY <2>3, <2>4, ReadSet, Zenon
    <2>6. LinkType'  BY <2>3, <2>5, Zenon DEF LinkType
    <2>7. \A q \in Reads : reading'[q].at = "raised" <=> reading[q].at = "raised"
      BY <2>3, <2>4, <2>5, Zenon
    <2>8. Timed'  BY <2>3, <2>7, Zenon DEF Timed, Marking
    <2>9. Waits'  BY <2>3, <2>4, <2>5, Zenon DEF Waits
    <2> QED  BY <2>6, <2>8, <2>9, Zenon
  <1>4. ASSUME NEW r \in Reads, ReadResumes(r) \/ ReadFailed(r) PROVE LinkInv'
    <2>1. /\ UNCHANGED <<clock, flag, since, wentoff, monitor>> /\ reading[r].at \in {"waits", "gaveup"}
          /\ \/ reading' = [reading EXCEPT ![r] = NoRead]
             \/ /\ reading' = [reading EXCEPT ![r] = [reading[r] EXCEPT !.at = "gaveup"]]
                /\ reading[r].at = "waits" /\ clock >= reading[r].deadline
      BY <1>4, Zenon DEF ReadResumes, ReadFailed, LinkType
    <2>2. ReadRec(NoRead) /\ NoRead.at = "idle"  BY Zenon DEF ReadRec, NoRead
    <2>3. /\ ReadRec([reading[r] EXCEPT !.at = "gaveup"])
          /\ [reading[r] EXCEPT !.at = "gaveup"].at = "gaveup"
          /\ [reading[r] EXCEPT !.at = "gaveup"].off = reading[r].off
      BY DEF LinkType, ReadRec
    <2>4. /\ DOMAIN reading' = Reads /\ \A q \in Reads : ReadRec(reading'[q])
          /\ \/ reading'[r].at = "idle"
             \/ /\ reading'[r].at = "gaveup" /\ reading'[r].off = reading[r].off
                /\ reading[r].at = "waits" /\ clock >= reading[r].deadline
          /\ \A q \in Reads \ {r} : reading'[q] = reading[q]
      BY <2>1, <2>2, <2>3, ReadSet, Zenon
    <2>5. LinkType'  BY <2>1, <2>4, Zenon DEF LinkType
    <2>6. \A q \in Reads : reading'[q].at = "raised" <=> reading[q].at = "raised"
      BY <2>1, <2>4, Zenon
    <2>7. Timed'  BY <2>1, <2>6, Zenon DEF Timed, Marking
    <2>8. reading[r].off \in Nat /\ reading[r].deadline \in Nat  BY Zenon DEF LinkType, ReadRec
    <2>9. Waits'  BY <1>0, <2>1, <2>4, <2>8 DEF Waits
    <2> QED  BY <2>5, <2>7, <2>9, Zenon
  <1>5. CASE MonitorReachable
    BY <1>0, <1>5, Zenon DEF MonitorReachable, MayMark, LinkType, Timed, Waits, Marking
  <1>6. CASE mark_online
    BY <1>0, <1>6, Zenon DEF mark_online, LinkType, Timed, Waits, Marking
  <1>7. CASE MonitorUnreachable
    BY <1>0, <1>7 DEF MonitorUnreachable, MayMark, LinkType, Timed, Waits, Marking
  <1>8. CASE MonitorWipes
    BY <1>8, Zenon DEF MonitorWipes, LinkType, Timed, Waits, Marking
  <1>9. CASE PushTick
    <2>1. /\ UNCHANGED <<flag, since, wentoff, monitor, reading>> /\ clock' = clock + 1 /\ clock' \in 0..MaxClock
      BY <1>0, <1>9 DEF PushTick
    <2>2. LinkType'  BY <2>1, Zenon DEF LinkType
    <2>3. Timed'  BY <1>0, <2>1 DEF Timed, Marking, LinkType
    <2>4. \A r \in Reads : reading[r].off \in Nat  BY Zenon DEF LinkType, ReadRec
    <2>5. Waits'  BY <1>0, <2>1, <2>4 DEF Waits
    <2> QED  BY <2>2, <2>3, <2>5, Zenon
  <1>10. CASE UNCHANGED <<clock, flag, since, wentoff, monitor, reading>>
    BY <1>10, Zenon DEF LinkType, Timed, Waits, Marking
  <1> QED
    <2>1. \/ \E r \in Reads : \/ ReadFails(r) \/ mark_offline(r) \/ ReadWaits(r)
                              \/ ReadResumes(r) \/ ReadFailed(r)
          \/ MonitorReachable \/ mark_online \/ MonitorUnreachable \/ MonitorWipes \/ PushTick
          \/ UNCHANGED <<clock, flag, since, wentoff, monitor, reading>>
      BY Zenon DEF PushNext, pushVars, linkVars, UploadFails, ReplayEnds, ServerChanges, watcher_connect,
             SocketDies, HandlesEvent, PollPush, CheckProbes, CheckEnds, Outage, ServerBack
    <2> QED  BY <1>1, <1>2, <1>3, <1>4, <1>5, <1>6, <1>7, <1>8, <1>9, <1>10, <2>1, Zenon

\* The socket and the validations, when none of the listed gaps is open.
LEMMA SocketStep ==
    ASSUME Holes = {}
    PROVE  SocketInv /\ [PushNext]_pushVars => SocketInv'
  <1> SUFFICES ASSUME SocketInv, [PushNext]_pushVars PROVE SocketInv'  BY Zenon
  <1> USE DEF SocketInv, SocketType, FoundOut
  <1>1. CASE ServerChanges  BY <1>1, Zenon DEF ServerChanges
  <1>2. CASE watcher_connect  BY <1>2 DEF watcher_connect
  <1>3. CASE SocketDies  BY <1>3 DEF SocketDies
  <1>4. CASE HandlesEvent  BY <1>4, Zenon DEF HandlesEvent
  <1>5. CASE PollPush
    <2>1. seen'.gen = generation  BY <1>5, Zenon DEF PollPush
    <2> QED  BY <1>5, <2>1 DEF PollPush, Revalidates
  <1>6. CASE CheckProbes  BY <1>6, Zenon DEF CheckProbes
  <1>7. CASE CheckEnds  BY <1>7, Zenon DEF CheckEnds
  <1>8. CASE UNCHANGED socketVars  BY <1>8, Zenon DEF socketVars
  <1> QED
    <2>1. \/ ServerChanges \/ watcher_connect \/ SocketDies \/ HandlesEvent \/ PollPush \/ CheckProbes \/ CheckEnds
          \/ UNCHANGED socketVars
      BY Zenon DEF PushNext, pushVars, ReadFails, mark_offline, ReadWaits, ReadResumes, ReadFailed,
             MonitorReachable, mark_online, MonitorUnreachable, MonitorWipes, UploadFails, ReplayEnds,
             Outage, ServerBack, PushTick
    <2> QED  BY <1>1, <1>2, <1>3, <1>4, <1>5, <1>6, <1>7, <1>8, <2>1, Zenon

\* Where no mark of the flag interrupts another and none of the listed gaps is
\* open, a read fails only once its outage is OFFLINE_READ_GRACE old, and after
\* a reconnect every change whose event was lost is looked for before the cache
\* is trusted.
THEOREM OutagesAreBridged ==
    ASSUME MarksRace = FALSE, Holes = {}
    PROVE  PushSpec => []OutageBridged
  <1>1. LinkInv /\ SocketInv => OutageBridged
    BY Zenon DEF LinkInv, SocketInv, OutageBridged, BlipsWaitedOut, GapRevalidated, Waits, FoundOut
  <1> QED  BY <1>1, PushInitially, LinkStep, SocketStep, PTL DEF PushSpec

-----------------------------------------------------------------------------
(***************************************************************************)
(* IoModes: this mount and the kernel agree on each inode's I/O mode, for  *)
(* any number of handles, copies and restarts.                             *)
(***************************************************************************)

\* The record of an open.
OpenRec(o) == /\ o = [at |-> o.at, kind |-> o.kind, backing |-> o.backing, file |-> o.file]
              /\ o.file \in Nat

\* Every variable holds a record of its kind.
IoType ==
    /\ mirror = [mode |-> mirror.mode, backing |-> mirror.backing, file |-> mirror.file, opens |-> mirror.opens]
    /\ mirror.file \in Nat /\ mirror.opens \in Nat
    /\ copy \in Nat \ {0}
    /\ DOMAIN opens = Handles /\ \A h \in Handles : OpenRec(opens[h])
    /\ \E n \in Nat : backings \in [1..n -> Nat]

\* The handles answered with a kind, by this daemon or one before it.
AnsweredAs(kind) == {h \in Handles : opens[h].kind = kind}

\* A handle has a kind once it is answered, and what it asked for is a copy
\* that was there.
Asked ==
    \A h \in Handles :
        /\ opens[h].at \in {"closed", "asked"} => opens[h].kind = "none"
        /\ opens[h].file <= copy

\* The mirror counts every handle the kernel may hold, in the one mode they are
\* all in.
Mirrored ==
    /\ mirror.mode \in {"none", "passthrough", "cached", "foreign"}
    /\ mirror.mode \in {"none", "cached"} => AnsweredAs("passthrough") = {}
    /\ mirror.mode \in {"none", "passthrough", "foreign"} => AnsweredAs("cached") = {}
    /\ mirror.mode \in {"passthrough", "foreign"} => mirror.opens >= Cardinality(AnsweredAs("passthrough"))
    /\ mirror.mode = "cached" => mirror.opens >= Cardinality(AnsweredAs("cached"))

\* Passthrough handles share one backing file, registered, and it is a copy
\* no older than any of them looked at.
Backed ==
    /\ \A h \in AnsweredAs("passthrough") :
          /\ opens[h].backing \in registered
          /\ opens[h].backing \in DOMAIN backings
          /\ backings[opens[h].backing] >= opens[h].file
          /\ mirror.mode = "passthrough" => opens[h].backing = mirror.backing
    /\ \A g, h \in AnsweredAs("passthrough") : opens[g].backing = opens[h].backing
    /\ mirror.mode = "passthrough" =>
          /\ mirror.backing \in registered /\ mirror.backing \in DOMAIN backings
          /\ backings[mirror.backing] >= mirror.file

\* The inductive invariant.
IoInv == IoType /\ Asked /\ Mirrored /\ Backed /\ ~refused

\* Of the opens, the ones answered with a kind are finitely many.
LEMMA AnswersFinite ==
    ASSUME NEW kind
    PROVE  /\ IsFiniteSet(AnsweredAs(kind))
           /\ Cardinality(AnsweredAs(kind)) \in Nat
  <1>1. AnsweredAs(kind) \in SUBSET Handles  BY Zenon DEF AnsweredAs
  <1>2. IsFiniteSet(AnsweredAs(kind))  BY <1>1, HandlesAssumption, FS_Subset, Zenon
  <1> QED  BY <1>2, FS_CardinalityType, Zenon

\* One more answer counts at most one more.
LEMMA AnswersGrow ==
    ASSUME NEW kind, NEW h
    PROVE  Cardinality(AnsweredAs(kind) \cup {h}) \in Nat /\ Cardinality(AnsweredAs(kind) \cup {h}) <= Cardinality(AnsweredAs(kind)) + 1
  <1>1. IsFiniteSet(AnsweredAs(kind)) /\ Cardinality(AnsweredAs(kind)) \in Nat  BY AnswersFinite, Zenon
  <1>2. Cardinality(AnsweredAs(kind) \cup {h}) = IF h \in AnsweredAs(kind) THEN Cardinality(AnsweredAs(kind)) ELSE Cardinality(AnsweredAs(kind)) + 1
    BY <1>1, FS_AddElement, Zenon
  <1> QED  BY <1>1, <1>2

\* An open that is given another record joins the answers of the kind it is
\* given and leaves all the others.
LEMMA Reanswered ==
    ASSUME NEW h \in Handles, NEW o, IoType, Set(h, o)
    PROVE  /\ AnsweredAs(o.kind)' = AnsweredAs(o.kind) \cup {h}
           /\ \A kind : kind # o.kind => AnsweredAs(kind)' = AnsweredAs(kind) \ {h}
           /\ opens[h].kind = o.kind => \A kind : AnsweredAs(kind)' = AnsweredAs(kind)
  BY Zenon DEF IoType, Set, AnsweredAs

\* A record of the right shape put in its place keeps the table of opens typed.
LEMMA SetTyped ==
    ASSUME NEW h \in Handles, NEW o, IoType, Set(h, o), OpenRec(o)
    PROVE  /\ DOMAIN opens' = Handles /\ \A g \in Handles : OpenRec(opens'[g])
           /\ opens'[h] = o /\ \A g \in Handles \ {h} : opens'[g] = opens[g]
  BY Zenon DEF IoType, Set

\* Nothing is open at the start.
LEMMA IoInitially == IoInit => IoInv
  <1> SUFFICES ASSUME IoInit PROVE IoInv  BY Zenon
  <1>1. \A kind : kind # "none" => AnsweredAs(kind) = {}  BY Zenon DEF IoInit, AnsweredAs, Closed
  <1>2. IoType
    <2>1. backings \in [1..0 -> Nat]  BY DEF IoInit
    <2>2. \A h \in Handles : OpenRec(opens[h])  BY Zenon DEF IoInit, Closed, OpenRec
    <2> QED  BY <2>1, <2>2 DEF IoInit, Unused, IoType
  <1> QED  BY <1>1, <1>2 DEF IoInit, IoInv, Asked, Mirrored, Backed, Unused, Closed

\* A step that gives one handle a record with the kind, backing and file it had,
\* or with a kind that takes no part in the kernel's mode, keeps the invariant.
LEMMA Unmoved ==
    ASSUME IoInv, NEW h \in Handles, NEW o, Set(h, o), OpenRec(o), o.file <= copy,
           \/ o.kind = opens[h].kind /\ o.backing = opens[h].backing /\ o.file = opens[h].file
              /\ o.at \notin {"closed", "asked"}
           \/ o.kind = "none" /\ opens[h].kind = "none"
           \/ o.kind = "direct" /\ o.at \notin {"closed", "asked"} /\ opens[h].kind = "none",
           UNCHANGED <<mirror, copy, backings, registered>>, ~refused'
    PROVE  IoInv'
  <1> USE DEF IoInv
  <1>1. IoType'  BY SetTyped, Zenon DEF IoType
  <1>2. AnsweredAs("passthrough")' = AnsweredAs("passthrough") /\ AnsweredAs("cached")' = AnsweredAs("cached")
    BY SetTyped DEF AnsweredAs
  <1>3. Asked'  BY SetTyped DEF Asked
  <1>4. Mirrored'  BY <1>2, Zenon DEF Mirrored
  <1>5. \A g \in AnsweredAs("passthrough") : opens'[g].backing = opens[g].backing /\ opens'[g].file = opens[g].file
    BY SetTyped DEF AnsweredAs
  <1>6. Backed'  BY <1>2, <1>5 DEF Backed
  <1> QED  BY <1>1, <1>3, <1>4, <1>6, Zenon

\* What a grant leaves of an open, and what it does to the answers.
LEMMA Granted ==
    ASSUME IoInv, NEW h \in Handles, NEW kind, NEW backing, Grant(h, kind, backing),
           opens[h].at = "asked", copy' = copy
    PROVE  /\ DOMAIN opens' = Handles /\ \A g \in Handles : OpenRec(opens'[g])
           /\ opens'[h].backing = backing /\ opens'[h].file = opens[h].file
           /\ \A g \in Handles \ {h} : opens'[g] = opens[g]
           /\ AnsweredAs(kind)' = AnsweredAs(kind) \cup {h}
           /\ \A other : other # kind => AnsweredAs(other)' = AnsweredAs(other) \ {h}
           /\ Asked'
  <1> DEFINE o == [at |-> "granted", kind |-> kind, backing |-> backing, file |-> opens[h].file]
  <1>1. opens[h].file \in Nat  BY Zenon DEF IoInv, IoType, OpenRec
  <1>3. Set(h, o)  BY Zenon DEF Grant
  <1>4. o.at = "granted" /\ o.kind = kind /\ o.backing = backing /\ o.file = opens[h].file  BY Zenon
  <1>5. OpenRec(o)  BY <1>1, <1>4, Zenon DEF OpenRec
  <1> HIDE DEF o
  <1>6. /\ DOMAIN opens' = Handles /\ \A g \in Handles : OpenRec(opens'[g])
        /\ opens'[h] = o /\ \A g \in Handles \ {h} : opens'[g] = opens[g]
    BY <1>3, <1>5, SetTyped, Zenon DEF IoInv
  <1>7. /\ AnsweredAs(kind)' = AnsweredAs(kind) \cup {h}
        /\ \A other : other # kind => AnsweredAs(other)' = AnsweredAs(other) \ {h}
    BY <1>3, <1>4, Reanswered, Zenon DEF IoInv
  <1>8. Asked'  BY <1>4, <1>6, Zenon DEF IoInv, Asked
  <1> QED  BY <1>4, <1>6, <1>7, <1>8, Zenon

\* InodeIoModes::acquire: whatever it grants, the mirror counts.
LEMMA AcquireKeeps ==
    ASSUME IoInv, NEW h \in Handles, acquire(h)
    PROVE  IoInv'
  <1> USE DEF IoInv
  <1>1. /\ ~refused' /\ copy' = copy /\ opens[h].at = "asked" /\ opens[h].kind = "none"
        /\ opens[h].file <= copy /\ copy \in Nat
    BY Zenon DEF acquire, Asked, IoType
  <1>2. opens[h].file \in Nat  BY Zenon DEF IoType, OpenRec
  <1>3. CASE Grant(h, "direct", 0) /\ UNCHANGED <<mirror, backings, registered>>
    <2>1. /\ AnsweredAs("passthrough")' = AnsweredAs("passthrough") /\ AnsweredAs("cached")' = AnsweredAs("cached")
      BY <1>1, <1>3, Granted DEF AnsweredAs
    <2>2. IoType'  BY <1>1, <1>3, Granted, Zenon DEF IoType
    <2>3. Asked'  BY <1>1, <1>3, Granted, Zenon
    <2>4. Mirrored'  BY <1>3, <2>1, Zenon DEF Mirrored
    <2>5. \A g \in AnsweredAs("passthrough") : opens'[g] = opens[g]
      BY <1>1, <1>3, Granted, Zenon DEF AnsweredAs
    <2>6. Backed'  BY <1>3, <2>1, <2>5 DEF Backed
    <2> QED  BY <1>1, <2>2, <2>3, <2>4, <2>6, Zenon
  <1>4. CASE /\ mirror.mode = "passthrough" /\ Shares(opens[h].file)
             /\ Grant(h, "passthrough", mirror.backing) /\ mirror' = [mirror EXCEPT !.opens = @ + 1]
             /\ UNCHANGED <<backings, registered>>
    <2>1. Grant(h, "passthrough", mirror.backing)  BY <1>4, Zenon
    <2>2. /\ AnsweredAs("passthrough")' = AnsweredAs("passthrough") \cup {h}
          /\ AnsweredAs("cached")' = AnsweredAs("cached") \ {h}
      BY <1>1, <2>1, Granted
    <2>3. IoType'  BY <1>1, <1>4, <2>1, Granted DEF IoType
    <2>4. Asked'  BY <1>1, <2>1, Granted, Zenon
    <2>5. /\ Cardinality(AnsweredAs("passthrough")) \in Nat /\ Cardinality(AnsweredAs("passthrough")') \in Nat
          /\ Cardinality(AnsweredAs("passthrough")') <= Cardinality(AnsweredAs("passthrough")) + 1
      BY <2>2, AnswersFinite, AnswersGrow, Zenon
    <2>6. Mirrored'
      BY <1>4, <2>2, <2>5 DEF Mirrored, IoType
    <2>7. Backed'
      <3>1. mirror'.mode = "passthrough" /\ mirror'.backing = mirror.backing /\ mirror'.file = mirror.file
        BY <1>4, Zenon DEF IoType
      <3>2. \A g \in AnsweredAs("passthrough")' :
               opens'[g].backing = mirror.backing /\ backings[mirror.backing] >= opens'[g].file
        BY <1>1, <1>4, <2>1, <2>2, Granted DEF Backed, AnsweredAs, Shares
      <3> QED  BY <1>4, <3>1, <3>2 DEF Backed
    <2> QED  BY <1>1, <2>3, <2>4, <2>6, <2>7, Zenon
  <1>5. CASE /\ mirror.mode \in {"none", "cached"} /\ Grant(h, "cached", 0)
             /\ mirror'.mode = "cached" /\ mirror'.file \in Nat
             /\ mirror' = [mode |-> mirror'.mode, backing |-> mirror'.backing, file |-> mirror'.file, opens |-> mirror'.opens]
             /\ mirror'.opens = IF mirror.mode = "cached" THEN mirror.opens + 1 ELSE 1
             /\ UNCHANGED <<backings, registered>>
    <2>1. Grant(h, "cached", 0)  BY <1>5, Zenon
    <2>2. /\ AnsweredAs("cached")' = AnsweredAs("cached") \cup {h}
          /\ AnsweredAs("passthrough")' = AnsweredAs("passthrough") \ {h}
      BY <1>1, <2>1, Granted
    <2>3. IoType'  BY <1>1, <1>5, <2>1, Granted DEF IoType
    <2>4. Asked'  BY <1>1, <2>1, Granted, Zenon
    <2>5. /\ Cardinality(AnsweredAs("cached")) \in Nat /\ Cardinality(AnsweredAs("cached")') \in Nat
          /\ Cardinality(AnsweredAs("cached")') <= Cardinality(AnsweredAs("cached")) + 1
      BY <2>2, AnswersFinite, AnswersGrow, Zenon
    <2>6. mirror.mode = "none" => Cardinality(AnsweredAs("cached")) = 0
      BY FS_EmptySet, Zenon DEF Mirrored
    <2>7. Mirrored'
      BY <1>5, <2>2, <2>5, <2>6 DEF Mirrored, IoType
    <2>8. Backed'
      BY <1>5, <2>2, Zenon DEF Backed, Mirrored
    <2> QED  BY <1>1, <2>3, <2>4, <2>7, <2>8, Zenon
  <1>6. CASE /\ mirror.mode = "none" /\ opens[h].file # 0
             /\ LET id == Cardinality(DOMAIN backings) + 1
                IN  /\ backings' = [b \in 1..id |-> IF b = id THEN copy ELSE backings[b]]
                    /\ registered' = registered \cup {id}
                    /\ mirror' = [mode |-> "passthrough", backing |-> id, file |-> opens[h].file, opens |-> 1]
                    /\ Grant(h, "passthrough", id)
    <2> DEFINE id == Cardinality(DOMAIN backings) + 1
    <2>1. PICK n \in Nat : backings \in [1..n -> Nat]  BY Zenon DEF IoType
    <2>2. id = n + 1
      <3>1. Cardinality(1..n) = n  BY <2>1, FS_Interval
      <3> QED  BY <2>1, <3>1, Zenon
    <2>3. /\ backings' \in [1..id -> Nat] /\ backings'[id] = copy /\ id \in registered' /\ id \in Nat
      BY <1>1, <1>6, <2>1, <2>2
    <2>4. Grant(h, "passthrough", id)  BY <1>6, Zenon
    <2>5. /\ AnsweredAs("passthrough")' = {h} /\ AnsweredAs("cached")' = {}
      BY <1>1, <1>6, <2>4, Granted DEF Mirrored, AnsweredAs
    <2>6. IoType'
      <3>1. mirror' = [mode |-> mirror'.mode, backing |-> mirror'.backing, file |-> mirror'.file, opens |-> mirror'.opens]
            /\ mirror'.file \in Nat /\ mirror'.opens \in Nat
        BY <1>6, Zenon DEF IoType, OpenRec
      <3> QED  BY <1>1, <2>3, <2>4, <3>1, Granted, Zenon DEF IoType
    <2>7. Asked'  BY <1>1, <2>4, Granted, Zenon
    <2>8. Cardinality(AnsweredAs("passthrough")') = 1  BY <2>5, FS_Singleton, Zenon
    <2>9. Mirrored'  BY <1>6, <2>5, <2>8 DEF Mirrored
    <2>10. /\ mirror'.mode = "passthrough" /\ mirror'.backing = id /\ mirror'.file = opens[h].file
           /\ id \in DOMAIN backings'
      BY <1>6, <2>3, <2>2, <2>1
    <2>11. opens'[h].backing = id /\ opens'[h].file = opens[h].file  BY <1>1, <2>4, Granted, Zenon
    <2>12. backings'[id] >= opens[h].file  BY <1>1, <2>3, Zenon
    <2> HIDE DEF id
    <2>13. Backed'  BY <2>3, <2>5, <2>10, <2>11, <2>12, Zenon DEF Backed
    <2> QED  BY <1>1, <2>6, <2>7, <2>9, <2>13, Zenon
  <1> QED
    <2>1. CASE mirror.mode = "passthrough"  BY <1>3, <1>4, <2>1, Zenon DEF acquire
    <2>2. CASE mirror.mode = "cached"
      <3>1. /\ mirror' = [mirror EXCEPT !.opens = @ + 1] /\ Grant(h, "cached", 0)
            /\ UNCHANGED <<backings, registered>>
        BY <2>2, Zenon DEF acquire
      <3> QED  BY <1>5, <2>2, <3>1, Zenon DEF IoType
    <2>3. CASE mirror.mode = "foreign"  BY <1>3, <2>3, Zenon DEF acquire
    <2>4. CASE mirror.mode = "none" /\ mirror' = [Unused EXCEPT !.mode = "cached", !.opens = 1]
               /\ Grant(h, "cached", 0) /\ UNCHANGED <<backings, registered>>
      BY <1>5, <2>4, Zenon DEF Unused
    <2> QED  BY <1>6, <2>1, <2>2, <2>3, <2>4, Zenon DEF acquire

\* InodeIoModes::release: the last handle that is counted takes the mode with
\* it, and a backing file is unregistered with the last handle that reads it.
LEMMA ReleaseKeeps ==
    ASSUME IoInv, NEW h \in Handles, release(h)
    PROVE  IoInv'
  <1> USE DEF IoInv
  <1>1. /\ Set(h, Closed) /\ OpenRec(Closed) /\ Closed.kind = "none" /\ Closed.file = 0 /\ Closed.at = "closed"
        /\ UNCHANGED <<copy, backings, refused>> /\ copy \in Nat
        /\ mirror' = released(opens[h].kind)
    BY Zenon DEF release, Closed, OpenRec, IoType
  <1>2. \A kind : kind # "none" => AnsweredAs(kind)' = AnsweredAs(kind) \ {h}
    BY <1>1, Reanswered, Zenon
  <1>3. /\ \A kind : kind # "none" => Cardinality(AnsweredAs(kind)') <= Cardinality(AnsweredAs(kind))
        /\ \A kind : kind # "none" /\ opens[h].kind = kind =>
              /\ Cardinality(AnsweredAs(kind)') = Cardinality(AnsweredAs(kind)) - 1
              /\ Cardinality(AnsweredAs(kind)) = 1 => AnsweredAs(kind)' = {}
    <2> SUFFICES ASSUME NEW kind, kind # "none"
                 PROVE  /\ Cardinality(AnsweredAs(kind)') <= Cardinality(AnsweredAs(kind))
                        /\ opens[h].kind = kind =>
                              /\ Cardinality(AnsweredAs(kind)') = Cardinality(AnsweredAs(kind)) - 1
                              /\ Cardinality(AnsweredAs(kind)) = 1 => AnsweredAs(kind)' = {}
      BY Zenon
    <2>1. /\ IsFiniteSet(AnsweredAs(kind) \ {h})
          /\ Cardinality(AnsweredAs(kind) \ {h}) =
                IF h \in AnsweredAs(kind) THEN Cardinality(AnsweredAs(kind)) - 1 ELSE Cardinality(AnsweredAs(kind))
      BY AnswersFinite, FS_RemoveElement, Zenon
    <2>2. opens[h].kind = kind => h \in AnsweredAs(kind)  BY Zenon DEF AnsweredAs
    <2>3. Cardinality(AnsweredAs(kind)) \in Nat  BY AnswersFinite, Zenon
    <2>4. Cardinality(AnsweredAs(kind) \ {h}) = 0 => AnsweredAs(kind) \ {h} = {}  BY <2>1, FS_EmptySet, Zenon
    <2>5. AnsweredAs(kind)' = AnsweredAs(kind) \ {h}  BY <1>2, Zenon
    <2> QED  BY <2>1, <2>2, <2>3, <2>4, <2>5
  <1>4. Asked'  BY <1>1, SetTyped DEF Asked
  <1>5. /\ mirror' = [mode |-> mirror'.mode, backing |-> mirror'.backing, file |-> mirror'.file, opens |-> mirror'.opens]
        /\ mirror'.file \in Nat /\ mirror'.opens \in Nat
    BY <1>1 DEF released, IoType, Unused
  <1>6. IoType'  BY <1>1, <1>5, SetTyped, Zenon DEF IoType
  <1>7. Mirrored'
    <2>1. Cardinality(AnsweredAs("passthrough")) \in Nat /\ Cardinality(AnsweredAs("cached")) \in Nat
      BY AnswersFinite, Zenon
    <2>2. CASE ~Counted(opens[h].kind)
      <3>1. mirror' = mirror  BY <1>1, <2>2, Zenon DEF released
      <3>2. Cardinality(AnsweredAs("passthrough")') \in Nat /\ Cardinality(AnsweredAs("cached")') \in Nat
        BY <1>2, AnswersFinite, FS_RemoveElement, FS_CardinalityType
      <3> QED  BY <1>2, <1>3, <2>1, <3>1, <3>2 DEF Mirrored, IoType
    <2>3. CASE Counted(opens[h].kind) /\ mirror.opens <= 1
      <3>1. mirror'.mode = "none"  BY <1>1, <2>3, Zenon DEF released, Unused
      <3>2. opens[h].kind \in {"passthrough", "cached"}  BY <2>3, Zenon DEF Counted
      <3>3. Cardinality(AnsweredAs(opens[h].kind)) # 0
        BY AnswersFinite, FS_EmptySet, Zenon DEF AnsweredAs
      <3>4. AnsweredAs("passthrough")' = {} /\ AnsweredAs("cached")' = {}
        BY <1>2, <1>3, <2>1, <2>3, <3>2, <3>3 DEF Mirrored, Counted, IoType
      <3> QED  BY <3>1, <3>4, Zenon DEF Mirrored
    <2>4. CASE Counted(opens[h].kind) /\ ~(mirror.opens <= 1)
      <3>1. mirror' = [mirror EXCEPT !.opens = @ - 1]  BY <1>1, <2>4, Zenon DEF released
      <3>2. mirror'.mode = mirror.mode /\ mirror'.opens = mirror.opens - 1  BY <3>1, Zenon DEF IoType
      <3>3. mirror.opens \in Nat  BY Zenon DEF IoType
      <3> QED  BY <1>2, <1>3, <2>1, <2>4, <3>2, <3>3 DEF Mirrored, Counted
    <2> QED  BY <2>2, <2>3, <2>4, Zenon
  <1>8. Backed'
    <2>1. \A g \in Handles \ {h} : opens'[g] = opens[g]  BY <1>1, SetTyped, Zenon
    <2>2. AnsweredAs("passthrough")' = {g \in AnsweredAs("passthrough") : g # h}  BY <1>2, Zenon
    <2>3. mirror'.mode = "passthrough" => mirror.mode = "passthrough" /\ mirror'.backing = mirror.backing
                                          /\ mirror'.file = mirror.file /\ mirror' # Unused
      BY <1>1 DEF released, Unused, IoType
    <2>4. mirror'.mode = "passthrough" => registered' = registered
      BY <2>3, Zenon DEF release
    <2>5. \A g \in AnsweredAs("passthrough")' : opens[g].backing \in registered'
      <3> SUFFICES ASSUME NEW g \in AnsweredAs("passthrough")' PROVE opens[g].backing \in registered'
        BY Zenon
      <3>1. g \in AnsweredAs("passthrough") /\ g # h /\ g \in Handles  BY <2>2, Zenon DEF AnsweredAs
      <3>2. opens[g].backing \in registered  BY <3>1, Zenon DEF Backed
      <3>3. CASE mirror.mode = "passthrough" /\ mirror' = Unused
        <4>1. mirror'.mode = "none"  BY <3>3, Zenon DEF Unused
        <4> QED  BY <1>7, <4>1, Zenon DEF Mirrored
      <3>4. CASE ~(mirror.mode = "passthrough" /\ mirror' = Unused)
        BY <3>1, <3>2, <3>4, Zenon DEF release
      <3> QED  BY <3>3, <3>4, Zenon
    <2>6. \A g \in AnsweredAs("passthrough")' : g \in AnsweredAs("passthrough") /\ opens'[g] = opens[g]
      BY <2>1, <2>2, Zenon DEF AnsweredAs
    <2> QED  BY <1>1, <2>3, <2>4, <2>5, <2>6 DEF Backed
  <1> QED  BY <1>1, <1>4, <1>6, <1>7, <1>8, Zenon

\* InodeIoModes::adopt on a restart: the successor counts what it finds in the
\* log, which is at least what the kernel still holds.
LEMMA AdoptKeeps ==
    ASSUME IoInv, Restored
    PROVE  IoInv'
  <1> USE DEF IoInv
  <1>1. /\ UNCHANGED <<copy, backings, registered, refused>> /\ mirror' = adopt /\ copy \in Nat
        /\ \A h \in Handles : opens'[h] = opens[h] \/ opens'[h] = Closed
        /\ \A h \in Handles : opens'[h] # Closed => opens[h].at \in {"open", "closing"}
        /\ DOMAIN opens' = Handles
    BY Zenon DEF Restored, IoType
  <1>2. OpenRec(Closed) /\ Closed.kind = "none" /\ Closed.file = 0  BY Zenon DEF Closed, OpenRec
  <1>3. \A kind : kind # "none" => /\ AnsweredAs(kind)' \subseteq Known(kind)
                                   /\ Known(kind) \subseteq AnsweredAs(kind)
                                   /\ \A h \in AnsweredAs(kind)' : h \in Handles /\ opens'[h] = opens[h]
    BY <1>1, <1>2, Zenon DEF AnsweredAs, Known
  <1>4. \A kind : kind # "none" => /\ IsFiniteSet(Known(kind)) /\ Cardinality(Known(kind)) \in Nat
                                   /\ Cardinality(AnsweredAs(kind)') <= Cardinality(Known(kind))
    <2> SUFFICES ASSUME NEW kind, kind # "none"
                 PROVE  /\ IsFiniteSet(Known(kind)) /\ Cardinality(Known(kind)) \in Nat
                        /\ Cardinality(AnsweredAs(kind)') <= Cardinality(Known(kind))
      BY Zenon
    <2>1. IsFiniteSet(Known(kind))
      <3>1. Known(kind) \in SUBSET AnsweredAs(kind)  BY <1>3, Zenon
      <3> QED  BY <3>1, AnswersFinite, FS_Subset, Zenon
    <2>2. AnsweredAs(kind)' \in SUBSET Known(kind)  BY <1>3, Zenon
    <2> QED  BY <2>1, <2>2, FS_Subset, FS_CardinalityType, Zenon
  <1>5. \/ Known("passthrough") # {} /\ mirror'.mode = "foreign" /\ mirror'.opens = Cardinality(Known("passthrough"))
        \/ Known("passthrough") = {} /\ mirror'.mode = "cached" /\ mirror'.opens = Cardinality(Known("cached"))
        \/ Known("passthrough") = {} /\ Known("cached") = {} /\ mirror'.mode = "none" /\ mirror'.opens = 0
    BY <1>1, Zenon DEF adopt, Unused
  <1>6. mirror' = [mode |-> mirror'.mode, backing |-> mirror'.backing, file |-> mirror'.file, opens |-> mirror'.opens]
        /\ mirror'.file \in Nat
    BY <1>1, Zenon DEF adopt, Unused
  <1>7. IoType'
    <2>1. mirror'.opens \in Nat  BY <1>4, <1>5
    <2>2. \A h \in Handles : OpenRec(opens'[h])  BY <1>1, <1>2, Zenon DEF IoType
    <2> QED  BY <1>1, <1>6, <2>1, <2>2, Zenon DEF IoType
  <1>8. Asked'  BY <1>1, <1>2 DEF Asked
  <1>9. Mirrored'
    <2>1. Known("passthrough") # {} => AnsweredAs("cached") = {}  BY <1>3, Zenon DEF Mirrored
    <2> QED  BY <1>3, <1>4, <1>5, <2>1, Zenon DEF Mirrored
  <1>10. Backed'
    <2>1. mirror'.mode # "passthrough"  BY <1>5, Zenon
    <2>2. \A h \in AnsweredAs("passthrough")' : h \in AnsweredAs("passthrough") /\ opens'[h] = opens[h]
      BY <1>3, Zenon
    <2> QED  BY <1>1, <2>1, <2>2 DEF Backed
  <1> QED  BY <1>1, <1>7, <1>8, <1>9, <1>10, Zenon

\* Every step of the opens, the closes, the copy and the restarts keeps the
\* mirror in line with the kernel.
LEMMA IoStep == IoInv /\ [IoNext]_ioVars => IoInv'
  <1> SUFFICES ASSUME IoInv, [IoNext]_ioVars PROVE IoInv'  BY Zenon
  <1> USE DEF IoInv
  <1>1. ASSUME NEW h \in Handles, Opening(h) PROVE IoInv'
    <2>1. PICK file \in {0} \cup (IF capable THEN {copy} ELSE {}) :
             Set(h, [at |-> "asked", kind |-> "none", backing |-> 0, file |-> file])
      BY <1>1, Zenon DEF Opening
    <2>2. file \in Nat /\ file <= copy  BY DEF IoType
    <2>3. OpenRec([at |-> "asked", kind |-> "none", backing |-> 0, file |-> file])  BY <2>2, Zenon DEF OpenRec, Closed
    <2>4. opens[h].kind = "none"  BY <1>1, Zenon DEF Opening, Asked
    <2> QED  BY <1>1, <2>1, <2>2, <2>3, <2>4, Unmoved, Zenon DEF Opening, Closed
  <1>2. ASSUME NEW h \in Handles, Probe(h) PROVE IoInv'
    <2>1. OpenRec([at |-> "granted", kind |-> "direct", backing |-> 0, file |-> 0])  BY Zenon DEF OpenRec, Closed
    <2>2. opens[h].kind = "none" /\ copy \in Nat  BY <1>2, Zenon DEF Probe, Asked, IoType
    <2> QED  BY <1>2, <2>1, <2>2, Unmoved DEF Probe, Closed
  <1>3. ASSUME NEW h \in Handles, acquire(h) PROVE IoInv'  BY <1>3, AcquireKeeps, Zenon
  <1>4. ASSUME NEW h \in Handles, Logged(h) PROVE IoInv'
    <2>1. OpenRec([opens[h] EXCEPT !.at = "logged"])  BY DEF OpenRec, IoType
    <2> QED  BY <1>4, <2>1, Unmoved, Zenon DEF Logged, IoType, OpenRec, Asked
  <1>5. ASSUME NEW h \in Handles, Answered(h) PROVE IoInv'
    <2>1. OpenRec([opens[h] EXCEPT !.at = "open"])  BY DEF OpenRec, IoType
    <2>2. KernelTakes(opens[h])
      <3>1. \A kind : Open(kind) \subseteq AnsweredAs(kind)  BY Zenon DEF Open, AnsweredAs
      <3>2. opens[h].kind = "passthrough" => h \in AnsweredAs("passthrough")  BY Zenon DEF AnsweredAs
      <3>3. opens[h].kind = "cached" => h \in AnsweredAs("cached")  BY Zenon DEF AnsweredAs
      <3> QED  BY <3>1, <3>2, <3>3, Zenon DEF KernelTakes, Mirrored, Backed
    <2>3. ~refused'  BY <1>5, <2>2, Zenon DEF Answered
    <2> QED  BY <1>5, <2>1, <2>3, Unmoved, Zenon DEF Answered, IoType, OpenRec, Asked
  <1>6. ASSUME NEW h \in Handles, Closing(h) PROVE IoInv'
    <2>1. OpenRec([opens[h] EXCEPT !.at = "closing"])  BY DEF OpenRec, IoType
    <2> QED  BY <1>6, <2>1, Unmoved, Zenon DEF Closing, IoType, OpenRec, Asked
  <1>7. ASSUME NEW h \in Handles, release(h) PROVE IoInv'  BY <1>7, ReleaseKeeps, Zenon
  <1>8. CASE Replaced
    BY <1>8 DEF Replaced, IoType, OpenRec, Asked, Mirrored, Backed, AnsweredAs
  <1>9. CASE Restored  BY <1>9, AdoptKeeps, Zenon
  <1>10. CASE UNCHANGED ioVars
    BY <1>10 DEF ioVars, IoType, OpenRec, Asked, Mirrored, Backed, AnsweredAs
  <1> QED  BY <1>1, <1>2, <1>3, <1>4, <1>5, <1>6, <1>7, <1>8, <1>9, <1>10, Zenon DEF IoNext

\* However opens, closes, replaced copies and restarts follow each other, no
\* open is answered in a way the kernel refuses, and no passthrough handle reads
\* a copy older than the one its open looked at.
THEOREM ModesStayAgreed == IoSpec => []ModesAgree
  <1>1. IoInv => ModesAgree
    BY Zenon DEF IoInv, ModesAgree, NoOpenRefused, BackingNotStale, Backed, AnsweredAs
  <1> QED  BY <1>1, IoInitially, IoStep, PTL DEF IoSpec

-----------------------------------------------------------------------------
(***************************************************************************)
(* Pools: mutations get their workers in ticket order, so the oldest       *)
(* unfinished one always has or gets a worker, for any number of workers,  *)
(* paths and jobs, as long as a thread is refused only while no job is     *)
(* queued (~Strands).                                                      *)
(***************************************************************************)

Stages == {"ticketed", "spawning", "queued", "running", "refused", "done"}
Job == [path : Paths, at : Stages, settles : Nat]

\* The jobs that have a worker, counting one that is being started.
Manned == At({"spawning", "running"})

PoolTypes ==
    /\ jobs \in Seq(Job) /\ queue \in Seq(Nat)
    /\ idle \in Nat /\ active \in Nat

\* The queue holds the queued jobs, oldest first.
QueueInOrder ==
    /\ \A p \in DOMAIN queue : queue[p] \in At({"queued"})
    /\ \A p, q \in DOMAIN queue : p < q => queue[p] < queue[q]
    /\ \A j \in At({"queued"}) : \E p \in DOMAIN queue : queue[p] = j

\* Only the newest ticket can still be without a place.
NewestTicketed == \A j \in At({"ticketed"}) : \A i \in DOMAIN jobs : i <= j

WorkersCounted == active = idle + Cardinality(Manned) /\ active <= MaxWorkers

\* A queued job that no lingering worker is about to take is younger than
\* every job that has a worker.
MannedByAge ==
    \A p \in DOMAIN queue : p <= idle \/ \A i \in Manned : i < queue[p]

\* The inductive invariant.
PoolInv ==
    /\ PoolTypes /\ QueueInOrder /\ NewestTicketed
    /\ WorkersCounted /\ NoNeedlessWait /\ MannedByAge

\* ks is js with job j moved on to stage s, and what that means.
Advanced(ks, js, j, s) == ks = [js EXCEPT ![j].at = s]
Stepped(ks, js, j, s) ==
    /\ ks \in Seq(Job) /\ DOMAIN ks = DOMAIN js
    /\ ks[j].at = s /\ \A i \in DOMAIN js : i # j => ks[i].at = js[i].at

LEMMA Moved ==
    ASSUME NEW js \in Seq(Job), NEW j \in DOMAIN js, NEW s \in Stages, NEW ks, Advanced(ks, js, j, s)
    PROVE  Stepped(ks, js, j, s)
<1> DEFINE r == [js[j] EXCEPT !.at = s]
<1>1. js[j] \in Job  OBVIOUS
<1>2. r \in Job /\ r.at = s  BY <1>1, Zenon DEF Job
<1>3. ks = [js EXCEPT ![j] = r]  BY Zenon DEF Advanced
<1> HIDE DEF r
<1>4. DOMAIN ks = DOMAIN js /\ ks[j] = r /\ \A i \in DOMAIN js : i # j => ks[i] = js[i]
  BY <1>3, Zenon
<1>5. ks \in Seq(Job)  BY <1>2, <1>3
<1> QED  BY <1>2, <1>4, <1>5, Zenon DEF Stepped

LEMMA MannedFinite ==
    ASSUME PoolTypes PROVE IsFiniteSet(Manned) /\ Cardinality(Manned) \in Nat
<1>1. Manned \in SUBSET (1 .. Len(jobs)) /\ Len(jobs) \in Nat  BY DEF Manned, At, PoolTypes
<1>2. IsFiniteSet(1 .. Len(jobs))  BY <1>1, FS_Interval
<1>3. IsFiniteSet(Manned)  BY <1>1, <1>2, FS_Subset, Zenon
<1> QED  BY <1>3, FS_CardinalityType, Zenon

LEMMA InitPoolInv == PoolsInit => PoolInv
<1> SUFFICES ASSUME PoolsInit PROVE PoolInv  BY Zenon
<1>1. PoolTypes  BY DEF PoolsInit, PoolTypes
<1>2. DOMAIN jobs = {} /\ DOMAIN queue = {} /\ Len(queue) = 0  BY DEF PoolsInit
<1>3. Manned = {}  BY <1>2, Zenon DEF Manned, At
<1>4. QueueInOrder /\ NewestTicketed /\ MannedByAge
  BY <1>2, Zenon DEF QueueInOrder, NewestTicketed, MannedByAge, At
<1>5. WorkersCounted
  BY <1>3, FS_EmptySet, PoolsAssumption DEF WorkersCounted, PoolsInit
<1>6. NoNeedlessWait  BY <1>2 DEF NoNeedlessWait, PoolsInit
<1> QED  BY <1>1, <1>4, <1>5, <1>6, Zenon DEF PoolInv

LEMMA TakeTicketInv ==
    ASSUME PoolInv, NEW p \in Paths, TakeTicket(p) PROVE PoolInv'
<1> USE DEF PoolInv
<1> DEFINE n == Len(jobs) + 1
<1>1. /\ jobs' \in Seq(Job) /\ n \in Nat /\ DOMAIN jobs = 1 .. Len(jobs) /\ DOMAIN jobs' = 1 .. n
      /\ jobs'[n].at = "ticketed" /\ \A i \in DOMAIN jobs : jobs'[i] = jobs[i]
  BY DEF TakeTicket, PoolTypes, Job, Stages
<1>2. /\ active' = active /\ idle' = idle /\ queue' = queue /\ At({"ticketed"}) = {}
  BY Zenon DEF TakeTicket
<1> HIDE DEF n
<1>3. n \notin DOMAIN jobs /\ DOMAIN jobs' = DOMAIN jobs \cup {n} /\ \A i \in DOMAIN jobs : i < n
  BY <1>1 DEF n, PoolTypes
<1>4. PoolTypes'  BY <1>1, <1>2, Zenon DEF PoolTypes
<1>5. Manned' = Manned /\ At({"queued"})' = At({"queued"}) /\ At({"ticketed"})' = {n}
  BY <1>1, <1>2, <1>3, Zenon DEF Manned, At
<1>6. QueueInOrder' /\ MannedByAge'
  BY <1>2, <1>5, Zenon DEF QueueInOrder, MannedByAge
<1>7. NewestTicketed'  BY <1>1, <1>3, <1>5 DEF NewestTicketed
<1>8. WorkersCounted' /\ NoNeedlessWait'
  BY <1>2, <1>5, Zenon DEF WorkersCounted, NoNeedlessWait
<1> QED  BY <1>4, <1>6, <1>7, <1>8, Zenon

\* What a ticketed job's submit does: a worker for it, the queue, or neither.
LEMMA SubmitInv ==
    ASSUME PoolInv, NEW j \in DOMAIN jobs, submit(j) PROVE PoolInv'
<1> USE DEF PoolInv
<1>1. /\ jobs[j].at = "ticketed" /\ idle' = idle /\ j \in Nat /\ \A i \in DOMAIN jobs : i <= j /\ i \in Nat
      /\ Len(queue) \in Nat /\ DOMAIN queue = 1 .. Len(queue) /\ MaxWorkers \in Nat
  BY PoolsAssumption DEF submit, NewestTicketed, At, PoolTypes
<1>2. IsFiniteSet(Manned) /\ Cardinality(Manned) \in Nat  BY MannedFinite, Zenon
<1>3. CASE ~FreeWorker /\ active < MaxWorkers
  <2>1. active' = active + 1 /\ jobs' = [jobs EXCEPT ![j].at = "spawning"] /\ queue' = queue
    BY <1>3, Zenon DEF submit
  <2>2. /\ jobs' \in Seq(Job) /\ DOMAIN jobs' = DOMAIN jobs
        /\ jobs'[j].at = "spawning" /\ \A i \in DOMAIN jobs : i # j => jobs'[i].at = jobs[i].at
    <3>1. Advanced(jobs', jobs, j, "spawning")  BY <2>1, Zenon DEF Advanced
    <3>2. "spawning" \in Stages /\ jobs \in Seq(Job)  BY Zenon DEF Stages, PoolTypes
    <3> QED  BY <3>1, <3>2, Moved DEF Stepped
  <2>3. /\ Manned' = Manned \cup {j} /\ j \notin Manned
        /\ At({"queued"})' = At({"queued"}) /\ At({"ticketed"})' \subseteq At({"ticketed"})
    BY <1>1, <2>2, Zenon DEF Manned, At
  <2>4. Cardinality(Manned') = Cardinality(Manned) + 1  BY <1>2, <2>3, FS_AddElement, Zenon
  <2>5. PoolTypes'  BY <1>1, <2>1, <2>2 DEF PoolTypes
  <2>6. QueueInOrder'  BY <2>1, <2>3, Zenon DEF QueueInOrder
  <2>7. NewestTicketed'  BY <2>2, <2>3, Zenon DEF NewestTicketed
  <2>8. WorkersCounted'
    BY <1>1, <1>2, <1>3, <2>1, <2>4 DEF WorkersCounted, PoolTypes
  \* Without a free worker but with one to start, idle workers and queued jobs match.
  <2>9. Len(queue) <= idle
    BY <1>1, <1>3 DEF NoNeedlessWait, PoolTypes
  <2>10. NoNeedlessWait' /\ MannedByAge'
    BY <1>1, <2>1, <2>9 DEF NoNeedlessWait, MannedByAge, PoolTypes
  <2> QED  BY <2>5, <2>6, <2>7, <2>8, <2>10, Zenon
<1>4. CASE ~(~FreeWorker /\ active < MaxWorkers) /\ (FreeWorker \/ Len(queue) < QueueCap)
  <2>1. active' = active /\ jobs' = [jobs EXCEPT ![j].at = "queued"] /\ queue' = Append(queue, j)
    BY <1>4, Zenon DEF submit
  <2>2. /\ jobs' \in Seq(Job) /\ DOMAIN jobs' = DOMAIN jobs
        /\ jobs'[j].at = "queued" /\ \A i \in DOMAIN jobs : i # j => jobs'[i].at = jobs[i].at
    <3>1. Advanced(jobs', jobs, j, "queued")  BY <2>1, Zenon DEF Advanced
    <3>2. "queued" \in Stages /\ jobs \in Seq(Job)  BY Zenon DEF Stages, PoolTypes
    <3> QED  BY <3>1, <3>2, Moved DEF Stepped
  <2>3. /\ Manned' = Manned /\ j \notin Manned /\ j \notin At({"queued"})
        /\ At({"queued"})' = At({"queued"}) \cup {j} /\ At({"ticketed"})' \subseteq At({"ticketed"})
    BY <1>1, <2>2, Zenon DEF Manned, At
  <2>4. /\ queue' \in Seq(Nat) /\ Len(queue') = Len(queue) + 1 /\ DOMAIN queue' = 1 .. Len(queue) + 1
        /\ \A p \in DOMAIN queue : queue'[p] = queue[p]
        /\ queue'[Len(queue) + 1] = j
    BY <1>1, <2>1 DEF PoolTypes
  <2>5. PoolTypes'  BY <1>1, <2>1, <2>2, <2>4, Zenon DEF PoolTypes
  \* The newest job goes to the end.
  <2>6. ASSUME NEW p \in DOMAIN queue PROVE queue[p] \in DOMAIN jobs /\ queue[p] < j
    <3>1. queue[p] \in At({"queued"})  BY Zenon DEF QueueInOrder
    <3>2. queue[p] \in DOMAIN jobs  BY <3>1, Zenon DEF At
    <3>3. queue[p] # j  BY <2>3, <3>1, Zenon
    <3>4. queue[p] \in Nat /\ queue[p] <= j /\ j \in Nat  BY <1>1, <3>2, Zenon
    <3>5. queue[p] < j  BY <3>3, <3>4
    <3> QED  BY <3>2, <3>5, Zenon
  <2>7. QueueInOrder'
    <3>1. \A p \in DOMAIN queue' : queue'[p] \in At({"queued"})'
      BY <1>1, <2>3, <2>4 DEF QueueInOrder
    <3>2. ASSUME NEW p \in DOMAIN queue', NEW q \in DOMAIN queue', p < q PROVE queue'[p] < queue'[q]
      <4>1. PICK n \in Nat : n = Len(queue) /\ DOMAIN queue = 1..n  BY DEF PoolTypes
      <4>2. p \in 1..n + 1 /\ q \in 1..n + 1  BY <2>4, <4>1, Zenon
      <4>3. p \in DOMAIN queue /\ (q \in DOMAIN queue \/ q = n + 1)  BY <3>2, <4>1, <4>2
      <4>4. CASE q \in DOMAIN queue
        <5>1. queue[p] < queue[q]  BY <3>2, <4>3, <4>4, Zenon DEF QueueInOrder
        <5> QED  BY <2>4, <4>3, <4>4, <5>1, Zenon
      <4>5. CASE q = n + 1
        <5>1. queue'[p] = queue[p] /\ queue'[q] = j  BY <2>4, <4>1, <4>3, <4>5, Zenon
        <5> QED  BY <2>6, <4>3, <5>1, Zenon
      <4> QED  BY <4>3, <4>4, <4>5, Zenon
    <3>3. \A i \in At({"queued"})' : \E p \in DOMAIN queue' : queue'[p] = i
      BY <1>1, <2>3, <2>4 DEF QueueInOrder
    <3> QED  BY <3>1, <3>2, <3>3, Zenon DEF QueueInOrder
  <2>8. NewestTicketed'  BY <2>2, <2>3, Zenon DEF NewestTicketed
  <2>9. WorkersCounted'  BY <1>1, <2>1, <2>3, Zenon DEF WorkersCounted
  <2>10. NoNeedlessWait'
    BY <1>1, <1>4, <2>1, <2>4 DEF NoNeedlessWait, WorkersCounted, PoolTypes, FreeWorker
  <2>11. \A i \in Manned : i < j  BY <1>1, <2>3 DEF Manned, At
  <2>12. MannedByAge'
    BY <1>1, <2>3, <2>4, <2>11 DEF MannedByAge
  <2> QED  BY <2>5, <2>7, <2>8, <2>9, <2>10, <2>12, Zenon
<1>5. CASE ~(~FreeWorker /\ active < MaxWorkers) /\ ~(FreeWorker \/ Len(queue) < QueueCap)
  <2>1. active' = active /\ jobs' = [jobs EXCEPT ![j].at = "refused"] /\ queue' = queue
    BY <1>5, Zenon DEF submit
  <2>2. /\ jobs' \in Seq(Job) /\ DOMAIN jobs' = DOMAIN jobs
        /\ jobs'[j].at = "refused" /\ \A i \in DOMAIN jobs : i # j => jobs'[i].at = jobs[i].at
    <3>1. Advanced(jobs', jobs, j, "refused")  BY <2>1, Zenon DEF Advanced
    <3>2. "refused" \in Stages /\ jobs \in Seq(Job)  BY Zenon DEF Stages, PoolTypes
    <3> QED  BY <3>1, <3>2, Moved DEF Stepped
  <2>3. /\ Manned' = Manned
        /\ At({"queued"})' = At({"queued"}) /\ At({"ticketed"})' \subseteq At({"ticketed"})
    BY <1>1, <2>2, Zenon DEF Manned, At
  <2> QED
    BY <1>1, <2>1, <2>2, <2>3
    DEF PoolTypes, QueueInOrder, NewestTicketed, WorkersCounted, NoNeedlessWait, MannedByAge
<1> QED  BY <1>3, <1>4, <1>5, Zenon

LEMMA StartWorkerInv ==
    ASSUME PoolInv, ~Strands, NEW j \in DOMAIN jobs, start_worker(j) PROVE PoolInv'
<1> USE DEF PoolInv
<1>1. /\ jobs[j].at = "spawning" /\ idle' = idle /\ queue' = queue
      /\ Len(queue) \in Nat /\ DOMAIN queue = 1 .. Len(queue) /\ MaxWorkers \in Nat
  BY PoolsAssumption DEF start_worker, PoolTypes
<1>2. IsFiniteSet(Manned) /\ Cardinality(Manned) \in Nat  BY MannedFinite, Zenon
<1>3. CASE jobs' = [jobs EXCEPT ![j].at = "running"] /\ active' = active
  <2>1. /\ jobs' \in Seq(Job) /\ DOMAIN jobs' = DOMAIN jobs
        /\ jobs'[j].at = "running" /\ \A i \in DOMAIN jobs : i # j => jobs'[i].at = jobs[i].at
    <3>1. Advanced(jobs', jobs, j, "running")  BY <1>3, Zenon DEF Advanced
    <3>2. "running" \in Stages /\ jobs \in Seq(Job)  BY Zenon DEF Stages, PoolTypes
    <3> QED  BY <3>1, <3>2, Moved DEF Stepped
  <2>2. /\ Manned' = Manned
        /\ At({"queued"})' = At({"queued"}) /\ At({"ticketed"})' = At({"ticketed"})
    BY <1>1, <2>1, Zenon DEF Manned, At
  <2> QED
    BY <1>1, <1>3, <2>1, <2>2, Zenon
    DEF PoolTypes, QueueInOrder, NewestTicketed, WorkersCounted, NoNeedlessWait, MannedByAge
<1>4. CASE queue = <<>> /\ active' = active - 1 /\ jobs' = [jobs EXCEPT ![j].at = "refused"]
  <2>1. /\ jobs' \in Seq(Job) /\ DOMAIN jobs' = DOMAIN jobs
        /\ jobs'[j].at = "refused" /\ \A i \in DOMAIN jobs : i # j => jobs'[i].at = jobs[i].at
    <3>1. Advanced(jobs', jobs, j, "refused")  BY <1>4, Zenon DEF Advanced
    <3>2. "refused" \in Stages /\ jobs \in Seq(Job)  BY Zenon DEF Stages, PoolTypes
    <3> QED  BY <3>1, <3>2, Moved DEF Stepped
  <2>2. /\ Manned' = Manned \ {j} /\ j \in Manned
        /\ At({"queued"})' = At({"queued"}) /\ At({"ticketed"})' = At({"ticketed"})
    BY <1>1, <2>1, Zenon DEF Manned, At
  <2>3. Cardinality(Manned') = Cardinality(Manned) - 1 /\ Cardinality(Manned') \in Nat
    BY <1>2, <2>2, FS_RemoveElement, FS_CardinalityType, Zenon
  <2>4. WorkersCounted' /\ active' \in Nat
    BY <1>1, <1>2, <1>4, <2>3 DEF WorkersCounted, PoolTypes
  <2>5. DOMAIN queue = {} /\ Len(queue) = 0  BY <1>4
  <2>6. PoolTypes'  BY <1>1, <2>1, <2>4, Zenon DEF PoolTypes
  <2>7. QueueInOrder' /\ NewestTicketed' /\ NoNeedlessWait' /\ MannedByAge'
    BY <1>1, <2>1, <2>2, <2>5
    DEF PoolTypes, QueueInOrder, NewestTicketed, NoNeedlessWait, MannedByAge
  <2> QED  BY <2>4, <2>6, <2>7, Zenon
<1> QED  BY <1>3, <1>4, Zenon DEF start_worker

\* A wait that is begun or given up moves no job on.
LEMMA SettlesInv ==
    ASSUME PoolInv, NEW j \in DOMAIN jobs, NEW n \in Nat, jobs' = [jobs EXCEPT ![j].settles = n],
           UNCHANGED <<active, idle, queue>>
    PROVE  PoolInv'
<1> USE DEF PoolInv
<1> DEFINE r == [jobs[j] EXCEPT !.settles = n]
<1>1. jobs \in Seq(Job) /\ jobs[j] \in Job  BY DEF PoolTypes
<1>2. r \in Job /\ r.at = jobs[j].at  BY <1>1, Zenon DEF Job
<1>3. jobs' = [jobs EXCEPT ![j] = r]  BY Zenon
<1> HIDE DEF r
<1>4. jobs' \in Seq(Job) /\ DOMAIN jobs' = DOMAIN jobs /\ \A i \in DOMAIN jobs : jobs'[i].at = jobs[i].at
  BY <1>1, <1>2, <1>3
<1>5. /\ Manned' = Manned
      /\ At({"queued"})' = At({"queued"}) /\ At({"ticketed"})' = At({"ticketed"})
  BY <1>4, Zenon DEF Manned, At
<1> QED
  BY <1>4, <1>5, Zenon
  DEF PoolTypes, QueueInOrder, NewestTicketed, WorkersCounted, NoNeedlessWait, MannedByAge

\* A worker that takes the oldest queued job leaves the rest in order.
LEMMA HeadTaken ==
    ASSUME PoolInv, queue # <<>>, queue' = Tail(queue),
           At({"queued"})' = At({"queued"}) \ {Head(queue)},
           Manned' \subseteq Manned \cup {Head(queue)},
           idle' \in Nat, idle' >= idle - 1
    PROVE  QueueInOrder' /\ MannedByAge' /\ queue' \in Seq(Nat) /\ Len(queue') = Len(queue) - 1
<1> USE DEF PoolInv
<1>1. /\ Len(queue) \in Nat \ {0} /\ DOMAIN queue = 1 .. Len(queue) /\ Head(queue) = queue[1]
      /\ queue' \in Seq(Nat) /\ Len(queue') = Len(queue) - 1 /\ DOMAIN queue' = 1 .. Len(queue) - 1
      /\ \A p \in 1 .. Len(queue) - 1 : queue'[p] = queue[p + 1]
      /\ \A p \in DOMAIN queue : queue[p] \in Nat
  BY DEF PoolTypes
<1>2. \A p \in DOMAIN queue : p # 1 => queue[1] < queue[p]
  BY <1>1 DEF QueueInOrder
<1>3. QueueInOrder'
  <2> \A p \in DOMAIN queue' : /\ p \in Nat /\ p + 1 \in DOMAIN queue /\ p + 1 # 1
                               /\ queue'[p] = queue[p + 1]
    BY <1>1
  <2>1. ASSUME NEW p \in DOMAIN queue' PROVE queue'[p] \in At({"queued"})'
    <3>1. queue[p + 1] \in At({"queued"})  BY Zenon DEF QueueInOrder
    <3>2. queue[p + 1] # Head(queue)  BY <1>1, <1>2
    <3> QED  BY <3>1, <3>2, Zenon
  <2>2. ASSUME NEW p \in DOMAIN queue', NEW q \in DOMAIN queue', p < q PROVE queue'[p] < queue'[q]
    <3>1. p + 1 < q + 1  BY <2>2
    <3> QED  BY <3>1, Zenon DEF QueueInOrder
  <2>3. ASSUME NEW i \in At({"queued"})' PROVE \E p \in DOMAIN queue' : queue'[p] = i
    <3>1. PICK p \in DOMAIN queue : queue[p] = i /\ p # 1  BY <1>1, <2>3 DEF QueueInOrder
    <3>2. p - 1 \in DOMAIN queue' /\ queue'[p - 1] = i  BY <1>1, <3>1
    <3> QED  BY <3>2, Zenon
  <2> QED  BY <2>1, <2>2, <2>3, Zenon DEF QueueInOrder
<1>4. MannedByAge'
  <2> SUFFICES ASSUME NEW p \in DOMAIN queue', ~(p <= idle'), NEW i \in Manned' PROVE i < queue'[p]
    BY Zenon DEF MannedByAge
  <2>1. p + 1 \in DOMAIN queue /\ queue'[p] = queue[p + 1] /\ ~(p + 1 <= idle) /\ p + 1 # 1
    BY <1>1 DEF PoolTypes
  <2>2. \A m \in Manned : m < queue[p + 1]  BY <2>1, Zenon DEF MannedByAge
  <2> QED  BY <1>1, <1>2, <2>1, <2>2, Zenon
<1> QED  BY <1>1, <1>3, <1>4, Zenon

LEMMA WorkInv ==
    ASSUME PoolInv, NEW j \in DOMAIN jobs, work(j) PROVE PoolInv'
<1> USE DEF PoolInv
<1>1. jobs[j].at = "running" /\ jobs \in Seq(Job) /\ MaxWorkers \in Nat
  BY PoolsAssumption, Zenon DEF work, PoolTypes
<1>2. IsFiniteSet(Manned) /\ Cardinality(Manned) \in Nat /\ j \in Manned
  BY <1>1, MannedFinite, Zenon DEF Manned, At
<1>3. IsFiniteSet(Manned \ {j}) /\ Cardinality(Manned \ {j}) = Cardinality(Manned) - 1
      /\ Cardinality(Manned \ {j}) \in Nat
  BY <1>2, FS_RemoveElement, FS_CardinalityType, Zenon
<1>4. CASE queue # <<>>
  <2> DEFINE h == Head(queue)
             mid == [jobs EXCEPT ![j].at = "done"]
  <2>1. /\ jobs' = [mid EXCEPT ![h].at = "running"]
        /\ queue' = Tail(queue) /\ active' = active /\ idle' = idle
    BY <1>4, Zenon DEF work
  <2>2. h \in At({"queued"})  BY <1>4 DEF QueueInOrder, PoolTypes
  <2>3. h \in DOMAIN jobs /\ jobs[h].at = "queued" /\ h # j  BY <1>1, <2>2, Zenon DEF At
  <2>4. Stepped(mid, jobs, j, "done")
    BY <1>1, Moved, Zenon DEF Advanced, Stages
  <2> HIDE DEF mid, h
  <2>5. mid \in Seq(Job) /\ h \in DOMAIN mid /\ Advanced(jobs', mid, h, "running") /\ "running" \in Stages
    BY <2>1, <2>3, <2>4, Zenon DEF Stepped, Advanced, Stages
  <2>6. Stepped(jobs', mid, h, "running")  BY <2>5, Moved, Zenon
  <2>7. /\ jobs' \in Seq(Job) /\ DOMAIN jobs' = DOMAIN jobs
        /\ jobs'[j].at = "done" /\ jobs'[h].at = "running"
        /\ \A i \in DOMAIN jobs : i # j /\ i # h => jobs'[i].at = jobs[i].at
    BY <2>3, <2>4, <2>6, Zenon DEF Stepped
  <2>8. /\ Manned' = (Manned \ {j}) \cup {h} /\ h \notin Manned \ {j}
        /\ At({"queued"})' = At({"queued"}) \ {h} /\ At({"ticketed"})' = At({"ticketed"})
    BY <1>1, <2>3, <2>7, Zenon DEF Manned, At
  <2>9. Cardinality(Manned') = Cardinality(Manned)
    <3>1. Cardinality((Manned \ {j}) \cup {h}) = Cardinality(Manned \ {j}) + 1
      BY <1>3, <2>8, FS_AddElement, Zenon
    <3> QED  BY <1>2, <1>3, <2>8, <3>1
  <2>10. QueueInOrder' /\ MannedByAge' /\ queue' \in Seq(Nat) /\ Len(queue') = Len(queue) - 1
    <3>1. idle \in Nat /\ idle' \in Nat /\ idle' >= idle - 1  BY <2>1 DEF PoolTypes
    <3>2. Manned' \subseteq Manned \cup {h}  BY <2>8, Zenon
    <3> QED  BY <1>4, <2>1, <2>8, <3>1, <3>2, HeadTaken, Zenon DEF h
  <2>11. PoolTypes'  BY <2>1, <2>7, <2>10, Zenon DEF PoolTypes
  <2>12. NewestTicketed' /\ WorkersCounted'
    BY <1>1, <2>1, <2>7, <2>8, <2>9, Zenon DEF NewestTicketed, WorkersCounted
  <2>13. NoNeedlessWait'
    BY <2>1, <2>10 DEF NoNeedlessWait, PoolTypes
  <2> QED  BY <2>10, <2>11, <2>12, <2>13, Zenon
<1>5. CASE queue = <<>>
  <2>1. /\ jobs' = [jobs EXCEPT ![j].at = "done"] /\ queue' = queue
        /\ \/ idle' = idle + 1 /\ active' = active
           \/ active' = active - 1 /\ idle' = idle
    BY <1>5, Zenon DEF work
  <2>2. Stepped(jobs', jobs, j, "done")
    BY <1>1, <2>1, Moved, Zenon DEF Advanced, Stages
  <2>3. /\ Manned' = Manned \ {j}
        /\ At({"queued"})' = At({"queued"}) /\ At({"ticketed"})' = At({"ticketed"})
    BY <1>1, <2>2, Zenon DEF Manned, At, Stepped
  <2>4. WorkersCounted' /\ active' \in Nat /\ idle' \in Nat
    <3>1. Cardinality(Manned') = Cardinality(Manned) - 1  BY <1>3, <2>3, Zenon
    <3>2. /\ active = idle + Cardinality(Manned) /\ active <= MaxWorkers
          /\ active \in Nat /\ idle \in Nat /\ Cardinality(Manned) - 1 \in Nat
      BY <1>3, Zenon DEF WorkersCounted, PoolTypes
    <3>3. /\ active' = idle' + (Cardinality(Manned) - 1) /\ active' <= MaxWorkers
          /\ active' \in Nat /\ idle' \in Nat
      <4> DEFINE c == Cardinality(Manned)
      <4>1. c \in Nat /\ c - 1 \in Nat /\ active = idle + c  BY <1>2, <3>2, Zenon
      <4> HIDE DEF c
      <4>2. CASE idle' = idle + 1 /\ active' = active  BY <3>2, <4>1, <4>2 DEF c
      <4>3. CASE active' = active - 1 /\ idle' = idle  BY <1>1, <3>2, <4>1, <4>3 DEF c
      <4> QED  BY <2>1, <4>2, <4>3, Zenon
    <3> QED  BY <3>1, <3>3, Zenon DEF WorkersCounted
  <2>5. DOMAIN queue = {} /\ Len(queue) = 0  BY <1>5
  <2>6. PoolTypes'  BY <2>1, <2>2, <2>4, Zenon DEF PoolTypes, Stepped
  <2>7. NewestTicketed'  BY <2>2, <2>3, Zenon DEF NewestTicketed, Stepped
  <2>8. QueueInOrder' /\ NoNeedlessWait' /\ MannedByAge'
    BY <2>1, <2>3, <2>4, <2>5 DEF QueueInOrder, NoNeedlessWait, MannedByAge
  <2> QED  BY <2>4, <2>6, <2>7, <2>8, Zenon
<1> QED  BY <1>4, <1>5, Zenon

LEMMA LingeredInv ==
    ASSUME PoolInv, Lingered PROVE PoolInv'
<1> USE DEF PoolInv
<1>1. /\ idle > 0 /\ idle' = idle - 1 /\ idle' \in Nat /\ idle' >= idle - 1
      /\ jobs \in Seq(Job) /\ MaxWorkers \in Nat
  BY PoolsAssumption DEF Lingered, PoolTypes
<1>2. IsFiniteSet(Manned) /\ Cardinality(Manned) \in Nat  BY MannedFinite, Zenon
<1>3. CASE queue # <<>>
  <2> DEFINE h == Head(queue)
  <2>1. jobs' = [jobs EXCEPT ![h].at = "running"] /\ queue' = Tail(queue) /\ active' = active
    BY <1>3, Zenon DEF Lingered
  <2>2. h \in At({"queued"})  BY <1>3 DEF QueueInOrder, PoolTypes
  <2>3. h \in DOMAIN jobs /\ jobs[h].at = "queued"  BY <2>2, Zenon DEF At
  <2> HIDE DEF h
  <2>4. Stepped(jobs', jobs, h, "running")
    BY <1>1, <2>1, <2>3, Moved, Zenon DEF Advanced, Stages
  <2>5. /\ Manned' = Manned \cup {h} /\ h \notin Manned
        /\ At({"queued"})' = At({"queued"}) \ {h} /\ At({"ticketed"})' = At({"ticketed"})
    BY <2>3, <2>4, Zenon DEF Manned, At, Stepped
  <2>6. Cardinality(Manned') = Cardinality(Manned) + 1  BY <1>2, <2>5, FS_AddElement, Zenon
  <2>7. QueueInOrder' /\ MannedByAge' /\ queue' \in Seq(Nat) /\ Len(queue') = Len(queue) - 1
    BY <1>1, <1>3, <2>1, <2>5, HeadTaken, Zenon DEF h
  <2>8. PoolTypes'  BY <1>1, <2>1, <2>4, <2>7, Zenon DEF PoolTypes, Stepped
  <2>9. NewestTicketed'  BY <2>4, <2>5, Zenon DEF NewestTicketed, Stepped
  <2>10. WorkersCounted'
    BY <1>1, <1>2, <2>1, <2>6 DEF WorkersCounted, PoolTypes
  <2>11. NoNeedlessWait'
    BY <1>1, <2>1, <2>7 DEF NoNeedlessWait, PoolTypes
  <2> QED  BY <2>7, <2>8, <2>9, <2>10, <2>11, Zenon
<1>4. CASE queue = <<>>
  <2>1. active' = active - 1 /\ jobs' = jobs /\ queue' = queue  BY <1>4, Zenon DEF Lingered
  <2>2. /\ Manned' = Manned
        /\ At({"queued"})' = At({"queued"}) /\ At({"ticketed"})' = At({"ticketed"})
    BY <2>1, Zenon DEF Manned, At
  <2>3. WorkersCounted' /\ active' \in Nat
    BY <1>1, <1>2, <2>1, <2>2 DEF WorkersCounted, PoolTypes
  <2>4. DOMAIN queue = {} /\ Len(queue) = 0  BY <1>4
  <2>5. PoolTypes' /\ NewestTicketed'  BY <1>1, <2>1, <2>2, <2>3, Zenon DEF PoolTypes, NewestTicketed
  <2>6. QueueInOrder' /\ NoNeedlessWait' /\ MannedByAge'
    BY <1>1, <2>1, <2>2, <2>4 DEF QueueInOrder, NoNeedlessWait, MannedByAge
  <2> QED  BY <2>3, <2>5, <2>6, Zenon
<1> QED  BY <1>3, <1>4, Zenon

LEMMA NextPoolInv ==
    ASSUME ~Strands, PoolInv, [PoolsNext]_poolVars PROVE PoolInv'
<1>1. CASE \E p \in Paths : TakeTicket(p)  BY <1>1, TakeTicketInv, Zenon
<1>2. CASE \E j \in DOMAIN jobs : submit(j) \/ start_worker(j) \/ work(j)
  BY <1>2, SubmitInv, StartWorkerInv, WorkInv, Zenon
<1>3. CASE \E j \in DOMAIN jobs : WaitsAgain(j) \/ SettleDeadline(j)
  <2>1. PICK j \in DOMAIN jobs : WaitsAgain(j) \/ SettleDeadline(j)  BY <1>3, Zenon
  <2>2. DOMAIN jobs \subseteq Nat /\ MaxJobs + 1 \in Nat
    BY PoolsAssumption DEF PoolInv, PoolTypes
  <2>3. \E n \in Nat : jobs' = [jobs EXCEPT ![j].settles = n]
    BY <2>1, <2>2, Zenon DEF WaitsAgain, SettleDeadline, Live, At
  <2>4. UNCHANGED <<active, idle, queue>>  BY <2>1, Zenon DEF WaitsAgain, SettleDeadline
  <2> QED  BY <2>3, <2>4, SettlesInv, Zenon
<1>4. CASE Lingered  BY <1>4, LingeredInv, Zenon
<1>5. CASE UNCHANGED poolVars
  BY <1>5, Zenon DEF poolVars, PoolInv, PoolTypes, QueueInOrder, NewestTicketed, WorkersCounted,
              NoNeedlessWait, MannedByAge, Manned, At
<1> QED  BY <1>1, <1>2, <1>3, <1>4, <1>5, Zenon DEF PoolsNext

\* If the oldest live job is queued, no job has a worker that is older, so all
\* the workers there are linger.
LEMMA PoolInvOldest == PoolInv => OldestHasWorker
<1> SUFFICES ASSUME PoolInv, NEW j \in Live, \A i \in Live : j <= i, jobs[j].at = "queued"
             PROVE  idle > 0
  BY Zenon DEF OldestHasWorker
<1> USE DEF PoolInv
<1>1. idle \in Nat /\ active \in Nat /\ Len(queue) \in Nat /\ DOMAIN queue = 1 .. Len(queue)
      /\ MaxWorkers \in Nat /\ MaxWorkers > 0
  BY PoolsAssumption DEF PoolTypes
<1>2. PICK p \in DOMAIN queue : queue[p] = j  BY Zenon DEF QueueInOrder, Live, At
<1>3. CASE p <= idle  BY <1>1, <1>2, <1>3
<1>4. CASE ~(p <= idle)
  <2>1. \A i \in Manned : i < j /\ i \in Live  BY <1>2, <1>4, Zenon DEF MannedByAge, Manned, Live, At
  <2>2. Live \subseteq Nat  BY DEF Live, At, PoolTypes
  <2>3. Manned = {}  BY <2>1, <2>2
  <2>4. active = idle  BY <1>1, <2>3, FS_EmptySet DEF WorkersCounted
  <2>5. active = MaxWorkers  BY <1>1, <1>2, <1>4 DEF NoNeedlessWait
  <2> QED  BY <1>1, <2>4, <2>5, Zenon
<1> QED  BY <1>3, <1>4, Zenon

\* The oldest unfinished mutation always has a worker or the next free one, so
\* tickets never wait in a circle (bg.rs, MUTATION; lib.rs, submit_mutation),
\* however many workers and jobs there are.
THEOREM OldestServed == ASSUME ~Strands PROVE PoolsSpec => []OldestHasWorker
<1>1. PoolsInit => PoolInv  BY InitPoolInv, Zenon
<1>2. PoolInv /\ [PoolsNext]_poolVars => PoolInv'  BY NextPoolInv, Zenon
<1>3. PoolInv => OldestHasWorker  BY PoolInvOldest, Zenon
<1> QED  BY <1>1, <1>2, <1>3, PTL DEF PoolsSpec

\* active counts the workers there are, never more than the pool may have, and
\* a job is queued only while all of them have one (bg.rs, Pool): no worker's
\* place is lost whatever the order of submits, ends, lingering and failures.
THEOREM NoPlaceLost == ASSUME ~Strands PROVE PoolsSpec => [](WorkersCounted /\ NoNeedlessWait)
<1>1. PoolsInit => PoolInv  BY InitPoolInv, Zenon
<1>2. PoolInv /\ [PoolsNext]_poolVars => PoolInv'  BY NextPoolInv, Zenon
<1>3. PoolInv => WorkersCounted /\ NoNeedlessWait  BY Zenon DEF PoolInv
<1> QED  BY <1>1, <1>2, <1>3, PTL DEF PoolsSpec
=============================================================================
