---------------------------- MODULE ServerProofs ----------------------------
(***************************************************************************)
(* Proofs about sharing the server: a document is locked there while it is *)
(* saved, callers share the connection slots, and listings are held back.  *)
(***************************************************************************)
EXTENDS DocLocks, Throttle, Pacing, FiniteSetTheorems, WellFoundedInduction, TLAPS

-----------------------------------------------------------------------------
(***************************************************************************)
(* DocLocks: a locked save overwrites nothing it has not seen, as long as  *)
(* nobody saves while the lock is being taken.                             *)
(***************************************************************************)

\* Two sightings of the document, an etag and the revision seen with it, agree.
Agree(p, q) == p.etag = q.etag => p.rev = q.rev

\* The records of the document, the held lock, the known version and the save.
LocksType ==
    /\ doc = [etag |-> doc.etag, rev |-> doc.rev, lock |-> doc.lock, token |-> doc.token]
    /\ doc.etag \in Nat \ {0} /\ doc.rev \in Nat /\ doc.token \in Nat
    /\ held = [on |-> held.on, token |-> held.token, vouched |-> held.vouched, ours |-> held.ours]
    /\ held.token \in Nat
    /\ known = [etag |-> known.etag, rev |-> known.rev]
    /\ known.etag \in Nat \ {0} /\ known.rev \in Nat
    /\ locker = [at |-> locker.at, etag |-> locker.etag, rev |-> locker.rev]
    /\ locker.etag \in Nat /\ locker.rev \in Nat
    /\ save = [at |-> save.at, token |-> save.token, etag |-> save.etag, rev |-> save.rev]
    /\ save.token \in Nat /\ save.etag \in Nat /\ save.rev \in Nat

\* Etags and tokens only grow, so none that was noted is one still to come.
Noted ==
    /\ known.etag <= doc.etag /\ locker.etag <= doc.etag /\ save.etag <= doc.etag
    /\ held.token <= doc.etag /\ save.token <= doc.etag

\* Whatever this mount noted of the document agrees with what the server has.
Sightings ==
    /\ Agree(known, doc)
    /\ locker.at # "idle" => Agree(locker, doc) /\ Agree(known, locker)
    /\ save.at = "sent" /\ save.etag # 0 => Agree(save, doc)

\* The server's lock is the one with token t.
Ruled(t) == doc.lock = "ours" /\ doc.token = t

\* What vouching stands in for, from the look before the LOCK to the answer of
\* the save: nobody has changed the document's content.
Vouched ==
    /\ locker.at = "taking" => held.token = NoToken
    /\ locker.at = "taking" /\ held.vouched => known.rev = doc.rev
    /\ held.token # NoToken /\ held.vouched /\ Ruled(held.token) => known.rev = doc.rev
    /\ save.at = "sent" /\ save.etag = 0 => save.token # NoToken
    /\ save.at = "sent" /\ save.etag = 0 /\ Ruled(save.token) => save.rev = doc.rev

\* The inductive invariant.
LocksInv == LocksType /\ Noted /\ Sightings /\ Vouched /\ ~overwrote

\* Nothing is locked, saved or overwritten at the start.
LEMMA LocksInitially == LocksInit => LocksInv
<1> SUFFICES ASSUME LocksInit PROVE LocksInv  OBVIOUS
<1>1. LocksType  BY DEF LocksInit, LocksType, NotHeld, Nowhere, NoSave, NoToken
<1>2. Noted  BY DEF LocksInit, Noted, NotHeld, Nowhere, NoSave, NoToken
<1>3. Sightings  BY DEF LocksInit, Sightings, Agree, NotHeld, Nowhere, NoSave, NoToken
<1>4. Vouched /\ ~overwrote  BY DEF LocksInit, Vouched, Ruled, NotHeld, Nowhere, NoSave, NoToken
<1> QED  BY <1>1, <1>2, <1>3, <1>4 DEF LocksInv

\* Every step of the locker, the saver, the server and the other client keeps the
\* invariant, when nobody else saves between the lock and the look at its etag.
LEMMA LocksStep ==
    ASSUME ForeignWhileTaking = FALSE, LocksInv, [LocksNext]_lockVars
    PROVE  LocksInv'
<1> USE DEF LocksInv, LocksType, NoToken
<1> USE DEF Noted, Sightings, Vouched, Agree, Ruled, NotHeld, Nowhere, NoSave, Touched, Look
<1>1. CASE EditorOpens
  <2>1. LocksType'  BY <1>1, Zenon DEF EditorOpens
  <2>2. Noted'  BY <1>1 DEF EditorOpens
  <2>3. Sightings'  BY <1>1, Zenon DEF EditorOpens
  <2>4. Vouched'  BY <1>1, Zenon DEF EditorOpens
  <2>5. ~overwrote'  BY <1>1, Zenon DEF EditorOpens
  <2> QED  BY <2>1, <2>2, <2>3, <2>4, <2>5, Zenon
<1>2. CASE EditorCloses
  <2>1. LocksType'  BY <1>2, Zenon DEF EditorCloses
  <2>2. Noted'  BY <1>2, Zenon DEF EditorCloses
  <2>3. Sightings'  BY <1>2, Zenon DEF EditorCloses
  <2>4. Vouched'  BY <1>2, Zenon DEF EditorCloses
  <2>5. ~overwrote'  BY <1>2, Zenon DEF EditorCloses
  <2> QED  BY <2>1, <2>2, <2>3, <2>4, <2>5, Zenon
<1>3. CASE SaveQueued
  <2>1. LocksType'  BY <1>3, Zenon DEF SaveQueued
  <2>2. Noted'  BY <1>3 DEF SaveQueued
  <2>3. Sightings'  BY <1>3, Zenon DEF SaveQueued
  <2>4. Vouched'  BY <1>3, Zenon DEF SaveQueued
  <2>5. ~overwrote'  BY <1>3, Zenon DEF SaveQueued
  <2> QED  BY <2>1, <2>2, <2>3, <2>4, <2>5, Zenon
<1>4. CASE SaveSent
  <2>1. LocksType'  BY <1>4, Zenon DEF SaveSent, Condition
  <2>2. Noted'  BY <1>4 DEF SaveSent, Condition
  <2>3. Sightings'  BY <1>4, Zenon DEF SaveSent, Condition
  <2>4. Vouched'  BY <1>4, Zenon DEF SaveSent, Condition
  <2>5. ~overwrote'  BY <1>4, Zenon DEF SaveSent, Condition
  <2> QED  BY <2>1, <2>2, <2>3, <2>4, <2>5, Zenon
<1>5. CASE SaveAnswered
  <2>1. CASE ~(Accepts(doc, save) /\ CanTouch)
    <3>1. UNCHANGED <<doc, held, overwrote, locker>> /\ save' = NoSave /\ known' = [etag |-> doc.etag, rev |-> doc.rev]
      BY <1>5, <2>1, Zenon DEF SaveAnswered
    <3>2. LocksType'  BY <3>1, Zenon
    <3>3. Noted'  BY <3>1
    <3>4. Sightings'  BY <3>1, Zenon
    <3>5. Vouched'  BY <3>1, Zenon
    <3> QED  BY <3>1, <3>2, <3>3, <3>4, <3>5, Zenon
  <2>2. CASE Accepts(doc, save) /\ CanTouch
    <3>1. PICK moved \in BOOLEAN :
            /\ doc' = IF moved THEN [Touched(doc) EXCEPT !.rev = doc.etag + 1, !.lock = "none", !.token = NoToken]
                      ELSE [Touched(doc) EXCEPT !.rev = doc.etag + 1]
            /\ held' = IF moved THEN [held EXCEPT !.token = NoToken, !.vouched = FALSE] ELSE held
            /\ overwrote' = (overwrote \/ doc.rev # save.rev)
      BY <1>5, <2>2, Zenon DEF SaveAnswered
    <3>2. doc' = [etag |-> doc.etag + 1, rev |-> doc.etag + 1, lock |-> IF moved THEN "none" ELSE doc.lock,
                  token |-> IF moved THEN NoToken ELSE doc.token]
      BY <3>1, Zenon
    <3>3. held' = [on |-> held.on, token |-> IF moved THEN NoToken ELSE held.token,
                   vouched |-> IF moved THEN FALSE ELSE held.vouched, ours |-> held.ours]
      BY <3>1, Zenon
    <3>4. UNCHANGED locker /\ save' = NoSave /\ known' = [etag |-> doc.etag + 1, rev |-> doc.etag + 1]
      BY <1>5, <3>2, Zenon DEF SaveAnswered
    <3>5. doc.rev = save.rev  BY <1>5, <2>2, Zenon DEF SaveAnswered, Accepts
    <3>6. ~overwrote'  BY <3>1, <3>5, Zenon
    <3>7. LocksType'
      <4>1. doc' = [etag |-> doc'.etag, rev |-> doc'.rev, lock |-> doc'.lock, token |-> doc'.token]
            /\ doc'.etag \in Nat \ {0} /\ doc'.rev \in Nat /\ doc'.token \in Nat
        BY <3>2
      <4>2. held' = [on |-> held'.on, token |-> held'.token, vouched |-> held'.vouched, ours |-> held'.ours]
            /\ held'.token \in Nat
        BY <3>3, Zenon
      <4> QED  BY <3>4, <4>1, <4>2
    <3>8. Noted'  BY <3>2, <3>3, <3>4
    <3>9. Sightings'  BY <3>2, <3>3, <3>4
    <3>10. Vouched'  BY <3>2, <3>3, <3>4, Zenon
    <3> QED  BY <3>6, <3>7, <3>8, <3>9, <3>10, Zenon
  <2> QED  BY <2>1, <2>2, Zenon
<1>6. CASE TakeLooks
  <2>1. LocksType'  BY <1>6, Zenon DEF TakeLooks
  <2>2. Noted'  BY <1>6 DEF TakeLooks
  <2>3. Sightings'  BY <1>6, Zenon DEF TakeLooks
  <2>4. Vouched'  BY <1>6, Zenon DEF TakeLooks
  <2>5. ~overwrote'  BY <1>6, Zenon DEF TakeLooks
  <2> QED  BY <2>1, <2>2, <2>3, <2>4, <2>5, Zenon
<1>7. CASE Taken
  <2>1. UNCHANGED <<known, save, overwrote>>  BY <1>7, Zenon DEF Taken
  <2>2. CASE ~online \/ ~CanTouch \/ doc.lock # "none"
    <3>1. UNCHANGED doc /\ locker' = Nowhere
      BY <1>7, <2>2, Zenon DEF Taken
    <3>2. held' \in {[held EXCEPT !.vouched = FALSE], [held EXCEPT !.ours = FALSE, !.vouched = FALSE]}
      BY <1>7, <2>2, Zenon DEF Taken
    <3>3. held'.vouched = FALSE /\ held'.token = held.token
            /\ held' = [on |-> held.on, token |-> held.token, vouched |-> FALSE, ours |-> held'.ours]
      BY <3>2, Zenon
    <3>4. LocksType'  BY <2>1, <3>1, <3>3, Zenon
    <3>5. Noted'  BY <2>1, <3>1, <3>3
    <3>6. Sightings'  BY <2>1, <3>1, <3>3, Zenon
    <3>7. Vouched'  BY <2>1, <3>1, <3>3, Zenon
    <3> QED  BY <2>1, <3>4, <3>5, <3>6, <3>7, Zenon
  <2>3. CASE online /\ CanTouch /\ doc.lock = "none"
    <3>1. /\ doc' = [etag |-> doc.etag + 1, rev |-> doc.rev, lock |-> "ours", token |-> doc.etag + 1]
          /\ held' = [on |-> held.on, token |-> doc.etag + 1, vouched |-> held.vouched, ours |-> TRUE]
          /\ locker' = [at |-> "taken", etag |-> locker.etag, rev |-> locker.rev]
          /\ locker.at = "taking"
      BY <1>7, <2>3 DEF Taken
    <3>2. LocksType'  BY <2>1, <3>1
    <3>3. Noted'  BY <2>1, <3>1
    <3>4. Sightings'  BY <2>1, <3>1
    <3>5. Vouched'  BY <2>1, <3>1
    <3> QED  BY <2>1, <3>2, <3>3, <3>4, <3>5, Zenon
  <2> QED  BY <2>2, <2>3, Zenon
<1>8. CASE TakenAdopted
  <2>1. LocksType'  BY <1>8, Zenon DEF TakenAdopted, Adopt, Ours
  <2>2. Noted'  BY <1>8 DEF TakenAdopted, Adopt, Ours
  <2>3. Sightings'  BY <1>8, Zenon DEF TakenAdopted, Adopt, Ours
  <2>4. Vouched'  BY <1>8, Zenon DEF TakenAdopted, Adopt, Ours
  <2>5. ~overwrote'  BY <1>8, Zenon DEF TakenAdopted, Adopt, Ours
  <2> QED  BY <2>1, <2>2, <2>3, <2>4, <2>5, Zenon
<1>9. CASE Refresh
  <2>1. LocksType'  BY <1>9, Zenon DEF Refresh
  <2>2. Noted'  BY <1>9 DEF Refresh
  <2>3. Sightings'  BY <1>9, Zenon DEF Refresh
  <2>4. Vouched'  BY <1>9, Zenon DEF Refresh
  <2>5. ~overwrote'  BY <1>9, Zenon DEF Refresh
  <2> QED  BY <2>1, <2>2, <2>3, <2>4, <2>5, Zenon
<1>10. CASE UnlockLooks
  <2>1. LocksType'  BY <1>10 DEF UnlockLooks
  <2>2. Noted'  BY <1>10 DEF UnlockLooks
  <2>3. Sightings'  BY <1>10 DEF UnlockLooks
  <2>4. Vouched'  BY <1>10 DEF UnlockLooks
  <2>5. ~overwrote'  BY <1>10, Zenon DEF UnlockLooks
  <2> QED  BY <2>1, <2>2, <2>3, <2>4, <2>5, Zenon
<1>11. CASE UnlockSent
  <2>1. /\ UNCHANGED <<held, known, save, overwrote>>
        /\ locker' = [at |-> locker'.at, etag |-> locker.etag, rev |-> locker.rev]
        /\ locker.at \in {"releasing", "renewing"} /\ locker'.at \in {"renewed", "released"}
    BY <1>11, Zenon DEF UnlockSent
  <2>2. doc' \in {doc, [etag |-> doc.etag + 1, rev |-> doc.rev, lock |-> "none", token |-> NoToken]}
    BY <1>11, Zenon DEF UnlockSent
  <2>3. LocksType'  BY <2>1, <2>2
  <2>4. Noted' /\ Sightings' /\ Vouched'  BY <2>1, <2>2
  <2> QED  BY <2>1, <2>3, <2>4, Zenon
<1>12. CASE UnlockAdopted
  <2>1. LocksType'  BY <1>12, Zenon DEF UnlockAdopted, Adopt, Ours
  <2>2. Noted'  BY <1>12 DEF UnlockAdopted, Adopt, Ours
  <2>3. Sightings'  BY <1>12, Zenon DEF UnlockAdopted, Adopt, Ours
  <2>4. Vouched'  BY <1>12, Zenon DEF UnlockAdopted, Adopt, Ours
  <2>5. ~overwrote'  BY <1>12, Zenon DEF UnlockAdopted, Adopt, Ours
  <2> QED  BY <2>1, <2>2, <2>3, <2>4, <2>5, Zenon
<1>13. CASE ForeignSave
  <2>1. /\ UNCHANGED <<held, known, locker, save, overwrote>>
        /\ doc.lock # "ours" /\ locker.at # "taking"
        /\ doc' = [etag |-> doc.etag + 1, rev |-> doc.etag + 1, lock |-> doc.lock, token |-> doc.token]
    BY <1>13, Zenon DEF ForeignSave
  <2>2. LocksType'  BY <2>1
  <2>3. Noted' /\ Sightings' /\ Vouched'  BY <2>1
  <2> QED  BY <2>1, <2>2, <2>3, Zenon
<1>14. CASE ForeignLock
  <2>1. /\ UNCHANGED <<held, known, locker, save, overwrote>>
        /\ doc.lock # "ours" /\ doc'.lock # "ours"
        /\ doc' = [etag |-> doc.etag + 1, rev |-> doc.rev, lock |-> doc'.lock, token |-> doc.token]
    BY <1>14, Zenon DEF ForeignLock
  <2>2. LocksType'  BY <2>1
  <2>3. Noted' /\ Sightings' /\ Vouched'  BY <2>1
  <2> QED  BY <2>1, <2>2, <2>3, Zenon
<1>15. CASE Expires
  <2>1. LocksType'  BY <1>15, Zenon DEF Expires
  <2>2. Noted'  BY <1>15, Zenon DEF Expires
  <2>3. Sightings'  BY <1>15, Zenon DEF Expires
  <2>4. Vouched'  BY <1>15, Zenon DEF Expires
  <2>5. ~overwrote'  BY <1>15, Zenon DEF Expires
  <2> QED  BY <2>1, <2>2, <2>3, <2>4, <2>5, Zenon
<1>16. CASE Connection
  <2>1. LocksType'  BY <1>16, Zenon DEF Connection
  <2>2. Noted'  BY <1>16, Zenon DEF Connection
  <2>3. Sightings'  BY <1>16, Zenon DEF Connection
  <2>4. Vouched'  BY <1>16, Zenon DEF Connection
  <2>5. ~overwrote'  BY <1>16, Zenon DEF Connection
  <2> QED  BY <2>1, <2>2, <2>3, <2>4, <2>5, Zenon
<1>17. CASE Listed
  <2>1. LocksType'  BY <1>17, Zenon DEF Listed
  <2>2. Noted'  BY <1>17 DEF Listed
  <2>3. Sightings'  BY <1>17, Zenon DEF Listed
  <2>4. Vouched'  BY <1>17, Zenon DEF Listed
  <2>5. ~overwrote'  BY <1>17, Zenon DEF Listed
  <2> QED  BY <2>1, <2>2, <2>3, <2>4, <2>5, Zenon
<1>18. CASE LocksRestarted
  <2>1. /\ UNCHANGED <<known, save, overwrote>> /\ locker' = Nowhere /\ save.at # "sent"
        /\ held' \in {NotHeld, [on |-> TRUE, token |-> NoToken, vouched |-> FALSE, ours |-> FALSE]}
    BY <1>18, Zenon DEF LocksRestarted, readopt
  <2>2. doc' \in {doc, [etag |-> doc.etag + 1, rev |-> doc.rev, lock |-> "none", token |-> NoToken]}
    BY <1>18, Zenon DEF LocksRestarted
  <2>3. LocksType'  BY <2>1, <2>2
  <2>4. Noted' /\ Sightings' /\ Vouched'  BY <2>1, <2>2
  <2> QED  BY <2>1, <2>3, <2>4, Zenon
<1>19. CASE UNCHANGED lockVars
  <2>1. LocksType'  BY <1>19, Zenon DEF lockVars
  <2>2. Noted'  BY <1>19, Zenon DEF lockVars
  <2>3. Sightings'  BY <1>19, Zenon DEF lockVars
  <2>4. Vouched'  BY <1>19, Zenon DEF lockVars
  <2>5. ~overwrote'  BY <1>19, Zenon DEF lockVars
  <2> QED  BY <2>1, <2>2, <2>3, <2>4, <2>5, Zenon
<1> QED
  BY <1>1, <1>2, <1>3, <1>4, <1>5, <1>6, <1>7, <1>8, <1>9, <1>10, <1>11, <1>12, <1>13, <1>14,
     <1>15, <1>16, <1>17, <1>18, <1>19 DEF LocksNext

\* A save never replaces a version the mount has not seen, with or without a lock
\* (commit_released, condition_for, set_vouched), for any number of etags and
\* restarts, when the server takes no foreign save between the LOCK and the
\* PROPFIND after it (run_app_locks' gap).
THEOREM LockedSavesSeeAll ==
    ASSUME ForeignWhileTaking = FALSE
    PROVE  LocksSpec => []NoSilentOverwrite
<1>1. LocksInit => LocksInv  BY LocksInitially, Zenon
<1>2. LocksInv /\ [LocksNext]_lockVars => LocksInv'  BY LocksStep, Zenon
<1>3. LocksInv => NoSilentOverwrite  BY Zenon DEF LocksInv, NoSilentOverwrite
<1> QED  BY <1>1, <1>2, <1>3, PTL DEF LocksSpec

-----------------------------------------------------------------------------
(***************************************************************************)
(* Throttle: no slot is lost or handed out twice, and no caller sleeps     *)
(* while the slots it needs are free, for any number of slots and callers  *)
(* and any numbers of slots they leave free.                               *)
(***************************************************************************)

\* A nonempty set of numbers has a smallest one.
LEMMA Smallest ==
    ASSUME NEW S, S \subseteq Nat, S # {}
    PROVE  \E m \in S : \A n \in S : m <= n
<1>1. PICK x \in S : \A y \in S : ~(<<y, x>> \in OpToRel(<, Nat))
  BY NatLessThanWellFounded, WFMin, Zenon
<1>2. \A y \in S : ~(y < x)  BY <1>1, Zenon DEF OpToRel
<1> QED  BY <1>2

\* The slots' part of the type invariant.
SlotsType == [in_use : 0 .. Slots, busy : SUBSET Slot, bad_until : [Slot -> Nat], next : Slot]

LEMMA SlotsFinite == IsFiniteSet(Slot) /\ Cardinality(Slot) = Slots
<1>1. 0 \in Int /\ Slots - 1 \in Int /\ ~(0 > Slots - 1) /\ Slots - 1 - 0 + 1 = Slots
  BY SlotsAssumption
<1> QED  BY <1>1, FS_Interval, Zenon DEF Slot

\* take() finds a slot: one that is not in use, whatever is quarantined.
LEMMA ChosenIsFree ==
    ASSUME NEW s \in SlotsType, s.in_use = Cardinality(s.busy), s.in_use < Slots, time \in Nat
    PROVE  chosen(s) \in Slot \ s.busy
<1> DEFINE free == Slot \ s.busy
           healthy == {i \in free : s.bad_until[i] <= time}
<1>1. free # {}
  <2>1. s.busy \subseteq Slot /\ Slots \in Nat  BY SlotsAssumption, Zenon DEF SlotsType
  <2>2. SUFFICES ASSUME free = {} PROVE FALSE  BY Zenon
  <2>3. s.busy = Slot  BY <2>1, <2>2, Zenon
  <2> QED  BY <2>1, <2>3, SlotsFinite
<1>2. free \subseteq Nat /\ \A i \in free : i \in Slot /\ s.bad_until[i] \in Nat
  BY SlotsAssumption DEF Slot, SlotsType
<1>3. CASE healthy # {}
  <2> DEFINE D == {Distance(s, i) : i \in healthy}
  <2>1. \A i \in Slot : Distance(s, i) \in Nat
    <3> SUFFICES ASSUME NEW i \in Slot PROVE Distance(s, i) \in Nat  BY Zenon
    <3>1. i \in Int /\ s.next \in Int /\ Slots \in Int /\ Slots > 0
      BY SlotsAssumption DEF Slot, SlotsType
    <3> QED  BY <3>1 DEF Distance
  <2>2. D \subseteq Nat /\ D # {}  BY <1>2, <1>3, <2>1, Zenon
  <2>3. PICK m \in D : \A n \in D : m <= n  BY <2>2, Smallest, Zenon
  <2>4. \E i \in healthy : \A j \in healthy : Distance(s, i) <= Distance(s, j)  BY <2>3
  <2> DEFINE x == CHOOSE i \in healthy : \A j \in healthy : Distance(s, i) <= Distance(s, j)
  <2>5. x \in healthy  BY <2>4, Zenon
  <2>6. chosen(s) = x  BY <1>3, Zenon DEF chosen
  <2> QED  BY <2>5, <2>6, Zenon
<1>4. CASE healthy = {}
  <2> DEFINE best(i) == \A j \in free : s.bad_until[i] < s.bad_until[j]
                                         \/ (s.bad_until[i] = s.bad_until[j] /\ i <= j)
             B == {s.bad_until[i] : i \in free}
  <2>1. PICK b \in B : \A c \in B : b <= c
    <3>1. B \subseteq Nat /\ B # {}  BY <1>1, <1>2, Zenon
    <3> QED  BY <3>1, Smallest, Zenon
  <2> DEFINE F == {i \in free : s.bad_until[i] = b}
  <2>2. PICK i \in F : \A j \in F : i <= j
    <3>1. F \subseteq Nat /\ F # {}  BY <1>2, <2>1, Zenon
    <3> QED  BY <3>1, Smallest, Zenon
  <2>3. best(i)
    <3> SUFFICES ASSUME NEW j \in free
                 PROVE  s.bad_until[i] < s.bad_until[j] \/ (s.bad_until[i] = s.bad_until[j] /\ i <= j)
      BY Zenon
    <3>1. s.bad_until[i] = b /\ b \in Nat /\ s.bad_until[j] \in Nat /\ b <= s.bad_until[j]
      BY <1>2, <2>1, <2>2, Zenon
    <3>2. s.bad_until[j] = b => i <= j  BY <2>2, Zenon
    <3> QED  BY <3>1, <3>2
  <2> DEFINE x == CHOOSE k \in free : best(k)
  <2>4. x \in free  BY <2>2, <2>3, Zenon
  <2>5. chosen(s) = x  BY <1>4, Zenon DEF chosen
  <2> QED  BY <2>4, <2>5, Zenon
<1> QED  BY <1>3, <1>4, Zenon

Caller == [at : {"idle", "asleep", "woken", "holding"}, spare : Spares \cup {0},
           timed : BOOLEAN, slot : 0 .. Slots]

\* The inductive invariant.
SlotInv == ThrottleTypeOK /\ SlotsAccounted /\ NoSleeperMissed

\* Numbers the steps compare.
LEMMA Limits ==
    /\ Slots \in Nat /\ Slots > 0 /\ Quarantine \in Nat
    /\ \A n \in Spares \cup {0} : n \in Nat /\ SlotLimit(n) \in Nat /\ SlotLimit(n) <= Slots
  BY SlotsAssumption DEF SlotLimit

LEMMA Types ==
    ASSUME ThrottleTypeOK
    PROVE  /\ slots \in SlotsType /\ caller \in [Callers -> Caller] /\ time \in Nat
           /\ slots.in_use \in Nat /\ slots.busy \subseteq Slot
  BY DEF ThrottleTypeOK, SlotsType, Caller

LEMMA InitSlotInv == ThrottleInit => SlotInv
<1> SUFFICES ASSUME ThrottleInit PROVE SlotInv  BY Zenon
<1>1. ThrottleTypeOK
  BY Limits DEF ThrottleInit, ThrottleTypeOK, NoPermit, NoSlot, Slot
<1>2. Holders = {} /\ slots.busy = {} /\ slots.in_use = 0
  BY Zenon DEF ThrottleInit, Holders, NoPermit
<1>3. SlotsAccounted  BY <1>2, FS_EmptySet, Zenon DEF SlotsAccounted
<1>4. NoSleeperMissed  BY Zenon DEF NoSleeperMissed, ThrottleInit, NoPermit
<1> QED  BY <1>1, <1>3, <1>4, Zenon DEF SlotInv

\* A caller takes a slot.
LEMMA TakesSlot ==
    ASSUME SlotInv, NEW c \in Callers, NEW p \in Caller, caller[c].at # "holding",
           slots.in_use < Slots, slots' = taken(slots), UNCHANGED time,
           caller' = [caller EXCEPT ![c] = p], p.at = "holding", p.slot = chosen(slots)
    PROVE  SlotInv'
<1> USE DEF SlotInv
<1> DEFINE x == chosen(slots)
<1>1. /\ slots \in SlotsType /\ caller \in [Callers -> Caller] /\ time \in Nat
      /\ slots.in_use \in Nat /\ slots.busy \subseteq Slot /\ Slots \in Nat /\ Slots > 0
  BY Types, Limits, Zenon
<1>2. x \in Slot \ slots.busy  BY <1>1, ChosenIsFree, Zenon DEF SlotsAccounted
<1>3. /\ slots'.in_use = slots.in_use + 1 /\ slots'.busy = slots.busy \cup {x}
      /\ slots'.bad_until = slots.bad_until /\ slots'.next = (x + 1) % Slots
      /\ slots' = [in_use |-> slots'.in_use, busy |-> slots'.busy,
                   bad_until |-> slots'.bad_until, next |-> slots'.next]
  BY <1>1, Zenon DEF taken, SlotsType
<1> HIDE DEF x
<1>4. ThrottleTypeOK'
  <2>1. (x + 1) % Slots \in Slot  BY <1>1, <1>2 DEF Slot
  <2>2. slots' \in SlotsType
    <3>1. slots'.in_use \in 0 .. Slots  BY <1>1, <1>3
    <3>2. slots'.busy \in SUBSET Slot  BY <1>1, <1>2, <1>3, Zenon
    <3>3. slots'.bad_until \in [Slot -> Nat]  BY <1>1, <1>3, Zenon DEF SlotsType
    <3> QED  BY <1>3, <2>1, <3>1, <3>2, <3>3, Zenon DEF SlotsType
  <2>3. caller' \in [Callers -> Caller]  BY <1>1, Zenon
  <2> QED  BY <1>1, <2>2, <2>3, Zenon DEF ThrottleTypeOK, SlotsType, Caller
<1>5. /\ caller'[c] = p /\ \A d \in Callers : d # c => caller'[d] = caller[d]
  BY <1>1, Zenon
<1>6. Holders' = Holders \cup {c} /\ c \notin Holders /\ Holders \subseteq Callers
  BY <1>5, Zenon DEF Holders
<1>7. \A d \in Holders : caller[d].slot \in slots.busy /\ caller'[d] = caller[d]
  BY <1>5, <1>6, Zenon DEF SlotsAccounted
<1>8. SlotsAccounted'
  <2>1. caller'[c].slot = x /\ x \notin slots.busy  BY <1>2, <1>5, Zenon DEF x
  <2>2. ASSUME NEW d \in Holders', NEW e \in Holders', caller'[d].slot = caller'[e].slot PROVE d = e
    BY <1>6, <1>7, <2>1, <2>2 DEF SlotsAccounted
  <2>3. slots'.busy = {caller'[d].slot : d \in Holders'}
    <3>1. {caller'[d].slot : d \in Holders'} = {caller[d].slot : d \in Holders} \cup {x}
      BY <1>6, <1>7, <2>1
    <3> QED  BY <1>3, <3>1, Zenon DEF SlotsAccounted
  <2>4. slots'.in_use = Cardinality(slots'.busy)
    <3>1. IsFiniteSet(slots.busy)  BY <1>1, SlotsFinite, FS_Subset, Zenon
    <3>2. Cardinality(slots.busy \cup {x}) = Cardinality(slots.busy) + 1
      BY <1>2, <3>1, FS_AddElement, Zenon
    <3> QED  BY <1>3, <3>2, Zenon DEF SlotsAccounted
  <2> QED  BY <2>2, <2>3, <2>4, Zenon DEF SlotsAccounted
<1>9. NoSleeperMissed'
  <2> SUFFICES ASSUME NEW d \in Callers, caller'[d].at = "asleep"
               PROVE  slots'.in_use >= SlotLimit(caller'[d].spare)
    BY Zenon DEF NoSleeperMissed
  <2>1. caller'[d] = caller[d] /\ caller[d].spare \in Spares \cup {0}
    BY <1>1, <1>5, Zenon DEF Caller
  <2>2. slots.in_use >= SlotLimit(caller[d].spare) /\ SlotLimit(caller[d].spare) \in Nat
    BY <2>1, Limits, Zenon DEF NoSleeperMissed
  <2> QED  BY <1>1, <1>3, <2>1, <2>2
<1> QED  BY <1>4, <1>8, <1>9, Zenon

\* A caller that takes no slot changes what it is doing, and sleeps only while
\* too few slots are free.
LEMMA TakesNone ==
    ASSUME SlotInv, NEW c \in Callers, NEW p \in Caller, caller[c].at # "holding", p.at # "holding",
           caller' = [caller EXCEPT ![c] = p], UNCHANGED <<slots, time>>,
           p.at = "asleep" => slots.in_use >= SlotLimit(p.spare)
    PROVE  SlotInv'
<1> USE DEF SlotInv
<1>1. /\ slots \in SlotsType /\ caller \in [Callers -> Caller] /\ time \in Nat  BY Types, Zenon
<1>2. /\ caller'[c] = p /\ caller' \in [Callers -> Caller]
      /\ \A d \in Callers : d # c => caller'[d] = caller[d]
  BY <1>1, Zenon
<1>3. Holders' = Holders /\ \A d \in Holders : caller'[d] = caller[d]  BY <1>2, Zenon DEF Holders
<1>4. ThrottleTypeOK'  BY <1>1, <1>2, Zenon DEF ThrottleTypeOK, SlotsType, Caller
<1>5. SlotsAccounted'
  <2>1. {caller'[d].slot : d \in Holders'} = {caller[d].slot : d \in Holders}  BY <1>3, Zenon
  <2>2. ASSUME NEW d \in Holders', NEW e \in Holders', caller'[d].slot = caller'[e].slot PROVE d = e
    BY <1>3, <2>2, Zenon DEF SlotsAccounted
  <2>3. slots'.busy = {caller'[d].slot : d \in Holders'}  BY <2>1, Zenon DEF SlotsAccounted
  <2>4. slots'.in_use = Cardinality(slots'.busy)  BY Zenon DEF SlotsAccounted
  <2> QED  BY <2>2, <2>3, <2>4, Zenon DEF SlotsAccounted
<1>6. NoSleeperMissed'  BY <1>2, Zenon DEF NoSleeperMissed
<1> QED  BY <1>4, <1>5, <1>6, Zenon

LEMMA AcquireInv ==
    ASSUME SlotInv, NEW c \in Callers, NEW spare \in Spares, NEW timed \in BOOLEAN,
           AcquireSlot(c, spare, timed)
    PROVE  SlotInv'
<1>1. /\ caller[c].at = "idle" /\ spare \in Spares \cup {0} /\ slots.in_use \in Nat
      /\ SlotLimit(spare) \in Nat /\ SlotLimit(spare) <= Slots /\ Slots \in Nat
  BY Types, Limits, Zenon DEF AcquireSlot, SlotInv
<1>2. CASE slots.in_use < SlotLimit(spare)
  <2> DEFINE p == [at |-> "holding", spare |-> spare, timed |-> timed, slot |-> chosen(slots)]
  <2>1. slots.in_use < Slots  BY <1>1, <1>2
  <2>2. chosen(slots) \in 0 .. Slots
    <3>1. slots \in SlotsType /\ time \in Nat  BY Types, Zenon DEF SlotInv
    <3>2. slots.in_use = Cardinality(slots.busy)  BY Zenon DEF SlotInv, SlotsAccounted
    <3>3. chosen(slots) \in Slot  BY <2>1, <3>1, <3>2, ChosenIsFree, Zenon
    <3> QED  BY <3>3, Limits DEF Slot
  <2>3. p \in Caller /\ p.at = "holding" /\ p.slot = chosen(slots)  BY <1>1, <2>2, Zenon DEF Caller
  <2>4. slots' = taken(slots) /\ caller' = [caller EXCEPT ![c] = p] /\ UNCHANGED time
    BY <1>2, Zenon DEF AcquireSlot
  <2> HIDE DEF p
  <2> QED  BY <1>1, <2>1, <2>3, <2>4, TakesSlot, Zenon
<1>3. CASE ~(slots.in_use < SlotLimit(spare))
  <2> DEFINE p == [at |-> "asleep", spare |-> spare, timed |-> timed, slot |-> NoSlot]
  <2>1. p \in Caller /\ p.at # "holding" /\ p.spare = spare  BY <1>1 DEF Caller, NoSlot
  <2>2. caller' = [caller EXCEPT ![c] = p] /\ UNCHANGED <<slots, time>>
    BY <1>3, Zenon DEF AcquireSlot
  <2>3. slots.in_use >= SlotLimit(spare)  BY <1>1, <1>3
  <2> HIDE DEF p
  <2> QED  BY <1>1, <2>1, <2>2, <2>3, TakesNone, Zenon
<1> QED  BY <1>2, <1>3, Zenon

LEMMA RecheckInv ==
    ASSUME SlotInv, NEW c \in Callers, SlotRecheck(c) PROVE SlotInv'
<1>1. /\ caller[c].at = "woken" /\ caller \in [Callers -> Caller] /\ caller[c] \in Caller
      /\ slots.in_use \in Nat
  BY Types, Zenon DEF SlotRecheck, SlotInv
<1>2. caller[c].spare \in Spares \cup {0}  BY <1>1, Zenon DEF Caller
<1>3. SlotLimit(caller[c].spare) \in Nat /\ SlotLimit(caller[c].spare) <= Slots /\ Slots \in Nat
  BY <1>2, Limits, Zenon
<1>4. CASE slots.in_use < SlotLimit(caller[c].spare)
  <2> DEFINE p == [caller[c] EXCEPT !.at = "holding", !.slot = chosen(slots)]
  <2>1. slots.in_use < Slots  BY <1>1, <1>3, <1>4
  <2>2. chosen(slots) \in 0 .. Slots
    <3>1. slots \in SlotsType /\ time \in Nat  BY Types, Zenon DEF SlotInv
    <3>2. slots.in_use = Cardinality(slots.busy)  BY Zenon DEF SlotInv, SlotsAccounted
    <3>3. chosen(slots) \in Slot  BY <2>1, <3>1, <3>2, ChosenIsFree, Zenon
    <3> QED  BY <3>3, Limits DEF Slot
  <2>3. p \in Caller /\ p.at = "holding" /\ p.slot = chosen(slots)  BY <1>1, <2>2, Zenon DEF Caller
  <2>4. slots' = taken(slots) /\ caller' = [caller EXCEPT ![c] = p] /\ UNCHANGED time
    BY <1>1, <1>4, Zenon DEF SlotRecheck
  <2> HIDE DEF p
  <2> QED  BY <1>1, <2>1, <2>3, <2>4, TakesSlot, Zenon
<1>5. CASE ~(slots.in_use < SlotLimit(caller[c].spare))
  <2> DEFINE p == [caller[c] EXCEPT !.at = "asleep"]
  <2>1. p \in Caller /\ p.at # "holding" /\ p.spare = caller[c].spare  BY <1>1, Zenon DEF Caller
  <2>2. caller' = [caller EXCEPT ![c] = p] /\ UNCHANGED <<slots, time>>
    BY <1>1, <1>5, Zenon DEF SlotRecheck
  <2>3. slots.in_use >= SlotLimit(caller[c].spare)  BY <1>1, <1>3, <1>5
  <2> HIDE DEF p
  <2> QED  BY <1>1, <2>1, <2>2, <2>3, TakesNone, Zenon
<1> QED  BY <1>4, <1>5, Zenon

LEMMA TimeoutInv ==
    ASSUME SlotInv, NEW c \in Callers, SlotTimeout(c) PROVE SlotInv'
<1>1. NoPermit \in Caller /\ NoPermit.at = "idle"  BY Limits DEF NoPermit, NoSlot, Caller
<1>2. caller[c].at # "holding" /\ caller' = [caller EXCEPT ![c] = NoPermit] /\ UNCHANGED <<slots, time>>
  BY Zenon DEF SlotTimeout
<1> QED  BY <1>1, <1>2, TakesNone, Zenon

\* A release gives back the caller's slot and no other, and wakes everyone.
LEMMA ReleaseInv ==
    ASSUME SlotInv, NEW c \in Callers, ReleaseSlot(c) PROVE SlotInv'
<1> USE DEF SlotInv
<1> DEFINE x == caller[c].slot
           was == [caller EXCEPT ![c] = NoPermit]
<1>1. /\ slots \in SlotsType /\ caller \in [Callers -> Caller] /\ time \in Nat /\ time' = time
      /\ slots.in_use \in Nat /\ slots.busy \subseteq Slot /\ c \in Holders
  BY Types, Zenon DEF ReleaseSlot, Holders
<1>2. /\ slots'.in_use = slots.in_use - 1 /\ slots'.busy = slots.busy \ {x}
      /\ slots'.bad_until = slots.bad_until /\ slots'.next = slots.next
      /\ slots' = [in_use |-> slots'.in_use, busy |-> slots'.busy,
                   bad_until |-> slots'.bad_until, next |-> slots'.next]
  BY <1>1, Zenon DEF ReleaseSlot, SlotsType
<1>3. NoPermit \in Caller /\ NoPermit.at = "idle"  BY Limits DEF NoPermit, NoSlot, Caller
<1>4. /\ was \in [Callers -> Caller] /\ was[c] = NoPermit
      /\ \A d \in Callers : d # c => was[d] = caller[d]
  BY <1>1, <1>3, Zenon
<1>5. caller' = [d \in Callers |-> [was[d] EXCEPT !.at = IF was[d].at = "asleep" THEN "woken" ELSE was[d].at]]
  BY Zenon DEF ReleaseSlot, Notified
<1> HIDE DEF was, x
<1>6. ASSUME NEW d \in Callers
      PROVE  /\ caller'[d] \in Caller /\ caller'[d].at # "asleep" /\ caller'[d].slot = was[d].slot
             /\ caller'[d].at = "holding" <=> was[d].at = "holding"
  <2>1. was[d] \in Caller  BY <1>4, Zenon
  <2>2. caller'[d] = [was[d] EXCEPT !.at = IF was[d].at = "asleep" THEN "woken" ELSE was[d].at]  BY <1>5, Zenon
  <2>3. CASE was[d].at = "asleep"  BY <2>1, <2>2, <2>3, Zenon DEF Caller
  <2>4. CASE was[d].at # "asleep"  BY <2>1, <2>2, <2>4, Zenon DEF Caller
  <2> QED  BY <2>3, <2>4, Zenon
<1>7. x \in slots.busy /\ \A d \in Holders : d # c => caller[d].slot # x
  BY <1>1, Zenon DEF SlotsAccounted, x
<1>8. Holders' = Holders \ {c} /\ \A d \in Holders' : caller'[d].slot = caller[d].slot
  BY <1>3, <1>4, <1>6, Zenon DEF Holders
<1>9. IsFiniteSet(slots.busy) /\ Cardinality(slots.busy \ {x}) = Cardinality(slots.busy) - 1
      /\ Cardinality(slots.busy \ {x}) \in Nat
  <2>1. IsFiniteSet(slots.busy)  BY <1>1, SlotsFinite, FS_Subset, Zenon
  <2> QED  BY <1>7, <2>1, FS_RemoveElement, FS_CardinalityType, Zenon
<1>10. ThrottleTypeOK'
  <2>1. caller' \in [Callers -> Caller]
    <3>1. caller' = [d \in Callers |-> caller'[d]]  BY <1>5, Zenon
    <3> QED  BY <1>6, <3>1, Zenon
  <2>2. slots' \in SlotsType
    <3>1. slots'.in_use \in 0 .. Slots
      <4>1. slots.in_use <= Slots /\ slots.in_use - 1 \in Nat
        BY <1>1, <1>9, Limits DEF SlotsType, SlotsAccounted
      <4> QED  BY <1>1, <1>2, <4>1, Limits
    <3>2. slots'.busy \in SUBSET Slot  BY <1>1, <1>2, Zenon
    <3>3. slots'.bad_until \in [Slot -> Nat] /\ slots'.next \in Slot  BY <1>1, <1>2, Zenon DEF SlotsType
    <3> QED  BY <1>2, <3>1, <3>2, <3>3, Zenon DEF SlotsType
  <2> QED  BY <1>1, <2>1, <2>2, Zenon DEF ThrottleTypeOK, SlotsType, Caller
<1>11. SlotsAccounted'
  <2>1. ASSUME NEW d \in Holders', NEW e \in Holders', caller'[d].slot = caller'[e].slot PROVE d = e
    BY <1>8, <2>1, Zenon DEF SlotsAccounted
  <2>2. slots'.busy = {caller'[d].slot : d \in Holders'}
    <3>1. {caller'[d].slot : d \in Holders'} = {caller[d].slot : d \in Holders \ {c}}  BY <1>8, Zenon
    <3>2. {caller[d].slot : d \in Holders \ {c}} = {caller[d].slot : d \in Holders} \ {x}
      BY <1>7, Zenon DEF x
    <3> QED  BY <1>2, <3>1, <3>2, Zenon DEF SlotsAccounted
  <2>3. slots'.in_use = Cardinality(slots'.busy)  BY <1>2, <1>9, Zenon DEF SlotsAccounted
  <2> QED  BY <2>1, <2>2, <2>3, Zenon DEF SlotsAccounted
<1>12. NoSleeperMissed'  BY <1>6, Zenon DEF NoSleeperMissed
<1> QED  BY <1>10, <1>11, <1>12, Zenon

LEMMA QuietInv ==
    ASSUME SlotInv, (\E i \in Slot : SlotStalled(i)) \/ ThrottleTick \/ UNCHANGED throttleVars
    PROVE  SlotInv'
<1> USE DEF SlotInv
<1>1. /\ slots \in SlotsType /\ caller \in [Callers -> Caller] /\ time \in Nat /\ Quarantine \in Nat
  BY Types, Limits, Zenon
<1>2. caller' = caller /\ time' \in Nat
  BY <1>1 DEF SlotStalled, ThrottleTick, throttleVars
<1>3. slots' \in SlotsType /\ slots'.busy = slots.busy /\ slots'.in_use = slots.in_use
  <2>1. CASE \E i \in Slot : SlotStalled(i)
    <3>1. PICK i \in Slot : slots' = [slots EXCEPT !.bad_until[i] = time + Quarantine]
      BY <2>1, Zenon DEF SlotStalled
    <3>2. time + Quarantine \in Nat  BY <1>1
    <3> QED  BY <1>1, <3>1, <3>2, Zenon DEF SlotsType
  <2>2. CASE ThrottleTick \/ UNCHANGED throttleVars
    BY <1>1, <2>2, Zenon DEF ThrottleTick, throttleVars
  <2> QED  BY <2>1, <2>2, Zenon
<1>4. ThrottleTypeOK'  BY <1>1, <1>2, <1>3, Zenon DEF ThrottleTypeOK, SlotsType, Caller
<1>5. Holders' = Holders  BY <1>2, Zenon DEF Holders
<1>6. SlotsAccounted' /\ NoSleeperMissed'
  BY <1>2, <1>3, <1>5 DEF SlotsAccounted, NoSleeperMissed
<1> QED  BY <1>4, <1>6, Zenon

LEMMA NextSlotInv == SlotInv /\ [ThrottleNext]_throttleVars => SlotInv'
  BY AcquireInv, RecheckInv, TimeoutInv, ReleaseInv, QuietInv, Zenon DEF ThrottleNext

\* Every slot is free or held by exactly one request, and in_use counts the
\* held ones (lib.rs, Throttle, Slots::take and release), whatever the order of
\* requests, releases, timeouts and quarantines and however many there are.
THEOREM SlotsSafe == ThrottleSpec => []SlotsAccounted
<1>1. ThrottleInit => SlotInv  BY InitSlotInv, Zenon
<1>2. SlotInv /\ [ThrottleNext]_throttleVars => SlotInv'  BY NextSlotInv, Zenon
<1>3. SlotInv => SlotsAccounted  BY Zenon DEF SlotInv
<1> QED  BY <1>1, <1>2, <1>3, PTL DEF ThrottleSpec

\* No caller of acquire or acquire_leaving is asleep while as many slots are
\* free as it asked for (release's notify_all).
THEOREM SleepersWoken == ThrottleSpec => []NoSleeperMissed
<1>1. ThrottleInit => SlotInv  BY InitSlotInv, Zenon
<1>2. SlotInv /\ [ThrottleNext]_throttleVars => SlotInv'  BY NextSlotInv, Zenon
<1>3. SlotInv => NoSleeperMissed  BY Zenon DEF SlotInv
<1> QED  BY <1>1, <1>2, <1>3, PTL DEF ThrottleSpec

-----------------------------------------------------------------------------
(***************************************************************************)
(* Backoff: the breaker and the cooldown are over once their longest time  *)
(* has passed since the last bad answer, for any settings of theirs.       *)
(***************************************************************************)

Samples == [at : Nat, error : BOOLEAN]

\* Samples in the order of their answers, the errors among them no later than bad.
Orderly(samples, bad) ==
    /\ samples \in Seq(Samples)
    /\ \A i, j \in 1..Len(samples) : i <= j => samples[i].at <= samples[j].at
    /\ \A i \in 1..Len(samples) : samples[i].at <= instant /\ (samples[i].error => samples[i].at <= bad)

\* The breaker was opened by errors in its window, the cooldown by the last error.
BackoffInv ==
    /\ instant \in Nat /\ badAt \in Nat /\ badAt <= instant
    /\ breaker = [samples |-> breaker.samples, until |-> breaker.until, trips |-> breaker.trips]
    /\ breaker.until \in Int /\ breaker.trips \in Nat /\ Orderly(breaker.samples, badAt)
    /\ cooling = [until |-> cooling.until, failures |-> cooling.failures]
    /\ cooling.until \in Int /\ cooling.failures \in Nat
    /\ breaker.until <= badAt + Window + Longest(OpenMax)
    /\ cooling.until <= badAt + Longest(MaxCooldown)

----------------------------------------------------------------------------
\* A jittered time is no longer than the longest for its cap.
LEMMA JitterCapped ==
    ASSUME NEW a \in Int, NEW b \in Nat, NEW d \in Jittered(AtMost(a, b))
    PROVE  d \in Int /\ d <= Longest(b) /\ Longest(b) \in Nat
  <1>1. PICK c \in Int : c = AtMost(a, b) /\ c <= b  BY DEF AtMost
  <1>2. d \in (4 * c + 4) \div 5 .. (6 * c + 4) \div 5  BY <1>1, Zenon DEF Jittered, Longest
  <1>3. (6 * c + 4) \div 5 <= (6 * b + 4) \div 5 /\ (6 * b + 4) \div 5 \in Nat /\ (6 * c + 4) \div 5 \in Int  BY <1>1
  <1>4. (4 * c + 4) \div 5 \in Int  BY <1>1
  <1> QED  BY <1>2, <1>3, <1>4 DEF Longest

\* A later sample is in the window of an earlier one, and what starts in a window
\* of w and takes d ends within w and l.
LEMMA WithinWindow ==
    ASSUME NEW x \in Int, NEW a \in Int, NEW w \in Int, x - a <= w
    PROVE  /\ \A b \in Int : a <= b => x - b <= w
           /\ \A b, d, l \in Int : a <= b /\ d <= l => x + d <= b + w + l
  OBVIOUS

\* The longest times are numbers.
LEMMA LongestIs == ASSUME NEW b \in Nat PROVE Longest(b) \in Nat
  BY DEF Longest

\* The samples that are kept are the last ones, the first of them in the window.
LEMMA RecentIs ==
    ASSUME NEW s \in Seq(Samples), instant \in Nat
    PROVE  \E k \in 0..Len(s) : /\ Recent(s) = SubSeq(s, k + 1, Len(s))
                                /\ k < Len(s) => instant - s[k + 1].at <= Window
  <1> DEFINE Fits(k) == Len(s) - k <= MaxSamples /\ (k < Len(s) => instant - s[k + 1].at <= Window)
             S == {k \in 0..Len(s) : Fits(k)}
             Popped(k) == Fits(k) /\ \A l \in 0..Len(s) : Fits(l) => k <= l
  <1>1. Len(s) \in Nat /\ MaxSamples \in Nat  BY BackoffAssumption
  <1>2. Fits(Len(s))  BY <1>1
  <1>3. Recent(s) = SubSeq(s, (CHOOSE k \in 0..Len(s) : Popped(k)) + 1, Len(s))  BY Zenon DEF Recent
  <1> HIDE DEF Fits
  <1>4. S \subseteq Nat /\ S # {}  BY <1>1, <1>2
  <1>5. PICK m \in S : \A l \in S : ~(<<l, m>> \in OpToRel(<, Nat))
    <2> HIDE DEF S
    <2> QED  BY <1>4, NatLessThanWellFounded, WFMin, Zenon
  <1>6. \A l \in S : m <= l
    <2> HIDE DEF S
    <2>1. \A l \in S : ~(l < m)  BY <1>4, <1>5, Zenon DEF OpToRel
    <2>2. \A l \in S : l \in Nat /\ m \in Nat  BY <1>4, Zenon
    <2> QED  BY <2>1, <2>2
  <1>7. m \in 0..Len(s) /\ Popped(m)  BY <1>6, Zenon
  <1> HIDE DEF Popped
  <1>8. PICK k : k = CHOOSE n \in 0..Len(s) : Popped(n)  BY Zenon
  <1>9. k \in 0..Len(s) /\ Popped(k)  BY <1>7, <1>8, Zenon
  <1>10. Recent(s) = SubSeq(s, k + 1, Len(s))  BY <1>3, <1>8, Zenon
  <1> QED  BY <1>9, <1>10, Zenon DEF Popped, Fits

\* They are in order, and all of them in the window.
LEMMA RecentOrderly ==
    ASSUME NEW s, NEW bad, Orderly(s, bad), instant \in Nat
    PROVE  /\ Orderly(Recent(s), bad)
           /\ \A i \in 1..Len(Recent(s)) : instant - Recent(s)[i].at <= Window
  <1>1. s \in Seq(Samples)  BY Zenon DEF Orderly
  <1>2. PICK k \in 0..Len(s) : /\ Recent(s) = SubSeq(s, k + 1, Len(s))
                               /\ k < Len(s) => instant - s[k + 1].at <= Window
    BY <1>1, RecentIs, Zenon
  <1>3. PICK n \in Nat : n = Len(s)  BY <1>1
  <1>4. k \in Nat /\ k <= n  BY <1>2, <1>3
  <1>5. PICK r : r = Recent(s)  BY Zenon
  <1>6. \A i \in k + 1 .. n : s[i] \in Samples  BY <1>1, <1>3, <1>4
  <1>7. r \in Seq(Samples) /\ Len(r) = n - k /\ \A i \in 1..(n - k) : r[i] = s[k + i]
    <2>1. r = SubSeq(s, k + 1, n)  BY <1>2, <1>3, <1>5, Zenon
    <2>2. r \in Seq(Samples) /\ Len(r) = (IF k + 1 <= n THEN n - (k + 1) + 1 ELSE 0)
          /\ \A i \in 1 .. n - (k + 1) + 1 : r[i] = s[k + 1 + i - 1]
      BY <1>4, <1>6, <2>1
    <2> QED  BY <1>4, <2>2
  <1>8. ASSUME NEW i \in 1..(n - k), NEW j \in 1..(n - k), i <= j PROVE r[i].at <= r[j].at
    <2>1. k + i \in 1..n /\ k + j \in 1..n /\ k + i <= k + j  BY <1>4, <1>8
    <2> QED  BY <1>3, <1>7, <2>1, Zenon DEF Orderly
  <1>9. ASSUME NEW i \in 1..(n - k) PROVE r[i].at <= instant /\ (r[i].error => r[i].at <= bad)
    <2>1. k + i \in 1..n  BY <1>4
    <2> QED  BY <1>3, <1>7, <2>1, Zenon DEF Orderly
  <1>10. ASSUME NEW i \in 1..(n - k) PROVE instant - r[i].at <= Window
    <2>1. k + i \in 1..n /\ k + 1 \in 1..n /\ k + 1 <= k + i /\ k < n  BY <1>4
    <2>2. s[k + 1].at <= s[k + i].at  BY <1>3, <2>1, Zenon DEF Orderly
    <2>3. s[k + 1] \in Samples /\ s[k + i] \in Samples  BY <1>1, <1>3, <2>1
    <2>4. PICK a \in Nat, b \in Nat : a = s[k + 1].at /\ b = s[k + i].at  BY <2>3, Zenon DEF Samples
    <2>5. instant - a <= Window /\ Window \in Nat  BY <1>2, <1>3, <2>1, <2>4, BackoffAssumption, Zenon
    <2>6. r[i].at = b  BY <1>7, <2>4, Zenon
    <2>7. a <= b /\ instant \in Nat  BY <2>2, <2>4, Zenon
    <2>8. instant - b <= Window
      <3>1. instant \in Int /\ a \in Int /\ b \in Int /\ Window \in Int  BY <2>4, <2>5, <2>7
      <3> QED  BY <2>5, <2>7, <3>1, WithinWindow, Zenon
    <2> QED  BY <2>6, <2>8, Zenon
  <1>11. Orderly(r, bad)  BY <1>7, <1>8, <1>9, Zenon DEF Orderly
  <1> QED  BY <1>5, <1>7, <1>10, <1>11, Zenon

\* An answer is appended in order.
LEMMA AppendOrderly ==
    ASSUME BackoffInv, NEW e \in BOOLEAN, NEW bad \in Nat, badAt <= bad, bad <= instant, e => bad = instant
    PROVE  Orderly(Append(breaker.samples, [at |-> instant, error |-> e]), bad)
  <1> DEFINE s == breaker.samples  x == [at |-> instant, error |-> e]  r == Append(s, x)
  <1>1. s \in Seq(Samples) /\ instant \in Nat /\ badAt \in Nat  BY Zenon DEF BackoffInv, Orderly
  <1>2. x \in Samples  BY <1>1, Zenon DEF Samples
  <1>3. PICK n \in Nat : n = Len(s)  BY <1>1
  <1>4. r \in Seq(Samples) /\ Len(r) = n + 1 /\ (\A i \in 1..n : r[i] = s[i]) /\ r[n + 1] = x
    <2> HIDE DEF s, x
    <2> QED  BY <1>1, <1>2, <1>3
  <1>5. \A i, j \in 1..n : i <= j => s[i].at <= s[j].at  BY <1>3, Zenon DEF BackoffInv, Orderly
  <1>6. \A i \in 1..n : s[i].at \in Nat /\ s[i].at <= instant /\ (s[i].error => s[i].at <= badAt)
    <2>1. \A i \in 1..n : s[i] \in Samples  BY <1>1, <1>3
    <2>2. \A i \in 1..n : s[i].at \in Nat  BY <2>1, Zenon DEF Samples
    <2> QED  BY <1>3, <2>2, Zenon DEF BackoffInv, Orderly
  <1>7. x.at = instant /\ x.error = e  BY Zenon
  <1> HIDE DEF s, x, r
  <1>8. ASSUME NEW i \in 1..(n + 1), NEW j \in 1..(n + 1), i <= j PROVE r[i].at <= r[j].at
    <2>1. CASE j \in 1..n
      <3>1. i \in 1..n  BY <1>8, <2>1
      <3> QED  BY <1>4, <1>5, <1>8, <2>1, <3>1, Zenon
    <2>2. CASE j = n + 1 /\ i \in 1..n
      <3>1. r[j] = x /\ r[i] = s[i]  BY <1>4, <2>2, Zenon
      <3> QED  BY <1>6, <1>7, <2>2, <3>1, Zenon
    <2>3. CASE j = n + 1 /\ i = n + 1  BY <1>1, <1>4, <1>7, <2>3
    <2> QED  BY <2>1, <2>2, <2>3
  <1>9. ASSUME NEW i \in 1..(n + 1) PROVE r[i].at <= instant /\ (r[i].error => r[i].at <= bad)
    <2>1. CASE i \in 1..n
      <3>1. r[i] = s[i]  BY <1>4, <2>1, Zenon
      <3>2. s[i].at \in Nat /\ s[i].at <= instant /\ (s[i].error => s[i].at <= badAt)  BY <1>6, <2>1, Zenon
      <3> QED  BY <1>1, <3>1, <3>2
    <2>2. CASE i = n + 1
      <3>1. r[i] = x  BY <1>4, <2>2, Zenon
      <3> QED  BY <1>1, <1>7, <3>1
    <2> QED  BY <2>1, <2>2
  <1>10. Orderly(r, bad)  BY <1>4, <1>8, <1>9, Zenon DEF Orderly
  <1> QED  BY <1>10, Zenon DEF r, s, x

\* Samples that trip the breaker have an error among them.
LEMMA TripHasError ==
    ASSUME NEW s \in Seq(Samples),
           Errors(s) >= TripErrors \/ (Len(s) >= TripMinSamples /\ 2 * Errors(s) >= Len(s))
    PROVE  \E i \in 1..Len(s) : s[i].error
  <1>1. SUFFICES ASSUME \A i \in 1..Len(s) : ~s[i].error PROVE FALSE  BY Zenon
  <1>2. DOMAIN s = 1..Len(s) /\ Len(s) \in Nat  OBVIOUS
  <1>3. {i \in DOMAIN s : s[i].error} = {}  BY <1>1, <1>2, Zenon
  <1>4. Errors(s) = 0  BY <1>3, FS_EmptySet, Zenon DEF Errors
  <1>5. TripErrors \in Nat \ {0} /\ TripMinSamples \in Nat \ {0}  BY BackoffAssumption, Zenon
  <1> QED  BY <1>2, <1>4, <1>5

\* What the breaker is after an answer: an error is the last one so far.
LEMMA RecordKeeps ==
    ASSUME BackoffInv, NEW e \in BOOLEAN, NEW bad \in Nat, badAt <= bad, bad <= instant, e => bad = instant,
           NEW b \in record(e)
    PROVE  /\ b = [samples |-> b.samples, until |-> b.until, trips |-> b.trips]
           /\ b.until \in Int /\ b.trips \in Nat /\ Orderly(b.samples, bad)
           /\ b.until <= bad + Window + Longest(OpenMax)
  <1> DEFINE raw == Append(breaker.samples, [at |-> instant, error |-> e])
  <1>1. /\ instant \in Nat /\ badAt \in Nat /\ breaker.until \in Int /\ breaker.trips \in Nat
        /\ breaker = [samples |-> breaker.samples, until |-> breaker.until, trips |-> breaker.trips]
        /\ breaker.until <= badAt + Window + Longest(OpenMax)
    BY Zenon DEF BackoffInv
  <1>2. Window \in Nat /\ OpenMax \in Nat /\ OpenBase \in Nat  BY BackoffAssumption, Zenon
  <1>3. Longest(OpenMax) \in Nat  BY <1>2, LongestIs, Zenon
  <1>4. Orderly(raw, bad)  BY AppendOrderly, Zenon
  <1> HIDE DEF raw
  <1>5. PICK s : s = Recent(raw)  BY Zenon
  <1>6. Orderly(s, bad) /\ \A i \in 1..Len(s) : instant - s[i].at <= Window  BY <1>1, <1>4, <1>5, RecentOrderly, Zenon
  <1>7. breaker.until <= bad + Window + Longest(OpenMax)
    <2>1. PICK l \in Nat : l = Longest(OpenMax)  BY <1>3, Zenon
    <2> QED  BY <1>1, <1>2, <2>1
  <1> DEFINE trip == Errors(s) >= TripErrors \/ (Len(s) >= TripMinSamples /\ 2 * Errors(s) >= Len(s))
             calm == ~e /\ Errors(s) = 0 /\ Len(s) >= TripMinSamples
  <1>8. b \in IF is_open THEN {[breaker EXCEPT !.samples = s]}
              ELSE IF trip
              THEN {[samples |-> <<>>, until |-> instant + d, trips |-> breaker.trips + 1] :
                       d \in Jittered(AtMost(OpenBase * 2^AtMost(breaker.trips, 4), OpenMax))}
              ELSE {[breaker EXCEPT !.samples = s, !.trips = IF calm THEN 0 ELSE @]}
    BY <1>5, Zenon DEF record, raw
  <1> HIDE DEF calm, trip
  <1>9. CASE \E n \in Nat : b = [samples |-> s, until |-> breaker.until, trips |-> n]
    BY <1>1, <1>6, <1>7, <1>9
  <1>10. CASE trip /\ \E d \in Jittered(AtMost(OpenBase * 2^AtMost(breaker.trips, 4), OpenMax)) :
                        b = [samples |-> <<>>, until |-> instant + d, trips |-> breaker.trips + 1]
    <2>1. PICK d \in Jittered(AtMost(OpenBase * 2^AtMost(breaker.trips, 4), OpenMax)) :
                 b = [samples |-> <<>>, until |-> instant + d, trips |-> breaker.trips + 1]
      BY <1>10, Zenon
    <2>2. OpenBase * 2^AtMost(breaker.trips, 4) \in Int
      <3>1. AtMost(breaker.trips, 4) \in Nat  BY <1>1, Zenon DEF AtMost
      <3>2. 2^AtMost(breaker.trips, 4) \in Int  BY <3>1
      <3> QED  BY <1>2, <3>2
    <2>3. d \in Int /\ d <= Longest(OpenMax)  BY <1>2, <2>1, <2>2, JitterCapped, Zenon
    <2>4. s \in Seq(Samples)  BY <1>6, Zenon DEF Orderly
    <2>5. PICK i \in 1..Len(s) : s[i].error  BY <1>10, <2>4, TripHasError, Zenon DEF trip
    <2>6. s[i].at <= bad /\ instant - s[i].at <= Window  BY <1>6, <2>5, Zenon DEF Orderly
    <2>7. s[i].at \in Nat
      <3>1. s[i] \in Samples  BY <2>4, <2>5
      <3> QED  BY <3>1, Zenon DEF Samples
    <2>8. PICK a \in Nat, l \in Nat : a = s[i].at /\ l = Longest(OpenMax)  BY <1>3, <2>7, Zenon
    <2>9. instant + d <= bad + Window + l
      <3>1. a <= bad /\ instant - a <= Window /\ d <= l  BY <2>3, <2>6, <2>8, Zenon
      <3>2. {instant, a, bad, d, l, Window} \subseteq Int  BY <1>1, <1>2, <2>3, <2>8
      <3> QED  BY <3>1, <3>2, WithinWindow, Zenon
    <2>10. instant + d \in Int /\ breaker.trips + 1 \in Nat  BY <1>1, <2>3
    <2>11. Orderly(<<>>, bad)  BY DEF Orderly
    <2> QED  BY <2>1, <2>8, <2>9, <2>10, <2>11, Zenon
  <1>11. CASE b = [breaker EXCEPT !.samples = s]
    <2>1. b = [samples |-> s, until |-> breaker.until, trips |-> breaker.trips]  BY <1>1, <1>11, Zenon
    <2> QED  BY <1>1, <1>9, <2>1, Zenon
  <1>12. CASE b = [breaker EXCEPT !.samples = s, !.trips = IF calm THEN 0 ELSE @]
    <2>1. PICK n \in Nat : n = IF calm THEN 0 ELSE breaker.trips  BY <1>1, Zenon
    <2>2. b = [samples |-> s, until |-> breaker.until, trips |-> n]  BY <1>1, <1>12, <2>1, Zenon
    <2> QED  BY <1>9, <2>2, Zenon
  <1> QED  BY <1>8, <1>10, <1>11, <1>12, Zenon

\* A failure of the directory cools it down for the longest cooldown at most.
LEMMA FailureKeeps ==
    ASSUME BackoffInv, NEW c \in record_failure
    PROVE  /\ c = [until |-> c.until, failures |-> c.failures] /\ c.until \in Int /\ c.failures \in Nat
           /\ c.until <= instant + Longest(MaxCooldown)
  <1>1. instant \in Nat /\ cooling.failures \in Nat  BY Zenon DEF BackoffInv
  <1>2. MaxCooldown \in Nat /\ BaseCooldown \in Nat  BY BackoffAssumption, Zenon
  <1>3. PICK f \in Nat : f = cooling.failures + 1 /\ f - 1 \in Nat  BY <1>1
  <1>4. PICK d \in Jittered(Cooldown(f)) : c = [until |-> instant + d, failures |-> f]  BY <1>3, Zenon DEF record_failure
  <1>5. BaseCooldown * 2^AtMost(f - 1, 10) \in Int
    <2>1. AtMost(f - 1, 10) \in Nat  BY <1>3, Zenon DEF AtMost
    <2>2. 2^AtMost(f - 1, 10) \in Int  BY <2>1
    <2> QED  BY <1>2, <2>2
  <1>6. d \in Int /\ d <= Longest(MaxCooldown) /\ Longest(MaxCooldown) \in Nat
    BY <1>2, <1>4, <1>5, JitterCapped, Zenon DEF Cooldown
  <1>7. instant + d \in Int /\ instant + d <= instant + Longest(MaxCooldown)  BY <1>1, <1>6
  <1> QED  BY <1>3, <1>4, <1>7, Zenon

\* The answer to a listing, whatever it is, keeps the invariant.
LEMMA AnsweredStep == ASSUME BackoffInv, ListingAnswered PROVE BackoffInv'
  <1>1. /\ instant \in Nat /\ badAt \in Nat /\ badAt <= instant /\ instant' = instant
        /\ cooling = [until |-> cooling.until, failures |-> cooling.failures]
        /\ cooling.until \in Int /\ cooling.failures \in Nat
        /\ cooling.until <= badAt + Longest(MaxCooldown)
    BY Zenon DEF BackoffInv, ListingAnswered
  <1>2. PICK l \in Nat : l = Longest(MaxCooldown)  BY LongestIs, BackoffAssumption, Zenon
  <1>3. \A s, bad : Orderly(s, bad)' = Orderly(s, bad)  BY <1>1, Zenon DEF Orderly
  <1>4. ASSUME NEW e \in BOOLEAN, NEW bad \in Nat, breaker' \in record(e), badAt' = bad, badAt <= bad, bad <= instant,
               e => bad = instant, cooling' = [until |-> cooling'.until, failures |-> cooling'.failures],
               cooling'.until \in Int, cooling'.failures \in Nat, cooling'.until <= bad + l
        PROVE  BackoffInv'
    <2>1. /\ breaker' = [samples |-> breaker'.samples, until |-> breaker'.until, trips |-> breaker'.trips]
          /\ breaker'.until \in Int /\ breaker'.trips \in Nat /\ Orderly(breaker'.samples, bad)
          /\ breaker'.until <= bad + Window + Longest(OpenMax)
      BY <1>4, RecordKeeps, Zenon
    <2>2. Orderly(breaker.samples, badAt)'  BY <1>1, <1>4, <2>1, Zenon DEF Orderly
    <2> QED  BY <1>1, <1>2, <1>4, <2>1, <2>2, Zenon DEF BackoffInv, Longest
  <1>5. badAt <= badAt /\ instant <= instant /\ 0 <= badAt + l /\ 0 \in Int /\ 0 \in Nat  BY <1>1, <1>2
  <1>6. NotCooling = [until |-> NotCooling.until, failures |-> NotCooling.failures]
        /\ NotCooling.until = 0 /\ NotCooling.failures = 0
    BY Zenon DEF NotCooling
  <1>7. CASE breaker' \in record(FALSE) /\ cooling' = NotCooling /\ UNCHANGED badAt
    BY <1>1, <1>4, <1>5, <1>6, <1>7, Zenon
  <1>8. CASE breaker' \in record(TRUE) /\ cooling' \in record_failure /\ badAt' = instant
    BY <1>1, <1>2, <1>4, <1>5, <1>8, FailureKeeps, Zenon
  <1>9. CASE breaker' \in record(TRUE) /\ badAt' = instant /\ UNCHANGED cooling
    <2>1. cooling'.until <= instant + l  BY <1>1, <1>2, <1>9
    <2> QED  BY <1>1, <1>4, <1>5, <1>9, <2>1, Zenon
  <1>10. CASE breaker' \in record(FALSE) /\ UNCHANGED <<cooling, badAt>>
    BY <1>1, <1>2, <1>4, <1>5, <1>10, Zenon
  <1>11. CASE UNCHANGED <<breaker, cooling, badAt>>
    BY <1>1, <1>11, Zenon DEF BackoffInv, Orderly
  <1> QED  BY <1>7, <1>8, <1>9, <1>10, <1>11, Zenon DEF ListingAnswered

\* So does every other step.
LEMMA BackoffStep == ASSUME BackoffInv, [BackoffNext]_backoffVars PROVE BackoffInv'
  <1>1. CASE InstantPasses
    <2>1. instant \in Nat /\ badAt \in Nat /\ badAt <= instant /\ Orderly(breaker.samples, badAt)  BY Zenon DEF BackoffInv
    <2>2. instant' = instant + 1 /\ UNCHANGED <<cooling, breaker, badAt>>  BY <1>1, Zenon DEF InstantPasses
    <2>3. \A i \in 1..Len(breaker.samples) : breaker.samples[i].at <= instant'
      <3>1. \A i \in 1..Len(breaker.samples) : breaker.samples[i].at \in Nat /\ breaker.samples[i].at <= instant
        <4>1. \A i \in 1..Len(breaker.samples) : breaker.samples[i] \in Samples  BY <2>1 DEF Orderly
        <4>2. \A i \in 1..Len(breaker.samples) : breaker.samples[i].at \in Nat  BY <4>1, Zenon DEF Samples
        <4> QED  BY <2>1, <4>2, Zenon DEF Orderly
      <3> QED  BY <2>1, <2>2, <3>1
    <2>4. Orderly(breaker.samples, badAt)'  BY <2>1, <2>2, <2>3, Zenon DEF Orderly
    <2>5. instant' \in Nat /\ badAt <= instant'  BY <2>1, <2>2
    <2> QED  BY <2>2, <2>4, <2>5, Zenon DEF BackoffInv, Longest
  <1>2. CASE AskListing  BY <1>2, Zenon DEF AskListing, BackoffInv, Orderly
  <1>3. CASE ListingAnswered  BY <1>3, AnsweredStep, Zenon
  <1>4. CASE Pushed
    <2>1. UNCHANGED <<instant, breaker, badAt>> /\ cooling' = NotCooling  BY <1>4, Zenon DEF Pushed
    <2>2. PICK l \in Nat : l = Longest(MaxCooldown)  BY LongestIs, BackoffAssumption, Zenon
    <2>3. badAt \in Nat /\ Orderly(breaker.samples, badAt)'  BY <2>1, Zenon DEF BackoffInv, Orderly
    <2>4. 0 <= badAt + l  BY <2>2, <2>3
    <2> QED  BY <2>1, <2>2, <2>3, <2>4 DEF BackoffInv, NotCooling
  <1>5. CASE UNCHANGED backoffVars  BY <1>5, Zenon DEF backoffVars, BackoffInv, Orderly
  <1> QED  BY <1>1, <1>2, <1>3, <1>4, <1>5, Zenon DEF BackoffNext

\* The mount stops holding back once the server has stopped failing.
THEOREM BackoffIsBounded == BackoffSpec => []BackoffEnds
  <1>1. BackoffInit => BackoffInv
    <2> SUFFICES ASSUME BackoffInit PROVE BackoffInv  BY Zenon
    <2>1. instant = 1 /\ badAt = 0 /\ cooling = [until |-> 0, failures |-> 0]
          /\ breaker = [samples |-> <<>>, until |-> 0, trips |-> 0]
      BY Zenon DEF BackoffInit, NotCooling
    <2>2. Orderly(<<>>, badAt)  BY DEF Orderly
    <2>3. PICK l \in Nat, m \in Nat, w \in Nat : l = Longest(MaxCooldown) /\ m = Longest(OpenMax) /\ w = Window
      BY LongestIs, BackoffAssumption, Zenon
    <2>4. 0 <= 0 + w + m /\ 0 <= 0 + l  BY <2>3
    <2> QED  BY <2>1, <2>2, <2>3, <2>4 DEF BackoffInv
  <1>2. BackoffInv /\ [BackoffNext]_backoffVars => BackoffInv'  BY BackoffStep, Zenon
  <1>3. BackoffInv => BackoffEnds
    <2> SUFFICES ASSUME BackoffInv PROVE BackoffEnds  BY Zenon
    <2>1. PICK l \in Nat, m \in Nat, w \in Nat : l = Longest(MaxCooldown) /\ m = Longest(OpenMax) /\ w = Window
      BY LongestIs, BackoffAssumption, Zenon
    <2>2. instant \in Nat /\ badAt \in Nat /\ breaker.until \in Int /\ cooling.until \in Int
          /\ breaker.until <= badAt + w + m /\ cooling.until <= badAt + l
      BY <2>1, Zenon DEF BackoffInv
    <2>3. instant >= badAt + w + m => ~(breaker.until > instant)  BY <2>1, <2>2
    <2>4. instant >= badAt + l => ~(cooling.until > instant)  BY <2>1, <2>2
    <2> QED  BY <2>1, <2>3, <2>4, Zenon DEF BackoffEnds, is_open, is_blocked
  <1> QED  BY <1>1, <1>2, <1>3, PTL DEF BackoffSpec

-----------------------------------------------------------------------------
(***************************************************************************)
(* Walkers: a process gets no more listings than its burst and rate allow, *)
(* if its threads are few enough that none waits for MaxWait.              *)
(***************************************************************************)

\* The threads whose listing is held back, until T at the latest or beyond T.
Waiting == {t \in Threads : waits[t] # Free}
Due(T) == {t \in Threads : waits[t] # Free /\ waits[t] <= T}
Late(T) == {t \in Threads : waits[t] # Free /\ waits[t] > T}

\* The types, and that the bucket was refilled since the process is known.
WalkTyped ==
    /\ now \in Nat /\ fetched \in Nat /\ waits \in [Threads -> Nat \cup {Free}]
    /\ bucket = [tokens |-> bucket.tokens, at |-> bucket.at, since |-> bucket.since]
    /\ bucket.tokens \in Int /\ bucket.at \in Nat /\ bucket.since \in Nat
    /\ bucket.since <= bucket.at /\ bucket.at <= now

\* A token is spent on each listing that was let through or is held back.
Spent == fetched + Cardinality(Waiting) + bucket.tokens <= Burst + Refill * (bucket.at - bucket.since)

\* By the time T the process has had no more listings than burst and rate allow.
Paced == \A T \in Nat : T >= now => fetched + Cardinality(Due(T)) <= Burst + Refill * (T - bucket.since)

\* What the bucket still owes at T is what was borrowed for the ones held back beyond T.
Borrowed == \A T \in Nat : T >= now => bucket.tokens + Refill * (T - bucket.at) + Cardinality(Late(T)) >= 0

WalkInv == WalkTyped /\ Spent /\ Paced /\ Borrowed

----------------------------------------------------------------------------
\* Tokens refilled over two spans of time.
LEMMA RefillAdds ==
    ASSUME NEW a \in Int, NEW b \in Int, NEW c \in Int
    PROVE  Refill * (c - a) = Refill * (c - b) + Refill * (b - a)
  <1>1. PICK k \in Int : k = Refill  BY WalkAssumption
  <1>2. k * (c - a) = k * (c - b) + k * (b - a)  OBVIOUS
  <1> QED  BY <1>1, <1>2, Zenon

\* More time refills no fewer tokens.
LEMMA RefillGrows == ASSUME NEW a \in Int, NEW b \in Int, a <= b PROVE Refill * a <= Refill * b
  BY WalkAssumption

\* The wait for x tokens, in whole ticks, is enough for them, and no longer than
\* one that is enough.
LEMMA WaitEnough ==
    ASSUME NEW x \in Nat, x > 0
    PROVE  LET q == (x + Refill - 1) \div Refill
           IN  q \in Nat /\ x <= Refill * q /\ \A m \in Nat : x <= Refill * m => q <= m
  <1> DEFINE q == (x + Refill - 1) \div Refill
  <1>1. x + Refill - 1 \in Nat /\ Refill \in Nat /\ Refill > 0  BY WalkAssumption
  <1>2. q \in Nat  BY <1>1
  <1>3. Refill * q <= x + Refill - 1 /\ x + Refill - 1 < Refill * q + Refill  BY <1>1
  <1> HIDE DEF q
  <1>4. x <= Refill * q  BY <1>1, <1>2, <1>3
  <1>5. ASSUME NEW m \in Nat, x <= Refill * m, ~(q <= m) PROVE FALSE
    <2>1. m + 1 <= q  BY <1>2, <1>5
    <2>2. Refill * (m + 1) <= Refill * q  BY <1>2, <2>1, RefillGrows
    <2>3. Refill * (m + 1) = Refill * m + Refill  BY <1>1
    <2>4. Refill * m \in Int /\ Refill * q \in Int  BY <1>1, <1>2
    <2>5. PICK y \in Int, z \in Int : y = Refill * m /\ z = Refill * q  BY <2>4, Zenon
    <2> QED  BY <1>1, <1>3, <1>5, <2>2, <2>3, <2>5
  <1> QED  BY <1>2, <1>4, <1>5, Zenon DEF q

\* The sets of threads are finite, and those held back are due by T or late.
LEMMA ThreadsCounted ==
    ASSUME NEW T
    PROVE  /\ IsFiniteSet(Waiting) /\ IsFiniteSet(Due(T)) /\ IsFiniteSet(Late(T))
           /\ Cardinality(Waiting) \in Nat /\ Cardinality(Due(T)) \in Nat /\ Cardinality(Late(T)) \in Nat
           /\ Cardinality(Due(T)) <= Cardinality(Waiting)
  <1>1. Due(T) \subseteq Waiting /\ Waiting \subseteq Threads /\ Late(T) \subseteq Threads  BY Zenon DEF Due, Waiting, Late
  <1>2. IsFiniteSet(Threads)  BY WalkAssumption, Zenon
  <1>3. IsFiniteSet(Waiting) /\ IsFiniteSet(Late(T))  BY <1>1, <1>2, FS_Subset, Zenon
  <1>4. IsFiniteSet(Due(T)) /\ Cardinality(Due(T)) <= Cardinality(Waiting)  BY <1>1, <1>3, FS_Subset, Zenon
  <1> QED  BY <1>3, <1>4, FS_CardinalityType, Zenon

\* A new process has its burst.
LEMMA WalkStarts == ASSUME now \in Nat, bucket = fresh, fetched = 0, waits = [t \in Threads |-> Free] PROVE WalkInv
  <1>1. bucket = [tokens |-> Burst, at |-> now, since |-> now] /\ Burst \in Nat /\ Refill \in Nat
    BY WalkAssumption, Zenon DEF fresh
  <1>2. WalkTyped
    <2>1. waits \in [Threads -> Nat \cup {Free}]  BY Zenon
    <2>2. bucket.tokens = Burst /\ bucket.at = now /\ bucket.since = now  BY <1>1
    <2>3. bucket = [tokens |-> bucket.tokens, at |-> bucket.at, since |-> bucket.since]  BY <1>1, <2>2, Zenon
    <2> QED  BY <1>1, <2>1, <2>2, <2>3 DEF WalkTyped
  <1>3. Waiting = {} /\ \A T : Due(T) = {} /\ Late(T) = {}  BY Zenon DEF Waiting, Due, Late
  <1>4. Cardinality({}) = 0  BY FS_EmptySet, Zenon
  <1>5. Refill * (now - now) = 0  BY <1>1
  <1>6. Spent  BY <1>1, <1>3, <1>4, <1>5 DEF Spent
  <1>7. ASSUME NEW T \in Nat, T >= now PROVE Refill * (T - now) \in Nat
    <2>1. T - now \in Nat  BY <1>7
    <2> QED  BY <1>1, <2>1
  <1>8. Paced  BY <1>1, <1>3, <1>4, <1>7 DEF Paced
  <1>9. Borrowed
    <2> SUFFICES ASSUME NEW T \in Nat, T >= now
                 PROVE  bucket.tokens + Refill * (T - bucket.at) + Cardinality(Late(T)) >= 0
      BY Zenon DEF Borrowed
    <2>1. Refill * (T - now) \in Nat  BY <1>7, Zenon
    <2>2. PICK y \in Nat : y = Refill * (T - now)  BY <2>1, Zenon
    <2>3. bucket.tokens = Burst /\ bucket.at = now /\ Cardinality(Late(T)) = 0  BY <1>1, <1>3, <1>4
    <2> QED  BY <1>1, <2>2, <2>3
  <1> QED  BY <1>2, <1>6, <1>8, <1>9, Zenon DEF WalkInv

\* Time passing lets nobody through.
LEMMA LaterStep == ASSUME WalkInv, Later PROVE WalkInv'
  <1>1. now' = now + 1 /\ UNCHANGED <<bucket, waits, fetched>>  BY Zenon DEF Later
  <1>2. now \in Nat  BY Zenon DEF WalkInv, WalkTyped
  <1>3. Waiting' = Waiting /\ \A T : Due(T)' = Due(T) /\ Late(T)' = Late(T)  BY <1>1, Zenon DEF Waiting, Due, Late
  <1>4. WalkTyped'
    <2>1. bucket.at \in Nat /\ bucket.at <= now'  BY <1>1, <1>2 DEF WalkInv, WalkTyped
    <2> QED  BY <1>1, <1>2, <2>1 DEF WalkInv, WalkTyped
  <1>5. \A T \in Nat : T >= now' => T >= now  BY <1>1, <1>2
  <1>6. Spent'  BY <1>1, <1>3, Zenon DEF WalkInv, Spent
  <1>7. Paced'  BY <1>1, <1>3, <1>5, Zenon DEF WalkInv, Paced
  <1>8. Borrowed'  BY <1>1, <1>3, <1>5, Zenon DEF WalkInv, Borrowed
  <1> QED  BY <1>4, <1>6, <1>7, <1>8, Zenon DEF WalkInv

\* A listing that was due is let through, which changes what was had by no time.
LEMMA FetchStep == ASSUME WalkInv, NEW t \in Threads, Fetch(t) PROVE WalkInv'
  <1>1. waits[t] # Free /\ waits[t] <= now /\ fetched' = fetched + 1 /\ UNCHANGED <<now, bucket>>  BY Zenon DEF Fetch
  <1>2. waits' = [waits EXCEPT ![t] = Free] /\ waits \in [Threads -> Nat \cup {Free}] /\ now \in Nat /\ fetched \in Nat
    BY Zenon DEF Fetch, WalkInv, WalkTyped
  <1>3. waits[t] \in Nat  BY <1>1, <1>2, Zenon
  <1>4. t \in Waiting /\ Waiting' = Waiting \ {t}  BY <1>1, <1>2, Zenon DEF Waiting
  <1>5. ASSUME NEW T \in Nat, T >= now PROVE t \in Due(T) /\ Due(T)' = Due(T) \ {t} /\ Late(T)' = Late(T)
    <2>1. waits[t] <= T /\ ~(waits[t] > T)  BY <1>1, <1>2, <1>3, <1>5
    <2> QED  BY <1>1, <1>2, <2>1, Zenon DEF Due, Late
  <1>6. Cardinality(Waiting') = Cardinality(Waiting) - 1 /\ Cardinality(Waiting) \in Nat
    BY <1>4, ThreadsCounted, FS_RemoveElement, Zenon
  <1>7. ASSUME NEW T \in Nat, T >= now
        PROVE  Cardinality(Due(T)') = Cardinality(Due(T)) - 1 /\ Cardinality(Due(T)) \in Nat
    BY <1>5, <1>7, ThreadsCounted, FS_RemoveElement, Zenon
  <1>8. WalkTyped'  BY <1>1, <1>2 DEF WalkInv, WalkTyped
  <1>9. Spent'
    <2>1. fetched' + Cardinality(Waiting') = fetched + Cardinality(Waiting)  BY <1>1, <1>2, <1>6
    <2> QED  BY <1>1, <2>1, Zenon DEF WalkInv, Spent
  <1>10. Paced'
    <2>1. ASSUME NEW T \in Nat, T >= now
          PROVE  fetched' + Cardinality(Due(T)') = fetched + Cardinality(Due(T))
      BY <1>1, <1>2, <1>7, <2>1
    <2> QED  BY <1>1, <2>1, Zenon DEF WalkInv, Paced
  <1>11. Borrowed'  BY <1>1, <1>5, Zenon DEF WalkInv, Borrowed
  <1> QED  BY <1>8, <1>9, <1>10, <1>11, Zenon DEF WalkInv

----------------------------------------------------------------------------
\* What a thread finds in the bucket: at most what has been refilled, and a debt
\* that is smaller than the number of threads.
LEMMA RefilledIs ==
    ASSUME WalkInv, NEW t \in Threads, waits[t] = Free
    PROVE  /\ Refilled \in Int /\ Refilled <= bucket.tokens + Refill * (now - bucket.at)
           /\ Refilled < 1 => Refilled = bucket.tokens + Refill * (now - bucket.at)
           /\ 1 - Refilled <= Cardinality(Threads)
  <1>1. Burst \in Nat /\ Burst >= 1 /\ Refill \in Nat  BY WalkAssumption
  <1>2. now \in Nat /\ bucket.at \in Nat /\ bucket.tokens \in Int  BY Zenon DEF WalkInv, WalkTyped
  <1>3. PICK r \in Int : r = bucket.tokens + Refill * (now - bucket.at)  BY <1>1, <1>2
  <1>4. (now - bucket.at) * Refill = Refill * (now - bucket.at)  BY <1>1, <1>2
  <1>5. Refilled = IF r < Burst THEN r ELSE Burst  BY <1>3, <1>4, Zenon DEF Refilled, Least
  <1>6. r + Cardinality(Late(now)) >= 0  BY <1>2, <1>3 DEF WalkInv, Borrowed
  <1>7. Cardinality(Late(now)) <= Cardinality(Threads) - 1 /\ Cardinality(Threads) \in Nat /\ Cardinality(Late(now)) \in Nat
    <2>1. Late(now) \subseteq Threads \ {t}  BY Zenon DEF Late
    <2>2. IsFiniteSet(Threads)  BY WalkAssumption, Zenon
    <2>3. IsFiniteSet(Threads \ {t}) /\ Cardinality(Threads \ {t}) = Cardinality(Threads) - 1  BY <2>2, FS_RemoveElement, Zenon
    <2>4. Cardinality(Late(now)) <= Cardinality(Threads \ {t})  BY <2>1, <2>3, FS_Subset, Zenon
    <2>5. Cardinality(Threads) \in Nat /\ Cardinality(Late(now)) \in Nat  BY <2>2, FS_CardinalityType, ThreadsCounted, Zenon
    <2> QED  BY <2>3, <2>4, <2>5, Zenon
  <1>8. PICK l \in Nat, c \in Nat : l = Cardinality(Late(now)) /\ c = Cardinality(Threads)  BY <1>7, Zenon
  <1>9. r + l >= 0 /\ l <= c - 1  BY <1>6, <1>7, <1>8, Zenon
  <1>10. 1 - Refilled <= c /\ Refilled \in Int /\ Refilled <= r /\ (Refilled < 1 => Refilled = r)  BY <1>1, <1>5, <1>9
  <1> QED  BY <1>3, <1>8, <1>10, Zenon

\* And how long it waits: until what it took is refilled, if no wait is capped.
LEMMA WaitIs ==
    ASSUME WalkInv, NEW t \in Threads, note_uncached(t), Cardinality(Threads) <= Refill * MaxWait
    PROVE  \E w \in Nat : /\ waits' = [waits EXCEPT ![t] = now + w]
                          /\ Refilled - 1 + Refill * w >= 0
                          /\ w > 0 => Refilled < 1
  <1>1. Refill \in Nat /\ MaxWait \in Nat /\ Cardinality(Threads) \in Nat  BY WalkAssumption, FS_CardinalityType, Zenon
  <1>2. waits[t] = Free  BY Zenon DEF note_uncached
  <1>3. PICK r \in Int : r = Refilled /\ 1 - r <= Cardinality(Threads)  BY <1>2, RefilledIs, Zenon
  <1>4. waits' = [waits EXCEPT ![t] = now + (IF r >= 1 THEN 0 ELSE Least((1 - r + Refill - 1) \div Refill, MaxWait))]
    BY <1>3, Zenon DEF note_uncached
  <1>5. CASE r >= 1
    <2>1. waits' = [waits EXCEPT ![t] = now + 0]  BY <1>4, <1>5, Zenon
    <2>2. r - 1 + Refill * 0 >= 0  BY <1>1, <1>5
    <2>3. 0 \in Nat /\ ~(0 > 0)  OBVIOUS
    <2> QED  BY <1>3, <2>1, <2>2, <2>3, Zenon
  <1>6. CASE ~(r >= 1)
    <2>1. PICK x \in Nat : x = 1 - r /\ x > 0  BY <1>6
    <2>2. PICK q : q = (x + Refill - 1) \div Refill  BY Zenon
    <2>3. q \in Nat /\ x <= Refill * q /\ \A m \in Nat : x <= Refill * m => q <= m  BY <2>1, <2>2, WaitEnough, Zenon
    <2>4. x <= Refill * MaxWait  BY <1>1, <1>3, <2>1
    <2>5. q <= MaxWait  BY <1>1, <2>3, <2>4, Zenon
    <2>6. Least(q, MaxWait) = q  BY <1>1, <2>3, <2>5 DEF Least
    <2>7. waits' = [waits EXCEPT ![t] = now + q]  BY <1>4, <1>6, <2>1, <2>2, <2>6, Zenon
    <2>8. PICK y \in Int : y = Refill * q  BY <1>1, <2>3
    <2>9. r - 1 + Refill * q >= 0  BY <2>1, <2>3, <2>8
    <2>10. r < 1  BY <1>6
    <2> QED  BY <1>3, <2>3, <2>7, <2>9, <2>10, Zenon
  <1> QED  BY <1>5, <1>6, Zenon

\* A listing that is not cached takes its token, and is due when that is refilled.
LEMMA NoteStep ==
    ASSUME WalkInv, NEW t \in Threads, note_uncached(t), Cardinality(Threads) <= Refill * MaxWait
    PROVE  WalkInv'
  <1>1. /\ waits[t] = Free /\ UNCHANGED <<now, fetched>>
        /\ bucket' = [bucket EXCEPT !.tokens = Refilled - 1, !.at = now]
    BY Zenon DEF note_uncached
  <1>2. /\ now \in Nat /\ fetched \in Nat /\ waits \in [Threads -> Nat \cup {Free}]
        /\ bucket = [tokens |-> bucket.tokens, at |-> bucket.at, since |-> bucket.since]
        /\ bucket.tokens \in Int /\ bucket.at \in Nat /\ bucket.since \in Nat
        /\ bucket.since <= bucket.at /\ bucket.at <= now
    BY Zenon DEF WalkInv, WalkTyped
  <1>3. Burst \in Nat /\ Refill \in Nat  BY WalkAssumption, Zenon
  <1>4. PICK r \in Int : r = Refilled /\ r <= bucket.tokens + Refill * (now - bucket.at)
                         /\ (r < 1 => r = bucket.tokens + Refill * (now - bucket.at))
    BY <1>1, RefilledIs, Zenon
  <1>5. PICK w \in Nat : waits' = [waits EXCEPT ![t] = now + w] /\ r - 1 + Refill * w >= 0 /\ (w > 0 => r < 1)
    BY <1>4, WaitIs, Zenon
  <1>6. bucket'.tokens = r - 1 /\ bucket'.at = now /\ bucket'.since = bucket.since
        /\ bucket' = [tokens |-> r - 1, at |-> now, since |-> bucket.since]
    BY <1>1, <1>2, <1>4, Zenon
  <1>7. WalkTyped'
    <2>1. waits' \in [Threads -> Nat \cup {Free}]
      <3>1. now + w \in Nat  BY <1>2
      <3> QED  BY <1>2, <1>5, <3>1, Zenon
    <2>2. bucket.since <= now /\ r - 1 \in Int /\ now <= now  BY <1>2
    <2> QED  BY <1>1, <1>2, <1>6, <2>1, <2>2, Zenon DEF WalkTyped
  <1>8. t \notin Waiting /\ Waiting' = Waiting \cup {t}
    <2>1. now + w # Free  BY <1>2 DEF Free
    <2> QED  BY <1>1, <1>2, <1>5, <2>1, Zenon DEF Waiting
  <1>9. Cardinality(Waiting') = Cardinality(Waiting) + 1 /\ Cardinality(Waiting) \in Nat
    BY <1>8, ThreadsCounted, FS_AddElement, Zenon
  <1>10. PICK c \in Nat : c = Cardinality(Waiting) /\ Cardinality(Waiting') = c + 1  BY <1>9, Zenon
  <1>11. PICK y \in Int, z \in Int, x \in Int :
           y = Refill * (now - bucket.at) /\ z = Refill * (bucket.at - bucket.since) /\ x = Refill * w
    BY <1>2, <1>3
  <1>12. Refill * (now - bucket.since) = y + z
    <2>1. Refill * (now - bucket.since) = Refill * (now - bucket.at) + Refill * (bucket.at - bucket.since)
      BY <1>2, RefillAdds
    <2> QED  BY <1>11, <2>1, Zenon
  <1>13. fetched + c + r <= Burst + y + z
    <2>1. fetched + c + bucket.tokens <= Burst + z  BY <1>10, <1>11, Zenon DEF WalkInv, Spent
    <2> QED  BY <1>2, <1>3, <1>4, <1>11, <2>1
  <1>14. Spent'
    <2>1. fetched + (c + 1) + (r - 1) <= Burst + (y + z)  BY <1>2, <1>3, <1>13
    <2> QED  BY <1>1, <1>6, <1>10, <1>12, <2>1, Zenon DEF Spent
  <1>15. ASSUME NEW T \in Nat, T >= now
         PROVE  /\ fetched + Cardinality(Due(T)') <= Burst + Refill * (T - bucket.since)
                /\ r - 1 + Refill * (T - now) + Cardinality(Late(T)') >= 0
    <2>1. PICK u \in Int : u = Refill * (T - now)  BY <1>2, <1>3
    <2>2. Refill * (T - bucket.since) = u + (y + z)
      <3>1. Refill * (T - bucket.since) = Refill * (T - now) + Refill * (now - bucket.since)  BY <1>2, RefillAdds
      <3> QED  BY <1>12, <2>1, <3>1, Zenon
    <2>3. Cardinality(Due(T)') \in Nat /\ Cardinality(Late(T)') \in Nat /\ Cardinality(Due(T)') <= c + 1
      <3>1. Due(T)' \subseteq Waiting' /\ Late(T)' \subseteq Waiting'  BY Zenon DEF Due, Late, Waiting
      <3>2. IsFiniteSet(Waiting')  BY <1>8, ThreadsCounted, FS_AddElement, Zenon
      <3> QED  BY <1>10, <3>1, <3>2, FS_Subset, FS_CardinalityType, Zenon
    <2>4. PICK d \in Nat, l \in Nat : d = Cardinality(Due(T)') /\ l = Cardinality(Late(T)')  BY <2>3, Zenon
    <2>5. CASE T >= now + w
      <3>1. w <= T - now  BY <1>2, <2>5
      <3>2. x <= u  BY <1>2, <1>11, <2>1, <3>1, RefillGrows
      <3>3. r - 1 + x >= 0  BY <1>5, <1>11, Zenon
      <3>4. d <= c + 1  BY <2>3, <2>4, Zenon
      <3>5. fetched + d <= Burst + (u + (y + z))  BY <1>2, <1>3, <1>13, <3>2, <3>3, <3>4
      <3>6. r - 1 + u + l >= 0  BY <3>2, <3>3
      <3> QED  BY <2>1, <2>2, <2>4, <3>5, <3>6, ZenonT(60)
    <2>6. CASE ~(T >= now + w)
      <3>1. now + w > T /\ ~(now + w <= T) /\ w > 0 /\ now + w # Free /\ now + w \in Nat
        BY <1>2, <1>15, <2>6 DEF Free
      <3>2. Due(T)' = Due(T)  BY <1>1, <1>2, <1>5, <3>1, Zenon DEF Due
      <3>3. t \notin Late(T) /\ Late(T)' = Late(T) \cup {t}  BY <1>1, <1>2, <1>5, <3>1, Zenon DEF Late
      <3>4. Cardinality(Late(T)') = Cardinality(Late(T)) + 1 /\ Cardinality(Late(T)) \in Nat
        BY <3>3, ThreadsCounted, FS_AddElement, Zenon
      <3>5. PICK k \in Nat : k = Cardinality(Late(T)) /\ l = k + 1  BY <2>4, <3>4, Zenon
      <3>6. Refill * (T - bucket.at) = u + y
        <4>1. Refill * (T - bucket.at) = Refill * (T - now) + Refill * (now - bucket.at)  BY <1>2, RefillAdds
        <4> QED  BY <1>11, <2>1, <4>1, Zenon
      <3>7. bucket.tokens + (u + y) + k >= 0  BY <1>15, <3>5, <3>6, Zenon DEF WalkInv, Borrowed
      <3>8. r = bucket.tokens + y  BY <1>4, <1>5, <1>11, <3>1, Zenon
      <3>9. r - 1 + u + l >= 0  BY <1>2, <3>5, <3>7, <3>8
      <3>10. fetched + Cardinality(Due(T)') <= Burst + Refill * (T - bucket.since)
        BY <1>15, <3>2, Zenon DEF WalkInv, Paced
      <3> QED  BY <2>1, <2>4, <3>9, <3>10, Zenon
    <2> QED  BY <2>5, <2>6, Zenon
  <1>16. Paced'  BY <1>1, <1>6, <1>15, Zenon DEF Paced
  <1>17. Borrowed'  BY <1>1, <1>6, <1>15, Zenon DEF Borrowed
  <1> QED  BY <1>7, <1>14, <1>16, <1>17, Zenon DEF WalkInv

\* Another process of the same pid starts with a fresh bucket.
LEMMA PidReusedStep == ASSUME WalkInv, PidReused PROVE WalkInv'
  <1>1. now' \in Nat /\ bucket' = fresh' /\ fetched' = 0  BY Zenon DEF PidReused, WalkInv, WalkTyped, fresh
  <1>2. waits' = [t \in Threads |-> Free]  BY Zenon DEF PidReused, WalkInv, WalkTyped
  <1>3. (now \in Nat /\ bucket = fresh /\ fetched = 0 /\ waits = [t \in Threads |-> Free])'  BY <1>1, <1>2, Zenon
  <1>4. (now \in Nat /\ bucket = fresh /\ fetched = 0 /\ waits = [t \in Threads |-> Free]) => WalkInv  BY WalkStarts, Zenon
  <1> QED  BY <1>3, WalkStarts, PTL

\* A process with too few threads for a wait to reach MAX_WAIT gets no more
\* uncached listings than its burst and its rate allow.
THEOREM WalkerIsPaced == ASSUME Cardinality(Threads) <= Refill * MaxWait PROVE WalkSpec => []WalkerPaced
  <1>1. WalkInit => WalkInv
    <2> SUFFICES ASSUME WalkInit PROVE WalkInv  BY Zenon
    <2>1. now \in Nat /\ bucket = fresh /\ fetched = 0 /\ waits = [t \in Threads |-> Free]  BY Zenon DEF WalkInit
    <2> QED  BY <2>1, WalkStarts, Zenon
  <1>2. WalkInv /\ [WalkNext]_walkVars => WalkInv'
    <2> SUFFICES ASSUME WalkInv, [WalkNext]_walkVars PROVE WalkInv'  BY Zenon
    <2>1. CASE Later  BY <2>1, LaterStep, Zenon
    <2>2. ASSUME NEW t \in Threads, note_uncached(t) PROVE WalkInv'  BY <2>2, NoteStep, Zenon
    <2>3. ASSUME NEW t \in Threads, Fetch(t) PROVE WalkInv'  BY <2>3, FetchStep, Zenon
    <2>4. CASE PidReused  BY <2>4, PidReusedStep, Zenon
    <2>5. CASE UNCHANGED walkVars
      BY <2>5, Zenon DEF walkVars, WalkInv, WalkTyped, Spent, Paced, Borrowed, Waiting, Due, Late
    <2> QED  BY <2>1, <2>2, <2>3, <2>4, <2>5, Zenon DEF WalkNext
  <1>3. WalkInv => WalkerPaced
    <2> SUFFICES ASSUME WalkInv PROVE WalkerPaced  BY Zenon
    <2>1. now \in Nat /\ bucket.since \in Nat /\ fetched \in Nat  BY Zenon DEF WalkInv, WalkTyped
    <2>2. fetched + Cardinality(Due(now)) <= Burst + Refill * (now - bucket.since)  BY <2>1 DEF WalkInv, Paced
    <2>3. Cardinality(Due(now)) \in Nat  BY ThreadsCounted, Zenon
    <2>4. PICK y \in Int : y = Burst + Refill * (now - bucket.since)  BY <2>1, WalkAssumption
    <2>5. fetched <= y  BY <2>1, <2>2, <2>3, <2>4
    <2> QED  BY <2>4, <2>5, Zenon DEF WalkerPaced
  <1> QED  BY <1>1, <1>2, <1>3, PTL DEF WalkSpec

-----------------------------------------------------------------------------
(***************************************************************************)
(* Both, as Pacing puts them together.                                     *)
(***************************************************************************)

\* Backing off ends with the errors that caused it, for any settings, and a
\* walking process is slowed to its rate, however many listings it asks for.
THEOREM HoldingBackIsMeasured ==
    ASSUME Cardinality(Threads) <= Refill * MaxWait PROVE PaceSpec => []HeldBackInMeasure
  <1>1. BackoffSpec => []BackoffEnds  BY BackoffIsBounded, Zenon
  <1>2. WalkSpec => []WalkerPaced  BY WalkerIsPaced, Zenon
  <1>3. BackoffEnds /\ WalkerPaced => HeldBackInMeasure  BY Zenon DEF HeldBackInMeasure
  <1> QED  BY <1>1, <1>2, <1>3, PTL DEF PaceSpec
=============================================================================
