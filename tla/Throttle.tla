------------------------------ MODULE Throttle ------------------------------
(***************************************************************************)
(* The request throttle (ncrs_core/src/lib.rs, Throttle and Slots): a      *)
(* fixed number of numbered slots, each a connection of its own.  A caller *)
(* waits on one condition variable until enough slots are free; a          *)
(* speculative caller needs `spare` more to stay free.  A slot whose       *)
(* connection stalled is quarantined: taken again only when no healthy     *)
(* slot is free.                                                           *)
(***************************************************************************)
EXTENDS Naturals, FiniteSets

CONSTANTS Slots,      \* max: the slots are numbered 0 .. Slots - 1
          Callers,    \* threads that take slots
          Spares,     \* how many slots a caller leaves free: 0, SEGMENT_SPARE_SLOTS...
          Quarantine, \* ticks a bad slot is kept out of use
          MaxTime     \* bound on the clock

ASSUME SlotsAssumption == Slots \in Nat \ {0} /\ Spares \subseteq Nat /\ Quarantine \in Nat

Slot == 0 .. Slots - 1
NoSlot == Slots   \* stands for no slot

VARIABLES slots,  \* Slots: in_use, busy, bad_until, next
          caller, \* per thread: where it is, what it leaves free, the slot it holds
          time

throttleVars == <<slots, caller, time>>

NoPermit == [at |-> "idle", spare |-> 0, timed |-> FALSE, slot |-> NoSlot]

ThrottleInit ==
  /\ slots = [in_use |-> 0, busy |-> {}, bad_until |-> [s \in Slot |-> 0], next |-> 0]
  /\ caller = [c \in Callers |-> NoPermit]
  /\ time = 0

\* Slots a caller that leaves `spare` free may see in use and still take one.
SlotLimit(spare) == IF spare <= Slots THEN Slots - spare ELSE 0

\* How far slot i is from the cursor.
Distance(s, i) == (i + Slots - s.next) % Slots

\* Mutant of chosen: a slot in use is not passed over.
chosen_Busy(s) ==
  LET healthy == {i \in Slot : s.bad_until[i] <= time}
  IN  IF healthy # {}
      THEN CHOOSE i \in healthy : \A j \in healthy : Distance(s, i) <= Distance(s, j)
      ELSE CHOOSE i \in Slot \ s.busy : TRUE

\* take(): the first healthy free slot from the cursor on, or the free slot
\* whose quarantine ends soonest (the lowest one of several).
chosen(s) ==
  LET free    == Slot \ s.busy
      healthy == {i \in free : s.bad_until[i] <= time}
  IN  IF healthy # {}
      THEN CHOOSE i \in healthy : \A j \in healthy : Distance(s, i) <= Distance(s, j)
      ELSE CHOOSE i \in free : \A j \in free :
             s.bad_until[i] < s.bad_until[j] \/ (s.bad_until[i] = s.bad_until[j] /\ i <= j)

taken(s) ==
  [s EXCEPT !.in_use = @ + 1, !.busy = @ \cup {chosen(s)}, !.next = (chosen(s) + 1) % Slots]

\* acquire() and acquire_leaving(): under the lock, either a slot is there or
\* the caller goes to sleep on the condition variable.
AcquireSlot(c, spare, timed) ==
  /\ caller[c].at = "idle" /\ (timed \/ spare = 0)
  /\ IF slots.in_use < SlotLimit(spare)
     THEN /\ slots' = taken(slots)
          /\ caller' = [caller EXCEPT ![c] =
                          [at |-> "holding", spare |-> spare, timed |-> timed, slot |-> chosen(slots)]]
     ELSE /\ caller' = [caller EXCEPT ![c] =
                          [at |-> "asleep", spare |-> spare, timed |-> timed, slot |-> NoSlot]]
          /\ UNCHANGED slots
  /\ UNCHANGED time

\* A woken caller looks again.
SlotRecheck(c) ==
  /\ caller[c].at = "woken"
  /\ IF slots.in_use < SlotLimit(caller[c].spare)
     THEN /\ slots' = taken(slots)
          /\ caller' = [caller EXCEPT ![c].at = "holding", ![c].slot = chosen(slots)]
     ELSE /\ caller' = [caller EXCEPT ![c].at = "asleep"]
          /\ UNCHANGED slots
  /\ UNCHANGED time

\* The timeout of acquire_leaving runs out: a last look, then None.
SlotTimeout(c) ==
  /\ caller[c].at \in {"asleep", "woken"} /\ caller[c].timed
  /\ slots.in_use >= SlotLimit(caller[c].spare)
  /\ caller' = [caller EXCEPT ![c] = NoPermit]
  /\ UNCHANGED <<slots, time>>

\* Mutant of Notified: notify_one.
Notified_One(was) ==
  IF \A c \in Callers : was[c].at # "asleep" THEN was
  ELSE LET one == CHOOSE c \in Callers : was[c].at = "asleep"
       IN  [was EXCEPT ![one].at = "woken"]

\* notify_all: every sleeper looks again.
Notified(was) == [c \in Callers |-> [was[c] EXCEPT !.at = IF @ = "asleep" THEN "woken" ELSE @]]

\* release(), when the guard is dropped.
ReleaseSlot(c) ==
  /\ caller[c].at = "holding"
  /\ slots' = [slots EXCEPT !.busy = @ \ {caller[c].slot}, !.in_use = @ - 1]
  /\ caller' = Notified([caller EXCEPT ![c] = NoPermit])
  /\ UNCHANGED time

\* quarantine(), by a caller that holds the slot or has just given it back.
SlotStalled(i) ==
  /\ slots' = [slots EXCEPT !.bad_until[i] = time + Quarantine]
  /\ UNCHANGED <<caller, time>>

ThrottleTick ==
  /\ time < MaxTime
  /\ time' = time + 1
  /\ UNCHANGED <<slots, caller>>

ThrottleNext ==
  \/ \E c \in Callers, spare \in Spares, timed \in BOOLEAN : AcquireSlot(c, spare, timed)
  \/ \E c \in Callers : SlotRecheck(c) \/ SlotTimeout(c) \/ ReleaseSlot(c)
  \/ \E i \in Slot : SlotStalled(i)
  \/ ThrottleTick

ThrottleSpec == ThrottleInit /\ [][ThrottleNext]_throttleVars

-----------------------------------------------------------------------------
ThrottleTypeOK ==
  /\ slots \in [in_use : 0 .. Slots, busy : SUBSET Slot, bad_until : [Slot -> Nat], next : Slot]
  /\ caller \in [Callers -> [at : {"idle", "asleep", "woken", "holding"}, spare : Spares \cup {0},
                             timed : BOOLEAN, slot : 0 .. Slots]]
  /\ time \in Nat

Holders == {c \in Callers : caller[c].at = "holding"}

\* A slot, and with it a connection, has one holder at most, and in_use counts
\* exactly the held slots: whatever the order of acquire, release, timeout and
\* quarantine, no slot is lost or handed out twice.
SlotsAccounted ==
  /\ \A c, d \in Holders : caller[c].slot = caller[d].slot => c = d
  /\ slots.busy = {caller[c].slot : c \in Holders}
  /\ slots.in_use = Cardinality(slots.busy)

\* No caller sleeps while the slots it asked for are free: callers wait for
\* different numbers of free slots, so a release must wake them all.
NoSleeperMissed ==
  \A c \in Callers : caller[c].at = "asleep" => slots.in_use >= SlotLimit(caller[c].spare)
=============================================================================
