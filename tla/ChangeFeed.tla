----------------------------- MODULE ChangeFeed -----------------------------
(***************************************************************************)
(* change_log.rs, and how the IPC server uses it: what the mount and the   *)
(* push watcher record is pumped into a bounded, numbered ring, which each *)
(* client reads from a cursor.  An EVENTS or WATCH client keeps its own    *)
(* cursor and is told RESYNC when it fell off the ring; a legacy client's  *)
(* cursors are kept here, one pair for all connections of its process.     *)
(*                                                                         *)
(* Changes are numbered as they are made.  A change is a status change of  *)
(* one of two paths, or a structural change.                               *)
(***************************************************************************)
EXTENDS Naturals, Sequences

CONSTANTS Capacity,     \* of the ring
          PageSize,     \* EVENTS_PAGE, MAX_CHANGES
          Pumps,        \* the threads that pump
          KeepsCursor,  \* does a client go on with its cursor after a restart?
          MaxMade       \* bound on changes

ASSUME FeedAssumption == Capacity \in Nat /\ PageSize \in Nat

VARIABLES made,      \* changes made so far
          recorded,  \* the producers' buffers
          drained,   \* per pump, what it took from them and has yet to append
          ring,      \* its base and entries, and the EVENTS and WATCH readers
          events,    \* an EVENTS client: its connection, cursor, what it was told
          legacy     \* a process using CHANGES and FILE_CHANGES

feedVars == <<made, recorded, drained, ring, events, legacy>>

NoEvents == [on |-> FALSE, live |-> FALSE, since |-> 0, told |-> {}]
NoLegacy == [refs |-> 0, status |-> 0, file |-> 0, due |-> 0, told |-> {}, skipped |-> FALSE, again |-> FALSE]

FeedInit ==
    /\ made = 0 /\ recorded = <<>> /\ drained = [p \in Pumps |-> <<>>]
    /\ ring = [base |-> 0, entries |-> <<>>]
    /\ events = NoEvents /\ legacy = NoLegacy

head == ring.base + Len(ring.entries)
Kinds == {"p", "q", "file"}

Change(kind) ==
    /\ made < MaxMade /\ made' = made + 1
    /\ recorded' = Append(recorded, [n |-> made', kind |-> kind])
    /\ UNCHANGED <<drained, ring, events, legacy>>

----------------------------------------------------------------------------
(* The pump: drains the producers, then appends. *)

Drain(p) ==
    /\ recorded # <<>> /\ drained[p] = <<>>
    /\ drained' = [drained EXCEPT ![p] = recorded] /\ recorded' = <<>>
    /\ UNCHANGED <<made, ring, events, legacy>>

\* What nobody reads is not kept, but it is counted.
Unread == legacy.refs = 0 /\ ~events.live
appended_Uncounted(recs) ==
    LET all == ring.entries \o recs
        over == IF Len(all) > Capacity THEN Len(all) - Capacity ELSE 0
    IN  [base |-> ring.base, entries |-> IF Unread THEN <<>> ELSE SubSeq(all, over + 1, Len(all))]
appended(recs) ==
    LET all == ring.entries \o recs
        over == IF Len(all) > Capacity THEN Len(all) - Capacity ELSE 0
        kept == IF Unread THEN <<>> ELSE SubSeq(all, over + 1, Len(all))
    IN  [base |-> ring.base + Len(all) - Len(kept), entries |-> kept]
AppendTo(p) ==
    /\ drained[p] # <<>> /\ ring' = appended(drained[p])
    /\ drained' = [drained EXCEPT ![p] = <<>>]
    /\ UNCHANGED <<made, recorded, events, legacy>>

----------------------------------------------------------------------------
(* A client that keeps its cursor. *)

\* EVENTS without a cursor: the client starts from now and fetches the state.
EventsStart ==
    /\ ~events.on
    /\ events' = [on |-> TRUE, live |-> TRUE, since |-> head, told |-> 1..made]
    /\ UNCHANGED <<made, recorded, drained, ring, legacy>>

clamped(since) == IF since < ring.base THEN ring.base ELSE IF since > head THEN head ELSE since
Min2(a, b) == IF a < b THEN a ELSE b
Records(from, to) == {ring.entries[i] : i \in from - ring.base + 1 .. to - ring.base}

\* read_since, encode_events: RESYNC makes the client fetch everything again.
EventsRead ==
    /\ events.on
    /\ LET start == clamped(events.since)
           next == Min2(start + PageSize, head)
       IN  events' = [events EXCEPT !.live = TRUE, !.since = next,
                        !.told = IF events.since < ring.base THEN 1..made
                                 ELSE @ \cup {r.n : r \in Records(start, next)}]
    /\ UNCHANGED <<made, recorded, drained, ring, legacy>>

\* The connection closes, for CLIENT_READ_TIMEOUT or otherwise.
EventsGone ==
    /\ events.live /\ events' = [events EXCEPT !.live = FALSE]
    /\ UNCHANGED <<made, recorded, drained, ring, legacy>>

----------------------------------------------------------------------------
(* A legacy client. *)

attach ==
    /\ legacy.refs < 2
    /\ legacy' = IF legacy.refs > 0 THEN [legacy EXCEPT !.refs = @ + 1]
                 ELSE [NoLegacy EXCEPT !.refs = 1, !.status = head, !.file = head, !.due = made + 1]
    /\ UNCHANGED <<made, recorded, drained, ring, events>>
detach ==
    /\ legacy.refs > 0
    /\ legacy' = IF legacy.refs = 1 THEN NoLegacy ELSE [legacy EXCEPT !.refs = @ - 1]
    /\ UNCHANGED <<made, recorded, drained, ring, events>>

Told(recs) ==
    [legacy EXCEPT !.told = @ \cup {r.n : r \in recs},
                   !.again = @ \/ \E r \in recs : r.n \in legacy.told]

\* take_status: records up to the one that would be a path too many.
Paths(to, start) == {r.kind : r \in {r \in Records(start, to) : r.kind # "file"}}
Cardinality2(set) == IF set = {} THEN 0 ELSE IF \A x, y \in set : x = y THEN 1 ELSE 2
StatusEnd(start) ==
    CHOOSE to \in start..head :
        /\ Cardinality2(Paths(to, start)) <= PageSize
        /\ to = head \/ Cardinality2(Paths(to + 1, start)) > PageSize
take_status ==
    /\ legacy.refs > 0
    /\ LET start == clamped(legacy.status)
           next == StatusEnd(start)
       IN  legacy' = [Told({r \in Records(start, next) : r.kind # "file"})
                        EXCEPT !.status = next, !.skipped = @ \/ legacy.status < ring.base]
    /\ UNCHANGED <<made, recorded, drained, ring, events>>
take_file_changes ==
    /\ legacy.refs > 0
    /\ LET start == clamped(legacy.file)
       IN  legacy' = [Told({r \in Records(start, head) : r.kind = "file"})
                        EXCEPT !.file = head, !.skipped = @ \/ legacy.file < ring.base]
    /\ UNCHANGED <<made, recorded, drained, ring, events>>

----------------------------------------------------------------------------
\* The daemon restarts: the ring starts over, and legacy clients attach again.
FeedRestart ==
    /\ made > 0 /\ ring' = [base |-> 0, entries |-> <<>>]
    /\ recorded' = <<>> /\ drained' = [p \in Pumps |-> <<>>]
    /\ events' = IF KeepsCursor THEN [events EXCEPT !.live = FALSE] ELSE NoEvents
    /\ legacy' = NoLegacy
    /\ UNCHANGED made

FeedNext ==
    \/ \E kind \in Kinds : Change(kind)
    \/ \E p \in Pumps : Drain(p) \/ AppendTo(p)
    \/ EventsStart \/ EventsRead \/ EventsGone
    \/ attach \/ detach \/ take_status \/ take_file_changes
    \/ FeedRestart

FeedSpec == FeedInit /\ [][FeedNext]_feedVars

----------------------------------------------------------------------------
FeedTypeOK ==
    /\ Len(ring.entries) <= Capacity
    /\ legacy.refs \in 0..2 /\ legacy.refs > 0 => legacy.status <= head /\ legacy.file <= head
    /\ events.live => events.on

Coming(n) == \/ \E i \in DOMAIN recorded : recorded[i].n = n
             \/ \E p \in Pumps : \E i \in DOMAIN drained[p] : drained[p][i].n = n
Ahead(n, kinds, cursor) ==
    \E i \in DOMAIN ring.entries : ring.entries[i].n = n /\ ring.entries[i].kind \in kinds /\ ring.base + i > cursor

\* No client loses a change unawares: one with its own cursor has been told of
\* it, will be, or is about to get RESYNC; a legacy process is told of each
\* change made while it is connected, once, whichever of its connections asks,
\* unless it falls so far behind that the ring has moved on.
EventsTold ==
    events.on /\ events.since >= ring.base =>
        \A n \in 1..made : n \in events.told \/ Coming(n) \/ Ahead(n, Kinds, events.since)
LegacyTold ==
    legacy.refs > 0 /\ ~legacy.skipped /\ legacy.status >= ring.base /\ legacy.file >= ring.base =>
        \A n \in legacy.due..made : n \in legacy.told \/ Coming(n)
            \/ Ahead(n, {"p", "q"}, legacy.status) \/ Ahead(n, {"file"}, legacy.file)
ClientsTold == EventsTold /\ LegacyTold /\ ~legacy.again

\* Clients hear of changes in the order they were made: a file that was removed
\* and created again is not reported the other way round.
InOrderMade == \A i, j \in DOMAIN ring.entries : i < j => ring.entries[i].n < ring.entries[j].n
=============================================================================
