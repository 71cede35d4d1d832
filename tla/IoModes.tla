------------------------------ MODULE IoModes -------------------------------
(***************************************************************************)
(* iomode.rs for one inode: the daemon's mirror of the mode the kernel     *)
(* keeps the inode in, which decides how each open is answered.  The       *)
(* kernel fails an open that mixes passthrough with cached opens, that     *)
(* gives the inode a second backing file, or whose backing id is gone;     *)
(* direct I/O goes with anything.  The kernel drops a handle's mode before *)
(* it sends FUSE_RELEASE, and keeps it while the daemon is replaced.       *)
(***************************************************************************)
EXTENDS Naturals, FiniteSets

CONSTANTS Handles,
          MaxCopies,   \* bound: versions of the cached copy
          MaxBackings, \* bound: registrations of a backing file
          MaxRestarts

ASSUME HandlesAssumption == IsFiniteSet(Handles)

VARIABLES mirror,      \* InodeIoModes' entry for the inode
          copy,        \* the version of the cached copy on disk
          capable,     \* passthrough_capable
          opens,       \* per handle: how far it is, and how it was answered
          backings,    \* file behind each backing id registered so far
          registered,  \* the ids that still are
          leaked,      \* ids a restored handle nobody holds keeps registered
          restarts,
          refused      \* the kernel failed an open

ioVars == <<mirror, copy, capable, opens, backings, registered, leaked, restarts, refused>>

Unused == [mode |-> "none", backing |-> 0, file |-> 0, opens |-> 0]
Closed == [at |-> "closed", kind |-> "none", backing |-> 0, file |-> 0]

IoInit ==
    /\ mirror = Unused /\ copy = 1 /\ capable = TRUE
    /\ opens = [h \in Handles |-> Closed]
    /\ backings = [b \in {} |-> 0] /\ registered = {} /\ leaked = {}
    /\ restarts = 0 /\ refused = FALSE

Set(h, o) == opens' = [opens EXCEPT ![h] = o]

----------------------------------------------------------------------------
(* open(), create() *)

\* What the open may ask for: passthrough to the copy it has just looked at
\* (read-only, and the copy fresh), or nothing of the kind.
Opening(h) ==
    /\ opens[h].at = "closed"
    /\ \E file \in {0} \cup (IF capable THEN {copy} ELSE {}) :
          Set(h, [at |-> "asked", kind |-> "none", backing |-> 0, file |-> file])
    /\ UNCHANGED <<mirror, copy, capable, backings, registered, leaked, restarts, refused>>

\* A content-type probe is answered with direct I/O, past the mirror.
Probe(h) ==
    /\ opens[h].at = "closed"
    /\ Set(h, [at |-> "granted", kind |-> "direct", backing |-> 0, file |-> 0])
    /\ UNCHANGED <<mirror, copy, capable, backings, registered, leaked, restarts, refused>>

Grant(h, kind, backing) == Set(h, [at |-> "granted", kind |-> kind, backing |-> backing, file |-> opens[h].file])

Shares_AnyCopy(file) == file # 0
Shares(file) == file # 0 /\ file = mirror.file

\* InodeIoModes::acquire, and what open() does with a failed registration.
acquire(h) ==
    /\ opens[h].at = "asked"
    /\ \/ /\ mirror.mode = "passthrough"
          /\ IF Shares(opens[h].file)
             THEN Grant(h, "passthrough", mirror.backing) /\ mirror' = [mirror EXCEPT !.opens = @ + 1]
             ELSE Grant(h, "direct", 0) /\ UNCHANGED mirror
          /\ UNCHANGED <<capable, backings, registered>>
       \/ /\ mirror.mode = "cached"
          /\ Grant(h, "cached", 0) /\ mirror' = [mirror EXCEPT !.opens = @ + 1]
          /\ UNCHANGED <<capable, backings, registered>>
       \/ /\ mirror.mode = "foreign" /\ Grant(h, "direct", 0)
          /\ UNCHANGED <<mirror, capable, backings, registered>>
       \/ /\ mirror.mode = "none" /\ opens[h].file # 0
          /\ Cardinality(DOMAIN backings) < MaxBackings
          /\ LET id == Cardinality(DOMAIN backings) + 1
             IN  /\ backings' = [b \in 1..id |-> IF b = id THEN copy ELSE backings[b]]
                 /\ registered' = registered \cup {id}
                 /\ mirror' = [mode |-> "passthrough", backing |-> id, file |-> opens[h].file, opens |-> 1]
                 /\ Grant(h, "passthrough", id)
          /\ UNCHANGED capable
       \/ /\ mirror.mode = "none"
          /\ capable' = (capable /\ opens[h].file = 0)
          /\ mirror' = [Unused EXCEPT !.mode = "cached", !.opens = 1] /\ Grant(h, "cached", 0)
          /\ UNCHANGED <<backings, registered>>
    /\ UNCHANGED <<copy, leaked, restarts, refused>>

\* handle_opened: logged before the reply.
Logged(h) ==
    /\ opens[h].at = "granted" /\ Set(h, [opens[h] EXCEPT !.at = "logged"])
    /\ UNCHANGED <<mirror, copy, capable, backings, registered, leaked, restarts, refused>>

\* The kernel takes the answer.
Open(kind) == {h \in Handles : opens[h].at = "open" /\ opens[h].kind = kind}
KernelTakes(o) ==
    /\ o.kind = "passthrough" => /\ o.backing \in registered /\ Open("cached") = {}
                                 /\ \A h \in Open("passthrough") : opens[h].backing = o.backing
    /\ o.kind = "cached" => Open("passthrough") = {}
Answered(h) ==
    /\ opens[h].at = "logged" /\ Set(h, [opens[h] EXCEPT !.at = "open"])
    /\ refused' = (refused \/ ~KernelTakes(opens[h]))
    /\ UNCHANGED <<mirror, copy, capable, backings, registered, leaked, restarts>>

\* The last close: the kernel forgets the handle's mode, then says so.
Closing(h) ==
    /\ opens[h].at = "open" /\ Set(h, [opens[h] EXCEPT !.at = "closing"])
    /\ UNCHANGED <<mirror, copy, capable, backings, registered, leaked, restarts, refused>>

\* InodeIoModes::release; an id goes with its last handle.
Counted_AnyKind(kind) == mirror.mode # "none"
Counted(kind) == \/ kind = "passthrough" /\ mirror.mode \in {"passthrough", "foreign"}
                 \/ kind = "cached" /\ mirror.mode = "cached"
released(kind) == IF ~Counted(kind) THEN mirror
                  ELSE IF mirror.opens <= 1 THEN Unused ELSE [mirror EXCEPT !.opens = @ - 1]
release(h) ==
    /\ opens[h].at = "closing" /\ Set(h, Closed)
    /\ mirror' = released(opens[h].kind)
    /\ registered' = registered \
         (IF mirror.mode = "passthrough" /\ mirror' = Unused THEN {mirror.backing}
          ELSE IF opens[h].kind = "passthrough" /\ mirror.mode = "foreign"
          THEN {opens[h].backing} \ (leaked \cup {opens[g].backing : g \in Handles \ {h}})
          ELSE {})
    /\ UNCHANGED <<copy, capable, backings, leaked, restarts, refused>>

----------------------------------------------------------------------------
\* The cached copy is replaced, by rename.
Replaced ==
    /\ copy < MaxCopies /\ copy' = copy + 1
    /\ UNCHANGED <<mirror, capable, opens, backings, registered, leaked, restarts, refused>>

\* A successor takes the connection over: it adopts every handle it finds in
\* the log, and the kernel sends the opens that were not answered again.
Known(kind) == {h \in Handles : opens[h].at \in {"logged", "open", "closing"} /\ opens[h].kind = kind}
adopt_Cached ==
    IF Known("cached") # {} THEN [Unused EXCEPT !.mode = "cached", !.opens = Cardinality(Known("cached"))]
    ELSE Unused
adopt ==
    IF Known("passthrough") # {} THEN [Unused EXCEPT !.mode = "foreign", !.opens = Cardinality(Known("passthrough"))]
    ELSE IF Known("cached") # {} THEN [Unused EXCEPT !.mode = "cached", !.opens = Cardinality(Known("cached"))]
    ELSE Unused
Restored ==
    /\ restarts < MaxRestarts /\ restarts' = restarts + 1
    /\ mirror' = adopt /\ capable' = TRUE
    /\ leaked' = leaked \cup {opens[h].backing : h \in {g \in Known("passthrough") : opens[g].at = "logged"}}
    /\ opens' = [h \in Handles |-> IF opens[h].at \in {"open", "closing"} THEN opens[h] ELSE Closed]
    /\ UNCHANGED <<copy, backings, registered, refused>>

IoNext ==
    \/ \E h \in Handles : \/ Opening(h) \/ Probe(h) \/ acquire(h) \/ Logged(h)
                          \/ Answered(h) \/ Closing(h) \/ release(h)
    \/ Replaced \/ Restored

IoSpec == IoInit /\ [][IoNext]_ioVars

----------------------------------------------------------------------------
IoTypeOK ==
    /\ mirror.mode \in {"none", "passthrough", "cached", "foreign"}
    /\ mirror.mode = "none" <=> mirror.opens = 0
    /\ registered \subseteq DOMAIN backings
    /\ Known("passthrough") = {} \/ Known("cached") = {}

\* The kernel never fails an open because of how the daemon answered it,
\* whatever opens, closes and restarts it crossed: the mirror never counts
\* fewer handles than the kernel holds.
NoOpenRefused == ~refused

\* A handle that reads the backing file directly reads the copy its open looked
\* at, or a later one: a copy that has been replaced is not read through the
\* backing of an earlier open.
BackingNotStale ==
    \A h \in Handles : opens[h].kind = "passthrough" => backings[opens[h].backing] >= opens[h].file

\* The mirror of the kernel's I/O mode never leads to an open the kernel
\* refuses, and a passthrough handle never reads a copy older than the one its
\* open looked at.
ModesAgree == NoOpenRefused /\ BackingNotStale
=============================================================================
