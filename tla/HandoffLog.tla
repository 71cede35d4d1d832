----------------------------- MODULE HandoffLog -----------------------------
(***************************************************************************)
(* The node ids a restarted daemon takes over from its predecessor:        *)
(* state_snapshot's append-only log `handoff.log`, its reservation of ids, *)
(* its compaction, and the replay of it by the next daemon.                *)
(*                                                                         *)
(* The kernel keeps naming files by ids it was once given, so what must    *)
(* never happen is that an id comes to mean another file.  A file is its   *)
(* name; the log on disk is what replaying it yields.                      *)
(***************************************************************************)
EXTENDS Naturals, Sequences

CONSTANTS Names,        \* names in the mounted tree
          MaxIno,       \* bound: node ids handed out
          Block,        \* RESERVE_BLOCK
          MaxMoves,     \* bound: renames
          MaxKills,     \* bound: crashes and hand-overs
          Tears         \* may a crash cut the write it interrupts short?

VARIABLES alive,        \* "up", "crashed", "handed" (stopped by a hand-over)
          inodes,       \* FsCache::inodes (its inverse is FsCache::paths)
          nextIno,      \* FsCache::next_inode
          reserved,     \* Writer::reserved_upto
          buf,          \* Writer::buf: records not written yet
          image,        \* a compaction's copy of the state, and Writer::tail
          disk,         \* handoff.log
          kernel,       \* the file the kernel means by each id it was given
          moves,        \* renames so far
          kills         \* crashes and hand-overs so far

logVars == <<alive, inodes, nextIno, reserved, buf, image, disk, kernel, moves, kills>>

Inos == 2..MaxIno
Gone == "gone"          \* an id that resolves to nothing (ENOENT)
Never == "never"        \* an id the kernel was never given
NoImage == [on |-> FALSE]

ASSUME LogAssumption == MaxIno \in Nat /\ Block \in Nat \ {0} /\ {Gone, Never} \cap Names = {}

\* What Replayer makes of the records so far.  `last` is the state of the
\* file's last line: whole, torn off, a whole line of garbage, or garbage with
\* a record after it, which load refuses; a file that is gone stays gone.
NoRecords(upto) == [inodes |-> [i \in Inos |-> Gone], max |-> 1, reserved |-> upto, last |-> "whole"]

LogInit ==
    /\ alive = "up"
    /\ inodes = [i \in Inos |-> Gone] /\ nextIno = 2
    /\ reserved = 2 /\ disk = NoRecords(2)
    /\ buf = <<>> /\ image = NoImage
    /\ kernel = [i \in Inos |-> Never]
    /\ moves = 0 /\ kills = 0

----------------------------------------------------------------------------
(* Records and their replay. *)

Ino(i, n) == [t |-> "ino", ino |-> i, path |-> n, upto |-> 0]
Reserve(upto) == [t |-> "reserve", ino |-> 0, path |-> Gone, upto |-> upto]

\* Replayer::set: the id takes the path, whoever held it resolves no more.
Held(t, i, n) == [k \in Inos |-> IF k = i THEN n ELSE IF t[k] = n THEN Gone ELSE t[k]]

\* A move's displaced id is the one that held the path, so Mv replays as Ino.
ReplayOne(d, rec) ==
    IF rec.t = "reserve" THEN [d EXCEPT !.reserved = IF rec.upto > @ THEN rec.upto ELSE @]
    ELSE [d EXCEPT !.inodes = Held(@, rec.ino, rec.path), !.max = IF rec.ino > @ THEN rec.ino ELSE @]

\* One more record at the end of the file; behind a torn line it only
\* completes that line.
Line(d, rec) ==
    CASE d.last = "whole" -> ReplayOne(d, rec)
      [] d.last = "torn" -> [d EXCEPT !.last = "garbage"]
      [] d.last = "garbage" -> [d EXCEPT !.last = "refused"]
      [] OTHER -> d

Written(d, recs) ==
    LET upto[k \in 0..Len(recs)] == IF k = 0 THEN d ELSE Line(upto[k - 1], recs[k])
    IN upto[Len(recs)]

\* flush: the buffer goes to the file, and to the tail of a compaction.
Flushed(recs) ==
    /\ disk' = Written(disk, recs)
    /\ image' = IF image.on THEN [on |-> TRUE, tail |-> image.tail \o recs, base |-> image.base] ELSE image

reservation_after(i) == (i \div Block + 1) * Block

----------------------------------------------------------------------------
(* The daemon. *)

\* allocate_inode, log_inode: a reservation is written through before the
\* first id of its block; the id's own record is only queued.
Allocate(n) ==
    LET i == nextIno IN
    /\ alive = "up" /\ i \in Inos
    /\ \A k \in Inos : inodes[k] # n
    /\ nextIno' = i + 1
    /\ inodes' = [inodes EXCEPT ![i] = n]
    /\ kernel' = [kernel EXCEPT ![i] = IF @ = Never THEN n ELSE @]
    /\ IF i >= reserved
       THEN /\ reserved' = reservation_after(i)
            /\ Flushed(Append(buf, Reserve(reservation_after(i))))
            /\ buf' = <<Ino(i, n)>>
       ELSE /\ buf' = Append(buf, Ino(i, n))
            /\ UNCHANGED <<reserved, disk, image>>
    /\ UNCHANGED <<alive, moves, kills>>

\* move_path, inode_moved: written through, everything queued before it first.
Move(i, n) ==
    /\ alive = "up" /\ inodes[i] \notin {Gone, n}
    /\ moves < MaxMoves /\ moves' = moves + 1
    /\ inodes' = Held(inodes, i, n)
    /\ kernel' = [k \in Inos |-> IF k = i THEN n ELSE IF kernel[k] = n THEN Gone ELSE kernel[k]]
    /\ Flushed(Append(buf, Ino(i, n))) /\ buf' = <<>>
    /\ UNCHANGED <<alive, nextIno, reserved, kills>>

\* The ticker, once a second.
Tick ==
    /\ alive = "up" /\ buf # <<>>
    /\ Flushed(buf) /\ buf' = <<>>
    /\ UNCHANGED <<alive, inodes, nextIno, reserved, kernel, moves, kills>>

\* compact: the state is copied under the locks and written out without them,
\* then what was logged meanwhile is appended and the new file takes the old
\* one's place.
CompactBegin ==
    /\ alive = "up" /\ ~image.on /\ disk.last # "missing"
    /\ disk' = Written(disk, buf) /\ buf' = <<>>
    /\ reserved' = IF nextIno > reserved THEN nextIno ELSE reserved
    /\ image' = [on |-> TRUE, tail |-> <<>>,
                 base |-> [inodes |-> inodes, max |-> nextIno - 1, reserved |-> reserved', last |-> "whole"]]
    /\ UNCHANGED <<alive, inodes, nextIno, kernel, moves, kills>>
CompactEnd_NoTail ==
    /\ alive = "up" /\ image.on
    /\ disk' = image.base
    /\ buf' = <<>> /\ image' = NoImage
    /\ UNCHANGED <<alive, inodes, nextIno, reserved, kernel, moves, kills>>
CompactEnd ==
    /\ alive = "up" /\ image.on
    /\ \/ disk' = Written(image.base, image.tail \o buf) /\ disk.last # "missing"
       \/ disk' = Written(disk, buf)              \* compaction failed
    /\ buf' = <<>> /\ image' = NoImage
    /\ UNCHANGED <<alive, inodes, nextIno, reserved, kernel, moves, kills>>

\* flush cannot write: a log with a gap is worse than none, so it is removed
\* and the mount will not survive a restart.
WriteFails ==
    /\ alive = "up" /\ buf # <<>> /\ disk.last # "missing" /\ kills < MaxKills
    /\ disk' = [disk EXCEPT !.last = "missing"]
    /\ buf' = <<>>
    /\ UNCHANGED <<alive, inodes, nextIno, reserved, image, kernel, moves, kills>>

\* A kill at any moment; the write it interrupts reaches the file in part.
LogCrash ==
    /\ alive = "up" /\ kills < MaxKills /\ kills' = kills + 1
    /\ alive' = "crashed"
    /\ \E k \in 0..Len(buf), torn \in Tears :
          LET d == Written(disk, SubSeq(buf, 1, k)) IN
          disk' = IF torn /\ k < Len(buf) /\ d.last = "whole" THEN [d EXCEPT !.last = "torn"] ELSE d
    /\ buf' = <<>> /\ image' = NoImage
    /\ UNCHANGED <<inodes, nextIno, reserved, kernel, moves>>

\* drain_for_handover flushes the log; then the daemon exits or re-executes.
HandOver ==
    /\ alive = "up" /\ kills < MaxKills /\ kills' = kills + 1
    /\ alive' = "handed"
    /\ disk' = Written(disk, buf)
    /\ buf' = <<>> /\ image' = NoImage
    /\ UNCHANGED <<inodes, nextIno, reserved, kernel, moves>>

\* load, apply, start_resumed: the successor numbers past every id the log
\* names or reserves.  A log it cannot read ends the mount and the kernel's
\* ids with it (abandon), and starts a new one (start_fresh).
next_inode_Named(d) == d.max + 1
next_inode(d) == IF d.reserved > d.max + 1 THEN d.reserved ELSE d.max + 1
LogRestore ==
    /\ alive # "up" /\ alive' = "up"
    /\ IF disk.last \notin {"refused", "missing"}
       THEN /\ inodes' = disk.inodes
            /\ nextIno' = next_inode(disk) /\ reserved' = nextIno'
            /\ UNCHANGED <<disk, kernel>>
       ELSE /\ inodes' = [i \in Inos |-> Gone] /\ nextIno' = 2 /\ reserved' = 2
            /\ disk' = NoRecords(2)
            /\ kernel' = [i \in Inos |-> Never]
    /\ UNCHANGED <<buf, image, moves, kills>>

LogNext ==
    \/ \E n \in Names : Allocate(n)
    \/ \E i \in Inos, n \in Names : Move(i, n)
    \/ Tick \/ CompactBegin \/ CompactEnd \/ WriteFails
    \/ LogCrash \/ HandOver \/ LogRestore

LogSpec == LogInit /\ [][LogNext]_logVars

----------------------------------------------------------------------------
LogTypeOK ==
    /\ alive \in {"up", "crashed", "handed"}
    /\ inodes \in [Inos -> Names \cup {Gone}]
    /\ kernel \in [Inos -> Names \cup {Gone, Never}]
    /\ disk.last \in {"whole", "torn", "garbage", "refused", "missing"}
    /\ moves \in 0..MaxMoves /\ kills \in 0..MaxKills

\* "An id whose record was lost is unknown to the successor (ENOENT), never
\* another file": whatever was queued, compacted, moved or cut off when a
\* daemon died, an id the kernel was given resolves to the file it was given
\* for, or to nothing.
NeverAnotherFile ==
    alive = "up" => \A i \in Inos : inodes[i] \in {kernel[i], Gone}

\* A hand-over loses no id at all: what the log replays to is the table the
\* stopped daemon had, even with a compaction under way.
HandOverComplete ==
    alive = "handed" /\ disk.last = "whole" => disk.inodes = inodes

\* After a restart an inode number means the file the kernel was given it for,
\* or nothing, and a planned restart forgets none.
InodesKept == NeverAnotherFile /\ HandOverComplete
=============================================================================
