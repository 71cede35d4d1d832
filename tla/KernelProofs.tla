---------------------------- MODULE KernelProofs ----------------------------
(***************************************************************************)
(* Proofs about what the kernel relies on: the node ids, which outlive the *)
(* daemon that gave them, and the order of its requests.                   *)
(***************************************************************************)
EXTENDS HandoffLog, FuseSched, WellFoundedInduction, TLAPS

-----------------------------------------------------------------------------
(***************************************************************************)
(* HandoffLog: an id the kernel was given means its file or nothing,       *)
(* whatever is queued, compacted or lost when a daemon dies.               *)
(***************************************************************************)

\* The tables of ids, the log as it replays, and its records.
Tables == [Inos -> Names \cup {Gone}]
Logs == [inodes : Tables, max : Nat, reserved : Nat, last : {"whole", "missing"}]
Recs == [t : {"ino"}, ino : Inos, path : Names, upto : {0}]
        \cup [t : {"reserve"}, ino : {0}, path : {Gone}, upto : Nat]

----------------------------------------------------------------------------
(* Replaying a sequence of records. *)

\* Every nonempty set of numbers has a smallest one.
LEMMA LeastNumber ==
    ASSUME NEW S, S \subseteq Nat, S # {}
    PROVE  \E m \in S : \A n \in S : m <= n
  <1>1. PICK x \in S : \A y \in S : ~(<<y, x>> \in OpToRel(<, Nat))
    BY NatLessThanWellFounded, WFMin, Zenon
  <1>2. \A y \in S : ~(y < x)  BY <1>1, Zenon DEF OpToRel
  <1> QED  BY <1>2

\* f replays recs from d on, record by record.
Replays(f, d, recs) ==
    f = [k \in 0..Len(recs) |-> IF k = 0 THEN d ELSE Line(f[k - 1], recs[k])]

\* There is such a function for every sequence of records.
LEMMA ReplayExists ==
    ASSUME NEW d, NEW recs, Len(recs) \in Nat
    PROVE  \E f : Replays(f, d, recs)
  <1> DEFINE Upto(f, n) == f = [k \in 0..n |-> IF k = 0 THEN d ELSE Line(f[k - 1], recs[k])]
             Bad == {n \in 0..Len(recs) : ~\E f : Upto(f, n)}
  <1>1. SUFFICES Bad = {}  BY DEF Replays
  <1>2. SUFFICES ASSUME Bad # {} PROVE FALSE  BY Zenon
  <1>3. Bad \subseteq Nat  OBVIOUS
  <1>4. PICK b \in Bad : \A n \in Bad : b <= n  BY <1>2, <1>3, LeastNumber, Zenon
  <1>5. b # 0
    <2>1. Upto([k \in 0..0 |-> d], 0)  OBVIOUS
    <2> QED  BY <2>1, Zenon
  <1>6. b - 1 \in 0..Len(recs) /\ b - 1 \notin Bad  BY <1>4, <1>5
  <1>7. PICK f : Upto(f, b - 1)  BY <1>6, Zenon
  <1> DEFINE g == [k \in 0..b |-> IF k = b THEN Line(f[b - 1], recs[b]) ELSE f[k]]
  <1>8. ASSUME NEW k \in 0..b PROVE g[k] = IF k = 0 THEN d ELSE Line(g[k - 1], recs[k])
    BY <1>4, <1>5, <1>7
  <1>9. Upto(g, b)  BY <1>8, Zenon
  <1> QED  BY <1>4, <1>9, Zenon

\* So Written is the last value of one.
LEMMA WrittenReplays ==
    ASSUME NEW d, NEW recs, Len(recs) \in Nat
    PROVE  \E f : Replays(f, d, recs) /\ Written(d, recs) = f[Len(recs)]
  <1>1. \E f : Replays(f, d, recs)  BY ReplayExists, Zenon
  <1> DEFINE g == CHOOSE f : Replays(f, d, recs)
  <1>2. Replays(g, d, recs)  BY <1>1, Zenon
  <1>3. Written(d, recs) = g[Len(recs)]  BY Zenon DEF Written, Replays
  <1> QED  BY <1>2, <1>3, Zenon

\* Whatever one record keeps true of the log, all of them keep true.
LEMMA WrittenStays ==
    ASSUME NEW T, NEW d \in T, NEW recs, Len(recs) \in Nat,
           \A x \in T, k \in 1..Len(recs) : Line(x, recs[k]) \in T
    PROVE  Written(d, recs) \in T
  <1>1. PICK f : Replays(f, d, recs) /\ Written(d, recs) = f[Len(recs)]  BY WrittenReplays, Zenon
  <1> DEFINE Bad == {n \in 0..Len(recs) : f[n] \notin T}
  <1>2. SUFFICES ASSUME Bad # {} PROVE FALSE  BY <1>1
  <1>3. Bad \subseteq Nat  OBVIOUS
  <1>4. PICK b \in Bad : \A n \in Bad : b <= n  BY <1>2, <1>3, LeastNumber, Zenon
  <1>5. f[0] = d  BY <1>1 DEF Replays
  <1>6. b - 1 \in 0..Len(recs) /\ f[b - 1] \in T  BY <1>4, <1>5
  <1>7. f[b] = Line(f[b - 1], recs[b])  BY <1>1, <1>4, <1>5, Zenon DEF Replays
  <1> QED  BY <1>4, <1>6, <1>7

\* Nothing replays as nothing.
LEMMA WrittenNothing == ASSUME NEW d PROVE Written(d, <<>>) = d
  <1>1. Len(<<>>) = 0  BY Zenon
  <1>2. PICK f : Replays(f, d, <<>>) /\ Written(d, <<>>) = f[0]  BY <1>1, WrittenReplays, Zenon
  <1> QED  BY <1>1, <1>2 DEF Replays

\* A record at the end is replayed last.
LEMMA WrittenLast ==
    ASSUME NEW d, NEW recs \in Seq(Recs), NEW r \in Recs
    PROVE  Written(d, Append(recs, r)) = Line(Written(d, recs), r)
  <1> DEFINE more == Append(recs, r)
  <1>1. /\ Len(recs) \in Nat /\ Len(more) = Len(recs) + 1 /\ more[Len(recs) + 1] = r
        /\ \A k \in 1..Len(recs) : more[k] = recs[k]
    OBVIOUS
  <1> HIDE DEF more
  <1>2. PICK f : Replays(f, d, recs) /\ Written(d, recs) = f[Len(recs)]  BY <1>1, WrittenReplays, Zenon
  <1>3. PICK g : Replays(g, d, more) /\ Written(d, more) = g[Len(more)]  BY <1>1, WrittenReplays
  <1> DEFINE Bad == {n \in 0..Len(recs) : f[n] # g[n]}
  <1>4. Bad = {}
    <2>1. SUFFICES ASSUME Bad # {} PROVE FALSE  BY Zenon
    <2>2. Bad \subseteq Nat  BY <1>1
    <2>3. PICK b \in Bad : \A n \in Bad : b <= n  BY <2>1, <2>2, LeastNumber, Zenon
    <2>4. f[0] = d /\ g[0] = d  BY <1>1, <1>2, <1>3 DEF Replays
    <2>5. b - 1 \in 0..Len(recs) /\ f[b - 1] = g[b - 1]  BY <1>1, <2>3, <2>4
    <2>6. f[b] = Line(f[b - 1], recs[b])  BY <1>1, <1>2, <2>3, <2>4, Zenon DEF Replays
    <2>7. g[b] = Line(g[b - 1], more[b])
      <3>1. b # 0 /\ b \in 0..Len(more)  BY <1>1, <2>3, <2>4
      <3> QED  BY <1>3, <3>1, Zenon DEF Replays
    <2>8. more[b] = recs[b]  BY <1>1, <2>3, <2>4
    <2> QED  BY <2>3, <2>5, <2>6, <2>7, <2>8, Zenon
  <1>5. g[Len(recs) + 1] = Line(g[Len(recs)], r)  BY <1>1, <1>3 DEF Replays
  <1>6. f[Len(recs)] = g[Len(recs)]  BY <1>1, <1>4
  <1> QED  BY <1>1, <1>2, <1>3, <1>5, <1>6, Zenon DEF more

\* A reservation is past the id it is made for.
LEMMA ReservesMore == ASSUME NEW i \in Nat PROVE reservation_after(i) \in Nat /\ reservation_after(i) > i
  BY LogAssumption DEF reservation_after
----------------------------------------------------------------------------
(* The inductive invariant. *)

\* A table that gives the kernel no other file than the one it means.
True(t) == \A i \in Inos : t[i] \in {kernel[i], Gone}

\* A log that replays to table t, and from which ids are numbered past upto.
Holds(d, t, upto) ==
    d \in Logs /\ d.last = "whole" /\ d.inodes = t /\ upto <= next_inode(d)

\* The types.
LogTyped ==
    /\ alive \in {"up", "crashed", "handed"}
    /\ inodes \in Tables /\ DOMAIN kernel = Inos
    /\ nextIno \in Nat \ {0} /\ reserved \in Nat
    /\ disk \in Logs /\ buf \in Seq(Recs)
    /\ image.on \in BOOLEAN
    /\ image.on => image.tail \in Seq(Recs) /\ image.base \in Logs

\* The ids that wait in the buffer are the kernel's.
BufTrue == \A k \in 1..Len(buf) : buf[k].t = "ino" /\ kernel[buf[k].ino] = buf[k].path

\* While a daemon runs, the log with the buffer, and the compacted one with its
\* tail and the buffer, replay to its table.
Replayed ==
    /\ nextIno <= reserved
    /\ True(inodes)
    /\ \A i \in Inos : kernel[i] # Never => i < nextIno
    /\ BufTrue
    /\ disk.last = "whole" =>
         /\ reserved <= next_inode(disk)
         /\ Holds(Written(disk, buf), inodes, reserved)
         /\ image.on => Holds(Written(image.base, image.tail \o buf), inodes, reserved)

\* When it has stopped, a successor gives out no id the kernel has.
LeftBehind ==
    /\ buf = <<>> /\ ~image.on
    /\ disk.last = "whole" => \A i \in Inos : kernel[i] # Never => i < next_inode(disk)

\* The inductive invariant.
LogInv ==
    /\ LogTyped
    /\ disk.last = "whole" => True(disk.inodes)
    /\ alive = "up" => Replayed
    /\ alive # "up" => LeftBehind
    /\ HandOverComplete

----------------------------------------------------------------------------
(* What a record does to a log. *)

\* An id takes a path.
LEMMA HeldTable == ASSUME NEW t \in Tables, NEW i \in Inos, NEW n \in Names PROVE Held(t, i, n) \in Tables
  BY Zenon DEF Held, Tables

\* Ids are numbers.
LEMMA InosNat == Inos \subseteq Nat  BY LogAssumption DEF Inos

\* A whole log stays whole, and its ids are numbered no lower than before.
LEMMA WholeLine ==
    ASSUME NEW d \in Logs, d.last = "whole", NEW r \in Recs
    PROVE  /\ Line(d, r) \in Logs /\ Line(d, r).last = "whole"
           /\ next_inode(d) <= next_inode(Line(d, r))
           /\ r.t = "ino" => Line(d, r).inodes = Held(d.inodes, r.ino, r.path)
           /\ r.t = "reserve" => Line(d, r).inodes = d.inodes /\ r.upto <= next_inode(Line(d, r))
  <1>1. Line(d, r) = ReplayOne(d, r)  BY Zenon DEF Line
  <1>2. /\ d = [inodes |-> d.inodes, max |-> d.max, reserved |-> d.reserved, last |-> "whole"]
        /\ d.inodes \in Tables /\ d.max \in Nat /\ d.reserved \in Nat
    BY Zenon DEF Logs
  <1>3. CASE r.t = "reserve"
    <2>1. r.upto \in Nat  BY <1>3, Zenon DEF Recs
    <2>2. ReplayOne(d, r) = [inodes |-> d.inodes, max |-> d.max, last |-> "whole",
                             reserved |-> IF r.upto > d.reserved THEN r.upto ELSE d.reserved]
      BY <1>2, <1>3, Zenon DEF ReplayOne
    <2> QED  BY <1>1, <1>2, <1>3, <2>1, <2>2 DEF Logs, next_inode
  <1>4. CASE r.t # "reserve"
    <2>1. r.ino \in Inos /\ r.path \in Names  BY <1>4, Zenon DEF Recs
    <2>2. ReplayOne(d, r) = [inodes |-> Held(d.inodes, r.ino, r.path), reserved |-> d.reserved,
                             last |-> "whole", max |-> IF r.ino > d.max THEN r.ino ELSE d.max]
      BY <1>2, <1>4, Zenon DEF ReplayOne
    <2>3. Held(d.inodes, r.ino, r.path) \in Tables /\ r.ino \in Nat  BY <1>2, <2>1, HeldTable, InosNat, Zenon
    <2> QED  BY <1>1, <1>2, <1>4, <2>2, <2>3 DEF Logs, next_inode
  <1> QED  BY <1>3, <1>4, Zenon

\* A log that is gone stays gone.
LEMMA MissingLine == ASSUME NEW d \in Logs, d.last = "missing", NEW r PROVE Line(d, r) = d
  BY Zenon DEF Line

\* The same of a sequence of records.
LEMMA WrittenLog ==
    ASSUME NEW d \in Logs, NEW recs \in Seq(Recs)
    PROVE  /\ Written(d, recs) \in Logs /\ Written(d, recs).last = d.last
           /\ next_inode(d) <= next_inode(Written(d, recs))
  <1> DEFINE T == {x \in Logs : x.last = d.last /\ next_inode(d) <= next_inode(x)}
  <1>1. \A x \in Logs : next_inode(x) \in Nat  BY DEF Logs, next_inode
  <1>2. d \in T  BY <1>1
  <1>3. ASSUME NEW x \in T, NEW k \in 1..Len(recs) PROVE Line(x, recs[k]) \in T
    <2>1. recs[k] \in Recs  OBVIOUS
    <2>2. CASE x.last = "whole"
      <3>1. /\ Line(x, recs[k]) \in Logs /\ Line(x, recs[k]).last = "whole"
            /\ next_inode(x) <= next_inode(Line(x, recs[k]))
        BY <2>1, <2>2, WholeLine, Zenon
      <3> QED  BY <1>1, <2>2, <3>1
    <2>3. CASE x.last = "missing"  BY <2>3, MissingLine, Zenon
    <2> QED  BY <2>2, <2>3, Zenon DEF Logs
  <1>4. Len(recs) \in Nat  OBVIOUS
  <1> HIDE DEF T
  <1>5. Written(d, recs) \in T  BY <1>2, <1>3, <1>4, WrittenStays, Zenon
  <1> QED  BY <1>5, Zenon DEF T

\* Records of ids as the kernel means them leave a true log true.
LEMMA WrittenTrue ==
    ASSUME NEW d \in Logs, True(d.inodes), NEW recs \in Seq(Recs),
           \A k \in 1..Len(recs) : recs[k].t = "ino" /\ kernel[recs[k].ino] = recs[k].path
    PROVE  True(Written(d, recs).inodes)
  <1> DEFINE T == {x \in Logs : True(x.inodes)}
  <1>1. ASSUME NEW x \in T, NEW k \in 1..Len(recs) PROVE Line(x, recs[k]) \in T
    <2>1. recs[k] \in Recs  OBVIOUS
    <2>2. CASE x.last = "whole"
      <3>1. /\ Line(x, recs[k]) \in Logs
            /\ Line(x, recs[k]).inodes = Held(x.inodes, recs[k].ino, recs[k].path)
        BY <2>1, <2>2, WholeLine, Zenon
      <3>2. recs[k].ino \in Inos  BY <2>1, Zenon DEF Recs
      <3>3. True(Held(x.inodes, recs[k].ino, recs[k].path))  BY <3>2, Zenon DEF True, Held
      <3> QED  BY <3>1, <3>3, Zenon
    <2>3. CASE x.last = "missing"  BY <2>3, MissingLine, Zenon
    <2> QED  BY <2>2, <2>3, Zenon DEF Logs
  <1>2. Len(recs) \in Nat /\ d \in T  OBVIOUS
  <1> HIDE DEF T
  <1>3. Written(d, recs) \in T  BY <1>1, <1>2, WrittenStays, Zenon
  <1> QED  BY <1>3, Zenon DEF T

\* One more id.
LEMMA HoldsIno ==
    ASSUME NEW d, NEW t, NEW upto \in Nat, Holds(d, t, upto), NEW i \in Inos, NEW n \in Names
    PROVE  Holds(Line(d, Ino(i, n)), Held(t, i, n), upto)
  <1>1. Ino(i, n) \in Recs /\ Ino(i, n).t = "ino" /\ Ino(i, n).ino = i /\ Ino(i, n).path = n
    BY Zenon DEF Ino, Recs
  <1>2. d \in Logs /\ d.last = "whole" /\ d.inodes = t /\ upto <= next_inode(d)  BY Zenon DEF Holds
  <1>3. /\ Line(d, Ino(i, n)) \in Logs /\ Line(d, Ino(i, n)).last = "whole"
        /\ next_inode(d) <= next_inode(Line(d, Ino(i, n)))
        /\ Line(d, Ino(i, n)).inodes = Held(d.inodes, Ino(i, n).ino, Ino(i, n).path)
    BY <1>1, <1>2, WholeLine, Zenon
  <1>4. next_inode(d) \in Nat /\ next_inode(Line(d, Ino(i, n))) \in Nat  BY <1>2, <1>3 DEF Logs, next_inode
  <1> QED  BY <1>1, <1>2, <1>3, <1>4 DEF Holds

\* One more reservation.
LEMMA HoldsReserve ==
    ASSUME NEW d, NEW t, NEW upto, Holds(d, t, upto), NEW more \in Nat
    PROVE  Holds(Line(d, Reserve(more)), t, more)
  <1>1. Reserve(more) \in Recs /\ Reserve(more).t = "reserve" /\ Reserve(more).upto = more
    BY Zenon DEF Reserve, Recs
  <1>2. d \in Logs /\ d.last = "whole" /\ d.inodes = t  BY Zenon DEF Holds
  <1>3. /\ Line(d, Reserve(more)) \in Logs /\ Line(d, Reserve(more)).last = "whole"
        /\ Line(d, Reserve(more)).inodes = d.inodes
        /\ Reserve(more).upto <= next_inode(Line(d, Reserve(more)))
    BY <1>1, <1>2, WholeLine, Zenon
  <1> QED  BY <1>1, <1>2, <1>3, Zenon DEF Holds

\* Sequences of records put together.
LEMMA Joined ==
    ASSUME NEW s \in Seq(Recs), NEW q \in Seq(Recs), NEW r \in Recs
    PROVE  s \o q \in Seq(Recs) /\ s \o Append(q, r) = Append(s \o q, r)
  OBVIOUS
\* One record at the end of others.
LEMMA JoinedOne == ASSUME NEW s \in Seq(Recs), NEW r \in Recs PROVE s \o <<r>> = Append(s, r)
  OBVIOUS
\* No record at the end of others.
LEMMA JoinedNone == ASSUME NEW s \in Seq(Recs) PROVE s \o <<>> = s
  OBVIOUS

----------------------------------------------------------------------------
(* The daemon's steps. *)

\* flush: what it writes goes to the log, and to a compaction's tail.
LEMMA Flushes ==
    ASSUME LogTyped, NEW recs \in Seq(Recs), Flushed(recs)
    PROVE  /\ disk' = Written(disk, recs) /\ disk' \in Logs /\ disk'.last = disk.last
           /\ image'.on = image.on
           /\ image.on => /\ image'.base = image.base /\ image.base \in Logs
                          /\ image'.tail = image.tail \o recs
                          /\ image.tail \in Seq(Recs) /\ image'.tail \in Seq(Recs)
  <1>1. disk' = Written(disk, recs) /\ disk \in Logs  BY Zenon DEF Flushed, LogTyped
  <1>2. disk' \in Logs /\ disk'.last = disk.last  BY <1>1, WrittenLog, Zenon
  <1>3. CASE image.on
    <2>1. image' = [on |-> TRUE, tail |-> image.tail \o recs, base |-> image.base]  BY <1>3, Zenon DEF Flushed
    <2>2. image.tail \in Seq(Recs) /\ image.base \in Logs /\ image.on = TRUE  BY <1>3, Zenon DEF LogTyped
    <2>3. image.tail \o recs \in Seq(Recs)  BY <2>2
    <2> QED  BY <1>1, <1>2, <2>1, <2>2, <2>3, Zenon
  <1>4. CASE ~image.on  BY <1>1, <1>2, <1>4, Zenon DEF Flushed
  <1> QED  BY <1>3, <1>4, Zenon

\* A log in step with the table is true when the table is.
LEMMA HoldsTrue == ASSUME NEW d, NEW t, NEW upto, Holds(d, t, upto), True(t) PROVE True(d.inodes)
  BY Zenon DEF Holds

\* The table and the kernel learn an id that nobody had.
LEMMA NewIdUnused ==
    ASSUME LogInv, NEW n \in Names, Allocate(n)
    PROVE  /\ nextIno \in Inos /\ kernel[nextIno] = Never
           /\ inodes' = Held(inodes, nextIno, n) /\ inodes' \in Tables
           /\ kernel' = [kernel EXCEPT ![nextIno] = n]
           /\ True(inodes)'
           /\ \A i \in Inos : kernel'[i] # Never => i < nextIno'
           /\ \A t \in Tables : True(t) => \A i \in Inos : t[i] \in {kernel'[i], Gone}
  <1>0. LogTyped /\ Replayed  BY Zenon DEF LogInv, Allocate
  <1>1. nextIno \in Inos /\ nextIno \in Nat /\ nextIno' = nextIno + 1  BY <1>0, Zenon DEF Allocate, LogTyped
  <1>2. kernel[nextIno] = Never
    <2>1. kernel[nextIno] # Never => nextIno < nextIno  BY <1>0, <1>1, Zenon DEF Replayed
    <2> QED  BY <1>1, <2>1
  <1>3. kernel' = [kernel EXCEPT ![nextIno] = n]  BY <1>2, Zenon DEF Allocate
  <1>4. inodes' = [inodes EXCEPT ![nextIno] = n] /\ \A k \in Inos : inodes[k] # n  BY Zenon DEF Allocate
  <1>5. inodes' = Held(inodes, nextIno, n)  BY <1>0, <1>1, <1>4, Zenon DEF Held, LogTyped, Tables
  <1>6. inodes' \in Tables  BY <1>0, <1>1, <1>5, HeldTable, Zenon DEF LogTyped
  <1>7. True(inodes)'  BY <1>0, <1>1, <1>3, <1>4, Zenon DEF True, Replayed, LogTyped, Tables
  <1>8. ASSUME NEW i \in Inos, kernel'[i] # Never PROVE i < nextIno'
    <2>1. CASE i = nextIno  BY <1>1, <2>1
    <2>2. CASE i # nextIno
      <3>1. kernel'[i] = kernel[i]  BY <1>0, <1>3, <2>2, Zenon DEF LogTyped
      <3>2. i < nextIno  BY <1>0, <1>8, <3>1, Zenon DEF Replayed
      <3> QED  BY <1>1, <3>2, InosNat
    <2> QED  BY <2>1, <2>2, Zenon
  <1>9. ASSUME NEW t \in Tables, True(t), NEW i \in Inos PROVE t[i] \in {kernel'[i], Gone}
    <2>1. CASE i = nextIno
      BY <1>2, <1>9, <2>1, LogAssumption, Zenon DEF True, Tables
    <2>2. CASE i # nextIno  BY <1>0, <1>1, <1>3, <1>9, <2>2, Zenon DEF True, LogTyped
    <2> QED  BY <2>1, <2>2, Zenon
  <1> QED  BY <1>1, <1>2, <1>3, <1>5, <1>6, <1>7, <1>8, <1>9, Zenon

\* allocate_inode: the id's record is queued, after the reservation of its block.
LEMMA AllocateStep == ASSUME LogInv, NEW n \in Names, Allocate(n) PROVE LogInv'
  <1>0. LogTyped /\ Replayed /\ alive' = "up"  BY Zenon DEF LogInv, Allocate
  <1>1. PICK i : i = nextIno  BY Zenon
  <1>2. /\ i \in Inos /\ i \in Nat /\ kernel[i] = Never /\ nextIno' = i + 1
        /\ inodes' = Held(inodes, i, n) /\ inodes' \in Tables
        /\ kernel' = [kernel EXCEPT ![i] = n]
        /\ True(inodes)'
        /\ \A k \in Inos : kernel'[k] # Never => k < nextIno'
        /\ \A t \in Tables : True(t) => \A k \in Inos : t[k] \in {kernel'[k], Gone}
    BY <1>1, NewIdUnused, InosNat, Zenon DEF Allocate
  <1>3. /\ Ino(i, n) \in Recs /\ Ino(i, n).t = "ino" /\ Ino(i, n).ino = i /\ Ino(i, n).path = n
    BY <1>2, Zenon DEF Ino, Recs
  <1>4. /\ disk \in Logs /\ buf \in Seq(Recs) /\ reserved \in Nat /\ DOMAIN kernel = Inos
        /\ kernel'[i] = n
    BY <1>0, <1>2, Zenon DEF LogTyped
  <1>5. ASSUME NEW k \in 1..Len(buf)
        PROVE  buf[k].t = "ino" /\ kernel'[buf[k].ino] = buf[k].path
    <2>1. buf[k] \in Recs /\ buf[k].t = "ino" /\ kernel[buf[k].ino] = buf[k].path
      BY <1>0, <1>4 DEF Replayed, BufTrue
    <2>2. buf[k].ino \in Inos /\ buf[k].path \in Names  BY <2>1, Zenon DEF Recs
    <2>3. buf[k].ino # i  BY <1>2, <2>1, <2>2, LogAssumption, Zenon
    <2> QED  BY <1>2, <1>4, <2>1, <2>2, <2>3, Zenon
  <1>6. CASE i < reserved
    <2>1. buf' = Append(buf, Ino(i, n)) /\ UNCHANGED <<reserved, disk, image>>
      <3>1. ~(nextIno >= reserved)  BY <1>1, <1>2, <1>4, <1>6
      <3> QED  BY <1>1, <3>1, Zenon DEF Allocate
    <2>2. LogTyped'  BY <1>0, <1>2, <1>3, <2>1 DEF LogTyped
    <2>3. disk'.last = "whole" => True(disk.inodes)'
      <3>1. disk.inodes \in Tables  BY <1>4, Zenon DEF Logs
      <3> QED  BY <1>2, <2>1, <3>1, Zenon DEF LogInv, True
    <2>4. BufTrue'
      <3>1. ASSUME NEW k \in 1..Len(buf') PROVE buf'[k].t = "ino" /\ kernel'[buf'[k].ino] = buf'[k].path
        <4>1. CASE k \in 1..Len(buf)
          <5>1. buf'[k] = buf[k]  BY <1>4, <2>1, <4>1
          <5> QED  BY <1>5, <4>1, <5>1, Zenon
        <4>2. CASE k \notin 1..Len(buf)
          <5>1. buf'[k] = Ino(i, n)  BY <1>3, <1>4, <2>1, <4>2
          <5> QED  BY <1>3, <1>4, <5>1, Zenon
        <4> QED  BY <4>1, <4>2, Zenon
      <3> QED  BY <3>1, Zenon DEF BufTrue
    <2>5. ASSUME disk'.last = "whole"
          PROVE  /\ reserved' <= next_inode(disk')
                 /\ Holds(Written(disk', buf'), inodes', reserved')
                 /\ image'.on => Holds(Written(image'.base, image'.tail \o buf'), inodes', reserved')
      <3>1. /\ reserved <= next_inode(disk) /\ Holds(Written(disk, buf), inodes, reserved)
            /\ image.on => Holds(Written(image.base, image.tail \o buf), inodes, reserved)
        BY <1>0, <2>1, <2>5, Zenon DEF Replayed
      <3>2. Written(disk, buf') = Line(Written(disk, buf), Ino(i, n))
        BY <1>3, <1>4, <2>1, WrittenLast, Zenon
      <3>3. Holds(Written(disk, buf'), inodes', reserved)
        BY <1>2, <1>4, <3>1, <3>2, HoldsIno
      <3>4. ASSUME image.on PROVE Holds(Written(image.base, image.tail \o buf'), inodes', reserved)
        <4>1. image.tail \in Seq(Recs)  BY <1>0, <3>4, Zenon DEF LogTyped
        <4>2. image.tail \o buf' = Append(image.tail \o buf, Ino(i, n)) /\ image.tail \o buf \in Seq(Recs)
          BY <1>3, <1>4, <2>1, <4>1, Joined, Zenon
        <4>3. Written(image.base, image.tail \o buf') = Line(Written(image.base, image.tail \o buf), Ino(i, n))
          BY <1>3, <4>2, WrittenLast, Zenon
        <4> QED  BY <1>2, <1>4, <3>1, <3>4, <4>3, HoldsIno
      <3> QED  BY <2>1, <3>1, <3>3, <3>4, Zenon
    <2>6. nextIno' <= reserved'  BY <1>2, <1>4, <1>6, <2>1
    <2>7. Replayed'  BY <1>2, <2>4, <2>5, <2>6, Zenon DEF Replayed
    <2> QED  BY <1>0, <2>2, <2>3, <2>7, Zenon DEF LogInv, HandOverComplete
  <1>7. CASE ~(i < reserved)
    <2> DEFINE more == reservation_after(i)
    <2>0. more \in Nat /\ more > i /\ Reserve(more) \in Recs
      BY <1>2, ReservesMore, Zenon DEF Reserve, Recs
    <2>1. reserved' = more /\ Flushed(Append(buf, Reserve(more))) /\ buf' = <<Ino(i, n)>>
      <3>1. nextIno >= reserved  BY <1>1, <1>2, <1>4, <1>7
      <3> QED  BY <1>1, <3>1, Zenon DEF Allocate
    <2> HIDE DEF more
    <2>2. Append(buf, Reserve(more)) \in Seq(Recs)  BY <1>4, <2>0
    <2>3. disk' \in Logs /\ disk'.last = disk.last /\ disk' = Line(Written(disk, buf), Reserve(more))
      BY <1>0, <1>4, <2>0, <2>1, <2>2, Flushes, WrittenLast, Zenon
    <2>4. /\ image'.on = image.on
          /\ image.on => /\ image'.base = image.base /\ image.base \in Logs
                         /\ image'.tail = image.tail \o Append(buf, Reserve(more))
                         /\ image.tail \in Seq(Recs) /\ image'.tail \in Seq(Recs)
      BY <1>0, <2>1, <2>2, Flushes, Zenon
    <2>6. LogTyped'
      <3>1. buf' \in Seq(Recs)  BY <1>3, <2>1
      <3>2. image'.on \in BOOLEAN /\ (image'.on => image'.tail \in Seq(Recs) /\ image'.base \in Logs)
        BY <1>0, <2>4, Zenon DEF LogTyped
      <3>3. nextIno' \in Nat \ {0} /\ reserved' \in Nat  BY <1>2, <2>0, <2>1
      <3>4. DOMAIN kernel' = Inos  BY <1>2, <1>4, Zenon
      <3> QED  BY <1>0, <1>2, <2>3, <3>1, <3>2, <3>3, <3>4, Zenon DEF LogTyped
    <2>7. BufTrue'  BY <1>3, <1>4, <2>1 DEF BufTrue
    <2>8. ASSUME disk'.last = "whole"
          PROVE  /\ Holds(disk', inodes, reserved') /\ Holds(Written(disk', buf'), inodes', reserved')
                 /\ image'.on => Holds(Written(image'.base, image'.tail \o buf'), inodes', reserved')
      <3>1. /\ Holds(Written(disk, buf), inodes, reserved)
            /\ image.on => Holds(Written(image.base, image.tail \o buf), inodes, reserved)
        BY <1>0, <2>3, <2>8, Zenon DEF Replayed
      <3>2. Holds(disk', inodes, more)  BY <2>0, <2>3, <3>1, HoldsReserve, Zenon
      <3>3. Written(disk', buf') = Line(disk', Ino(i, n))
        <4>1. buf' = Append(<<>>, Ino(i, n)) /\ <<>> \in Seq(Recs)  BY <2>1
        <4>2. Written(disk', buf') = Line(Written(disk', <<>>), Ino(i, n))  BY <1>3, <4>1, WrittenLast, Zenon
        <4> QED  BY <4>2, WrittenNothing, Zenon
      <3>4. Holds(Written(disk', buf'), inodes', more)  BY <1>2, <2>0, <3>2, <3>3, HoldsIno, Zenon
      <3>5. ASSUME image.on PROVE Holds(Written(image'.base, image'.tail \o buf'), inodes', more)
        <4>1. /\ image'.base = image.base /\ image'.tail = image.tail \o Append(buf, Reserve(more))
              /\ image.tail \in Seq(Recs) /\ image'.tail \in Seq(Recs)
          BY <2>4, <3>5, Zenon
        <4>2. image'.tail = Append(image.tail \o buf, Reserve(more)) /\ image.tail \o buf \in Seq(Recs)
          BY <1>4, <2>0, <4>1, Joined, Zenon
        <4>3. Written(image.base, image'.tail) = Line(Written(image.base, image.tail \o buf), Reserve(more))
          BY <2>0, <4>2, WrittenLast, Zenon
        <4>4. Holds(Written(image.base, image'.tail), inodes, more)
          BY <2>0, <3>1, <3>5, <4>3, HoldsReserve, Zenon
        <4>5. image'.tail \o buf' = Append(image'.tail, Ino(i, n))  BY <1>3, <2>1, <4>1, JoinedOne, Zenon
        <4>6. Written(image.base, image'.tail \o buf') = Line(Written(image.base, image'.tail), Ino(i, n))
          <5>1. image'.tail \in Seq(Recs) /\ Ino(i, n) \in Recs  BY <1>3, <4>1, Zenon
          <5> QED  BY <4>5, <5>1, WrittenLast, Zenon
        <4> QED  BY <1>2, <2>0, <4>1, <4>4, <4>6, HoldsIno, Zenon
      <3> QED  BY <2>1, <2>4, <3>2, <3>4, <3>5, Zenon
    <2>9. disk'.last = "whole" => True(disk.inodes)'
      <3>1. disk'.last = "whole" => disk'.inodes = inodes  BY <2>8, Zenon DEF Holds
      <3>2. True(inodes) /\ inodes \in Tables  BY <1>0, Zenon DEF Replayed, LogTyped
      <3> QED  BY <1>2, <3>1, <3>2, Zenon DEF True
    <2>10. Replayed'
      <3>1. nextIno' <= reserved'  BY <1>2, <2>0, <2>1
      <3>2. disk'.last = "whole" => reserved' <= next_inode(disk')  BY <2>8, Zenon DEF Holds
      <3> QED  BY <1>2, <2>7, <2>8, <3>1, <3>2, Zenon DEF Replayed
    <2> QED  BY <1>0, <2>6, <2>9, <2>10, Zenon DEF LogInv, HandOverComplete
  <1> QED  BY <1>6, <1>7, Zenon
\* A step that flushes everything: the log and a compaction's copy with its tail
\* replay to the table as it is after it.
LEMMA FlushedAll ==
    ASSUME LogInv, alive = "up", UNCHANGED <<alive, nextIno, reserved>>, buf' = <<>>,
           inodes' \in Tables, True(inodes)', DOMAIN kernel' = Inos,
           \A i \in Inos : kernel'[i] # Never => i < nextIno,
           NEW recs \in Seq(Recs), Flushed(recs),
           disk.last = "whole" => Holds(Written(disk, recs), inodes', reserved),
           disk.last = "whole" /\ image.on => Holds(Written(image.base, image.tail \o recs), inodes', reserved)
    PROVE  LogInv'
  <1>0. LogTyped /\ Replayed  BY Zenon DEF LogInv
  <1>1. /\ disk' = Written(disk, recs) /\ disk' \in Logs /\ disk'.last = disk.last
        /\ image'.on = image.on
        /\ image.on => /\ image'.base = image.base /\ image.base \in Logs
                       /\ image'.tail = image.tail \o recs /\ image'.tail \in Seq(Recs)
    BY <1>0, Flushes, Zenon
  <1>2. LogTyped'
    <2>1. buf' \in Seq(Recs)  OBVIOUS
    <2>2. image'.on \in BOOLEAN /\ (image'.on => image'.tail \in Seq(Recs) /\ image'.base \in Logs)
      BY <1>0, <1>1, Zenon DEF LogTyped
    <2> QED  BY <1>0, <1>1, <2>1, <2>2, Zenon DEF LogTyped
  <1>3. ASSUME disk'.last = "whole"
        PROVE  /\ reserved' <= next_inode(disk') /\ True(disk.inodes)'
               /\ Holds(Written(disk', buf'), inodes', reserved')
               /\ image'.on => Holds(Written(image'.base, image'.tail \o buf'), inodes', reserved')
    <2>1. Holds(disk', inodes', reserved)  BY <1>1, <1>3, Zenon
    <2>2. Written(disk', buf') = disk'  BY WrittenNothing, Zenon
    <2>3. ASSUME image.on PROVE Holds(Written(image'.base, image'.tail \o buf'), inodes', reserved)
      <3>1. image'.tail \in Seq(Recs)  BY <1>1, <2>3, Zenon
      <3>2. image'.tail \o buf' = image'.tail  BY <3>1, JoinedNone, Zenon
      <3> QED  BY <1>1, <1>3, <2>3, <3>2, Zenon
    <2>4. reserved' <= next_inode(disk') /\ disk'.inodes = inodes'  BY <2>1, Zenon DEF Holds
    <2>5. True(disk.inodes)'  BY <2>4, Zenon DEF True
    <2> QED  BY <1>1, <2>1, <2>2, <2>3, <2>4, <2>5, Zenon
  <1>4. BufTrue'
    <2>1. Len(buf') = 0  BY Zenon
    <2> QED  BY <2>1 DEF BufTrue
  <1>5. Replayed'  BY <1>0, <1>3, <1>4, Zenon DEF Replayed
  <1> QED  BY <1>2, <1>3, <1>5, Zenon DEF LogInv, HandOverComplete

\* The ticker.
LEMMA TickStep == ASSUME LogInv, Tick PROVE LogInv'
  <1>0. /\ LogTyped /\ Replayed /\ alive = "up" /\ Flushed(buf) /\ buf' = <<>>
        /\ UNCHANGED <<alive, inodes, nextIno, reserved, kernel>>
    BY Zenon DEF LogInv, Tick
  <1>1. inodes' \in Tables /\ DOMAIN kernel' = Inos /\ buf \in Seq(Recs)  BY <1>0, Zenon DEF LogTyped
  <1>2. True(inodes)' /\ \A i \in Inos : kernel'[i] # Never => i < nextIno  BY <1>0, Zenon DEF Replayed, True
  <1>3. /\ disk.last = "whole" => Holds(Written(disk, buf), inodes', reserved)
        /\ disk.last = "whole" /\ image.on => Holds(Written(image.base, image.tail \o buf), inodes', reserved)
    BY <1>0, Zenon DEF Replayed
  <1> QED  BY <1>0, <1>1, <1>2, <1>3, FlushedAll, Zenon

\* move_path: the id takes its new path in the table, in the kernel and in the log.
LEMMA MoveStep == ASSUME LogInv, NEW i \in Inos, NEW n \in Names, Move(i, n) PROVE LogInv'
  <1>0. /\ LogTyped /\ Replayed /\ alive = "up" /\ Flushed(Append(buf, Ino(i, n))) /\ buf' = <<>>
        /\ inodes' = Held(inodes, i, n) /\ inodes[i] # Gone
        /\ kernel' = [k \in Inos |-> IF k = i THEN n ELSE IF kernel[k] = n THEN Gone ELSE kernel[k]]
        /\ UNCHANGED <<alive, nextIno, reserved>>
    BY Zenon DEF LogInv, Move
  <1>1. inodes \in Tables /\ buf \in Seq(Recs) /\ reserved \in Nat  BY <1>0, Zenon DEF LogTyped
  <1>2. inodes' \in Tables /\ DOMAIN kernel' = Inos  BY <1>0, <1>1, HeldTable, Zenon
  <1>3. True(inodes)'  BY <1>0, Zenon DEF True, Held, Replayed
  <1>4. ASSUME NEW k \in Inos, kernel'[k] # Never PROVE k < nextIno
    <2>1. kernel[i] # Never
      <3>1. inodes[i] = kernel[i] /\ inodes[i] \in Names  BY <1>0, <1>1, Zenon DEF Replayed, True, Tables
      <3> QED  BY <3>1, LogAssumption, Zenon
    <2>2. kernel[k] # Never  BY <1>0, <1>4, <2>1, LogAssumption, Zenon
    <2> QED  BY <1>0, <2>2, Zenon DEF Replayed
  <1>5. Ino(i, n) \in Recs  BY Zenon DEF Ino, Recs
  <1>6. Append(buf, Ino(i, n)) \in Seq(Recs)  BY <1>1, <1>5
  <1>7. ASSUME disk.last = "whole" PROVE Holds(Written(disk, Append(buf, Ino(i, n))), inodes', reserved)
    <2>1. Written(disk, Append(buf, Ino(i, n))) = Line(Written(disk, buf), Ino(i, n))
      BY <1>1, <1>5, WrittenLast, Zenon
    <2>2. Holds(Written(disk, buf), inodes, reserved)  BY <1>0, <1>7, Zenon DEF Replayed
    <2> QED  BY <1>0, <1>1, <2>1, <2>2, HoldsIno, Zenon
  <1>8. ASSUME disk.last = "whole", image.on
        PROVE  Holds(Written(image.base, image.tail \o Append(buf, Ino(i, n))), inodes', reserved)
    <2>1. image.tail \in Seq(Recs)  BY <1>0, <1>8, Zenon DEF LogTyped
    <2>2. /\ image.tail \o Append(buf, Ino(i, n)) = Append(image.tail \o buf, Ino(i, n))
          /\ image.tail \o buf \in Seq(Recs)
      BY <1>1, <1>5, <2>1, Joined, Zenon
    <2>3. Written(image.base, image.tail \o Append(buf, Ino(i, n)))
            = Line(Written(image.base, image.tail \o buf), Ino(i, n))
      BY <1>5, <2>2, WrittenLast, Zenon
    <2>4. Holds(Written(image.base, image.tail \o buf), inodes, reserved)  BY <1>0, <1>8, Zenon DEF Replayed
    <2> QED  BY <1>0, <1>1, <2>3, <2>4, HoldsIno, Zenon
  <1> QED  BY <1>0, <1>2, <1>3, <1>4, <1>6, <1>7, <1>8, FlushedAll, Zenon
\* A running daemon's log after a step that empties the buffer and leaves the
\* table alone, where it replays to that table or is gone.
LEMMA Emptied ==
    ASSUME LogInv, alive = "up", UNCHANGED <<alive, inodes, nextIno, reserved, kernel>>, buf' = <<>>,
           disk' \in Logs, disk'.last = "whole" => Holds(disk', inodes, reserved),
           image'.on \in BOOLEAN,
           image'.on => image'.tail \in Seq(Recs) /\ image'.base \in Logs,
           disk'.last = "whole" /\ image'.on => Holds(Written(image'.base, image'.tail), inodes, reserved)
    PROVE  LogInv'
  <1>0. LogTyped /\ Replayed  BY Zenon DEF LogInv
  <1>1. LogTyped'
    <2>1. buf' \in Seq(Recs)  OBVIOUS
    <2> QED  BY <1>0, <2>1, Zenon DEF LogTyped
  <1>2. Written(disk', buf') = disk'  BY WrittenNothing, Zenon
  <1>3. ASSUME image'.on PROVE image'.tail \o buf' = image'.tail  BY <1>3, JoinedNone, Zenon
  <1>4. True(inodes)'  BY <1>0, Zenon DEF Replayed, True
  <1>5. disk'.last = "whole" => reserved <= next_inode(disk') /\ disk'.inodes = inodes  BY Zenon DEF Holds
  <1>6. disk'.last = "whole" => True(disk.inodes)'  BY <1>0, <1>5, Zenon DEF Replayed, True
  <1>7. BufTrue'
    <2>1. Len(buf') = 0  BY Zenon
    <2> QED  BY <2>1 DEF BufTrue
  <1>8. Replayed'  BY <1>0, <1>2, <1>3, <1>4, <1>5, <1>7, Zenon DEF Replayed
  <1> QED  BY <1>1, <1>6, <1>8, Zenon DEF LogInv, HandOverComplete

\* compact copies the state: the copy replays to it.
LEMMA CompactBeginStep == ASSUME LogInv, CompactBegin PROVE LogInv'
  <1>0. /\ LogTyped /\ Replayed /\ alive = "up" /\ disk' = Written(disk, buf) /\ buf' = <<>>
        /\ UNCHANGED <<alive, inodes, nextIno, kernel>>
    BY Zenon DEF LogInv, CompactBegin
  <1>1. /\ disk \in Logs /\ buf \in Seq(Recs) /\ inodes \in Tables
        /\ nextIno \in Nat \ {0} /\ reserved \in Nat /\ nextIno <= reserved
    BY <1>0, Zenon DEF LogTyped, Replayed
  <1>2. reserved' = reserved  BY <1>1 DEF CompactBegin
  <1> DEFINE base == [inodes |-> inodes, max |-> nextIno - 1, reserved |-> reserved, last |-> "whole"]
  <1>3. image' = [on |-> TRUE, tail |-> <<>>, base |-> base]  BY <1>2, Zenon DEF CompactBegin
  <1>4. base \in Logs  BY <1>1 DEF Logs
  <1>5. Holds(base, inodes, reserved)  BY <1>1, <1>4 DEF Holds, next_inode
  <1> HIDE DEF base
  <1>6. image'.on = TRUE /\ image'.tail = <<>> /\ image'.base = base  BY <1>3, Zenon
  <1>7. image'.tail \in Seq(Recs) /\ Written(image'.base, image'.tail) = base  BY <1>6, WrittenNothing
  <1>8. disk' \in Logs /\ disk'.last = disk.last  BY <1>0, <1>1, WrittenLog, Zenon
  <1>9. disk'.last = "whole" => Holds(disk', inodes, reserved)  BY <1>0, <1>8, Zenon DEF Replayed
  <1> QED  BY <1>0, <1>2, <1>4, <1>5, <1>6, <1>7, <1>8, <1>9, Emptied, Zenon

\* It ends: the new file with what was logged meanwhile, or the old one.
LEMMA CompactEndStep == ASSUME LogInv, CompactEnd PROVE LogInv'
  <1>0. /\ LogTyped /\ Replayed /\ alive = "up" /\ buf' = <<>> /\ image' = NoImage /\ image.on
        /\ UNCHANGED <<alive, inodes, nextIno, reserved, kernel>>
    BY Zenon DEF LogInv, CompactEnd
  <1>1. /\ disk \in Logs /\ buf \in Seq(Recs) /\ image.base \in Logs /\ image.tail \in Seq(Recs)
    BY <1>0, Zenon DEF LogTyped
  <1>2. image'.on = FALSE  BY <1>0, Zenon DEF NoImage
  <1>3. disk' \in Logs /\ (disk'.last = "whole" => Holds(disk', inodes, reserved))
    <2>1. CASE disk' = Written(image.base, image.tail \o buf) /\ disk.last # "missing"
      <3>1. disk.last = "whole"  BY <1>1, <2>1, Zenon DEF Logs
      <3>2. Holds(disk', inodes, reserved)  BY <1>0, <2>1, <3>1, Zenon DEF Replayed
      <3> QED  BY <3>2, Zenon DEF Holds
    <2>2. CASE disk' = Written(disk, buf)
      <3>1. disk' \in Logs /\ disk'.last = disk.last  BY <1>1, <2>2, WrittenLog, Zenon
      <3> QED  BY <1>0, <2>2, <3>1, Zenon DEF Replayed
    <2> QED  BY <2>1, <2>2, Zenon DEF CompactEnd
  <1> QED  BY <1>0, <1>2, <1>3, Emptied, Zenon

\* A log that cannot be written is removed.
LEMMA WriteFailsStep == ASSUME LogInv, WriteFails PROVE LogInv'
  <1>0. /\ LogTyped /\ alive = "up" /\ buf' = <<>> /\ disk' = [disk EXCEPT !.last = "missing"]
        /\ UNCHANGED <<alive, inodes, nextIno, reserved, image, kernel>>
    BY Zenon DEF LogInv, WriteFails
  <1>1. disk' \in Logs /\ disk'.last = "missing"  BY <1>0, Zenon DEF LogTyped, Logs
  <1>2. image'.on \in BOOLEAN /\ (image'.on => image'.tail \in Seq(Recs) /\ image'.base \in Logs)
    BY <1>0, Zenon DEF LogTyped
  <1> QED  BY <1>0, <1>1, <1>2, Emptied, Zenon

\* The daemon stops: what is on disk is true, and numbers past every id given.
LEMMA Stopped ==
    ASSUME LogInv, alive = "up", alive' \in {"crashed", "handed"}, buf' = <<>>, image' = NoImage,
           UNCHANGED <<inodes, nextIno, reserved, kernel>>,
           disk' \in Logs, disk'.last = "whole" => reserved <= next_inode(disk') /\ True(disk'.inodes),
           alive' = "handed" /\ disk'.last = "whole" => disk'.inodes = inodes
    PROVE  LogInv'
  <1>0. LogTyped /\ Replayed  BY Zenon DEF LogInv
  <1>1. image'.on = FALSE  BY Zenon DEF NoImage
  <1>2. LogTyped'
    <2>1. buf' \in Seq(Recs)  OBVIOUS
    <2> QED  BY <1>0, <1>1, <2>1, Zenon DEF LogTyped
  <1>3. LeftBehind'
    <2>1. ASSUME disk'.last = "whole", NEW i \in Inos, kernel'[i] # Never PROVE i < next_inode(disk')
      <3>1. i < nextIno /\ nextIno <= reserved /\ reserved <= next_inode(disk')
        BY <1>0, <2>1, Zenon DEF Replayed
      <3>2. i \in Nat /\ nextIno \in Nat /\ reserved \in Nat /\ next_inode(disk') \in Nat
        BY <1>0, InosNat DEF LogTyped, Logs, next_inode
      <3> QED  BY <3>1, <3>2
    <2> QED  BY <1>1, <2>1, Zenon DEF LeftBehind
  <1>4. disk'.last = "whole" => True(disk.inodes)'  BY Zenon DEF True
  <1> QED  BY <1>2, <1>3, <1>4, Zenon DEF LogInv, HandOverComplete

\* A crash leaves a beginning of the buffer in the log.
LEMMA LogCrashStep == ASSUME LogInv, TRUE \notin Tears, Tears \subseteq BOOLEAN, LogCrash PROVE LogInv'
  <1>0. /\ LogTyped /\ Replayed /\ alive = "up" /\ alive' = "crashed" /\ buf' = <<>> /\ image' = NoImage
        /\ UNCHANGED <<inodes, nextIno, reserved, kernel>>
    BY Zenon DEF LogInv, LogCrash
  <1>1. disk \in Logs /\ buf \in Seq(Recs) /\ reserved \in Nat  BY <1>0, Zenon DEF LogTyped
  <1>2. PICK k \in 0..Len(buf) : disk' = Written(disk, SubSeq(buf, 1, k))  BY Zenon DEF LogCrash
  <1>3. PICK recs : recs = SubSeq(buf, 1, k)  BY Zenon
  <1>4. recs \in Seq(Recs) /\ Len(recs) = k /\ \A j \in 1..k : recs[j] = buf[j]  BY <1>1, <1>3
  <1>5. disk' \in Logs /\ disk'.last = disk.last /\ next_inode(disk) <= next_inode(disk')
    BY <1>1, <1>2, <1>3, <1>4, WrittenLog, Zenon
  <1>6. ASSUME disk'.last = "whole" PROVE reserved <= next_inode(disk') /\ True(disk'.inodes)
    <2>1. reserved <= next_inode(disk) /\ True(disk.inodes)  BY <1>0, <1>5, <1>6, Zenon DEF Replayed, LogInv
    <2>2. next_inode(disk) \in Nat /\ next_inode(disk') \in Nat  BY <1>1, <1>5 DEF Logs, next_inode
    <2>3. ASSUME NEW j \in 1..Len(recs) PROVE recs[j].t = "ino" /\ kernel[recs[j].ino] = recs[j].path
      <3>1. j \in 1..Len(buf) /\ recs[j] = buf[j]  BY <1>1, <1>4
      <3>2. BufTrue  BY <1>0, Zenon DEF Replayed
      <3> QED  BY <3>1, <3>2, Zenon DEF BufTrue
    <2>4. True(Written(disk, recs).inodes)  BY <1>1, <1>4, <2>1, <2>3, WrittenTrue, Zenon
    <2> QED  BY <1>1, <1>2, <1>3, <1>5, <2>1, <2>2, <2>4
  <1> QED  BY <1>0, <1>5, <1>6, Stopped, Zenon

\* A hand-over leaves all of it.
LEMMA HandOverStep == ASSUME LogInv, HandOver PROVE LogInv'
  <1>0. /\ LogTyped /\ Replayed /\ alive = "up" /\ alive' = "handed" /\ buf' = <<>> /\ image' = NoImage
        /\ disk' = Written(disk, buf) /\ UNCHANGED <<inodes, nextIno, reserved, kernel>>
    BY Zenon DEF LogInv, HandOver
  <1>1. disk' \in Logs /\ disk'.last = disk.last  BY <1>0, WrittenLog, Zenon DEF LogTyped
  <1>2. disk'.last = "whole" => Holds(disk', inodes, reserved)  BY <1>0, <1>1, Zenon DEF Replayed
  <1>3. disk'.last = "whole" => reserved <= next_inode(disk') /\ disk'.inodes = inodes  BY <1>2, Zenon DEF Holds
  <1>4. disk'.last = "whole" => True(disk'.inodes)  BY <1>0, <1>3, Zenon DEF Replayed
  <1> QED  BY <1>0, <1>1, <1>3, <1>4, Stopped, Zenon

\* A log without records.
LEMMA EmptyLog == ASSUME NEW upto \in Nat PROVE Holds(NoRecords(upto), [i \in Inos |-> Gone], upto)
  BY DEF NoRecords, Holds, Logs, Tables, next_inode

\* The successor takes the log over, or starts a new one when there is none.
LEMMA LogRestoreStep == ASSUME LogInv, LogRestore PROVE LogInv'
  <1>0. LogTyped /\ LeftBehind /\ alive' = "up" /\ UNCHANGED <<buf, image>>  BY Zenon DEF LogInv, LogRestore
  <1>1. disk \in Logs /\ buf' = <<>> /\ ~image'.on  BY <1>0, Zenon DEF LogTyped, LeftBehind
  <1>2. BufTrue'
    <2>1. Len(buf') = 0  BY <1>1, Zenon
    <2> QED  BY <2>1 DEF BufTrue
  <1>3. Written(disk', buf') = disk'  BY <1>1, WrittenNothing, Zenon
  <1>4. CASE disk.last = "whole"
    <2>1. /\ inodes' = disk.inodes /\ nextIno' = next_inode(disk) /\ reserved' = nextIno'
          /\ UNCHANGED <<disk, kernel>>
      BY <1>4, Zenon DEF LogRestore
    <2>2. next_inode(disk) \in Nat \ {0} /\ disk.inodes \in Tables  BY <1>1 DEF Logs, next_inode
    <2>3. LogTyped'  BY <1>0, <1>1, <2>1, <2>2, Zenon DEF LogTyped
    <2>4. True(inodes)' /\ True(disk.inodes)'  BY <1>4, <2>1, Zenon DEF LogInv, True
    <2>5. Holds(disk', inodes', reserved')  BY <1>1, <1>4, <2>1, <2>2 DEF Holds
    <2>6. Replayed'
      <3>1. nextIno' <= reserved' /\ reserved' <= next_inode(disk')  BY <2>1, <2>2
      <3>2. \A i \in Inos : kernel'[i] # Never => i < nextIno'  BY <1>0, <1>4, <2>1, Zenon DEF LeftBehind
      <3> QED  BY <1>1, <1>2, <1>3, <2>4, <2>5, <3>1, <3>2, Zenon DEF Replayed
    <2> QED  BY <1>0, <2>3, <2>4, <2>6, Zenon DEF LogInv, HandOverComplete
  <1>5. CASE disk.last # "whole"
    <2>0. disk.last = "missing"  BY <1>1, <1>5, Zenon DEF Logs
    <2>1. /\ inodes' = [i \in Inos |-> Gone] /\ nextIno' = 2 /\ reserved' = 2 /\ disk' = NoRecords(2)
          /\ kernel' = [i \in Inos |-> Never]
      BY <2>0, Zenon DEF LogRestore
    <2>2. Holds(disk', inodes', reserved')  BY <2>1, EmptyLog, Zenon
    <2>3. disk' \in Logs /\ disk'.inodes = inodes' /\ reserved' <= next_inode(disk')  BY <2>2, Zenon DEF Holds
    <2>4. LogTyped'  BY <1>0, <1>1, <2>1, <2>3 DEF LogTyped, Tables
    <2>5. True(inodes)' /\ True(disk.inodes)'  BY <2>1, <2>3, Zenon DEF True
    <2>6. Replayed'
      <3>1. nextIno' <= reserved' /\ \A i \in Inos : kernel'[i] # Never => i < nextIno'  BY <2>1
      <3> QED  BY <1>1, <1>2, <1>3, <2>2, <2>3, <2>5, <3>1, Zenon DEF Replayed
    <2> QED  BY <1>0, <2>4, <2>5, <2>6, Zenon DEF LogInv, HandOverComplete
  <1> QED  BY <1>4, <1>5, Zenon

\* A new log.
LEMMA LogInitInv == LogInit => LogInv
  <1> SUFFICES ASSUME LogInit PROVE LogInv  BY Zenon
  <1>1. Holds(disk, inodes, reserved)  BY EmptyLog, Zenon DEF LogInit
  <1>2. disk \in Logs /\ disk.inodes = inodes /\ reserved <= next_inode(disk)  BY <1>1, Zenon DEF Holds
  <1>3. image.on = FALSE /\ Len(buf) = 0  BY Zenon DEF LogInit, NoImage
  <1>4. LogTyped
    <2>1. inodes \in Tables /\ DOMAIN kernel = Inos /\ buf \in Seq(Recs)  BY DEF LogInit, Tables
    <2>2. alive = "up" /\ nextIno = 2 /\ reserved = 2  BY Zenon DEF LogInit
    <2>3. image.on \in BOOLEAN /\ ~image.on  BY <1>3, Zenon
    <2>4. nextIno \in Nat \ {0} /\ reserved \in Nat  BY <2>2
    <2> QED  BY <1>2, <2>1, <2>2, <2>3, <2>4, Zenon DEF LogTyped
  <1>5. True(inodes) /\ True(disk.inodes)  BY <1>2, Zenon DEF LogInit, True
  <1>6. Written(disk, buf) = disk  BY WrittenNothing, Zenon DEF LogInit
  <1>7. Replayed
    <2>1. nextIno <= reserved /\ \A i \in Inos : kernel[i] # Never => i < nextIno  BY DEF LogInit
    <2> QED  BY <1>1, <1>2, <1>3, <1>5, <1>6, <2>1 DEF Replayed, BufTrue
  <1> QED  BY <1>4, <1>5, <1>7, Zenon DEF LogInv, LogInit, HandOverComplete

\* If no crash cuts a record short, then after any sequence of renames,
\* compactions, failed writes, crashes and hand-overs, for any number of names
\* and ids and any RESERVE_BLOCK, an id the kernel was given still means its
\* file or nothing, and a hand-over loses none.
THEOREM InodesSurvive ==
    ASSUME Tears \subseteq BOOLEAN, TRUE \notin Tears
    PROVE  LogSpec => []InodesKept
  <1>1. LogInv /\ [LogNext]_logVars => LogInv'
    <2> SUFFICES ASSUME LogInv, [LogNext]_logVars PROVE LogInv'  BY Zenon
    <2>1. ASSUME NEW n \in Names, Allocate(n) PROVE LogInv'  BY <2>1, AllocateStep, Zenon
    <2>2. ASSUME NEW i \in Inos, NEW n \in Names, Move(i, n) PROVE LogInv'  BY <2>2, MoveStep, Zenon
    <2>3. CASE Tick  BY <2>3, TickStep, Zenon
    <2>4. CASE CompactBegin  BY <2>4, CompactBeginStep, Zenon
    <2>5. CASE CompactEnd  BY <2>5, CompactEndStep, Zenon
    <2>6. CASE WriteFails  BY <2>6, WriteFailsStep, Zenon
    <2>7. CASE LogCrash  BY <2>7, LogCrashStep, Zenon
    <2>8. CASE HandOver  BY <2>8, HandOverStep, Zenon
    <2>9. CASE LogRestore  BY <2>9, LogRestoreStep, Zenon
    <2>10. CASE UNCHANGED logVars
      BY <2>10, Zenon DEF logVars, LogInv, LogTyped, True, Replayed, BufTrue, LeftBehind, HandOverComplete
    <2> QED
      BY <2>1, <2>2, <2>3, <2>4, <2>5, <2>6, <2>7, <2>8, <2>9, <2>10, Zenon DEF LogNext
  <1>2. LogInv => InodesKept
    BY Zenon DEF LogInv, InodesKept, NeverAnotherFile, Replayed, True
  <1> QED  BY LogInitInv, <1>1, <1>2, PTL DEF LogSpec

-----------------------------------------------------------------------------
(***************************************************************************)
(* FuseSched: requests on the same inode run in arrival order, none is     *)
(* stranded, and the scheduler implements RequestOrder.                    *)
(***************************************************************************)

\* Every nonempty set of ids has a smallest one: the head of its queue.
LEMMA HeadExists ==
    ASSUME NEW S, S \subseteq Nat, S # {}
    PROVE  \E m \in S : \A n \in S : m <= n
<1>1. PICK x \in S : \A y \in S : ~(<<y, x>> \in OpToRel(<, Nat))
  BY NatLessThanWellFounded, WFMin, Zenon
<1>2. \A y \in S : ~(y < x)
  BY <1>1, Zenon DEF OpToRel
<1>3. \A y \in S : x <= y
  BY <1>2
<1> QED  BY <1>3, Zenon

\* A live task is on the queue of each of its keys.
LiveOnKeys ==
    \A t \in DOMAIN tasks : \A k \in DOMAIN tasks[t].keys : t \in DOMAIN queues[k]

\* The task being completed is no longer live and was ready on the keys still to release;
\* outside complete() no key is left over.
CompletingOK ==
    /\ completing.id \notin DOMAIN tasks
    /\ Unlocked => completing.left = {}
    /\ \A k \in completing.left :
          /\ completing.id \in DOMAIN queues[k]
          /\ \A e \in DOMAIN queues[k] :
                e < completing.id => Compatible(queues[k][completing.id], queues[k][e])

\* A task is started exactly when it is ready, at every turn of complete()'s loop.
StartedIffReady ==
    \A t \in DOMAIN tasks : tasks[t].job <=> ~ready(queues, tasks, t)

\* The inductive invariant.
IInv == TypeOK /\ KeysHeldByLive /\ LiveOnKeys /\ CompletingOK /\ StartedIffReady

LEMMA InitIInv == Init => IInv
<1> SUFFICES ASSUME Init PROVE IInv  BY Zenon
<1>1. TypeOK
  <2>1. next_id \in 0 .. MaxId /\ completing \in [id : 0 .. next_id, left : SUBSET Keys]
    BY BoundsAssumption DEF Init, None
  <2>2. queues = [k \in Keys |-> queues[k]]  BY Zenon DEF Init
  <2>3. \A k \in Keys : /\ DOMAIN queues[k] \subseteq 1 .. next_id
                        /\ queues[k] \in [DOMAIN queues[k] -> Mode]
    BY Zenon DEF Init
  <2>4. DOMAIN tasks = {} /\ tasks = [t \in DOMAIN tasks |-> tasks[t]]  BY Zenon DEF Init
  <2>5. dispatch \in [at : {"read", "pause", "room"}, request : SUBSET (Keys \X Mode)]
        /\ dispatch.at = "read" /\ paused \in BOOLEAN
    BY Zenon DEF Init
  <2> QED  BY <2>1, <2>2, <2>3, <2>4, <2>5, Zenon DEF TypeOK
<1>2. KeysHeldByLive  BY Zenon DEF Init, KeysHeldByLive
<1>3. LiveOnKeys /\ StartedIffReady  BY Zenon DEF Init, LiveOnKeys, StartedIffReady
<1>4. CompletingOK  BY Zenon DEF Init, CompletingOK, Unlocked
<1> QED  BY <1>1, <1>2, <1>3, <1>4, Zenon DEF IInv

LEMMA ReadIInv ==
    ASSUME IInv, NEW r \in Requests, Read(r) PROVE IInv'
<1> USE DEF IInv
<1>1. TypeOK'  BY RequestsAssumption, Zenon DEF Read, TypeOK
<1>2. KeysHeldByLive' /\ LiveOnKeys' /\ CompletingOK' /\ StartedIffReady'
  BY Zenon DEF Read, KeysHeldByLive, LiveOnKeys, CompletingOK, StartedIffReady, Unlocked, ready
<1> QED  BY <1>1, <1>2, Zenon

\* WaitForRoom, Quiesce and Resume leave the queues and tasks alone.
LEMMA IdleIInv ==
    ASSUME IInv, WaitForRoom \/ Quiesce \/ Resume PROVE IInv'
<1> USE DEF IInv
<1>1. TypeOK'  BY ZenonT(60) DEF WaitForRoom, Quiesce, Resume, TypeOK
<1>2. KeysHeldByLive' /\ LiveOnKeys' /\ CompletingOK' /\ StartedIffReady'
  BY Zenon DEF WaitForRoom, Quiesce, Resume, KeysHeldByLive, LiveOnKeys, CompletingOK,
         StartedIffReady, Unlocked, ready
<1> QED  BY <1>1, <1>2, Zenon

LEMMA EndCompleteIInv ==
    ASSUME IInv, EndComplete PROVE IInv'
<1> USE DEF IInv
<1>1. TypeOK'  BY DEF EndComplete, TypeOK, None
<1>2. KeysHeldByLive' /\ LiveOnKeys' /\ StartedIffReady'
  BY Zenon DEF EndComplete, KeysHeldByLive, LiveOnKeys, StartedIffReady, ready, TypeOK
<1>3. CompletingOK'  BY DEF EndComplete, CompletingOK, Unlocked, None, TypeOK
<1> QED  BY <1>1, <1>2, <1>3, Zenon

LEMMA CompleteIInv ==
    ASSUME IInv, NEW id \in DOMAIN tasks, Complete(id) PROVE IInv'
<1> USE DEF IInv
<1>1. /\ DOMAIN tasks' = DOMAIN tasks \ {id}
      /\ \A t \in DOMAIN tasks' : tasks'[t] = tasks[t]
      /\ tasks' = [t \in DOMAIN tasks' |-> tasks'[t]]
  BY Zenon DEF Complete, Without, Restricted
<1>2. /\ completing' = [id |-> id, left |-> DOMAIN tasks[id].keys]
      /\ queues' = queues /\ next_id' = next_id /\ dispatch' = dispatch /\ paused' = paused
      /\ completing.id = None /\ completing.left = {} /\ ~tasks[id].job
  BY Zenon DEF Complete, CompletingOK, Unlocked
<1>3. TypeOK'
  BY <1>1, <1>2 DEF TypeOK
<1>4. KeysHeldByLive'
  BY <1>1, <1>2, Zenon DEF KeysHeldByLive, TypeOK
<1>5. LiveOnKeys'  BY <1>1, <1>2, Zenon DEF LiveOnKeys
<1>6. CompletingOK'
  <2>1. ready(queues, tasks, id)  BY <1>2, Zenon DEF StartedIffReady
  <2>2. ASSUME NEW k \in DOMAIN tasks[id].keys
        PROVE  id \in DOMAIN queues[k] /\ queues[k][id] = tasks[id].keys[k]
    BY <1>2, <2>2, Zenon DEF LiveOnKeys, KeysHeldByLive, TypeOK
  <2> QED  BY <1>1, <1>2, <2>1, <2>2, Zenon DEF CompletingOK, ready, Unlocked, None, TypeOK
<1>7. StartedIffReady'
  BY <1>1, <1>2, Zenon DEF StartedIffReady, ready
<1> QED  BY <1>3, <1>4, <1>5, <1>6, <1>7, Zenon

\* Appending a task behind the others changes nothing for the tasks already queued.
LEMMA SubmitIInv ==
    ASSUME IInv, Submit PROVE IInv'
<1> USE DEF IInv
<1> DEFINE id   == NewId
           keys == Merged(dispatch.request)
<1>1. /\ DOMAIN keys \subseteq Keys /\ keys \in [DOMAIN keys -> Mode]
  BY DEF Merged, TypeOK, Mode
<1>2. id \in Nat /\ id \in 1 .. id /\ (\A e \in 1 .. next_id : e \in 1 .. id /\ e < id)
      /\ id \notin DOMAIN tasks /\ (\A k \in Keys : id \notin DOMAIN queues[k])
  BY BoundsAssumption DEF TypeOK, NewId
<1> HIDE DEF keys
<1> DEFINE q == [k \in Keys |-> IF k \in DOMAIN keys THEN With(queues[k], id, keys[k])
                                ELSE queues[k]]
           t == With(tasks, id, [keys |-> keys, job |-> TRUE])
<1>3. next_id' = id /\ queues' = q /\ tasks' = [t EXCEPT ![id].job = ~ready(q, t, id)]
      /\ dispatch' = [at |-> "read", request |-> {}] /\ completing' = completing
      /\ paused' = paused /\ completing.id = None /\ completing.left = {}
  BY Zenon DEF Submit, Unlocked, CompletingOK, keys
<1>4. /\ queues' = [k \in Keys |-> queues'[k]]
      /\ \A k \in Keys : /\ k \in DOMAIN keys => DOMAIN queues'[k] = DOMAIN queues[k] \cup {id}
                         /\ k \in DOMAIN keys => queues'[k][id] = keys[k]
                         /\ k \notin DOMAIN keys => queues'[k] = queues[k]
                         /\ \A e \in DOMAIN queues[k] : queues'[k][e] = queues[k][e]
                         /\ queues'[k] = [e \in DOMAIN queues'[k] |-> queues'[k][e]]
  <2>1. queues' = q  BY <1>3, Zenon
  <2>2. \A k \in Keys : queues[k] = [e \in DOMAIN queues[k] |-> queues[k][e]]  BY Zenon DEF TypeOK
  <2> QED  BY <2>1, <2>2, <1>2, Zenon DEF With
<1>5. /\ DOMAIN tasks' = DOMAIN tasks \cup {id}
      /\ \A e \in DOMAIN tasks : tasks'[e] = tasks[e]
      /\ tasks' = [e \in DOMAIN tasks' |-> tasks'[e]]
      /\ tasks'[id] = [keys |-> keys, job |-> ~ready(q, t, id)]
  BY <1>2, <1>3, Zenon DEF With
<1> HIDE DEF q, t, id
<1>6. TypeOK'
  <2>1. next_id' \in 0 .. MaxId /\ completing' \in [id : 0 .. next_id', left : SUBSET Keys]
    BY <1>2, <1>3, BoundsAssumption DEF TypeOK, Submit, NewId, id, None
  <2>2. \A k \in Keys : /\ DOMAIN queues'[k] \subseteq 1 .. id
                        /\ queues'[k] \in [DOMAIN queues'[k] -> Mode]
    BY <1>1, <1>2, <1>4 DEF TypeOK
  <2>3. DOMAIN tasks' \subseteq 1 .. id  BY <1>2, <1>5, Zenon DEF TypeOK
  <2>4. ASSUME NEW e \in DOMAIN tasks'
        PROVE  /\ DOMAIN tasks'[e].keys \subseteq Keys
               /\ tasks'[e] \in [keys : [DOMAIN tasks'[e].keys -> Mode], job : BOOLEAN]
    <3>1. CASE e \in DOMAIN tasks  BY <3>1, <1>5, Zenon DEF TypeOK
    <3>2. CASE e = id
      <4>1. ready(q, t, id) \in BOOLEAN  BY Zenon DEF ready
      <4>2. tasks'[e].keys = keys /\ tasks'[e].job = ~ready(q, t, id)  BY <3>2, <1>5
      <4> QED  BY <3>2, <4>1, <4>2, <1>1, <1>5, Zenon
    <3> QED  BY <3>1, <3>2, <1>5, Zenon
  <2>5. /\ dispatch' \in [at : {"read", "pause", "room"}, request : SUBSET (Keys \X Mode)]
        /\ dispatch'.at # "read" => next_id' < MaxId
        /\ paused' \in BOOLEAN
    BY <1>3, Zenon DEF TypeOK
  <2> QED  BY <1>3, <1>4, <1>5, <2>1, <2>2, <2>3, <2>4, <2>5, Zenon DEF TypeOK
<1>7. KeysHeldByLive'
  <2> SUFFICES ASSUME NEW k \in Keys, NEW e \in DOMAIN queues'[k]
               PROVE  /\ e \in DOMAIN tasks' /\ k \in DOMAIN tasks'[e].keys
                      /\ queues'[k][e] = tasks'[e].keys[k]
    BY Zenon DEF KeysHeldByLive
  <2>1. CASE e = id  BY <2>1, <1>2, <1>4, <1>5
  <2>2. CASE e # id
    <3>1. e \in DOMAIN queues[k]  BY <2>2, <1>4, Zenon
    <3>2. e # None  BY <3>1 DEF TypeOK, None
    <3> QED  BY <3>1, <3>2, <1>3, <1>4, <1>5 DEF KeysHeldByLive
  <2> QED  BY <2>1, <2>2, Zenon
<1>8. LiveOnKeys'
  <2> SUFFICES ASSUME NEW e \in DOMAIN tasks', NEW k \in DOMAIN tasks'[e].keys
               PROVE  e \in DOMAIN queues'[k]
    BY Zenon DEF LiveOnKeys
  <2>1. CASE e \in DOMAIN tasks  BY <2>1, <1>4, <1>5, ZenonT(60) DEF LiveOnKeys, TypeOK
  <2>2. CASE e = id  BY <2>2, <1>1, <1>4, <1>5
  <2> QED  BY <2>1, <2>2, <1>5, Zenon
<1>9. CompletingOK'
  BY <1>2, <1>3, <1>5 DEF CompletingOK, Unlocked, None, id
<1>10. ASSUME NEW e \in DOMAIN tasks
       PROVE  ready(queues', tasks', e) <=> ready(queues, tasks, e)
  <2>1. tasks'[e] = tasks[e] /\ DOMAIN tasks[e].keys \subseteq Keys  BY <1>5, Zenon DEF TypeOK
  <2>2. e < id /\ e \in Nat /\ id \in Nat /\ ~(id < e)  BY <1>2 DEF TypeOK
  <2> QED  BY <2>1, <2>2, <1>2, <1>4 DEF ready
<1>11. ready(q, t, id) = ready(queues', tasks', id)
  <2>1. t[id].keys = keys  BY Zenon DEF t, With
  <2> QED  BY <2>1, <1>3, <1>5 DEF ready
<1>12. StartedIffReady'
  <2> SUFFICES ASSUME NEW e \in DOMAIN tasks'
               PROVE  tasks'[e].job <=> ~ready(queues', tasks', e)
    BY Zenon DEF StartedIffReady
  <2>1. CASE e \in DOMAIN tasks  BY <2>1, <1>5, <1>10, Zenon DEF StartedIffReady
  <2>2. CASE e = id
    <3>1. tasks'[id].job = ~ready(q, t, id)  BY <1>5
    <3> QED  BY <2>2, <3>1, <1>11, Zenon
  <2> QED  BY <2>1, <2>2, <1>5, Zenon
<1> QED  BY <1>6, <1>7, <1>8, <1>9, <1>12, Zenon

\* The argument that complete() looks at enough tasks: a task that becomes ready when id
\* leaves k's queue was held back by id on k, so id was exclusive there or the task is now
\* the head; nothing ahead of it on k can have started beside id, so the head still waits
\* and the task is in the shared run behind it.
LEMMA ReadyIsCandidate ==
    ASSUME IInv, NEW k \in Keys, ReleaseKey(k),
           NEW c \in DOMAIN tasks, tasks[c].job, ready(queues', tasks, c)
    PROVE  c \in Candidates(queues'[k])
<1> USE DEF IInv
<1> DEFINE id == completing.id
           q  == queues'[k]
<1>1. k \in completing.left /\ queues' = [queues EXCEPT ![k] = Without(@, id)]
  BY Zenon DEF ReleaseKey
<1>2. /\ DOMAIN q = DOMAIN queues[k] \ {id}
      /\ \A e \in DOMAIN q : q[e] = queues[k][e]
      /\ \A l \in Keys : l # k => queues'[l] = queues[l]
      /\ id \in DOMAIN queues[k]
      /\ \A e \in DOMAIN queues[k] : e \in Nat /\ e # None
  <2>1. DOMAIN queues = Keys  BY Zenon DEF TypeOK
  <2>2. queues'[k] = Without(queues[k], id) /\ \A l \in Keys : l # k => queues'[l] = queues[l]
    BY <1>1, <2>1, Zenon
  <2>3. id \in DOMAIN queues[k]  BY <1>1, Zenon DEF CompletingOK
  <2>4. \A e \in DOMAIN queues[k] : e \in Nat /\ e # None  BY DEF TypeOK, None
  <2> QED  BY <2>2, <2>3, <2>4 DEF Without, Restricted
<1>3. id \in Nat /\ id # None /\ id # c /\ c \in Nat
  BY <1>2 DEF TypeOK, CompletingOK, None
\* What held c back was id, on k.
<1>4. k \in DOMAIN tasks[c].keys /\ id < c
      /\ ~Compatible(tasks[c].keys[k], queues[k][id])
  <2>0. PICK l \in DOMAIN tasks[c].keys :
            \E e \in DOMAIN queues[l] : e < c /\ ~Compatible(tasks[c].keys[l], queues[l][e])
    BY Zenon DEF StartedIffReady, ready
  <2>1. PICK e \in DOMAIN queues[l] : e < c /\ ~Compatible(tasks[c].keys[l], queues[l][e])
    BY <2>0, Zenon
  <2>2. l \in Keys  BY Zenon DEF TypeOK
  <2>3. ASSUME l # k \/ e # id PROVE FALSE
    <3>1. e \in DOMAIN queues'[l] /\ queues'[l][e] = queues[l][e]
      BY <2>2, <2>3, <1>2, Zenon
    <3> QED  BY <3>1, <2>1, Zenon DEF ready
  <2> QED  BY <2>1, <2>3, Zenon
<1>5. c \in DOMAIN q /\ q[c] = tasks[c].keys[k]
  BY <1>2, <1>3, <1>4, Zenon DEF LiveOnKeys, KeysHeldByLive
<1>6. \A e \in DOMAIN q : e < c => q[e] = "Shared" /\ q[c] = "Shared"
  BY <1>4, <1>5, Zenon DEF ready, Compatible
<1>7. PICK head \in DOMAIN q : \A e \in DOMAIN q : head <= e
  <2>1. DOMAIN q \subseteq Nat /\ DOMAIN q # {}  BY <1>2, <1>5, Zenon
  <2> QED  BY <2>1, HeadExists, Zenon
<1>8. tasks[head].job
  <2>1. CASE head = c  BY <2>1, Zenon
  <2>2. CASE head # c
    <3>1. head < c /\ head \in Nat  BY <2>2, <1>2, <1>3, <1>5, <1>7
    <3>2. q[c] = "Shared" /\ queues[k][id] = "Exclusive"
      <4>1. q[c] = "Shared"  BY <1>6, <3>1, Zenon
      <4>2. queues[k][id] \in Mode  BY <1>2 DEF TypeOK
      <4> QED  BY <4>1, <4>2, <1>4, <1>5, Zenon DEF Mode, Compatible
    <3>3. head \in DOMAIN tasks /\ k \in DOMAIN tasks[head].keys
          /\ queues[k][head] = tasks[head].keys[k]
      BY <1>2, Zenon DEF KeysHeldByLive
    \* Beside an exclusive id, neither an earlier nor a later task can have started.
    <3>4. ~(head < id)
      BY <3>2, <1>1, <1>2, Zenon DEF CompletingOK, Compatible
    <3>5. id < head  BY <3>1, <3>4, <1>2, <1>3
    <3>6. ~ready(queues, tasks, head)
      BY <3>2, <3>3, <3>5, <1>2, Zenon DEF ready, Compatible
    <3> QED  BY <3>3, <3>6, Zenon DEF StartedIffReady
  <2> QED  BY <2>1, <2>2, Zenon
<1>9. c = head \/ \A e \in DOMAIN q : e <= c => q[e] = "Shared"
  <2> SUFFICES ASSUME c # head PROVE \A e \in DOMAIN q : e <= c => q[e] = "Shared"
    BY Zenon
  <2>1. head < c  BY <1>2, <1>3, <1>5, <1>7
  <2>2. q[c] = "Shared"  BY <2>1, <1>6, Zenon
  <2> QED  BY <2>2, <1>2, <1>3, <1>6
<1> QED  BY <1>5, <1>7, <1>8, <1>9, Zenon DEF Candidates

LEMMA ReleaseKeyIInv ==
    ASSUME IInv, NEW k \in Keys, ReleaseKey(k) PROVE IInv'
<1> USE DEF IInv
<1> DEFINE id == completing.id
           started(e) == e \in Candidates(queues'[k]) /\ ready(queues', tasks, e)
<1>1. /\ k \in completing.left /\ id # None
      /\ DOMAIN queues'[k] = DOMAIN queues[k] \ {id}
      /\ \A l \in Keys : \A e \in DOMAIN queues'[l] :
            e \in DOMAIN queues[l] /\ queues'[l][e] = queues[l][e]
      /\ \A l \in Keys : l # k => queues'[l] = queues[l]
      /\ queues' = [l \in Keys |-> queues'[l]]
      /\ \A l \in Keys : queues'[l] = [e \in DOMAIN queues'[l] |-> queues'[l][e]]
  BY Zenon DEF ReleaseKey, Without, Restricted, TypeOK, CompletingOK, Unlocked
<1>2. /\ DOMAIN tasks' = DOMAIN tasks
      /\ tasks' = [e \in DOMAIN tasks' |-> tasks'[e]]
      /\ \A e \in DOMAIN tasks : tasks'[e].keys = tasks[e].keys
      /\ \A e \in DOMAIN tasks : started(e) => ~tasks'[e].job
      /\ \A e \in DOMAIN tasks : ~started(e) => tasks'[e] = tasks[e]
      /\ \A e \in DOMAIN tasks :
            tasks'[e] \in [keys : [DOMAIN tasks[e].keys -> Mode], job : BOOLEAN]
  <2>1. tasks' = [e \in DOMAIN tasks |->
                     IF started(e) THEN [tasks[e] EXCEPT !.job = FALSE] ELSE tasks[e]]
    BY Zenon DEF ReleaseKey
  <2> HIDE DEF started
  <2>2. ASSUME NEW e \in DOMAIN tasks
        PROVE  /\ tasks'[e].keys = tasks[e].keys
               /\ started(e) => ~tasks'[e].job
               /\ ~started(e) => tasks'[e] = tasks[e]
               /\ tasks'[e] \in [keys : [DOMAIN tasks[e].keys -> Mode], job : BOOLEAN]
    <3> DEFINE K == [DOMAIN tasks[e].keys -> Mode]
    <3>1. tasks[e] \in [keys : K, job : BOOLEAN]  BY Zenon DEF TypeOK
    <3> HIDE DEF K
    <3>2. /\ tasks'[e].keys = tasks[e].keys
          /\ started(e) => ~tasks'[e].job
          /\ ~started(e) => tasks'[e] = tasks[e]
          /\ tasks'[e] \in [keys : K, job : BOOLEAN]
      BY <2>1, <3>1, Zenon
    <3> QED  BY <3>2, Zenon DEF K
  <2> QED  BY <2>1, <2>2, Zenon
<1>3. /\ completing'.id = id /\ completing'.left = completing.left \ {k}
      /\ next_id' = next_id /\ dispatch' = dispatch /\ paused' = paused
      /\ completing' \in [id : 0 .. next_id, left : SUBSET Keys]
  BY Zenon DEF ReleaseKey, TypeOK
<1> HIDE DEF started
<1>4. TypeOK'
  <2>1. \A l \in Keys : /\ DOMAIN queues'[l] \subseteq 1 .. next_id
                        /\ queues'[l] \in [DOMAIN queues'[l] -> Mode]
    BY <1>1 DEF TypeOK
  <2>2. ASSUME NEW e \in DOMAIN tasks'
        PROVE  /\ DOMAIN tasks'[e].keys \subseteq Keys
               /\ tasks'[e] \in [keys : [DOMAIN tasks'[e].keys -> Mode], job : BOOLEAN]
    BY <1>2, Zenon DEF TypeOK
  <2> QED  BY <1>1, <1>2, <1>3, <2>1, <2>2, Zenon DEF TypeOK
<1>5. KeysHeldByLive'
  BY <1>1, <1>2, <1>3 DEF KeysHeldByLive
<1>6. LiveOnKeys'
  <2> SUFFICES ASSUME NEW e \in DOMAIN tasks, NEW l \in DOMAIN tasks[e].keys
               PROVE  e \in DOMAIN queues'[l]
    BY <1>2, Zenon DEF LiveOnKeys
  <2>1. e \in DOMAIN queues[l] /\ e # id /\ l \in Keys
    BY Zenon DEF LiveOnKeys, CompletingOK, TypeOK
  <2> QED  BY <2>1, <1>1, Zenon
<1>7. CompletingOK'
  BY <1>1, <1>2, <1>3, Zenon DEF CompletingOK, Unlocked, TypeOK
<1>8. StartedIffReady'
  <2> SUFFICES ASSUME NEW c \in DOMAIN tasks
               PROVE  tasks'[c].job <=> ~ready(queues', tasks', c)
    BY <1>2, Zenon DEF StartedIffReady
  <2>1. ready(queues', tasks', c) <=> ready(queues', tasks, c)
    BY <1>2, Zenon DEF ready
  <2>2. ready(queues, tasks, c) => ready(queues', tasks, c)
    <3>1. DOMAIN tasks[c].keys \subseteq Keys  BY Zenon DEF TypeOK
    <3> QED  BY <3>1, <1>1, Zenon DEF ready
  <2>3. CASE ~tasks[c].job
    <3>1. ready(queues', tasks, c)  BY <2>2, <2>3, Zenon DEF StartedIffReady
    <3>2. ~tasks'[c].job  BY <2>3, <1>2, Zenon
    <3> QED  BY <3>1, <3>2, <2>1, Zenon
  <2>4. CASE tasks[c].job
    <3>1. CASE ready(queues', tasks, c)
      <4>1. started(c)  BY <2>4, <3>1, ReadyIsCandidate, Zenon DEF started
      <4> QED  BY <4>1, <3>1, <2>1, <1>2, Zenon
    <3>2. CASE ~ready(queues', tasks, c)
      <4>1. ~started(c)  BY <3>2, Zenon DEF started
      <4> QED  BY <4>1, <3>2, <2>1, <2>4, <1>2, Zenon
    <3> QED  BY <3>1, <3>2, Zenon
  <2> QED  BY <2>3, <2>4, Zenon
<1> QED  BY <1>4, <1>5, <1>6, <1>7, <1>8, Zenon

\* The invariant is inductive, so it holds for any number of keys and requests: queues,
\* tasks and complete()'s bookkeeping agree, and a task is started exactly when ready.
THEOREM Inductive == Spec => []IInv
<1>1. Init => IInv  BY InitIInv, Zenon
<1>2. IInv /\ [Next]_vars => IInv'
  <2> SUFFICES ASSUME IInv, [Next]_vars PROVE IInv'  BY Zenon
  <2>1. CASE \E r \in Requests : Read(r)  BY <2>1, ReadIInv, Zenon
  <2>2. CASE WaitForRoom \/ Quiesce \/ Resume  BY <2>2, IdleIInv, Zenon
  <2>3. CASE Submit  BY <2>3, SubmitIInv, Zenon
  <2>4. CASE \E id \in DOMAIN tasks : Complete(id)  BY <2>4, CompleteIInv, Zenon
  <2>5. CASE \E k \in Keys : ReleaseKey(k)  BY <2>5, ReleaseKeyIInv, Zenon
  <2>6. CASE EndComplete  BY <2>6, EndCompleteIInv, Zenon
  <2>7. CASE UNCHANGED vars
    <3>1. TypeOK'  BY <2>7 DEF vars, IInv, TypeOK
    <3>2. KeysHeldByLive' /\ LiveOnKeys'  BY <2>7, Zenon DEF vars, IInv, KeysHeldByLive, LiveOnKeys
    <3>3. CompletingOK'  BY <2>7, Zenon DEF vars, IInv, CompletingOK, Unlocked
    <3>4. StartedIffReady'  BY <2>7, Zenon DEF vars, IInv, StartedIffReady, ready
    <3> QED  BY <3>1, <3>2, <3>3, <3>4, Zenon DEF IInv
  <2> QED  BY <2>1, <2>2, <2>3, <2>4, <2>5, <2>6, <2>7, Zenon DEF Next
<1> QED  BY <1>1, <1>2, PTL DEF Spec

\* Every variable keeps its type.
THEOREM TypeCorrect == Spec => []TypeOK
<1>1. IInv => TypeOK  BY Zenon DEF IInv
<1> QED  BY <1>1, Inductive, PTL

\* A started request has no earlier live request it conflicts with, so conflicting
\* requests run one at a time in the order they arrived.
THEOREM RunsInArrivalOrder == Spec => []ArrivalOrder
<1>1. IInv => ArrivalOrder
  <2> SUFFICES ASSUME IInv, NEW s \in DOMAIN tasks, NEW t \in DOMAIN tasks, s < t,
                      Conflict(s, t)
               PROVE  tasks[t].job
    BY Zenon DEF ArrivalOrder
  <2> USE DEF IInv
  <2>1. PICK k \in DOMAIN tasks[s].keys \cap DOMAIN tasks[t].keys :
            ~Compatible(tasks[s].keys[k], tasks[t].keys[k])
    BY Zenon DEF Conflict
  <2>2. s \in DOMAIN queues[k] /\ queues[k][s] = tasks[s].keys[k]
    BY Zenon DEF LiveOnKeys, KeysHeldByLive, CompletingOK, TypeOK
  <2>3. ~ready(queues, tasks, t)
    BY <2>1, <2>2, Zenon DEF ready, Compatible
  <2> QED  BY <2>3, Zenon DEF StartedIffReady
<1> QED  BY <1>1, Inductive, PTL

\* A finished request keeps no key busy: queues hold live tasks, on their own keys, and
\* the one complete() is releasing.
THEOREM KeysReleased == Spec => []KeysHeldByLive
<1>1. IInv => KeysHeldByLive  BY Zenon DEF IInv
<1> QED  BY <1>1, Inductive, PTL

\* No request is stranded: one that waits has an earlier live request to wait for, so the
\* heads complete() looks at are enough.
THEOREM NoRequestStranded == Spec => []NoLostWakeup
<1>1. IInv => NoLostWakeup
  <2> SUFFICES ASSUME IInv, Unlocked, NEW t \in DOMAIN tasks, tasks[t].job
               PROVE  \E s \in DOMAIN tasks : s < t /\ Conflict(s, t)
    BY Zenon DEF NoLostWakeup
  <2> USE DEF IInv
  <2>1. PICK k \in DOMAIN tasks[t].keys :
            \E e \in DOMAIN queues[k] : e < t /\ ~Compatible(tasks[t].keys[k], queues[k][e])
    BY Zenon DEF StartedIffReady, ready
  <2>2. PICK e \in DOMAIN queues[k] : e < t /\ ~Compatible(tasks[t].keys[k], queues[k][e])
    BY <2>1, Zenon
  <2>3. e \in DOMAIN tasks /\ k \in DOMAIN tasks[e].keys /\ queues[k][e] = tasks[e].keys[k]
    BY Zenon DEF KeysHeldByLive, CompletingOK, TypeOK
  <2>4. Conflict(e, t)  BY <2>2, <2>3, Zenon DEF Conflict, Compatible
  <2> QED  BY <2>2, <2>3, <2>4, Zenon
<1> QED  BY <1>1, Inductive, PTL

\* The oldest live request is always started: requests never wait in a circle.
THEOREM OldestNeverWaits == Spec => []OldestRuns
<1>1. IInv /\ NoLostWakeup => OldestRuns
  BY DEF IInv, TypeOK, NoLostWakeup, OldestRuns
<1> QED  BY <1>1, Inductive, NoRequestStranded, PTL

\* Where the queues hold every live task on its keys, being ready on them is being clear
\* of every earlier live request.
LEMMA ReadyIsClear ==
    ASSUME NEW q, NEW ts, NEW c \in DOMAIN ts, ready(q, ts, c),
           \A s \in DOMAIN ts : \A k \in DOMAIN ts[s].keys :
               s \in DOMAIN q[k] /\ q[k][s] = ts[s].keys[k]
    PROVE  Order!Clear([t \in DOMAIN ts |-> ts[t].keys], c)
<1> SUFFICES ASSUME NEW s \in DOMAIN ts, s < c, NEW k \in DOMAIN ts[s].keys \cap DOMAIN ts[c].keys
             PROVE  ts[s].keys[k] = "Shared" /\ ts[c].keys[k] = "Shared"
  BY Zenon DEF Order!Clear, Order!Meet
<1> QED  BY DEF ready, Compatible

\* And the other way round where they hold nothing else.
LEMMA ClearIsReady ==
    ASSUME NEW q, NEW ts, NEW c \in DOMAIN ts,
           Order!Clear([t \in DOMAIN ts |-> ts[t].keys], c),
           \A k \in DOMAIN ts[c].keys : \A e \in DOMAIN q[k] :
               e \in DOMAIN ts /\ k \in DOMAIN ts[e].keys /\ q[k][e] = ts[e].keys[k]
    PROVE  ready(q, ts, c)
<1> SUFFICES ASSUME NEW k \in DOMAIN ts[c].keys, NEW e \in DOMAIN q[k], e < c
             PROVE  Compatible(ts[c].keys[k], q[k][e])
  BY Zenon DEF ready
<1> QED  BY DEF Order!Clear, Order!Meet, Compatible

\* What the dispatch thread holds is a request that came in.
Incoming == dispatch.at # "read" => dispatch.request \in Requests

LEMMA HoldsIncoming == Spec => []Incoming
<1>1. Init => Incoming  BY DEF Init, Incoming
<1>2. IInv /\ Incoming /\ [Next]_vars => Incoming'
  <2> SUFFICES ASSUME IInv, Incoming, [Next]_vars PROVE Incoming'  BY Zenon
  <2> USE DEF Incoming, IInv, TypeOK
  <2>1. CASE \E r \in Requests : Read(r)  BY <2>1 DEF Read
  <2>2. CASE WaitForRoom  BY <2>2, Zenon DEF WaitForRoom
  <2>3. CASE Submit  BY <2>3, Zenon DEF Submit
  <2>4. CASE \E id \in DOMAIN tasks : Complete(id)  BY <2>4 DEF Complete
  <2>5. CASE \E k \in Keys : ReleaseKey(k)  BY <2>5 DEF ReleaseKey
  <2>6. CASE EndComplete \/ Quiesce \/ Resume  BY <2>6 DEF EndComplete, Quiesce, Resume
  <2>7. CASE UNCHANGED vars  BY <2>7, Zenon DEF vars
  <2> QED  BY <2>1, <2>2, <2>3, <2>4, <2>5, <2>6, <2>7, Zenon DEF Next
<1> QED  BY <1>1, <1>2, Inductive, PTL DEF Spec

\* submit() is an arrival: the new request runs at once exactly when it is clear.
LEMMA SubmitArrives ==
    ASSUME IInv, IInv', Incoming, Submit
    PROVE  \E keys \in {Merged(r) : r \in Requests} : Order!Arrive(keys)
<1> DEFINE id   == next_id + 1
           keys == Merged(dispatch.request)
<1>1. keys \in {Merged(r) : r \in Requests}  BY Zenon DEF Submit, Incoming
<1> HIDE DEF keys
<1> DEFINE t == With(tasks, id, [keys |-> keys, job |-> TRUE])
           q == [k \in Keys |-> IF k \in DOMAIN keys THEN With(queues[k], id, keys[k])
                                ELSE queues[k]]
<1>2. next_id' = id /\ tasks' = [t EXCEPT ![id].job = ~ready(q, t, id)] /\ Unlocked'
  BY Zenon DEF Submit, NewId, keys, Unlocked
<1>3. id \notin DOMAIN tasks  BY DEF IInv, TypeOK
<1> HIDE DEF q
<1>4. /\ DOMAIN tasks' = DOMAIN tasks \cup {id}
      /\ tasks'[id].keys = keys
      /\ \A e \in DOMAIN tasks : tasks'[e] = tasks[e]
  BY <1>2, <1>3, Zenon DEF With
<1> DEFINE liveNew == [e \in DOMAIN tasks' |-> tasks'[e].keys]
<1>5. /\ \A s \in DOMAIN tasks' : \A k \in DOMAIN tasks'[s].keys :
            s \in DOMAIN queues'[k] /\ queues'[k][s] = tasks'[s].keys[k]
      /\ \A c \in DOMAIN tasks' : \A k \in DOMAIN tasks'[c].keys : \A e \in DOMAIN queues'[k] :
            e \in DOMAIN tasks' /\ k \in DOMAIN tasks'[e].keys /\ queues'[k][e] = tasks'[e].keys[k]
  <2>1. ASSUME NEW s \in DOMAIN tasks', NEW k \in DOMAIN tasks'[s].keys
        PROVE  s \in DOMAIN queues'[k] /\ queues'[k][s] = tasks'[s].keys[k]
    BY <2>1 DEF IInv, LiveOnKeys, KeysHeldByLive, CompletingOK, TypeOK
  <2>2. ASSUME NEW c \in DOMAIN tasks', NEW k \in DOMAIN tasks'[c].keys, NEW e \in DOMAIN queues'[k]
        PROVE  e \in DOMAIN tasks' /\ k \in DOMAIN tasks'[e].keys /\ queues'[k][e] = tasks'[e].keys[k]
    BY <1>2, <2>2, Zenon DEF IInv, Unlocked, KeysHeldByLive, CompletingOK, TypeOK
  <2> QED  BY <2>1, <2>2, Zenon
<1>6. tasks'[id].job <=> ~Order!Clear(liveNew, id)
  <2>1. id \in DOMAIN tasks'  BY <1>4, Zenon
  <2>2. tasks'[id].job <=> ~ready(queues', tasks', id)  BY <2>1, Zenon DEF IInv, StartedIffReady
  <2>3. ready(queues', tasks', id) => Order!Clear(liveNew, id)
    BY <1>5, <2>1, ReadyIsClear
  <2>4. Order!Clear(liveNew, id) => ready(queues', tasks', id)
    BY <1>5, <2>1, ClearIsReady, Zenon
  <2> QED  BY <2>2, <2>3, <2>4, Zenon
<1>7. liveNew = [i \in DOMAIN tasks \cup {id} |-> IF i = id THEN keys ELSE tasks[i].keys]
  BY <1>3, <1>4, Zenon
<1>8. {e \in DOMAIN tasks' : ~tasks'[e].job}
        = IF Order!Clear(liveNew, id) THEN {e \in DOMAIN tasks : ~tasks[e].job} \cup {id}
          ELSE {e \in DOMAIN tasks : ~tasks[e].job}
  BY <1>3, <1>4, <1>6, Zenon
<1>9. Order!Arrive(keys)
  <2> HIDE DEF t
  <2> QED  BY <1>2, <1>7, <1>8, Zenon DEF Order!Arrive
<1> QED  BY <1>1, <1>9, Zenon DEF Order!Arrive

\* A turn of complete()'s loop starts only requests that nothing earlier stands in the
\* way of.
LEMMA ReleaseKeyStarts ==
    ASSUME IInv, IInv', NEW k \in Keys, ReleaseKey(k)
    PROVE  Order!StartClear
<1> DEFINE started == {c \in DOMAIN tasks : tasks[c].job /\ ~tasks'[c].job}
<1>1. /\ DOMAIN tasks' = DOMAIN tasks /\ next_id' = next_id
      /\ \A e \in DOMAIN tasks : tasks'[e].keys = tasks[e].keys
      /\ \A e \in DOMAIN tasks : tasks'[e].job => tasks[e].job
  BY DEF ReleaseKey, IInv, TypeOK
<1>2. ASSUME NEW c \in started
      PROVE  Order!Clear([t \in DOMAIN tasks |-> tasks[t].keys], c)
  <2>1. ready(queues', tasks', c)  BY <1>1, <1>2, Zenon DEF IInv, StartedIffReady
  <2>2. \A s \in DOMAIN tasks : \A l \in DOMAIN tasks[s].keys :
            s \in DOMAIN queues'[l] /\ queues'[l][s] = tasks[s].keys[l]
    BY <1>1 DEF IInv, LiveOnKeys, KeysHeldByLive, CompletingOK, TypeOK
  <2>3. ready(queues', tasks, c)  BY <1>1, <2>1, Zenon DEF ready
  <2> QED  BY <2>2, <2>3, ReadyIsClear
<1>3. started \in SUBSET (DOMAIN tasks \ {t \in DOMAIN tasks : ~tasks[t].job})  BY Zenon
<1>4. {t \in DOMAIN tasks' : ~tasks'[t].job} = {t \in DOMAIN tasks : ~tasks[t].job} \cup started
  BY <1>1, Zenon
<1>5. [t \in DOMAIN tasks' |-> tasks'[t].keys] = [t \in DOMAIN tasks |-> tasks[t].keys]
  BY <1>1, Zenon
<1> QED  BY <1>1, <1>2, <1>3, <1>4, <1>5, Zenon DEF Order!StartClear

\* The scheduler implements RequestOrder: submit() is an arrival, complete() finishes a
\* request when it takes its lock, and each turn of its loop starts only requests that
\* nothing earlier stands in the way of.
THEOREM ImplementsOrder == Spec => InOrder
<1>1. Init => Order!OrderInit  BY Zenon DEF Init, Order!OrderInit
<1>2. IInv /\ IInv' /\ Incoming /\ [Next]_vars => [Order!OrderNext]_(Order!orderVars)
  <2> SUFFICES ASSUME IInv, IInv', Incoming, [Next]_vars
               PROVE  [Order!OrderNext]_(Order!orderVars)
    BY Zenon
  <2>1. CASE Submit  BY <2>1, SubmitArrives, Zenon DEF Order!OrderNext
  <2>2. ASSUME NEW id \in DOMAIN tasks, Complete(id)
        PROVE  /\ id \in {t \in DOMAIN tasks : ~tasks[t].job}
               /\ Order!FinishRequest(id)
    BY <2>2, Zenon DEF Complete, Without, Restricted, Order!FinishRequest
  <2>3. CASE \E k \in Keys : ReleaseKey(k)  BY <2>3, ReleaseKeyStarts, Zenon DEF Order!OrderNext
  <2>4. CASE (\E r \in Requests : Read(r)) \/ WaitForRoom \/ EndComplete \/ Quiesce \/ Resume
             \/ UNCHANGED vars
    BY <2>4, Zenon DEF Read, WaitForRoom, EndComplete, Quiesce, Resume, vars, Order!orderVars
  <2> QED  BY <2>1, <2>2, <2>3, <2>4, Zenon DEF Next, Order!OrderNext
<1> QED  BY <1>1, <1>2, Inductive, HoldsIncoming, PTL DEF Spec, InOrder, Order!OrderSpec
=============================================================================
