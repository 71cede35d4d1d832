---------------------------- MODULE ReadWindows ----------------------------
(***************************************************************************)
(* Reading an uncached file through one handle (ncrs_core/src/lib.rs): the *)
(* READs of the kernel, the read-ahead windows that serve them, and the    *)
(* pump that fills a window from one or several concurrent range requests. *)
(*                                                                         *)
(* A byte is <<position, version>>, positions counted in blocks.  A window *)
(* is known by its number; a window nobody can reach any more is NoWindow. *)
(* Other readers' use of the download slots is OthersTake, OthersReturn.   *)
(***************************************************************************)
EXTENDS Naturals, Sequences, SequencesExt, FiniteSets, FiniteSetsExt

CONSTANTS Sizes,           \* Sizes[v]: length of version v, in blocks
          Reads,           \* READ requests the kernel may have under way
          Windows,         \* numbers for windows, 1 .. n
          ReadSlots,       \* slots of read_throttle
          Budget,          \* READ_AHEAD_BUDGET
          Initial,         \* READ_AHEAD_INITIAL
          Ceiling,         \* read_ahead_bytes
          SeqStart,        \* READ_AHEAD_SEQUENTIAL_START
          SeqStartMinFile, \* SEQUENTIAL_START_MIN_FILE
          PrevKeep,        \* PREV_WINDOW_KEEP
          SegmentMin,      \* SEGMENT_MIN_BYTES
          SegmentAlign,    \* SEGMENT_ALIGN
          MaxSegments,     \* MAX_WINDOW_SEGMENTS
          BodyRetries,     \* MAX_BODY_RETRIES
          StallResumes,    \* MAX_STALL_RESUMES
          ReadSize,        \* length of a READ, and of one read of a body
          Seeks,           \* offsets a program may seek to
          MaxReads,        \* bound on the READs of a behaviour
          MaxFaults        \* bound on disturbances: a request that breaks, stalls or is
                           \* refused, a new version, an unknown size, slots in use

SegmentSpare == 2  \* SEGMENT_SPARE_SLOTS
LookSpare    == 1  \* LOOKAHEAD_SPARE_SLOTS

VARIABLES remote, \* the server's file: its version, and the versions our uploads made
          listed, \* the size the dir cache has for it, 0 = unknown
          pin,    \* the handle's VersionPin
          of,     \* the handle: buf, next, prev, window size, expected offset
          win,    \* the windows
          rd,     \* the READs
          job,    \* the look-ahead job before its window exists
          free,   \* free read slots
          others, \* read slots other handles hold
          begun, faults

readVars == <<remote, listed, pin, of, win, rd, job, free, others, begun, faults>>

Versions == 1 .. Len(Sizes)
NoWindow == [start |-> 0]
NoJob == [after |-> 0]
Idle  == [at |-> "idle"]

ReadInit ==
  /\ remote = [ver |-> 1, ours |-> {}]
  /\ \/ listed = Sizes[1] /\ faults = 0
     \/ listed = 0 /\ faults = MaxFaults
  /\ pin = [etag |-> 0, frozen |-> FALSE]
  /\ of = [buf |-> 0, next |-> 0, prev |-> 0, ahead |-> Initial, expected |-> 0, inflight |-> FALSE,
          open |-> TRUE]
  /\ win = [i \in Windows |-> NoWindow]
  /\ rd = [r \in Reads |-> Idle]
  /\ job = NoJob
  /\ free = ReadSlots /\ others = 0
  /\ begun = 0

Least(a, b) == IF a <= b THEN a ELSE b
Most(a, b) == IF a >= b THEN a ELSE b
DivCeil(a, b) == (a + b - 1) \div b

-----------------------------------------------------------------------------
(* Windows *)

Target(w)  == LET l == w.plan[Len(w.plan)] IN l.at + l.len
WinEnd(w)  == w.start + Target(w)
Filled(w)  == w.start + Len(w.data)
halted(w)  == w.broken \/ w.stopped
at_eof(w)  == w.eof = Len(w.data)
Covers(ws, i, off) == i # 0 /\ off >= ws[i].start /\ off < WinEnd(ws[i])
Waiters(rs, i) == {r \in Reads : rs[r].at = "parked" /\ rs[r].win = i}

\* A window lives while the handle, its pump, a READ or a look-ahead job holds it.
Living(ws, o, rs, j) ==
  {i \in Windows : /\ ws[i] # NoWindow
                   /\ \/ i \in {o.buf, o.next, o.prev, j.after} \/ ~ws[i].done
                      \/ \E r \in Reads : rs[r].at \in {"queued", "parked"} /\ rs[r].win = i}
Kept(ws, o, rs, j) == [i \in Windows |-> IF i \in Living(ws, o, rs, j) THEN ws[i] ELSE NoWindow]

\* BufferReservation: what the windows, and those being opened, have reserved.
Reserved ==
  MapThenSumSet(LAMBDA i : IF win[i] = NoWindow THEN 0 ELSE win[i].budget, Windows)
    + MapThenSumSet(LAMBDA r : IF rd[r].at = "first" THEN rd[r].opened.budget ELSE 0, Reads)
    + (IF job.after = 0 THEN 0 ELSE job.len)

\* Mutant of short_reply_ok: the end of a window passes for the end of the file.
short_reply_ok_Any(off, avail, sz, file_size) == avail >= sz \/ avail > 0

short_reply_ok(off, avail, sz, file_size) ==
  avail >= sz \/ (file_size > 0 /\ off + avail >= file_size)

\* segment_plan(), span 0 = unknown.  Its division rounds down before it is
\* rounded up to the alignment, so the parts can be one more than k.
segment_plan(target, span, slots, need) ==
  LET single == <<[at |-> 0, len |-> target, last |-> TRUE]>>
      s   == Least(span, target)
      k   == Least(Least(slots, MaxSegments), s \div SegmentMin)
      per == DivCeil(s \div k, SegmentAlign) * SegmentAlign
      n   == DivCeil(s, per)
  IN  IF span = 0 \/ k < 2 THEN single
      ELSE IF per < need THEN single
      ELSE [i \in 1 .. n |-> [at |-> (i - 1) * per, len |-> Least(per, s - (i - 1) * per), last |-> i = n]]

next_read_ahead_window(current, sequential) ==
  IF sequential THEN Least(2 * Most(current, Initial), Ceiling) ELSE Least(Initial, Ceiling)

\* streaming_jump(), 0 = keep the ramp, and the window it leads to.
streaming_jump(current, start, sequential, file_size) ==
  IF sequential /\ start = 0 /\ current <= Initial /\ file_size >= SeqStartMinFile
  THEN Least(SeqStart, Ceiling) ELSE 0

Ramp(o, start, sequential, file_size) ==
  LET jump == streaming_jump(o.ahead, start, sequential, file_size)
  IN  IF jump > 0 THEN jump ELSE next_read_ahead_window(o.ahead, sequential)

lookahead_due(w, off, sz, sequential, file_size) ==
  /\ sequential /\ file_size > 0 /\ WinEnd(w) < file_size
  /\ off >= w.start /\ off + sz >= w.start + Target(w) \div 2

-----------------------------------------------------------------------------
(* VersionPin *)

\* Mutant of admits: any version is admitted.
admits_Any(v) == TRUE

admits(v) ==
  \/ pin.etag = v
  \/ pin.etag = 0 /\ ~pin.frozen
  \/ pin.etag # 0 /\ ~pin.frozen /\ v \in remote.ours

\* The file is replaced on the server: by an upload of ours or by someone
\* else, or by a rename of ours, which freezes the pin of the open handle.
ServerChange ==
  /\ remote.ver < Len(Sizes) /\ faults < MaxFaults
  /\ \E own, renamed \in BOOLEAN :
       /\ remote' = [ver  |-> remote.ver + 1,
                     ours |-> IF own THEN remote.ours \cup {remote.ver + 1} ELSE remote.ours]
       /\ pin' = [pin EXCEPT !.frozen = own /\ renamed]
  /\ faults' = faults + 1
  /\ UNCHANGED <<listed, of, win, rd, job, free, others, begun>>

\* A directory refresh lists the file's current size.
Relist ==
  /\ listed # Sizes[remote.ver]
  /\ listed' = Sizes[remote.ver]
  /\ UNCHANGED <<remote, pin, of, win, rd, job, free, others, begun, faults>>

\* Other handles take every free read slot, and give them back.
OthersTake ==
  /\ free > 0 /\ faults < MaxFaults
  /\ free' = 0 /\ others' = others + free
  /\ faults' = faults + 1
  /\ UNCHANGED <<remote, listed, pin, of, win, rd, job, begun>>

OthersReturn ==
  /\ others > 0
  /\ free' = free + others /\ others' = 0
  /\ UNCHANGED <<remote, listed, pin, of, win, rd, job, begun, faults>>

-----------------------------------------------------------------------------
(* read(): the part that runs under the open_files lock *)

Reply(r, data, errno, whole) ==
  [rd EXCEPT ![r] = [at |-> "answered", off |-> @.off, sz |-> @.sz, size |-> @.size,
                     data |-> data, errno |-> errno, whole |-> whole]]
Answer(r, data) == Reply(r, data, "", FALSE)
Fail(r, errno)  == Reply(r, <<>>, errno, FALSE)

\* A READ comes in: the listed size and whether it continues the last one.
\* The kernel reads ahead while READs are under way; a program seeks after them.
ReadBegin(r, off, sz) ==
  /\ rd[r].at \in {"idle", "answered"} /\ of.open /\ begun < MaxReads
  /\ listed = 0 \/ off < listed
  /\ off = of.expected \/ \A s \in Reads : rd[s].at \in {"idle", "install", "answered"}
  /\ rd' = [rd EXCEPT ![r] = [at |-> "serve", off |-> off, sz |-> sz, size |-> listed,
                              seq |-> of.expected = off]]
  /\ of' = [of EXCEPT !.expected = off + sz]
  /\ begun' = begun + 1
  /\ UNCHANGED <<remote, listed, pin, win, job, free, others, faults>>

\* The program repeats a READ that was answered EAGAIN.
ReadAgain(r) ==
  /\ rd[r].at = "answered" /\ rd[r].errno = "EAGAIN" /\ of.open
  /\ rd' = [rd EXCEPT ![r] = [at |-> "serve", off |-> @.off, sz |-> @.sz, size |-> listed,
                              seq |-> of.expected = @.off]]
  /\ of' = [of EXCEPT !.expected = rd[r].off + rd[r].sz]
  /\ UNCHANGED <<remote, listed, pin, win, job, free, others, begun, faults>>

promote_lookahead(o, off) ==
  IF ~Covers(win, o.buf, off) /\ Covers(win, o.next, off)
  THEN [o EXCEPT !.prev = o.buf, !.buf = o.next, !.next = 0] ELSE o

retire_prev_window(o, off) ==
  IF /\ o.prev # 0 /\ Covers(win, o.buf, off)
     /\ win[o.prev].done \/ (Waiters(rd, o.prev) = {} /\ off >= win[o.buf].start + PrevKeep)
  THEN [o EXCEPT !.prev = 0] ELSE o

Slice(w, off, n) == SubSeq(w.data, off - w.start + 1, off - w.start + n)

\* The window a READ at off looks at, and the one that follows it.
Looked(o, off) ==
  IF ~Covers(win, o.buf, off) /\ Covers(win, o.prev, off) THEN o.prev ELSE o.buf
Following(o, i) == IF o.prev = i THEN o.buf ELSE o.next

\* Windows i and f together hold the READ that straddles them.
Stitches(i, f, end) ==
  LET w == win[i] IN
  /\ f # 0 /\ w.done /\ ~halted(w) /\ Filled(w) = WinEnd(w)
  /\ win[f].start = WinEnd(w) /\ Filled(win[f]) >= end

\* What read() does with the READ, by its chain of early returns.
Verdict(o, i, off, sz, size) ==
  IF ~Covers(win, i, off) THEN "fetch"
  ELSE LET w == win[i] IN
       IF off + sz <= Filled(w) THEN "hit"
       ELSE IF off + sz <= WinEnd(w) /\ ~w.done THEN "park"
       ELSE IF Stitches(i, Following(o, i), off + sz) THEN "stitch"
       ELSE IF w.done /\ ~halted(w)
            THEN IF at_eof(w) \/ short_reply_ok(off, Most(Filled(w), off) - off, sz, size)
                 THEN "short" ELSE "fetch"
       ELSE IF short_reply_ok(off, WinEnd(w) - off, sz, size) THEN "wait" ELSE "fetch"

\* Mutant of Planned: no slot for the look-ahead, and the flag stays set.
Planned_Latched(o, r) ==
  LET w     == win[o.buf]
      due   == /\ ~o.inflight /\ o.next = 0 /\ o.buf # 0
               /\ lookahead_due(w, rd[r].off, rd[r].sz, rd[r].seq, rd[r].size)
      start == WinEnd(w)
      size  == Ramp(o, w.start, TRUE, rd[r].size)
      len   == Least(size, rd[r].size - start)
  IN  IF ~due THEN [of |-> o, job |-> job]
      ELSE IF Reserved + len > Budget THEN [of |-> o, job |-> job]
      ELSE [of  |-> [o EXCEPT !.ahead = size, !.inflight = TRUE],
            job |-> IF free <= LookSpare THEN job
                    ELSE [after |-> o.buf, start |-> start, len |-> len, size |-> rd[r].size]]

\* plan_lookahead() and start_lookahead(): the next window is due, its memory
\* is there in full, and a slot can be had while another stays free.
Planned(o, r) ==
  LET w     == win[o.buf]
      due   == /\ ~o.inflight /\ o.next = 0 /\ o.buf # 0
               /\ lookahead_due(w, rd[r].off, rd[r].sz, rd[r].seq, rd[r].size)
      start == WinEnd(w)
      size  == Ramp(o, w.start, TRUE, rd[r].size)
      len   == Least(size, rd[r].size - start)
  IN  IF ~due THEN [of |-> o, job |-> job]
      ELSE IF Reserved + len > Budget THEN [of |-> o, job |-> job]
      ELSE IF free <= LookSpare THEN [of |-> [o EXCEPT !.ahead = size], job |-> job]
      ELSE [of  |-> [o EXCEPT !.ahead = size, !.inflight = TRUE],
            job |-> [after |-> o.buf, start |-> start, len |-> len, size |-> rd[r].size]]

Queue(r, i) ==
  [rd EXCEPT ![r] = [at |-> "queued", off |-> @.off, sz |-> @.sz, size |-> @.size, win |-> i]]

\* read() under the open_files lock: the READ is answered from the windows, or
\* queued to wait on one (either may start a look-ahead, which takes its slot
\* here), or the window to fetch is sized for the access pattern.
Serve(r) ==
  /\ rd[r].at = "serve"
  /\ LET off == rd[r].off  end == rd[r].off + rd[r].sz
         o == retire_prev_window(promote_lookahead(of, off), off)
         i == Looked(o, off)
         w == win[i]
         v == Verdict(o, i, off, rd[r].sz, rd[r].size)
         p == Planned(o, r)
         size == IF o.buf # 0 THEN Ramp(o, win[o.buf].start, rd[r].seq, rd[r].size)
                 ELSE next_read_ahead_window(o.ahead, rd[r].seq)
     IN  /\ \/ /\ v \in {"hit", "park"}
               /\ of' = p.of /\ job' = p.job
               /\ free' = IF p.job # job THEN free - 1 ELSE free
               /\ rd' = IF v = "hit" THEN Answer(r, Slice(w, off, rd[r].sz)) ELSE Queue(r, i)
            \/ /\ v = "stitch"
               /\ rd' = Answer(r, Slice(w, off, WinEnd(w) - off) \o
                                  Slice(win[Following(o, i)], WinEnd(w), end - WinEnd(w)))
               /\ of' = o /\ UNCHANGED <<job, free>>
            \/ /\ v = "short"
               /\ rd' = Answer(r, Slice(w, off, Least(Filled(w), end) - off))
               /\ of' = o /\ UNCHANGED <<job, free>>
            \/ /\ v = "wait"
               /\ rd' = Queue(r, i)
               /\ of' = o /\ UNCHANGED <<job, free>>
            \/ /\ v = "fetch"
               /\ of' = [o EXCEPT !.ahead = size]
               /\ rd' = [rd EXCEPT ![r] = [at |-> "open", off |-> off, sz |-> @.sz, size |-> @.size,
                                           target |-> Most(@.sz, size)]]
               /\ UNCHANGED <<job, free>>
         /\ win' = Kept(win, of', rd', job')
  /\ UNCHANGED <<remote, listed, pin, others, begun, faults>>

\* release_idle_windows(): a sweep under memory pressure takes an idle
\* handle's speculative windows.
IdleSweep ==
  /\ Reserved >= Budget \div 2
  /\ of.next # 0 \/ of.prev # 0
  /\ \A r \in Reads : rd[r].at \in {"idle", "answered"}
  /\ of' = [of EXCEPT !.next = 0, !.prev = 0]
  /\ win' = Kept(win, of', rd, job)
  /\ UNCHANGED <<remote, listed, pin, rd, job, free, others, begun, faults>>

\* release(): the kernel has had every answer.
Close ==
  /\ of.open /\ begun = MaxReads
  /\ \A r \in Reads : rd[r].at \in {"idle", "answered", "install"}
  /\ of' = [of EXCEPT !.open = FALSE, !.buf = 0, !.next = 0, !.prev = 0]
  /\ rd' = [r \in Reads |-> IF rd[r].at = "install" THEN rd[r] ELSE Idle]
  /\ win' = Kept(win, of', rd', job)
  /\ UNCHANGED <<remote, listed, pin, job, free, others, begun, faults>>

-----------------------------------------------------------------------------
(* open_window() and the READ that waits for its first bytes *)

\* Slots, memory and segments for a window of `want` blocks at `start`, with
\* `reserved` blocks reserved by everyone else and `granted` for this window.
Opened(start, want, need, size, spare, reserved, granted, slots, v) ==
  LET target == Most(Least(granted, want), Least(need, want))
      span   == IF size > start THEN size - start ELSE 0
      most   == Len(segment_plan(target, span, MaxSegments, need))
      keep   == Most(spare, SegmentSpare)
      tried  == Least(most - 1, IF slots > keep THEN slots - keep ELSE 0)
      plan1  == segment_plan(target, span, 1 + tried, need)
      peak(p) == LET l == p[Len(p)] IN l.at + l.len + (IF Len(p) > 1 THEN p[1].len ELSE 0)
      plan2  == IF Len(plan1) > 1 /\ reserved + peak(plan1) > Budget
                THEN segment_plan(target, span, 1, need) ELSE plan1
      plan   == IF Len(plan2) > 1 /\ Sizes[v] # size
                THEN <<[plan2[1] EXCEPT !.last = TRUE]>> ELSE plan2
  IN  [plan |-> plan, extras |-> Least(tried, Len(plan) - 1), total |-> Sizes[v], ver |-> v,
       budget |-> Least(Most(granted, peak(plan2)), peak(plan))]

\* BufferReservation::up_to
up_to(want, floor) ==
  Most(Least(IF Budget > Reserved THEN Budget - Reserved ELSE 0, want), Least(floor, want))

\* The first request is answered by the version the handle reads.
FetchOpen(r) ==
  /\ rd[r].at = "open" /\ free > 0
  /\ admits(remote.ver) /\ rd[r].off < Sizes[remote.ver]
  /\ LET w == Opened(rd[r].off, rd[r].target, rd[r].sz, rd[r].size, 0, Reserved,
                     up_to(rd[r].target, Most(rd[r].sz, Initial)), free - 1, remote.ver)
     IN  /\ rd' = [rd EXCEPT ![r] = [at |-> "first", off |-> @.off, sz |-> @.sz, size |-> @.size, opened |-> w]]
         /\ free' = free - 1 - w.extras
  /\ pin' = [pin EXCEPT !.etag = remote.ver]
  /\ UNCHANGED <<remote, listed, of, win, job, others, begun, faults>>

\* No slot, or a slow server: EAGAIN.  Another version: ESTALE.  Anything else
\* the server answers: the whole file is downloaded, and no pin is asked.
FetchRefused(r) ==
  /\ rd[r].at = "open"
  /\ \/ free = 0 /\ rd' = Fail(r, "EAGAIN") /\ UNCHANGED faults
     \/ free > 0 /\ faults < MaxFaults /\ rd' = Fail(r, "EAGAIN") /\ faults' = faults + 1
     \/ /\ free > 0 /\ rd[r].off < Sizes[remote.ver] /\ ~admits(remote.ver)
        /\ rd' = Fail(r, "ESTALE") /\ UNCHANGED faults
     \/ /\ free > 0
        /\ \/ rd[r].off >= Sizes[remote.ver] /\ UNCHANGED faults
           \/ faults < MaxFaults /\ faults' = faults + 1
        /\ LET n == Least(rd[r].off + rd[r].sz, Sizes[remote.ver]) IN
           rd' = Reply(r, [k \in 1 .. (IF n > rd[r].off THEN n - rd[r].off ELSE 0) |->
                             <<rd[r].off + k - 1, remote.ver>>], "", TRUE)
  /\ UNCHANGED <<remote, listed, pin, of, win, job, free, others, begun>>

Body(start, n, v) == [k \in 1 .. n |-> <<start + k - 1, v>>]

\* The first bytes are in: the READ is answered, then the listed size is
\* brought in line with the size the server stated.
FirstBytes(r) ==
  /\ rd[r].at = "first"
  /\ LET w == rd[r].opened  n == Least(rd[r].sz, w.total - rd[r].off) IN
     /\ rd' = [rd EXCEPT ![r] = [at |-> "install", off |-> @.off, sz |-> @.sz, size |-> @.size,
                                 opened |-> w, data |-> Body(@.off, n, w.ver), errno |-> "", whole |-> FALSE]]
     /\ listed' = IF rd[r].size # w.total THEN w.total ELSE listed
  /\ UNCHANGED <<remote, pin, of, win, job, free, others, begun, faults>>

\* They do not come, or the body ends early: no window, every slot is given back.
FirstBytesLost(r) ==
  /\ rd[r].at = "first" /\ faults < MaxFaults
  /\ \E errno \in {"EAGAIN", "EIO"} : rd' = Fail(r, errno)
  /\ free' = free + 1 + rd[r].opened.extras
  /\ faults' = faults + 1
  /\ UNCHANGED <<remote, listed, pin, of, win, job, others, begun>>

\* A segment returns: the last one records where the file ends, and when it
\* is the last to return, WindowDone marks the window done, and stopped if it
\* ended short of its target without reaching the end of the file.
Ended(w, k) ==
  LET end  == w.plan[k].at + w.segs[k].got
      u    == [w EXCEPT !.segs[k].st = "ended",
                        !.eof = IF w.plan[k].last /\ w.total = w.start + end THEN end ELSE @]
      done == \A j \in 1 .. Len(u.segs) : u.segs[j].st = "ended"
      short == Len(u.data) < Target(u) /\ ~at_eof(u)
  IN  [u EXCEPT !.done = done, !.stopped = @ \/ (done /\ short /\ ~halted(u))]

NewId == CHOOSE i \in Windows : win[i] = NoWindow /\ \A j \in Windows : win[j] = NoWindow => i <= j

NewWindow(start, w, first, spare) ==
  [start |-> start, plan |-> w.plan, total |-> w.total, data |-> first, budget |-> w.budget,
   done |-> FALSE, broken |-> FALSE, stopped |-> FALSE, eof |-> Sizes[w.ver] + 100, spare |-> spare,
   segs |-> [k \in 1 .. Len(w.plan) |->
               [st |-> IF k = 1 THEN "body" ELSE IF k - 1 <= w.extras THEN "opening" ELSE "ended",
                got |-> IF k = 1 THEN Len(first) ELSE 0, ver |-> w.ver, at |-> 0, buf |-> <<>>,
                breaks |-> 0, stalls |-> 0]]]

\* The window becomes the handle's, and its pump starts; the first bytes may
\* have been all of the first segment.
Install(r) ==
  /\ rd[r].at = "install" /\ \E i \in Windows : win[i] = NoWindow
  /\ rd' = [rd EXCEPT ![r] = [at |-> "answered", off |-> @.off, sz |-> @.sz, size |-> @.size,
                              data |-> @.data, errno |-> @.errno, whole |-> @.whole]]
  /\ of' = IF of.open THEN [of EXCEPT !.buf = NewId, !.next = 0, !.prev = 0] ELSE of
  /\ LET w == NewWindow(rd[r].off, rd[r].opened, rd[r].data, 0)
         full == w.segs[1].got >= w.plan[1].len
     IN  /\ win' = Kept([win EXCEPT ![NewId] = IF full THEN Ended(w, 1) ELSE w], of', rd', job)
         /\ free' = IF full THEN free + 1 ELSE free
  /\ UNCHANGED <<remote, listed, pin, job, others, begun, faults>>

-----------------------------------------------------------------------------
(* The look-ahead job *)

\* run_lookahead(): the window is opened, and installed while the handle's
\* current window is still the one it follows.
LookaheadOpen ==
  /\ job.after # 0 /\ of.open
  /\ admits(remote.ver) /\ job.start < Sizes[remote.ver]
  /\ pin' = [pin EXCEPT !.etag = remote.ver]
  /\ LET w == Opened(job.start, job.len, 0, job.size, LookSpare, Reserved - job.len, job.len, free, remote.ver)
     IN  IF of.next = 0 /\ of.buf = job.after
         THEN /\ \E i \in Windows : win[i] = NoWindow
              /\ of' = [of EXCEPT !.next = NewId]
              /\ win' = Kept([win EXCEPT ![NewId] = NewWindow(job.start, w, <<>>, LookSpare)], of', rd, NoJob)
              /\ free' = free - w.extras
         ELSE /\ of' = [of EXCEPT !.inflight = FALSE]
              /\ win' = Kept(win, of', rd, NoJob)
              /\ free' = free + 1
  /\ job' = NoJob
  /\ UNCHANGED <<remote, listed, rd, others, begun, faults>>

LookaheadSkip ==
  /\ job.after # 0
  /\ \/ ~of.open /\ UNCHANGED faults
     \/ (~admits(remote.ver) \/ job.start >= Sizes[remote.ver]) /\ UNCHANGED faults
     \/ faults < MaxFaults /\ faults' = faults + 1
  /\ job' = NoJob
  /\ of' = [of EXCEPT !.inflight = FALSE]
  /\ win' = Kept(win, of', rd, NoJob)
  /\ free' = free + 1
  /\ UNCHANGED <<remote, listed, pin, rd, others, begun>>

-----------------------------------------------------------------------------
(* WindowPump: one process per segment *)

superseded(i) == Waiters(rd, i) = {} /\ i \notin {of.buf, of.next, of.prev}

RECURSIVE absorb(_)
absorb(w) ==
  LET ready == {k \in 1 .. Len(w.segs) : w.segs[k].buf # <<>> /\ w.segs[k].at = Len(w.data)} IN
  IF ready = {} THEN w
  ELSE LET k == CHOOSE k \in ready : TRUE
       IN  absorb([w EXCEPT !.data = @ \o w.segs[k].buf, !.segs[k].buf = <<>>])

\* Mutant of push: bytes go onto the prefix as they arrive.
push_Unordered(w, k, bytes) == [w EXCEPT !.data = @ \o bytes, !.segs[k].got = @ + Len(bytes)]

push(w, k, bytes) ==
  LET sb == w.segs[k]
      at == w.plan[k].at + sb.got
      ws == [w EXCEPT !.segs[k].got = @ + Len(bytes)]
  IN  IF sb.buf = <<>> /\ at = Len(w.data) THEN absorb([ws EXCEPT !.data = @ \o bytes])
      ELSE [ws EXCEPT !.segs[k].at = IF sb.buf = <<>> THEN at ELSE @, !.segs[k].buf = @ \o bytes]

\* The pump step that leaves window i as w; a look-ahead that is done lets the
\* next one start.
Pumped(i, w) ==
  /\ of' = IF w.done /\ w.spare = LookSpare THEN [of EXCEPT !.inflight = FALSE] ELSE of
  /\ win' = Kept([win EXCEPT ![i] = w], of', rd, job)

SegPos(i, k) == win[i].start + win[i].plan[k].at + win[i].segs[k].got
SegIn(i, k, sts) == win[i] # NoWindow /\ k \in 1 .. Len(win[i].segs) /\ win[i].segs[k].st \in sts

\* A further segment's own request, or the one that resumes a broken segment,
\* is answered by an admitted version; only then does a resume hold a slot.
SegOpen(i, k) ==
  /\ SegIn(i, k, {"opening", "resume"})
  /\ win[i].segs[k].st = "resume" => free > win[i].spare
  /\ admits(remote.ver) /\ SegPos(i, k) < Sizes[remote.ver]
  /\ free' = IF win[i].segs[k].st = "resume" THEN free - 1 ELSE free
  /\ pin' = [pin EXCEPT !.etag = remote.ver]
  /\ win' = [win EXCEPT ![i].segs[k].st = "body", ![i].segs[k].ver = remote.ver]
  /\ UNCHANGED <<remote, listed, of, rd, job, others, begun, faults>>

\* It is not: the window breaks, or stops when trying again can help.
SegRefused(i, k) ==
  /\ SegIn(i, k, {"opening", "resume"})
  /\ \/ /\ ~admits(remote.ver) \/ SegPos(i, k) >= Sizes[remote.ver]
        /\ Pumped(i, Ended([win[i] EXCEPT !.broken = TRUE], k))
        /\ UNCHANGED faults
     \/ /\ win[i].segs[k].st = "resume" /\ free <= win[i].spare
        /\ Pumped(i, Ended([win[i] EXCEPT !.stopped = TRUE], k))
        /\ UNCHANGED faults
     \/ /\ faults < MaxFaults /\ faults' = faults + 1
        /\ \E later \in BOOLEAN :
             Pumped(i, Ended([win[i] EXCEPT !.stopped = @ \/ later, !.broken = @ \/ ~later], k))
  /\ free' = IF win[i].segs[k].st = "opening" THEN free + 1 ELSE free
  /\ UNCHANGED <<remote, listed, pin, rd, job, others, begun>>

\* Some more bytes; now and then a check whether anybody still wants the window.
SegBytes(i, k) ==
  /\ SegIn(i, k, {"body"}) /\ win[i].segs[k].got < win[i].plan[k].len
  /\ SegPos(i, k) < Sizes[win[i].segs[k].ver]
  /\ LET v == win[i].segs[k].ver
         n == Least(Least(ReadSize, win[i].plan[k].len - win[i].segs[k].got), Sizes[v] - SegPos(i, k))
         w == push(win[i], k, Body(SegPos(i, k), n, v))
         full == w.segs[k].got >= w.plan[k].len
     IN  \/ (halted(w) \/ full) /\ Pumped(i, Ended(w, k)) /\ free' = free + 1
         \/ ~halted(w) /\ ~full /\ Pumped(i, w) /\ UNCHANGED free
         \/ /\ ~halted(w) /\ superseded(i)
            /\ Pumped(i, Ended([w EXCEPT !.stopped = TRUE], k)) /\ free' = free + 1
  /\ UNCHANGED <<remote, listed, pin, rd, job, others, begun, faults>>

\* The body ends early: a hole, unless the segment is the window's last.
SegEnd(i, k) ==
  /\ SegIn(i, k, {"body"}) /\ SegPos(i, k) >= Sizes[win[i].segs[k].ver]
  /\ Pumped(i, Ended([win[i] EXCEPT !.broken = @ \/ ~win[i].plan[k].last], k))
  /\ free' = free + 1
  /\ UNCHANGED <<remote, listed, pin, rd, job, others, begun, faults>>

\* Mutant of SegFails: the slot is kept for the resume, which takes another.
SegFails_KeepSlot(i, k, stalled) ==
  /\ SegIn(i, k, {"body"}) /\ win[i].segs[k].got < win[i].plan[k].len
  /\ faults < MaxFaults /\ faults' = faults + 1
  /\ ~halted(win[i])
  /\ Pumped(i, [win[i] EXCEPT !.segs[k].st = "resume"])
  /\ UNCHANGED <<remote, listed, pin, rd, job, free, others, begun>>

\* The transport breaks or stalls: the slot goes back first, then the segment
\* ends, gives up, or resumes from where it got.
SegFails(i, k, stalled) ==
  /\ SegIn(i, k, {"body"}) /\ win[i].segs[k].got < win[i].plan[k].len
  /\ faults < MaxFaults /\ faults' = faults + 1
  /\ free' = free + 1
  /\ LET w == win[i]
         left == IF stalled THEN w.segs[k].stalls < StallResumes ELSE w.segs[k].breaks < BodyRetries
     IN  Pumped(i,
           IF halted(w) THEN Ended(w, k)
           ELSE IF superseded(i) THEN Ended([w EXCEPT !.stopped = TRUE], k)
           ELSE IF ~left THEN Ended([w EXCEPT !.stopped = stalled, !.broken = ~stalled], k)
           ELSE [w EXCEPT !.segs[k].st = "resume",
                          !.segs[k].stalls = IF stalled THEN @ + 1 ELSE @,
                          !.segs[k].breaks = IF stalled THEN @ ELSE @ + 1])
  /\ UNCHANGED <<remote, listed, pin, rd, job, others, begun>>

-----------------------------------------------------------------------------
(* wait_on_window() *)

\* The read pool gets to the READ, which from now on counts as a waiter.
WaitBegin(r) ==
  /\ rd[r].at = "queued"
  /\ rd' = [rd EXCEPT ![r].at = "parked"]
  /\ UNCHANGED <<remote, listed, pin, of, win, job, free, others, begun, faults>>

WaitAnswer(r) ==
  /\ rd[r].at = "parked"
  /\ LET w == win[rd[r].win]  off == rd[r].off  sz == rd[r].sz
         avail == Most(Filled(w), off) - off
     IN  IF Filled(w) >= off + sz THEN rd' = Answer(r, Slice(w, off, sz))
         ELSE /\ w.done \/ halted(w)
              /\ rd' = IF ~halted(w) /\ (at_eof(w) \/ short_reply_ok(off, avail, sz, rd[r].size))
                       THEN Answer(r, Slice(w, off, avail))
                       ELSE Fail(r, IF w.broken THEN "EIO" ELSE "EAGAIN")
  /\ win' = Kept(win, of, rd', job)
  /\ UNCHANGED <<remote, listed, pin, of, job, free, others, begun, faults>>

\* A full read pool, a READ queued too long, or WINDOW_WAIT_IDLE and _MAX.
WaitTimeout(r) ==
  /\ rd[r].at \in {"queued", "parked"} /\ faults < MaxFaults
  /\ rd' = Fail(r, "EAGAIN")
  /\ win' = Kept(win, of, rd', job)
  /\ faults' = faults + 1
  /\ UNCHANGED <<remote, listed, pin, of, job, free, others, begun>>

-----------------------------------------------------------------------------
ReadEnv == ServerChange \/ Relist \/ OthersTake \/ Close

ReadStep(r) ==
  \/ Serve(r) \/ FetchOpen(r) \/ FetchRefused(r)
  \/ FirstBytes(r) \/ Install(r) \/ WaitBegin(r) \/ WaitAnswer(r)

PumpStep(i) ==
  \E k \in 1 .. MaxSegments + 1 : SegOpen(i, k) \/ SegRefused(i, k) \/ SegBytes(i, k) \/ SegEnd(i, k)

ReadNext ==
  \/ ReadEnv \/ OthersReturn \/ IdleSweep
  \/ \E r \in Reads : \/ \E off \in {of.expected} \cup Seeks : ReadBegin(r, off, ReadSize)
                      \/ ReadStep(r) \/ FirstBytesLost(r) \/ WaitTimeout(r) \/ ReadAgain(r)
  \/ LookaheadOpen \/ LookaheadSkip
  \/ \E i \in Windows : \/ PumpStep(i)
                        \/ \E k \in 1 .. MaxSegments + 1, stalled \in BOOLEAN : SegFails(i, k, stalled)

ReadSpec == ReadInit /\ [][ReadNext]_readVars

-----------------------------------------------------------------------------
ReadTypeOK ==
  /\ remote \in [ver : Versions, ours : SUBSET Versions] /\ listed \in {0} \cup {Sizes[v] : v \in Versions}
  /\ pin \in [etag : {0} \cup Versions, frozen : BOOLEAN]
  /\ {of.buf, of.next, of.prev} \subseteq {0} \cup Windows /\ of.inflight \in BOOLEAN
  /\ \A i \in {of.buf, of.next, of.prev} \ {0} : win[i] # NoWindow
  /\ free \in 0 .. ReadSlots /\ others \in 0 .. ReadSlots

Replied == {r \in Reads : rd[r].at \in {"answered", "install"} /\ rd[r].errno = ""}

\* A READ is answered with the bytes at its own offset, in order and without a
\* hole, although segments of a window arrive, break and resume in any order.
BytesInPlace ==
  \A r \in Replied : \A k \in 1 .. Len(rd[r].data) : rd[r].data[k][1] = rd[r].off + k - 1

\* A short answer, which the kernel takes for the end of the file, ends at the
\* size the listing gave or at the end of the version the bytes are from.
ShortOnlyAtEnd ==
  \A r \in Replied :
    LET n == Len(rd[r].data) IN
    n < rd[r].sz => \/ rd[r].size > 0 /\ rd[r].off + n >= rd[r].size
                    \/ \E v \in Versions : rd[r].off + n >= Sizes[v]

\* Bytes served from the handle's windows are of the pinned version, or the
\* later of two versions is one our own upload made.
NotSpliced ==
  \A r, s \in Replied : ~rd[r].whole /\ ~rd[s].whole =>
    \A b \in Range(rd[r].data), c \in Range(rd[s].data) :
      b[2] < c[2] => c[2] \in remote.ours

\* Every slot is free, with another handle, or held by exactly one request of
\* this one: no error, resume, seek or close loses or doubles a slot.
SlotsHeld ==
  MapThenSumSet(LAMBDA i : IF win[i] = NoWindow THEN 0
                           ELSE Cardinality({k \in 1 .. Len(win[i].segs) : win[i].segs[k].st \in {"opening", "body"}}),
                Windows)
  + MapThenSumSet(LAMBDA r : IF rd[r].at \in {"first", "install"} THEN 1 + rd[r].opened.extras ELSE 0, Reads)
  + (IF job.after # 0 THEN 1 ELSE 0)
SlotsConserved == free + others + SlotsHeld = ReadSlots

\* The flag that keeps a second look-ahead away is up only while a look-ahead
\* runs: given up, refused or overtaken, it comes down again.
LookaheadCleared ==
  of.inflight => job.after # 0 \/ \E i \in Windows : win[i] # NoWindow /\ win[i].spare = LookSpare /\ ~win[i].done

\* wait_on_window: a window "that stopped, or has not delivered in time, is
\* EAGAIN, since trying again can work".  So a READ answered EAGAIN and sent
\* again is not made to wait on a window that can never grow.
RetryCanWork ==
  \A r \in Reads : of.open /\ rd[r].at = "answered" /\ rd[r].errno = "EAGAIN" =>
    LET o == retire_prev_window(promote_lookahead(of, rd[r].off), rd[r].off)
        i == Looked(o, rd[r].off)
    IN  Verdict(o, i, rd[r].off, rd[r].sz, rd[r].size) \in {"park", "wait"} =>
          ~(win[i].done /\ halted(win[i]))
============================================================================
