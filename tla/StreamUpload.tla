---------------------------- MODULE StreamUpload ----------------------------
(***************************************************************************)
(* A file that is uploaded while it is written (ncrs_core/src/lib.rs,      *)
(* ChunkUploadState): the writer hands chunks to an uploader that runs     *)
(* beside it, and once the disk is low every chunk sent is punched out of  *)
(* the staging file.  At the last close the rest goes up, and the server   *)
(* assembles the chunks by number (mutation_journal.rs, finish_chunked).   *)
(*                                                                         *)
(* Lengths and offsets are counted in chunks; the content of a chunk is    *)
(* the number of the write that produced it.                               *)
(***************************************************************************)
EXTENDS Naturals, Sequences, SequencesExt, FiniteSets

CONSTANTS Threshold,     \* stream_upload_threshold()
          MaxUnsent,     \* STREAM_MAX_UNSENT
          MaxLength,     \* bound on the file's length
          MaxWrites,     \* bound on the writes
          MaxMishaps     \* bound on failures, and on changes of the disk and the network

Head1 == 1       \* STREAM_HEAD: the chunk kept back
Hole  == 1000    \* a punched chunk
Zero  == 0       \* never written

VARIABLES fd,      \* the open handle (OpenFile): where write() is, and the upload's fields
          stage,   \* the staging file
          want,    \* what the program's accepted writes make of the file
          pump,    \* PumpState
          sender,  \* the uploader's job
          sniff,   \* a READ of the handle: the bytes it has read from the staging file
          finish,  \* the journal entry of the closed file and its worker
          dav,     \* the server: the session's chunks, the file, a conflicted copy
          low,     \* free space is under the reserve
          offline, mishaps

streamVars == <<fd, stage, want, pump, sender, sniff, finish, dav, low, offline, mishaps>>

NoSender == [at |-> "none"]
NoRead   == [at |-> "none"]
NoPump   == [next |-> 1, confirmed |-> Head1, claimed |-> Head1, punching |-> FALSE,
             busy |-> FALSE, failed |-> FALSE, closed |-> FALSE, frozen |-> FALSE]

StreamInit ==
  /\ fd = [at |-> "idle", open |-> TRUE, eligible |-> TRUE, session |-> FALSE, total |-> 0,
           failed |-> FALSE, writes |-> 0]
  /\ stage = <<>> /\ want = <<>>
  /\ pump = NoPump /\ sender = NoSender /\ sniff = NoRead
  /\ finish = [at |-> "none"]
  /\ dav = [alive |-> FALSE, chunks |-> <<>>, file |-> <<>>, ours |-> FALSE, changed |-> FALSE, copies |-> {}]
  /\ low = FALSE /\ offline = FALSE /\ mishaps = 0

StreamMishap == mishaps < MaxMishaps /\ mishaps' = mishaps + 1

-----------------------------------------------------------------------------
(* The staging file *)

Overlaid(s, off, len, v) ==
  LET n == IF off + len > Len(s) THEN off + len ELSE Len(s)
  IN  [i \in 1 .. n |-> IF i > off /\ i <= off + len THEN v
                        ELSE IF i <= Len(s) THEN s[i] ELSE Zero]

Punched(s, from, to) == [i \in 1 .. Len(s) |-> IF i > from /\ i <= to THEN Hole ELSE s[i]]

\* Held::covers
covers(off, len) ==
  \/ ~(fd.session /\ pump.punching)
  \/ off >= pump.confirmed \/ off + len <= Head1

-----------------------------------------------------------------------------
(* The uploader *)

Sendable(p) == ~p.closed /\ ~p.failed /\ p.confirmed < p.claimed

\* kick_chunk_pump(): p' and whether a job was queued; a full pool queues none.
Kicked(p, held, full) ==
  IF p.busy /\ ~held THEN p ELSE [p EXCEPT !.busy = Sendable(p) /\ ~full]
Refused(p, held, full) == ~(p.busy /\ ~held) /\ Sendable(p) /\ full

\* A job of the uploader begins: nothing left to do, or the oldest chunk is read.
PumpBegin ==
  /\ sender.at = "queued"
  /\ IF Sendable(pump)
     THEN /\ sender' = [at |-> "sending", by |-> sender.by, index |-> pump.next,
                        body |-> stage[pump.confirmed + 1]]
          /\ UNCHANGED <<pump, fd>>
     ELSE /\ sender' = NoSender /\ pump' = [pump EXCEPT !.busy = FALSE]
          /\ fd' = IF sender.by = "writer" THEN [fd EXCEPT !.at = "feeding"] ELSE fd
  /\ UNCHANGED <<stage, want, sniff, finish, dav, low, offline, mishaps>>

\* Mutant of Confirmed: the next chunk handed over is punched out with the one sent.
Confirmed_Ahead(p, s) ==
  [p |-> [p EXCEPT !.next = @ + 1, !.confirmed = @ + 1],
   s |-> IF p.punching THEN Punched(s, p.confirmed, p.claimed) ELSE s]

\* A chunk is on the server: the progress moves on and the chunk is punched out.
Confirmed(p, s) ==
  [p |-> [p EXCEPT !.next = @ + 1, !.confirmed = @ + 1],
   s |-> IF p.punching THEN Punched(s, p.confirmed, p.confirmed + 1) ELSE s]

\* The PUT of a chunk is answered; a session that was closed meanwhile keeps
\* its progress.  The job then queues itself for the next chunk.
PumpEnd(ok, full) ==
  /\ sender.at = "sending"
  /\ LET lands == dav.alive /\ ok
         after == IF ~lands THEN [p |-> [pump EXCEPT !.failed = TRUE], s |-> stage]
                  ELSE IF pump.closed THEN [p |-> pump, s |-> stage]
                  ELSE Confirmed(pump, stage)
         more  == Kicked(after.p, TRUE, full)
     IN  /\ ok \/ StreamMishap
         /\ full => Refused(after.p, TRUE, full)
         /\ ok => UNCHANGED mishaps
         /\ pump' = more /\ stage' = after.s
         /\ sender' = IF more.busy THEN [at |-> "queued", by |-> "pool"] ELSE NoSender
         /\ fd' = IF sender.by = "writer" THEN [fd EXCEPT !.at = "feeding"] ELSE fd
         /\ dav' = IF lands THEN [dav EXCEPT !.chunks = Overlaid(@, sender.index, 1, sender.body)] ELSE dav
  /\ UNCHANGED <<want, sniff, finish, low, offline>>

-----------------------------------------------------------------------------
(* write() *)

\* Mutant of stream_write_verdict: only sent bytes count, not those handed over.
stream_write_verdict_Sent(off, len, p) ==
  LET inHead == off + len <= Head1
      inTail == off >= p.confirmed /\ off <= fd.total
      healthy == (inHead \/ inTail) /\ ~p.failed /\ ~p.closed /\ ~(offline /\ ~p.punching)
  IN  IF healthy THEN "keep" ELSE IF p.punching THEN "fail" ELSE "abandon"

stream_write_verdict(off, len, p) ==
  LET inHead == off + len <= Head1
      inTail == off >= p.claimed /\ off <= fd.total
      healthy == (inHead \/ inTail) /\ ~p.failed /\ ~p.closed /\ ~(offline /\ ~p.punching)
  IN  IF healthy THEN "keep" ELSE IF p.punching THEN "fail" ELSE "abandon"

stream_should_graduate(total, claimed) == total >= claimed + Threshold

\* The session is closed, and deleted on the server.
Abandoned == pump' = [pump EXCEPT !.closed = TRUE] /\ dav' = [dav EXCEPT !.alive = FALSE]

HandleReady == fd.open /\ fd.at = "idle" /\ ~fd.failed /\ sniff.at = "none"

NextWrite(off, len) ==
  /\ HandleReady /\ fd.writes < MaxWrites
  /\ off + len <= MaxLength /\ off <= Len(want)

\* A write the streaming cannot take: the session is dropped, or cannot be,
\* and then the handle has failed.
WriteAside(off, len) ==
  /\ NextWrite(off, len)
  /\ LET verdict == IF fd.session THEN stream_write_verdict(off, len, pump)
                    ELSE IF fd.eligible /\ off <= fd.total /\ ~offline THEN "keep" ELSE "plain"
     IN  \/ /\ verdict = "fail"
            /\ fd' = [fd EXCEPT !.failed = TRUE]
            /\ UNCHANGED <<stage, want, pump, dav>>
         \/ /\ verdict \in {"abandon", "plain"}
            /\ fd' = [fd EXCEPT !.eligible = FALSE, !.session = FALSE, !.writes = @ + 1]
            /\ stage' = Overlaid(stage, off, len, fd.writes + 1)
            /\ want' = Overlaid(want, off, len, fd.writes + 1)
            /\ IF verdict = "abandon" THEN Abandoned ELSE UNCHANGED <<pump, dav>>
  /\ UNCHANGED <<sender, sniff, finish, low, offline, mishaps>>

\* start_punching(): the chunks sent so far are freed at once.
start_punching(p, s) ==
  IF p.punching \/ p.closed \/ p.failed THEN [p |-> p, s |-> s]
  ELSE [p |-> [p EXCEPT !.punching = TRUE], s |-> Punched(s, Head1, p.confirmed)]

\* A write the streaming takes: staged, and when a chunk is due a session is
\* opened, sent chunks are freed if the disk got low, and the chunk is handed
\* to the uploader.  A disk-low writer then goes on to feed_stream's loop.
WriteStreamed(off, len, opens, full) ==
  /\ NextWrite(off, len)
  /\ IF fd.session THEN stream_write_verdict(off, len, pump) = "keep"
                   ELSE fd.eligible /\ off <= fd.total /\ ~offline
  /\ LET v     == fd.writes + 1
         total == IF off + len > fd.total THEN off + len ELSE fd.total
         due   == stream_should_graduate(total, IF fd.session THEN pump.claimed ELSE Head1)
         begin == ~fd.session /\ due
         p0    == IF begin THEN [NoPump EXCEPT !.punching = low] ELSE pump
         s0    == Overlaid(stage, off, len, v)
         freed == IF due /\ low THEN start_punching(p0, s0) ELSE [p |-> p0, s |-> s0]
         p1    == IF due THEN [freed.p EXCEPT !.claimed = @ + 1] ELSE freed.p
         p2    == Kicked(p1, FALSE, full)
         queue == p2.busy /\ ~p1.busy
     IN  /\ ~opens => begin      \* the MKCOL fails
         /\ IF opens THEN UNCHANGED mishaps ELSE StreamMishap
         /\ full => (fd.session \/ begin) /\ opens /\ Refused(p1, FALSE, full)
         /\ IF (fd.session \/ begin) /\ opens
            THEN /\ fd' = [fd EXCEPT !.session = TRUE, !.total = total, !.writes = v,
                             !.at = IF ~p1.punching THEN "idle" ELSE IF full THEN "inline" ELSE "feeding"]
                 /\ stage' = freed.s
                 /\ pump' = IF full /\ p1.punching THEN [p2 EXCEPT !.busy = TRUE] ELSE p2
                 /\ sender' = IF full /\ p1.punching THEN [at |-> "queued", by |-> "writer"]
                              ELSE IF queue THEN [at |-> "queued", by |-> "pool"] ELSE sender
                 /\ dav' = IF begin THEN [dav EXCEPT !.alive = TRUE, !.chunks = <<>>] ELSE dav
            ELSE /\ fd' = [fd EXCEPT !.total = total, !.writes = v, !.eligible = @ /\ opens]
                 /\ stage' = s0
                 /\ UNCHANGED <<pump, sender, dav>>
         /\ want' = Overlaid(want, off, len, v)
  /\ UNCHANGED <<sniff, finish, low, offline>>

\* feed_stream(): the writer of a disk-low upload is held until the uploader
\* has caught up or there is room, and fails with the session.
Feed(full) ==
  /\ fd.at = "feeding"
  /\ LET held == pump.claimed > pump.confirmed + MaxUnsent /\ low
     IN  \/ /\ pump.failed \/ pump.closed
            /\ ~full /\ fd' = [fd EXCEPT !.at = "idle", !.failed = TRUE]
            /\ UNCHANGED <<pump, sender>>
         \/ /\ ~pump.failed /\ ~pump.closed /\ ~held
            /\ ~full /\ fd' = [fd EXCEPT !.at = "idle"]
            /\ UNCHANGED <<pump, sender>>
         \/ /\ ~pump.failed /\ ~pump.closed /\ held /\ ~pump.busy
            /\ pump' = [pump EXCEPT !.busy = TRUE]
            /\ sender' = [at |-> "queued", by |-> IF full THEN "writer" ELSE "pool"]
            /\ fd' = IF full THEN [fd EXCEPT !.at = "inline"] ELSE fd
  /\ UNCHANGED <<stage, want, sniff, finish, dav, low, offline, mishaps>>

\* setattr() with a new length on the handle.
Resize(n) ==
  /\ HandleReady /\ n # fd.total /\ n < Len(stage) /\ fd.writes < MaxWrites
  /\ IF fd.session /\ pump.punching
     THEN fd' = [fd EXCEPT !.failed = TRUE] /\ UNCHANGED <<stage, want, pump, dav>>
     ELSE /\ fd' = [fd EXCEPT !.session = FALSE, !.eligible = FALSE, !.total = n, !.writes = @ + 1]
          /\ stage' = SubSeq(stage, 1, n) /\ want' = SubSeq(want, 1, n)
          /\ IF fd.session THEN Abandoned ELSE UNCHANGED <<pump, dav>>
  /\ UNCHANGED <<sender, sniff, finish, low, offline, mishaps>>

-----------------------------------------------------------------------------
(* read() of the handle, which runs beside the uploader *)

\* The held range is looked up, the bytes are read without any lock.
ReadStaged(off) ==
  /\ HandleReady /\ off < Len(stage) /\ covers(off, 1)
  /\ sniff' = [at |-> "held", off |-> off]
  /\ UNCHANGED <<fd, stage, want, pump, sender, finish, dav, low, offline, mishaps>>

ReadBytes ==
  /\ sniff.at = "held"
  /\ sniff' = [at |-> "read", off |-> sniff.off, byte |-> stage[sniff.off + 1]]
  /\ UNCHANGED <<fd, stage, want, pump, sender, finish, dav, low, offline, mishaps>>

\* Mutant of StillHeld: no second look.
StillHeld_Trust(off) == TRUE

\* Only bytes still held after the read are the file's.
StillHeld(off) == covers(off, 1)

ReadReplied ==
  /\ sniff.at = "read"
  /\ sniff' = IF StillHeld(sniff.off) THEN [at |-> "replied", off |-> sniff.off, byte |-> sniff.byte] ELSE NoRead
  /\ UNCHANGED <<fd, stage, want, pump, sender, finish, dav, low, offline, mishaps>>

ReadOver ==
  /\ sniff.at = "replied"
  /\ sniff' = NoRead
  /\ UNCHANGED <<fd, stage, want, pump, sender, finish, dav, low, offline, mishaps>>

-----------------------------------------------------------------------------
(* A hand-over freezes a disk-low session, and may be called off *)

freeze ==
  /\ HandleReady /\ fd.session /\ pump.punching /\ ~pump.closed
  /\ pump' = [pump EXCEPT !.frozen = TRUE, !.closed = TRUE]
  /\ fd' = [fd EXCEPT !.at = "quiet"]
  /\ UNCHANGED <<stage, want, sender, sniff, finish, dav, low, offline, mishaps>>

thaw ==
  /\ fd.at = "quiet"
  /\ pump' = IF pump.frozen THEN [pump EXCEPT !.frozen = FALSE, !.closed = FALSE] ELSE pump
  /\ fd' = [fd EXCEPT !.at = "idle"]
  /\ UNCHANGED <<stage, want, sender, sniff, finish, dav, low, offline, mishaps>>

-----------------------------------------------------------------------------
(* release() and the finish *)

\* commit_streamed() and the whole-file commit: the entry that is journaled.
commit_streamed(chunked) ==
  [at |-> IF offline THEN "queued" ELSE "worker", chunked |-> chunked,
   next |-> pump.next, confirmed |-> pump.confirmed, whole |-> ~(chunked /\ pump.punching)]

\* The last close: the session's progress is taken as it stands.
ReleaseStreamed ==
  /\ fd.open /\ fd.at = "idle" /\ fd.writes > 0 /\ sniff.at = "none"
  /\ fd' = [fd EXCEPT !.open = FALSE]
  /\ LET chunked == fd.session /\ ~pump.failed /\ (pump.punching \/ ~offline)
         lost    == fd.failed \/ (fd.session /\ pump.failed /\ pump.punching)
     IN  /\ finish' = IF lost THEN [at |-> "lost"] ELSE commit_streamed(chunked)
         /\ IF fd.session /\ (lost \/ ~chunked) THEN Abandoned
            ELSE pump' = [pump EXCEPT !.closed = TRUE] /\ UNCHANGED dav
         /\ stage' = IF fd.session /\ pump.failed /\ pump.punching THEN <<>> ELSE stage
  /\ UNCHANGED <<want, sender, sniff, low, offline, mishaps>>

\* wait_idle() of the live worker; a replay of the journal does not wait.
FinishBegin ==
  /\ finish.at \in {"worker", "queued"}
  /\ finish.at = "worker" => ~pump.busy
  /\ finish.at = "queued" => ~offline
  /\ finish' = [finish EXCEPT !.at = IF finish.chunked THEN "send" ELSE "whole"]
  /\ UNCHANGED <<fd, stage, want, pump, sender, sniff, dav, low, offline, mishaps>>

\* What send_chunked_finish leaves in the session: the unsent tail from the
\* confirmed end on, under the next numbers, and the head as chunk 0.
AllChunks(chunks) ==
  LET tail == SubSeq(stage, finish.confirmed + 1, Len(stage))
      n    == finish.next + Len(tail)
  IN  [i \in 1 .. (IF n > Len(chunks) THEN n ELSE Len(chunks)) |->
         IF i = 1 THEN stage[1]
         ELSE IF i > finish.next /\ i <= n THEN tail[i - finish.next]
         ELSE chunks[i]]

\* Failing on the way leaves the entry in the journal for a retry.
SendRest ==
  /\ finish.at = "send"
  /\ \/ /\ dav.alive /\ finish' = [finish EXCEPT !.at = "assemble"]
        /\ dav' = [dav EXCEPT !.chunks = AllChunks(@)] /\ UNCHANGED mishaps
     \/ /\ dav.alive /\ StreamMishap
        /\ finish' = [finish EXCEPT !.at = "queued"]
        /\ dav' \in {dav, [dav EXCEPT !.chunks = AllChunks(@)]}
     \/ /\ ~dav.alive /\ finish' = [finish EXCEPT !.at = "gone"] /\ UNCHANGED <<dav, mishaps>>
  /\ UNCHANGED <<fd, stage, want, pump, sender, sniff, low, offline>>

\* The chunks on the server become a conflicted copy.
assemble_conflicted_copy == [dav EXCEPT !.alive = FALSE, !.copies = @ \cup {dav.chunks}]

\* The server lists a file of the size and the time this upload was stamped with.
is_our_assembly == dav.ours

\* The MOVE: conditioned on the version the file was opened at.  The answer
\* may be lost after it landed.
Assemble ==
  /\ finish.at = "assemble"
  /\ \/ /\ ~dav.alive /\ finish' = [finish EXCEPT !.at = "gone"] /\ UNCHANGED <<dav, mishaps>>
     \/ /\ dav.alive /\ StreamMishap
        /\ finish' = [finish EXCEPT !.at = "queued"] /\ UNCHANGED dav
     \/ /\ dav.alive /\ ~dav.changed
        /\ dav' = [dav EXCEPT !.alive = FALSE, !.file = dav.chunks, !.ours = TRUE, !.changed = TRUE]
        /\ \/ finish' = [at |-> "done"] /\ UNCHANGED mishaps
           \/ StreamMishap /\ finish' = [finish EXCEPT !.at = "queued"]
     \/ /\ dav.alive /\ dav.changed     \* 412, and the file listed is not ours
        /\ dav' = assemble_conflicted_copy
        /\ finish' = [at |-> "done"] /\ UNCHANGED mishaps
  /\ UNCHANGED <<fd, stage, want, pump, sender, sniff, low, offline>>

\* The session is gone (404): an earlier assembly landed, or the whole staging
\* file goes up instead, or the bytes that were punched out are lost.
SessionGone ==
  /\ finish.at = "gone"
  /\ finish' = IF is_our_assembly THEN [at |-> "done"]
               ELSE IF finish.whole THEN [finish EXCEPT !.at = "whole"]
               ELSE [at |-> "lost"]
  /\ UNCHANGED <<fd, stage, want, pump, sender, sniff, dav, low, offline, mishaps>>

\* An ordinary upload of the staging file.
PutWhole ==
  /\ finish.at = "whole"
  /\ LET put == IF dav.changed THEN [dav EXCEPT !.copies = @ \cup {stage}]
                ELSE [dav EXCEPT !.file = stage, !.ours = TRUE, !.changed = TRUE]
     IN  \/ finish' = [at |-> "done"] /\ dav' = put /\ UNCHANGED mishaps
         \/ StreamMishap /\ finish' = [finish EXCEPT !.at = "queued"] /\ dav' \in {dav, put}
  /\ UNCHANGED <<fd, stage, want, pump, sender, sniff, low, offline>>

-----------------------------------------------------------------------------
(* The surroundings *)

DiskChanges ==
  /\ fd.open /\ StreamMishap /\ low' = ~low
  /\ UNCHANGED <<fd, stage, want, pump, sender, sniff, finish, dav, offline>>

NetworkChanges ==
  /\ offline' = ~offline
  /\ IF offline THEN UNCHANGED mishaps ELSE StreamMishap
  /\ UNCHANGED <<fd, stage, want, pump, sender, sniff, finish, dav, low>>

\* Another client replaces the file; the server collects the upload session.
OthersChange ==
  /\ StreamMishap
  /\ \/ ~dav.changed /\ dav' = [dav EXCEPT !.changed = TRUE, !.ours = FALSE]
     \/ dav.alive /\ ~fd.open /\ dav' = [dav EXCEPT !.alive = FALSE]
  /\ UNCHANGED <<fd, stage, want, pump, sender, sniff, finish, low, offline>>

StreamNext ==
  \/ \E off \in 0 .. MaxLength - 1, len \in 1 .. 2 :
       \/ WriteAside(off, len)
       \/ \E opens, full \in BOOLEAN : WriteStreamed(off, len, opens, full)
  \/ \E full \in BOOLEAN : Feed(full)
  \/ \E n \in 0 .. MaxLength : Resize(n)
  \/ PumpBegin \/ \E ok, full \in BOOLEAN : PumpEnd(ok, full)
  \/ \E off \in 0 .. MaxLength - 1 : ReadStaged(off)
  \/ ReadBytes \/ ReadReplied \/ ReadOver \/ freeze \/ thaw
  \/ ReleaseStreamed \/ FinishBegin \/ SendRest \/ Assemble \/ SessionGone \/ PutWhole
  \/ DiskChanges \/ NetworkChanges \/ OthersChange

StreamSpec == StreamInit /\ [][StreamNext]_streamVars

-----------------------------------------------------------------------------
ChunkSeqs == Seq(0 .. MaxWrites \cup {Hole})

StreamTypeOK ==
  /\ fd.at \in {"idle", "feeding", "inline", "quiet"} /\ fd.total \in 0 .. MaxLength
  /\ stage \in ChunkSeqs /\ want \in ChunkSeqs /\ dav.chunks \in ChunkSeqs
  /\ pump.confirmed <= pump.claimed /\ pump.claimed <= MaxLength
  /\ sender.at \in {"none", "queued", "sending"} /\ sniff.at \in {"none", "held", "read", "replied"}
  /\ finish.at \in {"none", "worker", "queued", "send", "assemble", "gone", "whole", "done", "lost"}
  /\ low \in BOOLEAN /\ offline \in BOOLEAN /\ mishaps \in 0 .. MaxMishaps

\* What the server assembles, or is given whole, is the file as the program
\* wrote it: no punched byte, no chunk sent before a later write changed it,
\* none missing or out of place, however the uploader, the writer, the close
\* and the retries of the finish interleave.
AssembledAsWritten ==
  /\ dav.ours => dav.file = want
  /\ \A c \in dav.copies : c = want

\* Until the upload is settled or given up, every byte the program wrote is in
\* the staging file or in the session on the server: a chunk is punched out
\* only once the server has it and no write can change it any more.
EveryByteKept ==
  (fd.open /\ ~fd.failed /\ (fd.session => dav.alive)) =>
     \A i \in 1 .. Len(want) :
       \/ i <= Len(stage) /\ stage[i] = want[i]
       \/ /\ fd.session /\ i > Head1 /\ i <= pump.confirmed
          /\ i <= Len(dav.chunks) /\ dav.chunks[i] = want[i]

\* A READ that runs beside the uploader is answered with the file's bytes,
\* never with the zeros of a chunk punched out under it.
ReadsWhatWasWritten ==
  sniff.at = "replied" => sniff.byte = want[sniff.off + 1]
=============================================================================
