--------------------------- MODULE RequestProofs ----------------------------
(***************************************************************************)
(* Proofs about requests: open handles cross a restart, no request runs    *)
(* twice when a new daemon takes over, a refresh of a listing is ended by  *)
(* whoever began it, and a rename keeps its place among the others.        *)
(***************************************************************************)
EXTENDS HandleRestore, Takeover, DirRefresh, Dispatch, Integers, TLAPS

-----------------------------------------------------------------------------
(***************************************************************************)
(* HandleRestore: an open handle's bytes cross any number of restarts.     *)
(***************************************************************************)

\* The records the variables hold.
HandleRec(h) == h = [at |-> h.at, dirty |-> h.dirty, failed |-> h.failed, path |-> h.path,
                     unlinked |-> h.unlinked]
PumpRec(p) == /\ p = [session |-> p.session, punching |-> p.punching, sent |-> p.sent,
                      busy |-> p.busy, frozen |-> p.frozen]
              /\ p.sent \in Nat
StagingRec(s) == /\ s = [there |-> s.there, id |-> s.id, punched |-> s.punched]
                 /\ s.id \in Nat /\ s.punched \in Nat
LogRec(l) == /\ l = [open |-> l.open, dirty |-> l.dirty, id |-> l.id, stream |-> l.stream,
                     path |-> l.path, unlinked |-> l.unlinked]
             /\ l.id = 0
ProgramRec(p) == p = [wrote |-> p.wrote, path |-> p.path, unlinked |-> p.unlinked]

\* Every variable holds a record of its kind.
HandleType ==
    /\ HandleRec(handle) /\ PumpRec(pump) /\ StagingRec(staging) /\ LogRec(logged) /\ ProgramRec(program)
    /\ snapshot.there => snapshot.sent \in Nat

\* What the log and the staging file say of the program's doings, from which a
\* successor without a snapshot infers the handle.
LogTells ==
    /\ program.wrote => logged.dirty \/ staging.id # logged.id
    /\ logged.path = program.path /\ logged.unlinked = program.unlinked
    /\ handle.at = "open" => logged.open
    /\ pump.session => logged.stream
    /\ staging.punched > 0 => logged.stream

\* The bytes a session of this kind counts as sent, of those punched out.
Counts(session, punching, sent) == staging.punched <= IF session /\ punching THEN sent ELSE 0

\* A running daemon's handle, while it serves and while it is paused.
HandleTells ==
    daemon # "down" /\ handle.at = "open" =>
        /\ program.wrote => handle.dirty \/ handle.failed
        /\ handle.path = program.path /\ handle.unlinked = program.unlinked
        /\ ~handle.failed => Counts(pump.session, pump.punching, pump.sent)

\* The snapshot describes the moment it was written for, and nothing has
\* happened since: no daemon serves while there is one, and what a chunk still
\* on its way would punch out is frozen.
SnapshotTells ==
    /\ pump.punching => pump.session
    /\ pump.busy => pump.session
    /\ daemon = "up" => ~snapshot.there
    /\ snapshot.there =>
        /\ daemon # "down" => handle.at = "open" /\ (pump.punching => pump.frozen)
        /\ snapshot.session => logged.stream
        /\ program.wrote => snapshot.dirty \/ snapshot.failed
        /\ snapshot.path = program.path /\ snapshot.unlinked = program.unlinked
        /\ ~snapshot.failed => Counts(snapshot.session, snapshot.punching, snapshot.sent)

\* The inductive invariant.
HandleInv == HandleType /\ LogTells /\ HandleTells /\ SnapshotTells

\* A handle just opened, and the log that says so.
LEMMA HandleInitially == HandleInit => HandleInv
<1> SUFFICES ASSUME HandleInit PROVE HandleInv  BY Zenon
<1>1. PICK truncated \in BOOLEAN :
        /\ handle = [at |-> "open", dirty |-> truncated, failed |-> FALSE, path |-> "old", unlinked |-> FALSE]
        /\ logged = [open |-> TRUE, dirty |-> truncated, id |-> 0, stream |-> FALSE,
                     path |-> "old", unlinked |-> FALSE]
        /\ program = [NotWritten EXCEPT !.wrote = truncated]
  BY Zenon DEF HandleInit
<1>2. program = [wrote |-> truncated, path |-> "old", unlinked |-> FALSE]  BY <1>1, Zenon DEF NotWritten
<1>3. pump = Idle /\ staging = [there |-> TRUE, id |-> 0, punched |-> 0] /\ ~snapshot.there
  BY Zenon DEF HandleInit, NoSnapshot
<1>4. HandleType
  BY <1>1, <1>2, <1>3, Zenon DEF HandleType, HandleRec, PumpRec, StagingRec, LogRec, ProgramRec, Idle
<1>5. program.wrote = logged.dirty /\ program.wrote = handle.dirty  BY <1>1, <1>2, Zenon
<1>6. LogTells
  <2>1. logged.path = program.path  BY <1>1, <1>2
  <2>2. logged.unlinked = program.unlinked
    <3>1. logged.unlinked = FALSE  BY <1>1, Zenon
    <3>2. program.unlinked = FALSE  BY <1>2, Zenon
    <3> QED  BY <3>1, <3>2, Zenon
  <2>3. logged.open  BY <1>1, Zenon
  <2>4. ~pump.session /\ ~(staging.punched > 0)  BY <1>3 DEF Idle
  <2> QED  BY <1>5, <2>1, <2>2, <2>3, <2>4, Zenon DEF LogTells
<1>7. HandleTells
  <2>1. handle.path = program.path  BY <1>1, <1>2
  <2>2. handle.unlinked = program.unlinked
    <3>1. handle.unlinked = FALSE  BY <1>1, Zenon
    <3>2. program.unlinked = FALSE  BY <1>2, Zenon
    <3> QED  BY <3>1, <3>2, Zenon
  <2>3. Counts(pump.session, pump.punching, pump.sent)  BY <1>3 DEF Counts, Idle
  <2> QED  BY <1>5, <2>1, <2>2, <2>3, Zenon DEF HandleTells
<1>8. SnapshotTells  BY <1>1, <1>2, <1>3 DEF SnapshotTells, Idle, HandleInit
<1> QED  BY <1>4, <1>6, <1>7, <1>8, Zenon DEF HandleInv

\* Every step keeps the invariant.
LEMMA HandleStep == ASSUME HandleInv, [HandleNext]_handleVars PROVE HandleInv'
<1> USE DEF HandleInv, HandleType, LogTells, HandleTells, SnapshotTells, Counts, Serving, Idle, NoSnapshot
<1> USE DEF HandleRec, PumpRec, StagingRec, LogRec, ProgramRec
<1>1. CASE Write
  <2>1. HandleType'
    <3>1. HandleRec(handle)'  BY <1>1, Zenon DEF Write
    <3>2. StagingRec(staging)'  BY <1>1 DEF Write
    <3>3. ProgramRec(program)'  BY <1>1, Zenon DEF Write
    <3> QED  BY <1>1, <3>1, <3>2, <3>3, Zenon DEF Write
  <2>2. LogTells'  BY <1>1 DEF Write
  <2>3. HandleTells'  BY <1>1, Zenon DEF Write
  <2>4. SnapshotTells'  BY <1>1, Zenon DEF Write
  <2> QED  BY <2>1, <2>2, <2>3, <2>4, Zenon
<1>2. CASE StreamStarts
  <2>1. HandleType'
    <3>1. PumpRec(pump)'  BY <1>2, Zenon DEF StreamStarts
    <3>2. LogRec(logged)'  BY <1>2, Zenon DEF StreamStarts
    <3> QED  BY <1>2, <3>1, <3>2, Zenon DEF StreamStarts
  <2>2. LogTells'  BY <1>2, Zenon DEF StreamStarts
  <2>3. HandleTells'  BY <1>2 DEF StreamStarts
  <2>4. SnapshotTells'  BY <1>2, Zenon DEF StreamStarts
  <2> QED  BY <2>1, <2>2, <2>3, <2>4, Zenon
<1>3. CASE ChunkStarts
  <2>1. HandleType'  BY <1>3, Zenon DEF ChunkStarts
  <2>2. LogTells'  BY <1>3, Zenon DEF ChunkStarts
  <2>3. HandleTells'  BY <1>3, Zenon DEF ChunkStarts
  <2>4. SnapshotTells'  BY <1>3, Zenon DEF ChunkStarts
  <2> QED  BY <2>1, <2>2, <2>3, <2>4, Zenon
<1>4. CASE ChunkLands
  <2>1. HandleType'
    <3>1. PumpRec(pump)'
      <4>1. CASE pump.frozen  BY <1>4, <4>1, Zenon DEF ChunkLands
      <4>2. CASE ~pump.frozen
        <5>1. pump' = [session |-> pump.session, punching |-> pump.punching, sent |-> pump.sent + 1,
                       busy |-> FALSE, frozen |-> pump.frozen]
          BY <1>4, <4>2, Zenon DEF ChunkLands
        <5> QED  BY <5>1
      <4> QED  BY <4>1, <4>2, Zenon
    <3>2. StagingRec(staging)'  BY <1>4 DEF ChunkLands
    <3> QED  BY <1>4, <3>1, <3>2, Zenon DEF ChunkLands
  <2>2. LogTells'  BY <1>4, Zenon DEF ChunkLands
  <2>3. HandleTells'  BY <1>4 DEF ChunkLands
  <2>4. SnapshotTells'  BY <1>4, Zenon DEF ChunkLands
  <2> QED  BY <2>1, <2>2, <2>3, <2>4, Zenon
<1>5. CASE Renamed
  <2>1. HandleType'
    <3>1. HandleRec(handle)'  BY <1>5, Zenon DEF Renamed
    <3>2. LogRec(logged)'  BY <1>5, Zenon DEF Renamed
    <3>3. ProgramRec(program)'  BY <1>5, Zenon DEF Renamed
    <3> QED  BY <1>5, <3>1, <3>2, <3>3, Zenon DEF Renamed
  <2>2. LogTells'  BY <1>5, Zenon DEF Renamed
  <2>3. HandleTells'  BY <1>5, Zenon DEF Renamed
  <2>4. SnapshotTells'  BY <1>5, Zenon DEF Renamed
  <2> QED  BY <2>1, <2>2, <2>3, <2>4, Zenon
<1>6. CASE Unlinked
  <2>1. HandleType'
    <3>1. HandleRec(handle)'  BY <1>6, Zenon DEF Unlinked
    <3>2. LogRec(logged)'  BY <1>6, Zenon DEF Unlinked
    <3>3. ProgramRec(program)'  BY <1>6, Zenon DEF Unlinked
    <3> QED  BY <1>6, <3>1, <3>2, <3>3, Zenon DEF Unlinked
  <2>2. LogTells'  BY <1>6, Zenon DEF Unlinked
  <2>3. HandleTells'  BY <1>6, Zenon DEF Unlinked
  <2>4. SnapshotTells'  BY <1>6, Zenon DEF Unlinked
  <2> QED  BY <2>1, <2>2, <2>3, <2>4, Zenon
<1>7. CASE Drain
  <2>1. CASE pump' = [pump EXCEPT !.frozen = pump.session /\ pump.punching]
    <3>1. pump' = [session |-> pump.session, punching |-> pump.punching, sent |-> pump.sent,
                   busy |-> pump.busy, frozen |-> pump.session /\ pump.punching]
      BY <2>1, Zenon
    <3>2. PumpRec(pump)'  BY <3>1, Zenon
    <3>3. HandleType'  BY <1>7, <3>2 DEF Drain
    <3>4. LogTells' /\ HandleTells'  BY <1>7, <3>1, Zenon DEF Drain
    <3>5. CASE handle.at = "open"
      <4>1. CASE snapshot' = NoSnapshot  BY <1>7, <3>1, <3>3, <3>4, <4>1, Zenon DEF Drain
      <4>2. CASE snapshot' = [there |-> TRUE, dirty |-> handle.dirty, failed |-> handle.failed,
                              path |-> handle.path, unlinked |-> handle.unlinked,
                              session |-> pump.session, punching |-> pump.punching, sent |-> pump.sent]
        <5>1. HandleType'  BY <1>7, <3>2, <4>2, Zenon DEF Drain
        <5>2. SnapshotTells'  BY <1>7, <3>1, <3>5, <4>2, ZenonT(60) DEF Drain
        <5> QED  BY <3>4, <5>1, <5>2, Zenon
      <4> QED  BY <1>7, <2>1, <3>5, <4>1, <4>2, Zenon DEF Drain
    <3>6. CASE handle.at # "open"  BY <1>7, <3>1, <3>3, <3>4, <3>6 DEF Drain
    <3> QED  BY <3>5, <3>6, Zenon
  <2>2. CASE snapshot' = NoSnapshot /\ UNCHANGED pump  BY <1>7, <2>2, Zenon DEF Drain
  <2> QED  BY <1>7, <2>1, <2>2, Zenon DEF Drain
<1>8. CASE LateWrite
  <2>1. HandleType'
    <3>1. HandleRec(handle)'  BY <1>8, Zenon DEF LateWrite
    <3>2. StagingRec(staging)'  BY <1>8 DEF LateWrite
    <3>3. ProgramRec(program)'  BY <1>8, Zenon DEF LateWrite
    <3> QED  BY <1>8, <3>1, <3>2, <3>3, Zenon DEF LateWrite
  <2>2. LogTells'  BY <1>8 DEF LateWrite
  <2>3. HandleTells'  BY <1>8, Zenon DEF LateWrite
  <2>4. SnapshotTells'  BY <1>8, Zenon DEF LateWrite
  <2> QED  BY <2>1, <2>2, <2>3, <2>4, Zenon
<1>9. CASE undo_handover
  <2>1. HandleType'  BY <1>9, Zenon DEF undo_handover
  <2>2. LogTells'  BY <1>9, Zenon DEF undo_handover
  <2>3. HandleTells'  BY <1>9, Zenon DEF undo_handover
  <2>4. SnapshotTells'  BY <1>9, Zenon DEF undo_handover
  <2> QED  BY <2>1, <2>2, <2>3, <2>4, Zenon
<1>10. CASE Replaced
  <2>1. HandleType'  BY <1>10, Zenon DEF Replaced
  <2>2. LogTells'  BY <1>10, Zenon DEF Replaced
  <2>3. HandleTells'  BY <1>10, Zenon DEF Replaced
  <2>4. SnapshotTells'  BY <1>10, Zenon DEF Replaced
  <2> QED  BY <2>1, <2>2, <2>3, <2>4, Zenon
<1>11. CASE Crash
  <2>1. HandleType'  BY <1>11, Zenon DEF Crash
  <2>2. LogTells'  BY <1>11, Zenon DEF Crash
  <2>3. HandleTells'  BY <1>11, Zenon DEF Crash
  <2>4. SnapshotTells'  BY <1>11, Zenon DEF Crash
  <2> QED  BY <2>1, <2>2, <2>3, <2>4, Zenon
<1>12. CASE StagingGone
  <2>1. HandleType'  BY <1>12, Zenon DEF StagingGone
  <2>2. LogTells'  BY <1>12, Zenon DEF StagingGone
  <2>3. HandleTells'  BY <1>12, Zenon DEF StagingGone
  <2>4. SnapshotTells'  BY <1>12, Zenon DEF StagingGone
  <2> QED  BY <2>1, <2>2, <2>3, <2>4, Zenon
<1>13. CASE Restore
  <2>1. ~snapshot'.there /\ UNCHANGED <<staging, logged, program>> /\ daemon' = "up" /\ daemon = "down"
    BY <1>13, Zenon DEF Restore
  <2>2. CASE ~logged.open \/ handle.at = "lost"  BY <1>13, <2>1, <2>2, Zenon DEF Restore
  <2>3. CASE logged.open /\ handle.at # "lost" /\ ~staging.there
    <3>1. handle' = [handle EXCEPT !.at = "lost"] /\ pump' = Idle  BY <1>13, <2>3, Zenon DEF Restore
    <3> QED  BY <2>1, <3>1, Zenon
  <2>4. CASE logged.open /\ staging.there /\ handle.at # "lost" /\ snapshot.there
    <3>1. handle' = Exact /\ pump' = Resumed  BY <1>13, <2>4, Zenon DEF Restore
    <3>2. HandleRec(handle)'  BY <3>1, Zenon DEF Exact
    <3>3. CASE snapshot.session /\ snapshot.punching
      <4>1. pump' = [session |-> TRUE, punching |-> TRUE, sent |-> snapshot.sent, busy |-> FALSE, frozen |-> FALSE]
        BY <3>1, <3>3, Zenon DEF Resumed
      <4>2. PumpRec(pump)' /\ LogTells'  BY <2>1, <2>4, <3>3, <4>1, Zenon
      <4>3. HandleTells'  BY <2>1, <2>4, <3>1, <3>3, <4>1 DEF Exact
      <4> QED  BY <2>1, <3>2, <4>1, <4>2, <4>3, Zenon
    <3>4. CASE ~(snapshot.session /\ snapshot.punching)
      <4>1. pump' = Idle  BY <3>1, <3>4, Zenon DEF Resumed
      <4>2. HandleTells'  BY <2>1, <2>4, <3>1, <3>4, <4>1 DEF Exact
      <4> QED  BY <2>1, <2>4, <3>2, <4>1, <4>2, Zenon
    <3> QED  BY <3>3, <3>4, Zenon
  <2>5. CASE logged.open /\ staging.there /\ handle.at # "lost" /\ ~snapshot.there
    <3>1. handle' = Inferred /\ pump' = Idle  BY <1>13, <2>5, Zenon DEF Restore
    <3>2. HandleRec(handle)'  BY <3>1, Zenon DEF Inferred
    <3>3. handle'.failed = logged.stream /\ (program.wrote => handle'.dirty)
            /\ handle'.path = logged.path /\ handle'.unlinked = logged.unlinked
      BY <3>1, Zenon DEF Inferred
    <3>4. HandleTells'  BY <2>1, <3>1, <3>3
    <3> QED  BY <2>1, <2>5, <3>1, <3>2, <3>4, Zenon
  <2> QED  BY <2>2, <2>3, <2>4, <2>5, Zenon
<1>14. CASE Release
  <2>1. HandleType'
    <3>1. HandleRec(handle)'  BY <1>14, Zenon DEF Release
    <3>2. LogRec(logged)'  BY <1>14, Zenon DEF Release
    <3>3. PumpRec(pump)'  BY <1>14, Zenon DEF Release
    <3> QED  BY <1>14, <3>1, <3>2, <3>3, Zenon DEF Release
  <2>2. LogTells'  BY <1>14, Zenon DEF Release
  <2>3. HandleTells'  BY <1>14, Zenon DEF Release
  <2>4. SnapshotTells'  BY <1>14, Zenon DEF Release
  <2> QED  BY <2>1, <2>2, <2>3, <2>4, Zenon
<1>15. CASE UNCHANGED handleVars
  <2>1. HandleType'  BY <1>15, Zenon DEF handleVars
  <2>2. LogTells'  BY <1>15, Zenon DEF handleVars
  <2>3. HandleTells'  BY <1>15, Zenon DEF handleVars
  <2>4. SnapshotTells'  BY <1>15, Zenon DEF handleVars
  <2> QED  BY <2>1, <2>2, <2>3, <2>4, Zenon
<1> QED
  BY <1>1, <1>2, <1>3, <1>4, <1>5, <1>6, <1>7, <1>8, <1>9, <1>10, <1>11, <1>12, <1>13, <1>14, <1>15, Zenon DEF HandleNext

\* A handle that crosses any number of restarts, killed or planned, still knows
\* that it was written through and where to, and every byte punched out of its
\* staging file counts as sent (rebuild, freeze, ChunkUploadState::resumed).
THEOREM HandlesCrossRestarts == HandleSpec => []HandlesKept
<1>1. HandleInit => HandleInv  BY HandleInitially, Zenon
<1>2. HandleInv /\ [HandleNext]_handleVars => HandleInv'  BY HandleStep, Zenon
<1>3. HandleInv => HandlesKept
  BY DEF HandleInv, HandleType, PumpRec, StagingRec, HandleTells, Counts, HandlesKept, WrittenNotForgotten, PunchedIsSent
<1> QED  BY <1>1, <1>2, <1>3, PTL DEF HandleSpec

-----------------------------------------------------------------------------
(***************************************************************************)
(* Takeover: no request runs twice, and a daemon that serves does not lose *)
(* the connection.                                                         *)
(***************************************************************************)

\* A request that is queued has not been taken by the daemon there is, and a
\* daemon that has not served yet has taken none.
RunsInv ==
    /\ ran \in {0, 1}
    /\ request = "queued" => ran = 0
    /\ proc \in {"starting", "stalled"} => ran = 0
    /\ conn = "dead" => request = "none"
    /\ conn \in {"live", "dead"}

\* A live connection is held by somebody; a daemon that serves holds it, and as
\* a service so does systemd's store once the takeover is done.
ServedInv ==
    /\ conn \in {"live", "dead"}
    /\ proc \in {"serving", "paused", "hung"} => conn = "live" /\ "daemon" \in held
    /\ proc \in {"serving", "paused", "hung"} /\ ~armed /\ systemd => "store" \in held
    /\ proc \in {"none", "paused", "hung"} => ~armed
    /\ armed => conn = "live" /\ "daemon" \in held

\* No request has run at the start.
LEMMA RunsInitially == TakeoverInit => RunsInv
BY Zenon DEF TakeoverInit, RunsInv

\* Every step of the daemon, systemd and the kernel keeps the count.
LEMMA RunsStep == ASSUME RunsInv, [TakeoverNext]_takeoverVars PROVE RunsInv'
<1> USE DEF RunsInv
<1>1. CASE Ask  BY <1>1, Zenon DEF Ask
<1>2. CASE Take  BY <1>2 DEF Take
<1>3. CASE Answer  BY <1>3, Zenon DEF Answer
<1>4. CASE ProcCrash  BY <1>4, Zenon DEF ProcCrash, Exits, Hold
<1>5. CASE Sigterm  BY <1>5, Zenon DEF Sigterm, Exits, Hold
<1>6. CASE ProcDrain  BY <1>6, Zenon DEF ProcDrain
<1>7. CASE Exec  BY <1>7, Zenon DEF Exec
<1>8. CASE Undo  BY <1>8, Zenon DEF Undo
<1>9. CASE Hang  BY <1>9, Zenon DEF Hang
<1>10. CASE PingWithheld  BY <1>10, Zenon DEF PingWithheld, Exits, Hold
<1>11. CASE Start  BY <1>11, Zenon DEF Start
<1>12. CASE StartLimitHit  BY <1>12, Zenon DEF StartLimitHit, Hold
<1>13. CASE Reattach  BY <1>13, Zenon DEF Reattach, give_up, Hold
<1>14. CASE MountFresh  BY <1>14, Zenon DEF MountFresh, validated
<1>15. CASE StartFails  BY <1>15, Zenon DEF StartFails, Exits, give_up, Hold
<1>16. CASE StartStalls  BY <1>16, Zenon DEF StartStalls
<1>17. CASE TakeoverLate  BY <1>17, Zenon DEF TakeoverLate
<1>18. CASE give_up_stalled_takeover  BY <1>18, Zenon DEF give_up_stalled_takeover, give_up, Hold
<1>19. CASE Serve  BY <1>19, Zenon DEF Serve
<1>20. CASE Disarm  BY <1>20, Zenon DEF Disarm
<1>21. CASE UNCHANGED takeoverVars  BY <1>21, Zenon DEF takeoverVars
<1> QED
  BY <1>1, <1>2, <1>3, <1>4, <1>5, <1>6, <1>7, <1>8, <1>9, <1>10, <1>11, <1>12, <1>13, <1>14,
     <1>15, <1>16, <1>17, <1>18, <1>19, <1>20, <1>21, Zenon DEF TakeoverNext

\* However crashes, hangs, planned restarts and failed starts follow each other,
\* no daemon runs a request twice: what send_notify_resend puts back is what the
\* daemon before it took.
THEOREM NoRequestRunsTwice == TakeoverSpec => []RunsOnce
<1>1. TakeoverInit => RunsInv  BY RunsInitially, Zenon
<1>2. RunsInv /\ [TakeoverNext]_takeoverVars => RunsInv'  BY RunsStep, Zenon
<1>3. RunsInv => RunsOnce  BY DEF RunsInv, RunsOnce
<1> QED  BY <1>1, <1>2, <1>3, PTL DEF TakeoverSpec

\* The first daemon to start holds nothing.
LEMMA ServedInitially == TakeoverInit => ServedInv
BY Zenon DEF TakeoverInit, ServedInv

\* Every step keeps a served connection alive and held.
LEMMA ServedStays == ASSUME ServedInv, [TakeoverNext]_takeoverVars PROVE ServedInv' /\ (ServedStep \/ UNCHANGED takeoverVars)
<1> USE DEF ServedInv, ServedStep
<1>1. CASE Ask  BY <1>1, Zenon DEF Ask
<1>2. CASE Take  BY <1>2, Zenon DEF Take
<1>3. CASE Answer  BY <1>3, Zenon DEF Answer
<1>4. CASE ProcCrash  BY <1>4 DEF ProcCrash, Exits, Hold
<1>5. CASE Sigterm  BY <1>5 DEF Sigterm, Exits, Hold
<1>6. CASE ProcDrain  BY <1>6, Zenon DEF ProcDrain
<1>7. CASE Exec  BY <1>7, Zenon DEF Exec
<1>8. CASE Undo  BY <1>8, Zenon DEF Undo
<1>9. CASE Hang  BY <1>9, Zenon DEF Hang
<1>10. CASE PingWithheld  BY <1>10, Zenon DEF PingWithheld, Exits, Hold
<1>11. CASE Start  BY <1>11, Zenon DEF Start
<1>12. CASE StartLimitHit  BY <1>12, Zenon DEF StartLimitHit, Hold
<1>13. CASE Reattach  BY <1>13 DEF Reattach, validated, give_up, Hold
<1>14. CASE MountFresh  BY <1>14, Zenon DEF MountFresh, validated
<1>15. CASE StartFails  BY <1>15, Zenon DEF StartFails, Exits, give_up, Hold
<1>16. CASE StartStalls  BY <1>16, Zenon DEF StartStalls
<1>17. CASE TakeoverLate  BY <1>17, Zenon DEF TakeoverLate
<1>18. CASE give_up_stalled_takeover  BY <1>18, Zenon DEF give_up_stalled_takeover, give_up, Hold
<1>19. CASE Serve  BY <1>19, Zenon DEF Serve
<1>20. CASE Disarm  BY <1>20, Zenon DEF Disarm
<1>21. CASE UNCHANGED takeoverVars  BY <1>21, Zenon DEF takeoverVars
<1> QED
  BY <1>1, <1>2, <1>3, <1>4, <1>5, <1>6, <1>7, <1>8, <1>9, <1>10, <1>11, <1>12, <1>13, <1>14,
     <1>15, <1>16, <1>17, <1>18, <1>19, <1>20, <1>21, Zenon DEF TakeoverNext

\* As a service, a daemon that serves loses its connection to no single event:
\* systemd's store holds the fd from the moment the takeover is done
\* (adopt_reattached, new_keeper, ReattachGuard::disarm).
THEOREM ServedConnectionSurvives == TakeoverSpec => ServedSurvives
<1>1. TakeoverInit => ServedInv  BY ServedInitially, Zenon
<1>2. ServedInv /\ [TakeoverNext]_takeoverVars => ServedInv' /\ [ServedStep]_takeoverVars  BY ServedStays, Zenon
<1> QED  BY <1>1, <1>2, PTL DEF TakeoverSpec, ServedSurvives

-----------------------------------------------------------------------------
(***************************************************************************)
(* DirRefresh: whoever marks a listing as being refreshed clears the mark  *)
(* or is still at it.                                                      *)
(***************************************************************************)

\* A cached listing has its flag.
Shaped(e) == e.cached => {"cached", "refreshing"} \subseteq DOMAIN e

\* An entry that takes another's place has its flag, or none that matters.
Follows(e, d) ==
    /\ Shaped(d)
    /\ d.cached => \/ d.refreshing \in {"no", "nobody"}
                   \/ e.cached /\ d.refreshing = e.refreshing

\* A job that does not run has no kind.
JobsPlaced ==
    /\ DOMAIN job = Jobs
    /\ \A j \in Jobs : /\ {"kind", "at"} \subseteq DOMAIN job[j]
                       /\ job[j].at = "idle" => job[j].kind = "none"
ReadersPlaced == DOMAIN reader = Readers /\ \A r \in Readers : "at" \in DOMAIN reader[r]

\* The inductive invariant.
OwnedInv == Shaped(entry) /\ JobsPlaced /\ ReadersPlaced /\ RefreshOwned

\* What the steps below keep: whoever will clear a flag is still there.
Probing == \E r \in Readers : reader[r].at = "probed"
ReadersStay == ReadersPlaced' /\ (Probing => Probing')
JobsStay == JobsPlaced' /\ (Busy("soft") => Busy("soft")')

\* Every operation on the cached listing follows the entry it was given.
LEMMA Shapes ==
    ASSUME NEW e, Shaped(e)
    PROVE  /\ Follows(e, e)
           /\ Follows(e, clear_refreshing(e)) /\ Follows(e, invalidate(e))
           /\ Follows(e, touch_dir_cache(e)) /\ Follows(e, confirm_dir_fresh(e))
           /\ Follows(e, hit(e, "nobody")) /\ Follows(e, miss(e))
           /\ Follows(e, NoEntry)
  <1>1. Follows(e, e)  BY Zenon DEF Follows, Shaped
  <1>2. Follows(e, clear_refreshing(e))  BY Zenon DEF Follows, Shaped, clear_refreshing
  <1>3. Follows(e, invalidate(e))  BY Zenon DEF Follows, Shaped, invalidate
  <1>4. Follows(e, touch_dir_cache(e))  BY Zenon DEF Follows, Shaped, touch_dir_cache
  <1>5. Follows(e, confirm_dir_fresh(e))  BY Zenon DEF Follows, Shaped, confirm_dir_fresh
  <1>6. Follows(e, hit(e, "nobody"))  BY DEF Follows, Shaped, hit
  <1>7. Follows(e, miss(e))  BY DEF Follows, Shaped, miss
  <1>8. Follows(e, NoEntry)  BY Zenon DEF Follows, Shaped, NoEntry
  <1> QED  BY <1>1, <1>2, <1>3, <1>4, <1>5, <1>6, <1>7, <1>8, Zenon

\* A listing that follows the one before it, with nobody gone who would clear its
\* flag, is still owned.
LEMMA Kept ==
    ASSUME OwnedInv, Follows(entry, entry'), ReadersStay, JobsStay
    PROVE  OwnedInv'
  BY Zenon DEF OwnedInv, Follows, ReadersStay, JobsStay, RefreshOwned, Probing

\* A step that leaves the readers alone.
LEMMA SameReaders == OwnedInv /\ UNCHANGED reader => ReadersStay
  BY Zenon DEF OwnedInv, ReadersStay, ReadersPlaced, Probing

\* A step that leaves the jobs alone.
LEMMA SameJobs == OwnedInv /\ UNCHANGED job => JobsStay
  BY Zenon DEF OwnedInv, JobsStay, JobsPlaced, Busy

\* A reader that is not probing moves on.
LEMMA OtherReader ==
    ASSUME OwnedInv, NEW r \in Readers, reader[r].at # "probed",
           NEW d, "at" \in DOMAIN d, reader' = [reader EXCEPT ![r] = d]
    PROVE  ReadersStay
  BY Zenon DEF OwnedInv, ReadersStay, ReadersPlaced, Probing

\* A reader that is served, refused or sent on does not leave a probe.
LEMMA ReaderMoves ==
    ASSUME OwnedInv, NEW r \in Readers, reader[r].at # "probed",
           \/ Refuse(r) \/ (\E v, n : Deliver(r, v, n))
           \/ reader' = [reader EXCEPT ![r].at = "join"]
           \/ \E inv : reader' = [reader EXCEPT ![r].at = "wait", ![r].inv = inv]
    PROVE  ReadersStay
  <1>1. CASE Refuse(r)
    <2>1. "at" \in DOMAIN NoReader  BY Zenon DEF NoReader
    <2> QED  BY <1>1, <2>1, OtherReader, Zenon DEF Refuse
  <1>2. CASE \E v, n : Deliver(r, v, n)
    <2>1. PICK v, n : Deliver(r, v, n)  BY <1>2, Zenon
    <2>2. "at" \in DOMAIN [NoReader EXCEPT !.at = "served", !.ver = v, !.got = n]  BY Zenon DEF NoReader
    <2> QED  BY <2>1, <2>2, OtherReader, Zenon DEF Deliver
  <1>3. CASE reader' = [reader EXCEPT ![r].at = "join"]
    BY <1>3, Zenon DEF OwnedInv, ReadersStay, ReadersPlaced, Probing
  <1>4. CASE \E inv : reader' = [reader EXCEPT ![r].at = "wait", ![r].inv = inv]
    <2>1. PICK inv : reader' = [reader EXCEPT ![r].at = "wait", ![r].inv = inv]  BY <1>4, Zenon
    <2>2. DOMAIN reader' = Readers /\ "at" \in DOMAIN reader'[r]
          /\ \A q \in Readers \ {r} : reader'[q] = reader[q]
      BY <2>1, Zenon DEF OwnedInv, ReadersPlaced
    <2> QED  BY <2>2, Zenon DEF OwnedInv, ReadersStay, ReadersPlaced, Probing
  <1> QED  BY <1>1, <1>2, <1>3, <1>4, Zenon

\* A job that starts takes the place of none.
LEMMA JobStarts ==
    ASSUME OwnedInv, NEW kind \in {"soft", "reval", "push", "validate"},
           \E j \in IdleJobs : job' = [job EXCEPT ![j] = Queued(kind)]
    PROVE  JobsStay /\ Busy(kind)'
  <1>1. PICK j \in IdleJobs : job' = [job EXCEPT ![j] = Queued(kind)]  BY Zenon
  <1>2. {"kind", "at"} \subseteq DOMAIN Queued(kind) /\ Queued(kind).at = "queued" /\ Queued(kind).kind = kind
    BY Zenon DEF Queued, NoJob
  <1>3. j \in Jobs /\ job[j].at = "idle" /\ job[j].kind = "none"  BY Zenon DEF IdleJobs, OwnedInv, JobsPlaced
  <1>4. JobsPlaced'  BY <1>1, <1>2, <1>3, Zenon DEF OwnedInv, JobsPlaced
  <1>5. job'[j].kind = kind /\ \A i \in Jobs \ {j} : job'[i] = job[i]
    BY <1>1, <1>2, <1>3, Zenon DEF OwnedInv, JobsPlaced
  <1> QED  BY <1>3, <1>4, <1>5, Zenon DEF JobsStay, Busy

\* A job that goes on keeps its kind.
LEMMA JobGoesOn ==
    ASSUME OwnedInv, NEW j \in Jobs, NEW d, job' = [job EXCEPT ![j] = d],
           {"kind", "at"} \subseteq DOMAIN d, d.kind = job[j].kind, d.at # "idle"
    PROVE  JobsStay
  BY Zenon DEF OwnedInv, JobsStay, JobsPlaced, Busy

\* A job that ends can be missed only if it was a soft refresh.
LEMMA JobEnds ==
    ASSUME OwnedInv, NEW j \in Jobs, Finish(j)
    PROVE  JobsPlaced' /\ (job[j].kind # "soft" => JobsStay)
  <1>1. {"kind", "at"} \subseteq DOMAIN NoJob /\ NoJob.kind = "none" /\ NoJob.at = "idle"  BY Zenon DEF NoJob
  <1>2. JobsPlaced'  BY <1>1, Zenon DEF OwnedInv, JobsPlaced, Finish
  <1> QED  BY <1>2, Zenon DEF OwnedInv, JobsStay, JobsPlaced, Busy, Finish

\* Fallback serves the listing that was too old, or refuses.
LEMMA FallsBack ==
    ASSUME OwnedInv, NEW r \in Readers, reader[r].at # "probed", NEW res, NEW e,
           Follows(entry, e), Fallback(r, res, e)
    PROVE  Follows(entry, entry') /\ ReadersStay
  <1>1. CASE Refuse(r) /\ entry' = e  BY <1>1, ReaderMoves, Zenon
  <1>2. CASE entry' = [e EXCEPT !.hard_expired = FALSE, !.cooling = TRUE] /\ Deliver(r, e.ver, e.got)
             /\ e.cached
    <2>1. Follows(entry, entry')  BY <1>2, Zenon DEF Follows, Shaped
    <2> QED  BY <1>2, <2>1, ReaderMoves, Zenon
  <1> QED  BY <1>1, <1>2, Zenon DEF Fallback

\* The readers of a directory.
LEMMA ReadersKeep ==
    ASSUME OwnedInv, NEW r \in Readers, ReaderStep(r) \/ (ReadTimeout(r) /\ idleRefresh)
    PROVE  OwnedInv'
  <1>0. Shaped(entry)  BY Zenon DEF OwnedInv
  <1>1. CASE ReadHit(r)
    <2>1. ReadersStay  BY <1>1, ReaderMoves, Zenon DEF ReadHit
    <2>2. CASE /\ entry' = hit(entry, "soft") /\ needs_refresh(entry)
               /\ \E j \in IdleJobs : job' = [job EXCEPT ![j] = Queued("soft")]
      <3>1. JobsStay /\ Busy("soft")'  BY <2>2, JobStarts, Zenon
      <3>2. /\ Shaped(entry') /\ entry'.cached /\ entry'.refreshing = "soft"
        BY <1>0, <2>2, Zenon DEF hit, needs_refresh, hits, trusted, Shaped
      <3> QED  BY <2>1, <3>1, <3>2, Zenon DEF OwnedInv, RefreshOwned, ReadersStay, JobsStay
    <2>3. CASE UNCHANGED <<entry, job>>
      BY <1>0, <2>1, <2>3, SameJobs, Shapes, Kept, Zenon
    <2> QED  BY <1>1, <2>2, <2>3, Zenon DEF ReadHit
  <1>2. CASE Revalidate(r)
    <2>1. ReadersStay  BY <1>2, ReaderMoves, Zenon DEF Revalidate
    <2>2. JobsStay  BY <1>2, SameJobs, JobStarts, Zenon DEF Revalidate
    <2> QED  BY <1>0, <1>2, <2>1, <2>2, Shapes, Kept, Zenon DEF Revalidate
  <1>3. ASSUME NEW a \in Answers, ReadMiss(r, a), idleRefresh PROVE OwnedInv'
    <2>1. JobsStay  BY <1>3, SameJobs, Zenon DEF idleRefresh
    <2>2. Follows(entry, miss(entry))  BY <1>0, Shapes, Zenon
    <2>3. CASE /\ entry' = [miss(entry) EXCEPT !.refreshing = "probe"] /\ miss(entry).cached
               /\ reader' = [reader EXCEPT ![r].at = "probed", ![r].same = a = "ok" /\ miss(entry).tag = dirver]
      <3>1. Shaped(entry') /\ entry'.cached /\ entry'.refreshing = "probe"
        BY <2>2, <2>3, Zenon DEF Follows, Shaped
      <3>2. /\ DOMAIN reader' = Readers /\ "at" \in DOMAIN reader'[r] /\ reader'[r].at = "probed"
            /\ \A q \in Readers \ {r} : reader'[q] = reader[q]
        BY <2>3, Zenon DEF OwnedInv, ReadersPlaced
      <3>3. ReadersPlaced' /\ Probing'  BY <3>2, Zenon DEF OwnedInv, ReadersPlaced, Probing
      <3> QED  BY <2>1, <3>1, <3>3, Zenon DEF OwnedInv, RefreshOwned, JobsStay, Probing
    <2>4. CASE /\ entry' = miss(entry) /\ reader[r].at = "idle"
               /\ \/ reader' = [reader EXCEPT ![r].at = "join"]
                  \/ Deliver(r, miss(entry).ver, miss(entry).got) \/ Refuse(r)
      <3>1. ReadersStay  BY <2>4, ReaderMoves, Zenon
      <3> QED  BY <2>1, <2>2, <2>4, <3>1, Kept, Zenon
    <2> QED  BY <1>3, <2>3, <2>4, Zenon DEF ReadMiss
  <1>4. CASE ReadConfirmed(r) /\ idleRefresh
    <2>1. JobsStay  BY <1>4, SameJobs, Zenon DEF idleRefresh
    <2> DEFINE c == IF reader[r].same THEN confirm_dir_fresh(entry) ELSE entry
    <2>2. Shaped(c)  BY <1>0, Shapes, Zenon DEF Follows
    <2>3. entry' = clear_refreshing(c)  BY <1>4, Zenon DEF ReadConfirmed
    <2> HIDE DEF c
    <2>4. Shaped(entry') /\ (entry'.cached => entry'.refreshing = "no")
      BY <2>2, <2>3, Zenon DEF clear_refreshing, Shaped
    <2>5. ReadersPlaced'
      <3>1. CASE \E v, n : Deliver(r, v, n)
        <4>1. PICK v, n : Deliver(r, v, n)  BY <3>1, Zenon
        <4>2. "at" \in DOMAIN [NoReader EXCEPT !.at = "served", !.ver = v, !.got = n]  BY Zenon DEF NoReader
        <4> QED  BY <4>1, <4>2, Zenon DEF Deliver, OwnedInv, ReadersPlaced
      <3>2. CASE reader' = [reader EXCEPT ![r].at = "join", ![r].same = FALSE]
        BY <3>2, Zenon DEF OwnedInv, ReadersPlaced
      <3> QED  BY <1>4, <3>1, <3>2, Zenon DEF ReadConfirmed
    <2> QED  BY <2>1, <2>4, <2>5, Zenon DEF OwnedInv, RefreshOwned, JobsStay
  <1>5. CASE ReadPromotes(r) /\ idleRefresh
    <2>1. JobsStay  BY <1>5, SameJobs, Zenon DEF idleRefresh
    <2>2. Follows(entry, Promoted(pending))
      BY Zenon DEF Follows, Shaped, Promoted, put_dir_cache
    <2>3. Follows(entry, entry)  BY <1>0, Shapes, Zenon
    <2>4. Follows(entry, entry') /\ ReadersStay
      BY <1>5, <2>2, <2>3, FallsBack, ReaderMoves, Zenon DEF ReadPromotes
    <2> QED  BY <2>1, <2>4, Kept, Zenon
  <1>6. CASE ReadPartial(r) /\ idleRefresh
    <2>1. JobsStay  BY <1>6, SameJobs, Zenon DEF idleRefresh
    <2>2. ReadersStay  BY <1>6, ReaderMoves, Zenon DEF ReadPartial
    <2> QED  BY <1>0, <1>6, <2>1, <2>2, Shapes, Kept, Zenon DEF ReadPartial
  <1>7. CASE ReadLanded(r) /\ idleRefresh
    <2>1. JobsStay  BY <1>7, SameJobs, Zenon DEF idleRefresh
    <2>2. ReadersStay  BY <1>7, ReaderMoves, Zenon DEF ReadLanded
    <2>3. Follows(entry, entry')  BY <1>0, <1>7, Shapes, Zenon DEF ReadLanded
    <2> QED  BY <2>1, <2>2, <2>3, Kept, Zenon
  <1>8. CASE ReadJoin(r) /\ idleRefresh
    <2>1. JobsStay  BY <1>8, SameJobs, Zenon DEF idleRefresh
    <2>2. Follows(entry, miss(entry))  BY <1>0, Shapes, Zenon
    <2>3. reader[r].at # "probed"  BY <1>8, Zenon DEF ReadJoin
    <2>4. CASE /\ entry' = miss(entry)
               /\ reader' = [reader EXCEPT ![r].at = "wait", ![r].inv = entry.cached /\ ~trusted(entry)]
      BY <2>1, <2>2, <2>3, <2>4, ReaderMoves, Kept, Zenon
    <2>5. CASE Fallback(r, "down", miss(entry))
      BY <2>1, <2>2, <2>3, <2>5, FallsBack, Kept, Zenon
    <2> QED  BY <1>8, <2>4, <2>5, Zenon DEF ReadJoin
  <1>9. CASE ReadTimeout(r) /\ idleRefresh
    <2>1. JobsStay  BY <1>9, SameJobs, Zenon DEF idleRefresh
    <2>2. Follows(entry, entry)  BY <1>0, Shapes, Zenon
    <2> QED  BY <1>9, <2>1, <2>2, FallsBack, Kept, Zenon DEF ReadTimeout
  <1> QED  BY <1>1, <1>2, <1>3, <1>4, <1>5, <1>6, <1>7, <1>8, <1>9, Zenon DEF ReaderStep

\* The jobs that refresh and validate it.
LEMMA JobsKeep ==
    ASSUME OwnedInv, NEW j \in Jobs, JobStep(j)
    PROVE  OwnedInv'
  <1>0. Shaped(entry) /\ Follows(entry, entry)  BY Shapes, Zenon DEF OwnedInv
  <1> DEFINE Lists == job' = [job EXCEPT ![j] = [@ EXCEPT !.at = "list", !.ans = "ok", !.seen = NoTag]]
  <1>1. Lists => JobsStay
    <2> SUFFICES ASSUME Lists PROVE JobsStay  BY Zenon
    <2> DEFINE d == [job[j] EXCEPT !.at = "list", !.ans = "ok", !.seen = NoTag]
    <2>1. {"kind", "at"} \subseteq DOMAIN d /\ d.kind = job[j].kind /\ d.at = "list"
      BY Zenon DEF OwnedInv, JobsPlaced
    <2>2. job' = [job EXCEPT ![j] = d]  BY Zenon
    <2> HIDE DEF d
    <2> QED  BY <2>1, <2>2, JobGoesOn, Zenon
  <1> HIDE DEF Lists
  <1>2. ASSUME NEW a \in Answers, JobProbe(j, a) PROVE OwnedInv'
    <2>1. ReadersStay  BY <1>2, SameReaders, Zenon DEF JobProbe
    <2>2. JobsStay
      <3>1. CASE job[j].kind \in {"reval", "push"} /\ Finish(j)  BY <3>1, JobEnds, Zenon
      <3>2. CASE Lists  BY <1>1, <3>2, Zenon
      <3>3. CASE \E ans, s : job' = [job EXCEPT ![j].at = "probed", ![j].ans = ans, ![j].seen = s]
        <4>1. PICK ans, s : job' = [job EXCEPT ![j].at = "probed", ![j].ans = ans, ![j].seen = s]  BY <3>3, Zenon
        <4>2. /\ DOMAIN job' = Jobs /\ {"kind", "at"} \subseteq DOMAIN job'[j]
              /\ job'[j].kind = job[j].kind /\ job'[j].at = "probed"
              /\ \A i \in Jobs \ {j} : job'[i] = job[i]
          BY <4>1, Zenon DEF OwnedInv, JobsPlaced
        <4> QED  BY <4>2, Zenon DEF OwnedInv, JobsStay, JobsPlaced, Busy
      <3> QED  BY <1>2, <3>1, <3>2, <3>3, Zenon DEF JobProbe, Lists
    <2> QED  BY <1>0, <1>2, <2>1, <2>2, Kept, Zenon DEF JobProbe
  <1>3. ASSUME NEW a \in Answers, JobList(j, a) PROVE OwnedInv'
    <2>1. ReadersStay  BY <1>3, SameReaders, Zenon DEF JobList
    <2>2. /\ DOMAIN job' = Jobs /\ {"kind", "at"} \subseteq DOMAIN job'[j]
          /\ job'[j].kind = job[j].kind /\ job'[j].at = "listed"
          /\ \A i \in Jobs \ {j} : job'[i] = job[i]
      BY <1>3, Zenon DEF JobList, OwnedInv, JobsPlaced
    <2>3. JobsStay  BY <2>2, Zenon DEF OwnedInv, JobsStay, JobsPlaced, Busy
    <2> QED  BY <1>0, <1>3, <2>1, <2>3, Kept, Zenon DEF JobList
  <1>4. ASSUME Finish(j), ReadersStay, Follows(entry, entry'),
               job[j].kind = "soft" => (entry'.cached => entry'.refreshing # "soft")
        PROVE  OwnedInv'
    <2>1. CASE job[j].kind # "soft"  BY <1>4, <2>1, JobEnds, Kept, Zenon
    <2>2. CASE job[j].kind = "soft"
      <3>1. JobsPlaced'  BY <1>4, JobEnds, Zenon
      <3> QED  BY <1>4, <2>2, <3>1, Zenon DEF OwnedInv, RefreshOwned, Follows, ReadersStay, Probing
    <2> QED  BY <2>1, <2>2, Zenon
  <1>5. /\ clear_refreshing(entry).cached => clear_refreshing(entry).refreshing = "no"
        /\ touch_dir_cache(entry).cached => touch_dir_cache(entry).refreshing = "no"
    BY <1>0, Zenon DEF clear_refreshing, touch_dir_cache, Shaped
  <1>6. \A v, n, tag : Follows(entry, put_dir_cache(v, n, tag)) /\ put_dir_cache(v, n, tag).refreshing = "no"
    BY DEF put_dir_cache, Follows, Shaped
  <1>7. CASE JobProbed(j)
    <2>1. ReadersStay  BY <1>7, SameReaders, Zenon DEF JobProbed
    <2>2. CASE Lists /\ UNCHANGED entry  BY <1>0, <1>1, <2>1, <2>2, Kept, Zenon
    <2>3. CASE Finish(j) /\ entry' = touch_dir_cache(entry)
      BY <1>0, <1>4, <1>5, <2>1, <2>3, Shapes, Zenon
    <2>4. CASE Finish(j) /\ entry' = IF job[j].kind = "soft" THEN clear_refreshing(entry) ELSE entry
      BY <1>0, <1>4, <1>5, <2>1, <2>4, Shapes, Zenon
    <2> QED  BY <1>7, <2>2, <2>3, <2>4, Zenon DEF JobProbed, Lists
  <1>8. CASE JobListed(j)
    <2>1. ReadersStay /\ Finish(j)  BY <1>8, SameReaders, Zenon DEF JobListed
    <2>2. CASE entry' = put_dir_cache(job[j].seen, Entries, job[j].seen)  BY <1>4, <1>6, <2>1, <2>2, Zenon
    <2>3. CASE entry' = IF job[j].kind = "soft" THEN clear_refreshing(entry) ELSE entry
      BY <1>0, <1>4, <1>5, <2>1, <2>3, Shapes, Zenon
    <2> QED  BY <1>8, <2>2, <2>3, Zenon DEF JobListed
  <1>9. Relist => Follows(entry, entry')  BY <1>0, Shapes, Zenon DEF Relist
  <1>10. CASE ValidateProbed(j)
    <2>1. ReadersStay /\ job[j].kind # "soft"  BY <1>10, SameReaders, Zenon DEF ValidateProbed
    <2>2. CASE Finish(j) /\ Follows(entry, entry')  BY <1>4, <2>1, <2>2, Zenon
    <2>3. CASE entry.cached /\ entry' = [entry EXCEPT !.invalidated = TRUE] /\ Lists
      <3>1. Follows(entry, entry')  BY <1>0, <2>3, Zenon DEF Follows, Shaped
      <3> QED  BY <1>1, <2>1, <2>3, <3>1, Kept, Zenon
    <2> QED  BY <1>0, <1>9, <1>10, <2>2, <2>3, Shapes, Zenon DEF ValidateProbed, Lists
  <1>11. CASE ValidateListed(j)
    <2>1. ReadersStay /\ job[j].kind # "soft" /\ Finish(j)  BY <1>11, SameReaders, Zenon DEF ValidateListed
    <2>2. Follows(entry, entry')  BY <1>6, <1>9, <1>11, Zenon DEF ValidateListed
    <2> QED  BY <1>4, <2>1, <2>2, Zenon
  <1> QED  BY <1>2, <1>3, <1>7, <1>8, <1>10, <1>11, Zenon DEF JobStep

\* The fetches, the server's events, the eviction and the clocks.
LEMMA OthersKeep ==
    ASSUME OwnedInv,
           \/ \E f \in Fetches : FetchStep(f) \/ (StartPrefetch(f) /\ idleRefresh)
           \/ ValidateStart \/ ServerChange \/ HandleEvent \/ DeferredInvalidation \/ Evict
           \/ SoftExpires \/ HardExpires \/ CooldownsPass \/ UNCHANGED refreshVars
    PROVE  OwnedInv'
  <1>0. Shaped(entry) /\ Follows(entry, entry)  BY Shapes, Zenon DEF OwnedInv
  <1>1. ReadersStay
    BY SameReaders, Zenon DEF FetchStep, FetchAnswer, FetchRow, FetchClose, FetchTell, FetchChain, StartPrefetch,
       ValidateStart, ServerChange, HandleEvent, DeferredInvalidation, Evict, SoftExpires, HardExpires,
       CooldownsPass, refreshVars, listVars
  <1>2. JobsStay
    BY SameJobs, JobStarts, Zenon DEF FetchStep, idleRefresh, ValidateStart, ServerChange, HandleEvent,
       DeferredInvalidation, Evict, SoftExpires, HardExpires, CooldownsPass, refreshVars
  <1>3. Follows(entry, entry')
    <2>1. CASE \E f \in Fetches : FetchStep(f)
      <3>1. PICK f \in Fetches : FetchStep(f)  BY <2>1, Zenon
      <3>2. Follows(entry, Promoted(pending))  BY Zenon DEF Follows, Shaped, Promoted, put_dir_cache
      <3> QED
        BY <1>0, <3>1, <3>2, Zenon DEF FetchStep, FetchAnswer, FetchRow, FetchClose, FetchTell, FetchChain
    <2>2. CASE entry.cached /\ entry' = [entry EXCEPT !.stale = TRUE]
      BY <1>0, <2>2, Zenon DEF Follows, Shaped
    <2>3. CASE entry.cached /\ entry' = [entry EXCEPT !.stale = TRUE, !.aged = TRUE]
      BY <1>0, <2>3, Zenon DEF Follows, Shaped
    <2>4. CASE entry' = IF entry.cached THEN [entry EXCEPT !.cooling = FALSE] ELSE entry
      BY <1>0, <2>4, Zenon DEF Follows, Shaped
    <2>5. Follows(entry, invalidate(entry)) /\ Follows(entry, NoEntry)  BY <1>0, Shapes, Zenon
    <2> QED
      BY <1>0, <2>1, <2>2, <2>3, <2>4, <2>5, Zenon DEF StartPrefetch, ValidateStart, ServerChange, HandleEvent,
         DeferredInvalidation, Evict, SoftExpires, HardExpires, CooldownsPass, refreshVars, listVars
  <1> QED  BY <1>1, <1>2, <1>3, Kept, Zenon

\* Nothing is cached and nobody reads at the start.
LEMMA RefreshInitially == RefreshInit => OwnedInv
  <1> SUFFICES ASSUME RefreshInit PROVE OwnedInv  BY Zenon
  <1>1. ~entry.cached  BY Zenon DEF RefreshInit, ListInit, NoEntry
  <1>2. {"kind", "at"} \subseteq DOMAIN NoJob /\ NoJob.kind = "none" /\ "at" \in DOMAIN NoReader
    BY Zenon DEF NoJob, NoReader
  <1>3. JobsPlaced  BY <1>2, Zenon DEF RefreshInit, JobsPlaced
  <1>4. ReadersPlaced  BY <1>2, Zenon DEF RefreshInit, ListInit, ReadersPlaced
  <1> QED  BY <1>1, <1>3, <1>4, Zenon DEF OwnedInv, Shaped, RefreshOwned

\* Whoever claimed a listing's refresh will clear the claim: however readers,
\* fetches, jobs, events and evictions interleave, a listing flagged as being
\* refreshed has its soft refresh running or its prober waiting.
THEOREM RefreshesAreOwned == RefreshSpec => []RefreshOwned
  <1>1. OwnedInv /\ [RefreshNext]_refreshVars => OwnedInv'
    BY ReadersKeep, JobsKeep, OthersKeep, Zenon DEF RefreshNext
  <1>2. OwnedInv => RefreshOwned  BY Zenon DEF OwnedInv
  <1> QED  BY <1>1, <1>2, RefreshInitially, PTL DEF RefreshSpec

-----------------------------------------------------------------------------
(***************************************************************************)
(* Dispatch: a folder is not moved under the feet of a request on what is  *)
(* in it, for any number of requests.                                      *)
(***************************************************************************)

\* Where the inodes can be: the folder under one of its two names, the file in
\* the root, in the folder or nowhere.
Inside == place[File] = <<place[Folder][1], "f">>
PlaceOK ==
    /\ DOMAIN place = 1..4 /\ place[RootDir] = <<>> /\ place[Other] = <<"x">>
    /\ \E n \in {"a", "b"} : place[Folder] = <<n>> /\ place[File] \in {Nowhere, <<"f">>, <<n, "f">>}

InFolder == \A x \in 2..4 : Under(place[x], place[Folder]) <=> x = Folder \/ (x = File /\ Inside)

\* A request names what it is ordered on, and a rename the folder for itself.
MovesFolder(r) == r.op = "rename" /\ r.ino = Folder
Asked(r, keys) ==
    /\ r.on \subseteq 1..4 /\ r.on \subseteq DOMAIN keys
    /\ r.op = "rename" =>
         /\ Folder \in DOMAIN keys /\ keys[Folder] = Ex /\ RootDir \in r.locks
         /\ \/ r.ino = Folder /\ r.into = RootDir /\ r.name \in {"a", "b"}
            \/ r.ino = File /\ r.into \in {RootDir, Folder} /\ r.name = "f"

Numbered ==
    /\ last \in Nat /\ DOMAIN live \subseteq 1..last /\ DOMAIN asks = DOMAIN live
    /\ answered \subseteq running /\ running \subseteq DOMAIN live
    /\ \A i \in DOMAIN asks : Asked(asks[i], live[i])

\* Nothing runs before what came first and meets it.
Ordered == \A i \in running : Clear(live, i)

\* One at a time changes the root, as the kernel holds it until the reply.
OneMove == \A i, j \in DOMAIN asks : asks[i].op = "rename" /\ asks[j].op = "rename" /\ i # j =>
              i \in answered \/ j \in answered

\* A queued rename of the folder is registered with where the folder is, until
\* it has been moved, and then with where it is gone.
Registered ==
    \A r \in DOMAIN asks : MovesFolder(asks[r]) =>
        \E m \in moving : /\ m.id = r /\ m.ino = Folder /\ m.to = <<asks[r].name>>
                          /\ place[Folder] = IF r \in answered THEN m.to ELSE m.from

\* What is on something in a folder meets the folder's rename.
MeetsBelow ==
    \A r, i \in DOMAIN asks : MovesFolder(asks[r]) /\ i # r /\ Below(i, r) => Meet(live[i], live[r])

DispatchInv == PlaceOK /\ Numbered /\ Ordered /\ OneMove /\ Registered /\ MeetsBelow

----------------------------------------------------------------------------
\* One element of a sequence, as a sequence.
LEMMA OneOf == ASSUME NEW s, NEW k \in Int PROVE SubSeq(s, k, k) = <<s[k]>>
  <1>1. PICK v : v = s[k]  BY Zenon
  <1>2. PICK t : t = SubSeq(s, k, k)  BY Zenon
  <1>3. \A i \in k..k : s[i] \in {v}  BY <1>1
  <1>4. t \in Seq({v}) /\ Len(t) = 1  BY <1>2, <1>3
  <1>5. t[1] = v
    <2>1. 1 \in 1..(k - k + 1) /\ k + 1 - 1 = k  OBVIOUS
    <2> QED  BY <1>1, <1>2, <1>3, <2>1
  <1>6. PICK u : u = <<v>>  BY Zenon
  <1>7. u \in Seq({v}) /\ Len(u) = 1 /\ u[1] = v  BY <1>6
  <1>8. t = u  BY <1>4, <1>5, <1>7
  <1> QED  BY <1>1, <1>2, <1>6, <1>8, Zenon

\* The parts of paths of one and of two names.
LEMMA PartsOf ==
    ASSUME NEW x, NEW z
    PROVE  /\ SubSeq(<<x>>, 1, 1) = <<x>> /\ SubSeq(<<x>>, 2, 1) = <<>>
           /\ SubSeq(<<x, z>>, 1, 1) = <<x>> /\ SubSeq(<<x, z>>, 2, 2) = <<z>>
  <1>1. PICK s : s = <<x>>  BY Zenon
  <1>2. PICK t : t = <<x, z>>  BY Zenon
  <1>3. s[1] = x /\ t[1] = x /\ t[2] = z  BY <1>1, <1>2, Zenon
  <1>4. SubSeq(s, 1, 1) = <<s[1]>> /\ SubSeq(t, 1, 1) = <<t[1]>> /\ SubSeq(t, 2, 2) = <<t[2]>>  BY OneOf
  <1>5. SubSeq(s, 2, 1) = <<>>  OBVIOUS
  <1> QED  BY <1>1, <1>2, <1>3, <1>4, <1>5, Zenon

\* Such paths put together.
LEMMA Joined ==
    ASSUME NEW x, NEW z
    PROVE  Append(<<>>, x) = <<x>> /\ <<x>> \o <<>> = <<x>> /\ Append(<<x>>, z) = <<x, z>> /\ <<x>> \o <<z>> = <<x, z>>
  <1>1. Append(<<>>, x) = <<x>>  OBVIOUS
  <1>2. PICK s : s = <<x>>  BY Zenon
  <1>0. PICK S0 : S0 = {x, z}  BY Zenon
  <1>12. z \in S0  BY <1>0, Zenon
  <1>3. s \in Seq(S0) /\ Len(s) = 1 /\ s[1] = x  BY <1>0, <1>2
  <1>4. s \o <<>> = s /\ Append(s, z) = s \o <<z>>  BY <1>3, <1>12
  <1>5. PICK t : t = Append(s, z)  BY Zenon
  <1>6. /\ t \in Seq(S0) /\ Len(t) = Len(s) + 1
        /\ \A i \in 1..Len(s) : t[i] = s[i]
        /\ t[Len(s) + 1] = z
    <2>1. s \in Seq(S0)  BY <1>3, Zenon
    <2>2. /\ Append(s, z) \in Seq(S0) /\ Len(Append(s, z)) = Len(s) + 1
          /\ \A i \in 1..Len(s) : Append(s, z)[i] = s[i]
          /\ Append(s, z)[Len(s) + 1] = z
      BY <2>1, <1>12
    <2> QED  BY <1>5, <2>2, Zenon
  <1>7. Len(t) = 2 /\ t[1] = x /\ t[2] = z  BY <1>3, <1>6
  <1>8. PICK u : u = <<x, z>>  BY Zenon
  <1>9. Len(u) = 2 /\ u[1] = x /\ u[2] = z  BY <1>8, Zenon
  <1>10. u \in Seq(S0)  BY <1>0, <1>8
  <1>11. t = u
    <2>1. Len(t) = Len(u) /\ \A i \in 1..Len(t) : t[i] = u[i]  BY <1>7, <1>9
    <2> QED  BY <1>6, <1>10, <2>1
  <1> QED  BY <1>1, <1>2, <1>4, <1>5, <1>8, <1>11, Zenon

\* What is under what, among the paths there are.
LEMMA UnderIs ==
    ASSUME NEW x, NEW y, NEW z
    PROVE  /\ (Under(<<x>>, <<y>>) <=> x = y) /\ (Under(<<x, z>>, <<y>>) <=> x = y)
           /\ ~Under(<<x>>, <<y, z>>) /\ ~Under(<<>>, <<x>>) /\ ~Under(<<>>, <<x, y>>) /\ Under(<<x, y>>, <<x, y>>)
  <1>1. Len(<<x>>) = 1 /\ Len(<<y>>) = 1 /\ Len(<<x, z>>) = 2 /\ Len(<<y, z>>) = 2 /\ Len(<<x, y>>) = 2
        /\ Len(<<>>) = 0
    BY Zenon
  <1>2. <<x>> = <<y>> <=> x = y  BY Zenon
  <1>3. Under(<<x>>, <<y>>) <=> x = y
    <2>1. SubSeq(<<x>>, 1, 1) = <<x>>  BY PartsOf, Zenon
    <2> QED  BY <1>1, <1>2, <2>1 DEF Under
  <1>4. Under(<<x, z>>, <<y>>) <=> x = y
    <2>1. SubSeq(<<x, z>>, 1, 1) = <<x>>  BY PartsOf, Zenon
    <2> QED  BY <1>1, <1>2, <2>1 DEF Under
  <1>5. ~Under(<<x>>, <<y, z>>) /\ ~Under(<<>>, <<x>>) /\ ~Under(<<>>, <<x, y>>)  BY <1>1 DEF Under
  <1>6. Under(<<x, y>>, <<x, y>>)
    <2>1. PICK s : s = <<x, y>>  BY Zenon
    <2>2. s \in Seq({x, y}) /\ Len(s) = 2  BY <2>1
    <2>3. SubSeq(s, 1, Len(s)) = s  BY <2>2
    <2> QED  BY <2>1, <2>2, <2>3 DEF Under
  <1> QED  BY <1>3, <1>4, <1>5, <1>6, Zenon

\* Below the folder are the folder and, if it is in it, the file.
LEMMA BelowIs == PlaceOK => InFolder
  <1> SUFFICES ASSUME PlaceOK
               PROVE  \A x \in 2..4 : Under(place[x], place[Folder]) <=> x = Folder \/ (x = File /\ Inside)
    BY Zenon DEF InFolder
  <1>1. PICK n \in {"a", "b"} : place[Folder] = <<n>> /\ place[File] \in {Nowhere, <<"f">>, <<n, "f">>}  BY Zenon DEF PlaceOK
  <1>2. Under(place[Folder], place[Folder])
    <2>1. Under(<<n>>, <<n>>)  BY UnderIs, Zenon
    <2> QED  BY <1>1, <2>1, Zenon
  <1>3. ~Under(place[Other], place[Folder])
    <2>1. Under(<<"x">>, <<n>>) <=> "x" = n  BY UnderIs, Zenon
    <2> QED  BY <1>1, <2>1, Zenon DEF PlaceOK
  <1>4. Under(place[File], place[Folder]) <=> Inside
    <2>1. Under(<<n, "f">>, <<n>>) /\ (Under(<<"f">>, <<n>>) <=> "f" = n) /\ (Under(<<"gone">>, <<n>>) <=> "gone" = n)
      BY UnderIs, Zenon
    <2>2. Inside <=> place[File] = <<n, "f">>  BY <1>1 DEF Inside
    <2>3. <<"gone">> # <<n, "f">> /\ <<"f">> # <<n, "f">>  BY Zenon
    <2>4. CASE place[File] = <<n, "f">>  BY <1>1, <2>1, <2>2, <2>4, Zenon
    <2>5. CASE place[File] = <<"gone">>  BY <1>1, <2>1, <2>2, <2>3, <2>5, Zenon
    <2>6. CASE place[File] = <<"f">>  BY <1>1, <2>1, <2>2, <2>3, <2>6, Zenon
    <2> QED  BY <1>1, <2>4, <2>5, <2>6, Zenon DEF Nowhere
  <1> QED  BY <1>2, <1>3, <1>4 DEF Folder, Other, File

\* Two requests of which one needs a key for itself meet on it.
LEMMA MeetOn ==
    ASSUME NEW a, NEW b, NEW k \in DOMAIN a \cap DOMAIN b, a[k] = Ex \/ b[k] = Ex
    PROVE  Meet(a, b) /\ Meet(b, a)
  BY Zenon DEF Meet, Ex

\* The file's folder is the one it is in.
LEMMA HomeIs == ASSUME PlaceOK PROVE Home # 0 => Home \in {RootDir, Folder}
  <1>1. PICK n \in {"a", "b"} : place[Folder] = <<n>> /\ place[File] \in {Nowhere, <<"f">>, <<n, "f">>}  BY Zenon DEF PlaceOK
  <1> DEFINE Holds(i) == IF place[File] = Nowhere THEN i = 0
                        ELSE i # 0 /\ place[i] = SubSeq(place[File], 1, Len(place[File]) - 1)
  <1>2. \A i \in {RootDir, Folder, Other, 0} : Holds(i) => Home \in {RootDir, Folder, Other, 0} /\ Holds(Home)  BY Zenon DEF Home
  <1>3. CASE place[File] = Nowhere
    <2>1. Holds(0)  BY <1>3, Zenon
    <2> QED  BY <1>2, <1>3, <2>1, Zenon
  <1>4. CASE place[File] = <<"f">>
    <2>1. PICK p : p = <<"f">>  BY Zenon
    <2>2. Len(p) = 1 /\ p # <<"gone">>  BY <2>1, Zenon
    <2>3. SubSeq(p, 1, Len(p) - 1) = <<>>  BY <2>2
    <2>4. Holds(RootDir)  BY <1>4, <2>1, <2>2, <2>3 DEF Nowhere, PlaceOK, RootDir
    <2>5. Home \in {RootDir, Folder, Other, 0} /\ Home # 0 /\ place[Home] = <<>>  BY <1>2, <1>4, <2>1, <2>2, <2>3, <2>4, Zenon DEF Nowhere
    <2>6. <<"x">> # <<>>  BY Zenon
    <2> QED  BY <2>5, <2>6, Zenon DEF PlaceOK
  <1>5. CASE place[File] = <<n, "f">>
    <2>1. PICK p : p = <<n, "f">>  BY Zenon
    <2>2. Len(p) = 2 /\ p # <<"gone">>  BY <2>1, Zenon
    <2>3. SubSeq(p, 1, Len(p) - 1) = <<n>>
      <3>1. Len(p) - 1 = 1  BY <2>2
      <3>2. SubSeq(<<n, "f">>, 1, 1) = <<n>>  BY PartsOf, Zenon
      <3> QED  BY <2>1, <3>1, <3>2, Zenon
    <2>4. Holds(Folder)  BY <1>1, <1>5, <2>1, <2>2, <2>3 DEF Nowhere, Folder
    <2>5. Home \in {RootDir, Folder, Other, 0} /\ Home # 0 /\ place[Home] = <<n>>  BY <1>2, <1>5, <2>1, <2>2, <2>3, <2>4, Zenon DEF Nowhere
    <2>6. <<"x">> # <<n>>  BY Zenon
    <2> QED  BY <2>5, <2>6, Zenon DEF PlaceOK
  <1> QED  BY <1>1, <1>3, <1>4, <1>5, Zenon

\* Any request that arrives, with its keys and more.
LEMMA RequestIs ==
    ASSUME PlaceOK, Homes \subseteq {RootDir, Folder}, NEW r \in MountRequests, NEW keys, r.keys \subseteq keys
    PROVE  Asked(r, MergedKeys(keys))
  <1> USE DEF RootDir, Folder, Other, File
  <1>1. ASSUME NEW k, NEW mode, <<k, mode>> \in keys PROVE k \in DOMAIN MergedKeys(keys)
    BY <1>1, Zenon DEF MergedKeys
  <1>2. ASSUME NEW k, <<k, Ex>> \in keys PROVE k \in DOMAIN MergedKeys(keys) /\ MergedKeys(keys)[k] = Ex
    BY <1>2 DEF MergedKeys
  <1>3. ASSUME NEW x \in 1..4, NEW mode, r.on = {x}, r.op # "rename", <<x, mode>> \in r.keys PROVE Asked(r, MergedKeys(keys))
    BY <1>1, <1>3, Zenon DEF Asked
  <1>4. CASE r \in InodeRequests \cup {Lookup(Folder, b) : b \in BOOLEAN} \cup {Entry("create", Folder), Entry("unlink", Folder)}
    <2>1. CASE r = On("getattr", File, {<<File, Sh>>})
      <3>1. r.on = {4} /\ r.op # "rename" /\ <<4, Sh>> \in r.keys  BY <2>1, Zenon DEF On
      <3> QED  BY <1>3, <3>1
    <2>6. CASE r = On("read", File, {<<File, Sh>>, <<Handle, Ex>>})
      <3>1. r.on = {4} /\ r.op # "rename" /\ <<4, Sh>> \in r.keys  BY <2>6, Zenon DEF On
      <3> QED  BY <1>3, <3>1
    <2>2. CASE r = On("write", File, {<<File, Ex>>})
      <3>1. r.on = {4} /\ r.op # "rename" /\ <<4, Ex>> \in r.keys  BY <2>2, Zenon DEF On
      <3> QED  BY <1>3, <3>1
    <2>3. CASE r = On("readdir", Folder, {<<Folder, Sh>>})
      <3>1. r.on = {2} /\ r.op # "rename" /\ <<2, Sh>> \in r.keys  BY <2>3, Zenon DEF On
      <3> QED  BY <1>3, <3>1
    <2>4. ASSUME NEW b \in BOOLEAN, r = Lookup(Folder, b) PROVE Asked(r, MergedKeys(keys))
      <3>1. r.on = {2} /\ r.op # "rename" /\ <<2, IF b THEN Sh ELSE Ex>> \in r.keys  BY <2>4, Zenon DEF Lookup
      <3> QED  BY <1>3, <3>1
    <2>5. ASSUME NEW op \in {"create", "unlink"}, r = Entry(op, Folder) PROVE Asked(r, MergedKeys(keys))
      <3>1. r.on = {2} /\ r.op # "rename" /\ <<2, Ex>> \in r.keys  BY <2>5, Zenon DEF Entry, entry_keys
      <3> QED  BY <1>3, <3>1
    <2> QED  BY <1>4, <2>1, <2>2, <2>3, <2>4, <2>5, <2>6, Zenon DEF InodeRequests
  <1>5. ASSUME NEW src \in {Folder, File}, NEW parent \in {RootDir, Folder}, NEW to \in {RootDir, Folder}, NEW n,
               r = Rename(src, parent, to, n),
               \/ src = Folder /\ to = RootDir /\ parent = RootDir /\ n \in {"a", "b"}
               \/ src = File /\ n = "f" /\ parent # to
        PROVE  Asked(r, MergedKeys(keys))
    <2>1. /\ r.op = "rename" /\ r.on = {src, parent, to} /\ r.locks = {parent, to} /\ r.ino = src /\ r.into = to /\ r.name = n
          /\ <<src, Ex>> \in r.keys /\ <<parent, Ex>> \in r.keys /\ <<to, Ex>> \in r.keys
      BY <1>5, Zenon DEF Rename, rename_keys
    <2>2. <<Folder, Ex>> \in keys /\ RootDir \in r.locks  BY <1>5, <2>1, Zenon
    <2> QED  BY <1>1, <1>2, <1>5, <2>1, <2>2 DEF Asked
  <1>6. CASE \E n \in {"a", "b"} : r = Rename(Folder, RootDir, RootDir, n)  BY <1>5, <1>6, Zenon
  <1>7. CASE Home # 0 /\ \E h \in Homes \ {Home} : r = Rename(File, Home, h, "f")  BY <1>5, <1>7, HomeIs, Zenon
  <1> QED  BY <1>4, <1>6, <1>7, Zenon DEF MountRequests

\* The keys of a folder's rename.
LEMMA Renames ==
    ASSUME NEW r \in MountRequests, r.op = "rename", r.ino = Folder PROVE r.keys = rename_keys(RootDir, RootDir, Folder)
  <1>1. ASSUME NEW op \in {"getattr", "read", "write", "readdir"}, NEW x, NEW k, r = On(op, x, k) PROVE FALSE
    <2>1. r.op = op  BY <1>1, Zenon DEF On
    <2> QED  BY <2>1, Zenon
  <1>5. CASE r \in InodeRequests  BY <1>1, <1>5, Zenon DEF InodeRequests
  <1>6. ASSUME NEW b \in BOOLEAN, r = Lookup(Folder, b) PROVE FALSE
    <2>1. Lookup(Folder, b).op = "lookup"  BY Zenon DEF Lookup
    <2> QED  BY <1>6, <2>1, Zenon
  <1>7. ASSUME NEW op \in {"create", "unlink"}, r = Entry(op, Folder) PROVE FALSE
    <2>1. Entry(op, Folder).op = op  BY Zenon DEF Entry
    <2> QED  BY <1>7, <2>1, Zenon
  <1>2. CASE r \in {Lookup(Folder, b) : b \in BOOLEAN} \cup {Entry("create", Folder), Entry("unlink", Folder)}
    BY <1>2, <1>6, <1>7, Zenon
  <1>3. CASE \E n \in {"a", "b"} : r = Rename(Folder, RootDir, RootDir, n)  BY <1>3 DEF Rename
  <1>4. CASE \E h \in Homes \ {Home} : r = Rename(File, Home, h, "f")  BY <1>4 DEF Rename, Folder, File
  <1> QED  BY <1>2, <1>3, <1>4, <1>5, Zenon DEF MountRequests

\* Two renames do not run at once.
LEMMA RenamesApart ==
    ASSUME Numbered, Ordered, NEW i \in running, NEW j \in running, i # j,
           asks[i].op = "rename", asks[j].op = "rename"
    PROVE  FALSE
  <1>1. i \in DOMAIN live /\ j \in DOMAIN live /\ i \in Int /\ j \in Int  BY DEF Numbered
  <1>2. /\ Folder \in DOMAIN live[i] /\ Folder \in DOMAIN live[j] /\ live[i][Folder] = Ex
    BY <1>1, Zenon DEF Numbered, Asked
  <1>3. Meet(live[i], live[j]) /\ Meet(live[j], live[i])  BY <1>2, MeetOn, Zenon
  <1>4. i < j \/ j < i  BY <1>1
  <1> QED  BY <1>1, <1>3, <1>4, Zenon DEF Ordered, Clear

----------------------------------------------------------------------------
\* A request that arrives meets the renames it is below, and a rename what is
\* below it.
LEMMA QueueStep == ASSUME DispatchInv, Homes \subseteq {RootDir, Folder}, Queue PROVE DispatchInv'
  <1> USE DEF DispatchInv
  <1>1. PICK r \in MountRequests :
           /\ \A i \in DOMAIN asks : Locked(i) \cap r.locks = {}
           /\ Arrive(MergedKeys(order_under_moves(r.keys)))
           /\ asks' = [i \in DOMAIN asks \cup {last'} |-> IF i = last' THEN r ELSE asks[i]]
           /\ moving' = IF r.op # "rename" THEN moving
                        ELSE moving \cup {[id |-> last', ino |-> r.ino, from |-> place[r.ino], to |-> Target(r)]}
           /\ UNCHANGED <<place, answered>>
    BY Zenon DEF Queue
  <1>2. PICK l \in Nat : l = last + 1  BY DEF Numbered
  <1>3. PICK all : all = order_under_moves(r.keys)  BY Zenon
  <1>4. r.keys \subseteq all  BY <1>3, Zenon DEF order_under_moves
  <1>5. PICK km : km = MergedKeys(all)  BY Zenon
  <1>6. Asked(r, km)  BY <1>4, <1>5, RequestIs, Zenon
  <1>7. /\ last' = l /\ live' = [i \in DOMAIN live \cup {l} |-> IF i = l THEN km ELSE live[i]]
        /\ asks' = [i \in DOMAIN asks \cup {l} |-> IF i = l THEN r ELSE asks[i]]
        /\ running' = running \/ (running' = running \cup {l} /\ Clear(live', l))
    BY <1>1, <1>2, <1>3, <1>5, Zenon DEF Arrive
  <1>8. l \notin DOMAIN live /\ \A i \in DOMAIN live : i < l /\ i \in Nat  BY <1>2 DEF Numbered
  <1>9. /\ DOMAIN live' = DOMAIN live \cup {l} /\ live'[l] = km /\ \A i \in DOMAIN live : live'[i] = live[i]
        /\ DOMAIN asks' = DOMAIN asks \cup {l} /\ asks'[l] = r /\ \A i \in DOMAIN asks : asks'[i] = asks[i]
    BY <1>7, <1>8, Zenon DEF Numbered
  <1>10. PlaceOK'  BY <1>1, Zenon DEF PlaceOK
  <1>11. Numbered'
    <2>1. \A i \in DOMAIN asks' : Asked(asks'[i], live'[i])  BY <1>6, <1>9, Zenon DEF Numbered
    <2>2. DOMAIN live \subseteq 1..l /\ l \in 1..l  BY <1>2 DEF Numbered
    <2>3. DOMAIN live' \subseteq 1..l /\ DOMAIN asks' = DOMAIN live'  BY <1>9, <2>2, Zenon DEF Numbered
    <2>4. answered' \subseteq running' /\ running' \subseteq DOMAIN live'  BY <1>1, <1>7, <1>9, Zenon DEF Numbered
    <2> QED  BY <1>7, <2>1, <2>3, <2>4, Zenon DEF Numbered
  <1>12. Ordered'
    <2>1. ASSUME NEW i \in running PROVE Clear(live', i)
      <3>1. i \in DOMAIN live /\ i < l /\ i \in Nat  BY <1>8, Zenon DEF Numbered
      <3> SUFFICES ASSUME NEW s \in DOMAIN live', s < i PROVE ~Meet(live'[s], live'[i])  BY Zenon DEF Clear
      <3>2. s \in DOMAIN live  BY <1>2, <1>9, <3>1
      <3> QED  BY <1>9, <3>1, <3>2, Zenon DEF Ordered, Clear
    <2> QED  BY <1>7, <2>1, Zenon DEF Ordered
  <1>13. OneMove'
    <2>1. ASSUME NEW i \in DOMAIN asks, asks[i].op = "rename", r.op = "rename" PROVE i \in answered
      <3>1. RootDir \in asks[i].locks /\ RootDir \in r.locks  BY <1>6, <2>1, Zenon DEF Numbered, Asked
      <3> QED  BY <1>1, <3>1, Zenon DEF Locked
    <2> QED  BY <1>1, <1>9, <2>1, Zenon DEF OneMove
  <1>14. Registered'
    <2>1. ASSUME NEW i \in DOMAIN asks, MovesFolder(asks[i])
          PROVE  \E m \in moving' : /\ m.id = i /\ m.ino = Folder /\ m.to = <<asks[i].name>>
                                    /\ place[Folder] = IF i \in answered THEN m.to ELSE m.from
      BY <1>1, <2>1 DEF Registered
    <2>2. ASSUME MovesFolder(r)
          PROVE  \E m \in moving' : /\ m.id = l /\ m.ino = Folder /\ m.to = <<r.name>>
                                    /\ place[Folder] = IF l \in answered THEN m.to ELSE m.from
      <3>1. r.op = "rename" /\ r.ino = Folder /\ r.into = RootDir  BY <1>6, <2>2 DEF MovesFolder, Asked, Folder, File
      <3>2. l \notin answered  BY <1>8, Zenon DEF Numbered
      <3>3. Target(r) = <<r.name>>
        <4>1. Append(<<>>, r.name) = <<r.name>>  BY Joined, Zenon
        <4> QED  BY <3>1, <4>1, Zenon DEF Target, PlaceOK
      <3>4. [id |-> l, ino |-> Folder, from |-> place[Folder], to |-> <<r.name>>] \in moving'  BY <1>1, <1>7, <3>1, <3>3, Zenon
      <3> QED  BY <3>2, <3>4, Zenon
    <2>3. ASSUME NEW q \in DOMAIN asks', asks'[q].op = "rename", asks'[q].ino = Folder
          PROVE  \E m \in moving' : /\ m.id = q /\ m.ino = Folder /\ m.to = <<asks'[q].name>>
                                    /\ place[Folder] = IF q \in answered THEN m.to ELSE m.from
      <3>1. CASE q = l
        <4>1. asks'[q] = r  BY <1>9, <3>1, Zenon
        <4> QED  BY <2>2, <2>3, <3>1, <4>1, Zenon DEF MovesFolder
      <3>2. CASE q # l
        <4>1. q \in DOMAIN asks /\ asks'[q] = asks[q]  BY <1>9, <2>3, <3>2, Zenon
        <4> QED  BY <2>1, <2>3, <4>1 DEF MovesFolder
      <3> QED  BY <3>1, <3>2, Zenon
    <2>4. place' = place /\ answered' = answered  BY <1>1, ZenonT(60)
    <2> QED  BY <2>3, <2>4 DEF Registered, MovesFolder
  <1>15. MeetsBelow'
    <2>1. ASSUME NEW i \in DOMAIN asks, MovesFolder(r), NEW x \in asks[i].on, x # RootDir, Under(place[x], place[Folder])
          PROVE  Meet(live[i], km)
      <3>1. r.op = "rename" /\ r.ino = Folder /\ Folder \in DOMAIN km /\ km[Folder] = Ex /\ i \in DOMAIN live
        BY <1>6, <2>1, Zenon DEF MovesFolder, Asked, Numbered
      <3>2. x \in 2..4 /\ x \in DOMAIN live[i]  BY <2>1 DEF Numbered, Asked, RootDir
      <3>3. CASE x = Folder  BY <3>1, <3>2, <3>3, MeetOn, Zenon
      <3>4. CASE x = File
        <4>1. <<File, Ex>> \in busy_below(place[Folder], Folder)
          BY <2>1, <3>1, <3>2, <3>4 DEF busy_below, Folder, File
        <4>2. <<File, Ex>> \in r.keys
          <5>1. r.keys = rename_keys(RootDir, RootDir, Folder)
            BY <3>1, Renames, Zenon
          <5> QED  BY <4>1, <5>1, Zenon DEF rename_keys
        <4>3. File \in DOMAIN km /\ km[File] = Ex  BY <1>4, <1>5, <4>2 DEF MergedKeys
        <4> QED  BY <3>2, <3>4, <4>3, MeetOn, Zenon
      <3> QED  BY <2>1, <3>2, <3>3, <3>4, BelowIs, Zenon DEF InFolder
    <2>2. ASSUME NEW q \in DOMAIN asks, MovesFolder(asks[q]), NEW x \in r.on, x # RootDir, Under(place[x], place[Folder])
          PROVE  Meet(km, live[q])
      <3>1. asks[q].op = "rename" /\ Folder \in DOMAIN live[q] /\ live[q][Folder] = Ex
        BY <2>2, Zenon DEF MovesFolder, Numbered, Asked
      <3>2. PICK m \in moving : m.ino = Folder /\ (place[Folder] = m.to \/ place[Folder] = m.from)
        BY <2>2, Zenon DEF Registered
      <3>3. x \in 1..4 /\ x # Handle /\ x \in DOMAIN MergedKeys(r.keys)  BY <1>6, <2>2, RequestIs DEF Asked, Handle
      <3>4. PICK k \in r.keys : k[1] = x  BY <3>3, Zenon DEF MergedKeys
      <3>5. <<Folder, Sh>> \in all  BY <1>3, <2>2, <3>2, <3>3, <3>4, Zenon DEF order_under_moves
      <3>6. Folder \in DOMAIN km  BY <1>5, <3>5 DEF MergedKeys
      <3> QED  BY <3>1, <3>6, MeetOn, Zenon
    <2>3. ASSUME NEW q \in DOMAIN asks', NEW i \in DOMAIN asks', MovesFolder(asks'[q]), i # q,
                 NEW x \in asks'[i].on, x # RootDir, Under(place[x], place[Folder])
          PROVE  Meet(live'[i], live'[q])
      <3>1. CASE q = l /\ i # l
        <4>1. i \in DOMAIN asks /\ asks'[i] = asks[i] /\ asks'[q] = r /\ live'[i] = live[i] /\ live'[q] = km
          BY <1>9, <2>3, <3>1, Zenon DEF Numbered
        <4> QED  BY <2>1, <2>3, <4>1, Zenon
      <3>2. CASE i = l /\ q # l
        <4>1. q \in DOMAIN asks /\ asks'[q] = asks[q] /\ asks'[i] = r /\ live'[q] = live[q] /\ live'[i] = km
          BY <1>9, <2>3, <3>2, Zenon DEF Numbered
        <4> QED  BY <2>2, <2>3, <4>1, Zenon
      <3>3. CASE i # l /\ q # l
        <4>1. /\ q \in DOMAIN asks /\ asks'[q] = asks[q] /\ live'[q] = live[q]
              /\ i \in DOMAIN asks /\ asks'[i] = asks[i] /\ live'[i] = live[i]
          BY <1>9, <2>3, <3>3, Zenon DEF Numbered
        <4>2. Below(i, q)  BY <2>3, <4>1, Zenon DEF Below, MovesFolder
        <4> QED  BY <2>3, <4>1, <4>2, Zenon DEF MeetsBelow
      <3> QED  BY <2>3, <3>1, <3>2, <3>3, Zenon
    <2> QED  BY <1>1, <2>3, ZenonT(60) DEF MeetsBelow, Below, MovesFolder
  <1> QED  BY <1>10, <1>11, <1>12, <1>13, <1>14, <1>15, Zenon

\* Waiting requests that are clear are started.
LEMMA ScheduledStep == ASSUME DispatchInv, Scheduled PROVE DispatchInv'
  <1> USE DEF DispatchInv
  <1>1. /\ UNCHANGED <<last, live, place, asks, answered, moving>>
        /\ \E started \in SUBSET (DOMAIN live \ running) :
             (\A i \in started : Clear(live, i)) /\ running' = running \cup started
    BY Zenon DEF Scheduled, StartClear
  <1>2. PlaceOK' /\ OneMove' /\ Registered'  BY <1>1, ZenonT(60) DEF PlaceOK, OneMove, Registered
  <1>3. MeetsBelow'  BY <1>1, Zenon DEF MeetsBelow, Below
  <1>4. Numbered'  BY <1>1, Zenon DEF Numbered
  <1>5. Ordered'  BY <1>1, Zenon DEF Ordered
  <1> QED  BY <1>2, <1>3, <1>4, <1>5, Zenon

\* A path moved with what it is, and one that is not under what is moved.
LEMMA MovedIs ==
    ASSUME NEW x, NEW y, NEW z
    PROVE  Moved(<<x>>, <<x>>, <<y>>) = <<y>> /\ Moved(<<x, z>>, <<x>>, <<y>>) = <<y, z>>
  <1>1. PICK n : n = <<x>>  BY Zenon
  <1>2. PICK m : m = <<y>>  BY Zenon
  <1>3. Len(n) = 1  BY <1>1, Zenon
  <1>4. Moved(<<x>>, <<x>>, <<y>>) = <<y>>
    <2>1. Under(<<x>>, <<x>>)  BY UnderIs, Zenon
    <2>2. SubSeq(<<x>>, 2, 1) = <<>>  BY PartsOf, Zenon
    <2>3. <<y>> \o <<>> = <<y>>  BY Joined, Zenon
    <2>4. SubSeq(n, Len(n) + 1, Len(n)) = <<>>  BY <1>1, <1>3, <2>2
    <2>5. Moved(n, n, m) = m \o <<>>  BY <1>1, <2>1, <2>4, Zenon DEF Moved
    <2> QED  BY <1>1, <1>2, <2>3, <2>5, Zenon
  <1>5. Moved(<<x, z>>, <<x>>, <<y>>) = <<y, z>>
    <2>0. PICK p : p = <<x, z>>  BY Zenon
    <2>1. Under(<<x, z>>, <<x>>)  BY UnderIs, Zenon
    <2>2. SubSeq(<<x, z>>, 2, 2) = <<z>>  BY PartsOf, Zenon
    <2>3. <<y>> \o <<z>> = <<y, z>>  BY Joined, Zenon
    <2>6. Len(p) = 2  BY <2>0, Zenon
    <2>4. SubSeq(p, Len(n) + 1, Len(p)) = <<z>>  BY <1>3, <2>0, <2>2, <2>6
    <2>5. Moved(p, n, m) = m \o <<z>>  BY <1>1, <2>0, <2>1, <2>4, Zenon DEF Moved
    <2> QED  BY <1>1, <1>2, <2>0, <2>3, <2>5, Zenon
  <1> QED  BY <1>4, <1>5, Zenon
LEMMA NotMoved ==
    ASSUME NEW x, NEW z, z # x, NEW to PROVE Moved(<<>>, <<x>>, to) = <<>> /\ Moved(<<z>>, <<x>>, to) = <<z>>
  <1>1. ~Under(<<>>, <<x>>)  BY UnderIs, Zenon
  <1>2. ~Under(<<z>>, <<x>>)  BY UnderIs, Zenon
  <1> QED  BY <1>1, <1>2, Zenon DEF Moved

\* The folder moved to the name m.
LEMMA FolderMoved ==
    ASSUME PlaceOK, NEW m \in {"a", "b"},
           place' = [x \in DOMAIN place |-> Moved(place[x], place[Folder], <<m>>)]
    PROVE  PlaceOK' /\ place'[Folder] = <<m>> /\ (Inside' => Inside)
  <1>1. PICK n \in {"a", "b"} : place[Folder] = <<n>> /\ place[File] \in {Nowhere, <<"f">>, <<n, "f">>}  BY Zenon DEF PlaceOK
  <1>2. \A x \in 1..4 : place'[x] = Moved(place[x], <<n>>, <<m>>)  BY <1>1, Zenon DEF PlaceOK
  <1>3. DOMAIN place' = 1..4  BY Zenon DEF PlaceOK
  <1>11. "x" # n /\ "f" # n /\ "gone" # n  BY Zenon
  <1>4. place'[RootDir] = <<>>
    <2>1. Moved(<<>>, <<n>>, <<m>>) = <<>>  BY <1>11, NotMoved, Zenon
    <2> QED  BY <1>2, <2>1 DEF PlaceOK, RootDir
  <1>5. place'[Other] = <<"x">>
    <2>1. Moved(<<"x">>, <<n>>, <<m>>) = <<"x">>  BY <1>11, NotMoved, Zenon
    <2> QED  BY <1>2, <2>1 DEF PlaceOK, Other
  <1>6. place'[Folder] = <<m>>
    <2>1. Moved(<<n>>, <<n>>, <<m>>) = <<m>>  BY MovedIs, Zenon
    <2> QED  BY <1>1, <1>2, <2>1 DEF Folder
  <1>7. Inside <=> place[File] = <<n, "f">>  BY <1>1 DEF Inside
  <1>8. Inside' <=> place'[File] = <<m, "f">>  BY <1>6 DEF Inside
  <1>9. place'[File] = Moved(place[File], <<n>>, <<m>>)  BY <1>2 DEF File
  <1>10. place'[File] \in {Nowhere, <<"f">>, <<m, "f">>} /\ (Inside' => Inside)
    <2>1. CASE place[File] = <<n, "f">>
      <3>1. Moved(<<n, "f">>, <<n>>, <<m>>) = <<m, "f">>  BY MovedIs
      <3> QED  BY <1>7, <1>9, <2>1, <3>1, Zenon
    <2>2. CASE place[File] = <<"f">>
      <3>1. Moved(<<"f">>, <<n>>, <<m>>) = <<"f">>  BY <1>11, NotMoved, Zenon
      <3>2. <<"f">> # <<m, "f">>  BY Zenon
      <3> QED  BY <1>8, <1>9, <2>2, <3>1, <3>2, Zenon
    <2>3. CASE place[File] = <<"gone">>
      <3>1. Moved(<<"gone">>, <<n>>, <<m>>) = <<"gone">>  BY <1>11, NotMoved, Zenon
      <3>2. <<"gone">> # <<m, "f">>  BY Zenon
      <3> QED  BY <1>8, <1>9, <2>3, <3>1, <3>2, Zenon DEF Nowhere
    <2> QED  BY <1>1, <2>1, <2>2, <2>3, Zenon DEF Nowhere
  <1> QED  BY <1>3, <1>4, <1>5, <1>6, <1>10, Zenon DEF PlaceOK

\* The file moved, to the root or into the folder.
LEMMA FileMoved ==
    ASSUME PlaceOK, NEW into \in {RootDir, Folder},
           place' = [x \in DOMAIN place |-> Moved(place[x], place[File], Append(place[into], "f"))]
    PROVE  PlaceOK' /\ place'[Folder] = place[Folder]
  <1>1. PICK n \in {"a", "b"} : place[Folder] = <<n>> /\ place[File] \in {Nowhere, <<"f">>, <<n, "f">>}  BY Zenon DEF PlaceOK
  <1>2. PICK p : p = place[File]  BY Zenon
  <1>3. PICK t : t = Append(place[into], "f")  BY Zenon
  <1>4. \A x \in 1..4 : place'[x] = Moved(place[x], p, t)  BY <1>2, <1>3, Zenon DEF PlaceOK
  <1>5. t \in {<<"f">>, <<n, "f">>}
    <2>1. Append(<<>>, "f") = <<"f">>  BY Joined, Zenon
    <2>2. Append(<<n>>, "f") = <<n, "f">>  BY Joined, Zenon
    <2> QED  BY <1>1, <1>3, <2>1, <2>2, Zenon DEF PlaceOK
  <1>6. ~Under(<<>>, p) /\ ~Under(<<n>>, p) /\ ~Under(<<"x">>, p)
    <2>1. CASE p = <<n, "f">>
      <3>1. ~Under(<<>>, <<n, "f">>) /\ ~Under(<<n>>, <<n, "f">>) /\ ~Under(<<"x">>, <<n, "f">>)  BY UnderIs, Zenon
      <3> QED  BY <2>1, <3>1, Zenon
    <2>2. ASSUME NEW e \in {"f", "gone"}, p = <<e>> PROVE ~Under(<<>>, p) /\ ~Under(<<n>>, p) /\ ~Under(<<"x">>, p)
      <3>1. ~Under(<<>>, <<e>>)  BY UnderIs, Zenon
      <3>2. n # e /\ "x" # e  BY Zenon
      <3>3. ~Under(<<n>>, <<e>>)  BY <3>2, UnderIs, Zenon
      <3>4. ~Under(<<"x">>, <<e>>)  BY <3>2, UnderIs, Zenon
      <3> QED  BY <2>2, <3>1, <3>3, <3>4, Zenon
    <2> QED  BY <1>1, <1>2, <2>1, <2>2, Zenon DEF Nowhere
  <1>7. place'[RootDir] = <<>> /\ place'[Folder] = <<n>> /\ place'[Other] = <<"x">>
    <2>1. Moved(<<>>, p, t) = <<>> /\ Moved(<<n>>, p, t) = <<n>> /\ Moved(<<"x">>, p, t) = <<"x">>  BY <1>6, Zenon DEF Moved
    <2> QED  BY <1>1, <1>4, <2>1 DEF PlaceOK, RootDir, Folder, Other
  <1>8. Moved(p, p, t) = t
    <2>1. PICK S0 : S0 = {"a", "b", "f", "gone"}  BY Zenon
    <2>9. PICK e1 \in S0, e2 \in S0, e3 \in S0 : e1 = n /\ e2 = "f" /\ e3 = "gone"  BY <2>1, Zenon
    <2>10. <<e2>> \in Seq(S0) /\ <<e3>> \in Seq(S0) /\ <<e1, e2>> \in Seq(S0)  OBVIOUS
    <2>2. p \in Seq(S0)  BY <1>1, <1>2, <2>9, <2>10, Zenon DEF Nowhere
    <2>3. t \in Seq(S0)  BY <1>5, <2>9, <2>10, Zenon
    <2>4. Len(p) \in Nat  BY <2>2
    <2>5. SubSeq(p, Len(p) + 1, Len(p)) = <<>>  BY <2>4
    <2>6. SubSeq(p, 1, Len(p)) = p  BY <2>2
    <2>7. t \o <<>> = t  BY <2>3
    <2>8. Under(p, p)  BY <2>4, <2>6 DEF Under
    <2> QED  BY <2>5, <2>7, <2>8, Zenon DEF Moved
  <1>9. place'[File] = t  BY <1>2, <1>4, <1>8 DEF File
  <1>10. DOMAIN place' = 1..4  BY Zenon DEF PlaceOK
  <1> QED  BY <1>1, <1>5, <1>7, <1>9, <1>10, Zenon DEF PlaceOK

\* A reply: where everything is after it.
LEMMA Placed ==
    ASSUME PlaceOK, Numbered, NEW j \in running, Replies(j)
    PROVE  /\ PlaceOK'
           /\ place'[Folder] = IF MovesFolder(asks[j]) THEN <<asks[j].name>> ELSE place[Folder]
           /\ (asks[j].op = "rename" /\ asks[j].ino = File) \/ (Inside' => Inside)
  <1>1. PICK r : r = asks[j]  BY Zenon
  <1>2. r.op = "rename" =>
         \/ r.ino = Folder /\ r.into = RootDir /\ r.name \in {"a", "b"}
         \/ r.ino = File /\ r.into \in {RootDir, Folder} /\ r.name = "f"
    BY <1>1, Zenon DEF Numbered, Asked
  <1>3. CASE r.op = "rename" /\ r.ino = Folder
    <2>1. place' = [x \in DOMAIN place |-> Moved(place[x], place[Folder], Target(r))]  BY <1>1, <1>3, Zenon DEF Replies
    <2>2. r.into = RootDir /\ r.name \in {"a", "b"}  BY <1>2, <1>3 DEF Folder, File
    <2>3. Target(r) = <<r.name>>
      <3>1. Append(<<>>, r.name) = <<r.name>>  BY Joined, Zenon
      <3> QED  BY <2>2, <3>1, Zenon DEF Target, PlaceOK
    <2>4. PICK m \in {"a", "b"} : m = r.name  BY <2>2, Zenon
    <2>5. place' = [x \in DOMAIN place |-> Moved(place[x], place[Folder], <<m>>)]  BY <2>1, <2>3, <2>4, Zenon
    <2>6. PlaceOK' /\ place'[Folder] = <<m>> /\ (Inside' => Inside)  BY <2>5, FolderMoved, Zenon
    <2> QED  BY <1>1, <1>3, <2>4, <2>6, Zenon DEF MovesFolder
  <1>4. CASE r.op = "rename" /\ r.ino = File
    <2>1. place' = [x \in DOMAIN place |-> Moved(place[x], place[File], Target(r))]  BY <1>1, <1>4, Zenon DEF Replies
    <2>2. PICK into \in {RootDir, Folder} : into = r.into /\ r.name = "f"  BY <1>2, <1>4 DEF Folder, File
    <2>3. place' = [x \in DOMAIN place |-> Moved(place[x], place[File], Append(place[into], "f"))]
      BY <2>1, <2>2, Zenon DEF Target
    <2>4. PlaceOK' /\ place'[Folder] = place[Folder]  BY <2>3, FileMoved, Zenon
    <2>5. ~MovesFolder(asks[j])  BY <1>1, <1>4 DEF MovesFolder, Folder, File
    <2> QED  BY <1>1, <1>4, <2>4, <2>5, Zenon
  <1>5. CASE r.op # "rename" /\ place' = [place EXCEPT ![File] = Nowhere]
    <2>1. PICK n \in {"a", "b"} : place[Folder] = <<n>>  BY Zenon DEF PlaceOK
    <2>2. place'[File] = Nowhere /\ \A x \in 1..3 : place'[x] = place[x]  BY <1>5 DEF PlaceOK, File
    <2>3. DOMAIN place' = 1..4  BY <1>5, Zenon DEF PlaceOK
    <2>4. place'[RootDir] = <<>> /\ place'[Other] = <<"x">> /\ place'[Folder] = <<n>>
      BY <2>1, <2>2 DEF PlaceOK, RootDir, Folder, Other
    <2>5. PlaceOK'  BY <2>2, <2>3, <2>4, Zenon DEF PlaceOK
    <2>6. Nowhere # <<n, "f">>  BY Zenon DEF Nowhere
    <2>7. ~Inside'  BY <2>2, <2>4, <2>6 DEF Inside
    <2> QED  BY <1>1, <1>5, <2>1, <2>4, <2>5, <2>7, Zenon DEF MovesFolder
  <1>6. CASE r.op # "rename" /\ place' = place
    BY <1>1, <1>6, Zenon DEF PlaceOK, Inside, MovesFolder
  <1> QED  BY <1>1, <1>2, <1>3, <1>4, <1>5, <1>6, Zenon DEF Replies

\* A reply moves nothing that another request is on.
LEMMA RepliesStep == ASSUME DispatchInv, NEW j \in running, Replies(j) PROVE DispatchInv'
  <1> USE DEF DispatchInv
  <1>1. /\ j \notin answered /\ answered' = answered \cup {j} /\ last' = last /\ live' = live /\ running' = running
        /\ asks' = asks /\ moving' = moving
    BY Zenon DEF Replies
  <1>2. PlaceOK'  BY Placed, Zenon
  <1>3. place'[Folder] = IF MovesFolder(asks[j]) THEN <<asks[j].name>> ELSE place[Folder]  BY Placed, Zenon
  <1>4. (asks[j].op = "rename" /\ asks[j].ino = File) \/ (Inside' => Inside)  BY Placed, Zenon
  <1>5. j \in DOMAIN asks  BY Zenon DEF Numbered
  <1>6. ASSUME NEW q \in DOMAIN asks, q # j, asks[q].op = "rename", asks[j].op = "rename" PROVE FALSE
    <2>1. q \in running  BY <1>1, <1>5, <1>6, Zenon DEF OneMove, Numbered
    <2> QED  BY <1>6, <2>1, RenamesApart, Zenon
  <1>7. Numbered'  BY <1>1, Zenon DEF Numbered
  <1>8. Ordered'  BY <1>1, Zenon DEF Ordered
  <1>9. OneMove'  BY <1>1, Zenon DEF OneMove
  <1>10. Registered'
    <2>1. ASSUME NEW q \in DOMAIN asks, MovesFolder(asks[q])
          PROVE  \E m \in moving : /\ m.id = q /\ m.ino = Folder /\ m.to = <<asks[q].name>>
                                   /\ place'[Folder] = IF q \in answered' THEN m.to ELSE m.from
      <3>1. PICK m \in moving : /\ m.id = q /\ m.ino = Folder /\ m.to = <<asks[q].name>>
                               /\ place[Folder] = IF q \in answered THEN m.to ELSE m.from
        BY <2>1, Zenon DEF Registered
      <3>2. CASE q = j  BY <1>1, <1>3, <2>1, <3>1, <3>2, Zenon
      <3>3. CASE q # j
        <4>1. ~MovesFolder(asks[j])  BY <1>6, <2>1, <3>3, Zenon DEF MovesFolder
        <4> QED  BY <1>1, <1>3, <3>1, <3>3, <4>1, Zenon
      <3> QED  BY <3>2, <3>3, Zenon
    <2>2. ASSUME NEW q \in DOMAIN asks', asks'[q].op = "rename", asks'[q].ino = Folder
          PROVE  \E m \in moving' : /\ m.id = q /\ m.ino = Folder /\ m.to = <<asks'[q].name>>
                                    /\ place'[Folder] = IF q \in answered' THEN m.to ELSE m.from
      BY <1>1, <2>1, <2>2, Zenon DEF MovesFolder
    <2> QED  BY <2>2, Zenon DEF Registered, MovesFolder
  <1>11. MeetsBelow'
    <2>1. ASSUME NEW q \in DOMAIN asks, NEW i \in DOMAIN asks, MovesFolder(asks[q]), i # q,
                 NEW x \in asks[i].on, x # RootDir, Under(place'[x], place'[Folder])
          PROVE  Meet(live[i], live[q])
      <3>1. x \in 2..4  BY <2>1 DEF Numbered, Asked, RootDir
      <3>2. x = Folder \/ (x = File /\ Inside')
        <4>1. InFolder'  BY <1>2, BelowIs, PTL
        <4>2. \A y \in 2..4 : Under(place'[y], place'[Folder]) <=> y = Folder \/ (y = File /\ Inside')
          BY <4>1, Zenon DEF InFolder, Under
        <4> QED  BY <2>1, <3>1, <4>2, Zenon
      <3>3. ~(asks[j].op = "rename" /\ asks[j].ino = File)
        <4>1. asks[q].op = "rename" /\ asks[q].ino = Folder  BY <2>1, Zenon DEF MovesFolder
        <4> QED  BY <1>6, <4>1 DEF Folder, File
      <3>4. x = Folder \/ (x = File /\ Inside)  BY <1>4, <3>2, <3>3, Zenon
      <3>5. Under(place[x], place[Folder])  BY <3>1, <3>4, BelowIs, Zenon DEF InFolder
      <3>6. Below(i, q)  BY <2>1, <3>5, Zenon DEF Below, MovesFolder
      <3> QED  BY <2>1, <3>6, Zenon DEF MeetsBelow
    <2>2. ASSUME NEW q \in DOMAIN asks, NEW i \in DOMAIN asks, MovesFolder(asks[q]), i # q,
                 \E x \in asks[i].on : x # RootDir /\ Under(place'[x], place'[asks[q].ino])
          PROVE  Meet(live[i], live[q])
      <3>1. asks[q].ino = Folder  BY <2>2, Zenon DEF MovesFolder
      <3> QED  BY <2>1, <2>2, <3>1, Zenon
    <2> QED  BY <1>1, <2>2 DEF MeetsBelow, Below, MovesFolder, Under
  <1> QED  BY <1>2, <1>7, <1>8, <1>9, <1>10, <1>11, Zenon

\* A request that ends leaves the others as they were.
LEMMA EndStep == ASSUME DispatchInv, NEW j \in running, End(j) PROVE DispatchInv'
  <1> USE DEF DispatchInv
  <1>1. /\ last' = last /\ running' = running \ {j} /\ live' = [i \in DOMAIN live \ {j} |-> live[i]]
        /\ asks' = [i \in DOMAIN asks \ {j} |-> asks[i]] /\ answered' = answered \ {j}
        /\ moving' = {m \in moving : m.id # j} /\ place' = place
    BY Zenon DEF End, FinishRequest
  <1>2. /\ DOMAIN live' = DOMAIN live \ {j} /\ \A i \in DOMAIN live' : live'[i] = live[i]
        /\ DOMAIN asks' = DOMAIN asks \ {j} /\ \A i \in DOMAIN asks' : asks'[i] = asks[i]
    BY <1>1, Zenon
  <1>3. PlaceOK'  BY <1>1, Zenon DEF PlaceOK
  <1>4. Numbered'
    <2>1. \A i \in DOMAIN asks' : Asked(asks'[i], live'[i])  BY <1>2, Zenon DEF Numbered
    <2>2. DOMAIN live' \subseteq 1..last /\ DOMAIN asks' = DOMAIN live'  BY <1>2, Zenon DEF Numbered
    <2>3. answered' \subseteq running' /\ running' \subseteq DOMAIN live'  BY <1>1, <1>2, Zenon DEF Numbered
    <2> QED  BY <1>1, <2>1, <2>2, <2>3, Zenon DEF Numbered
  <1>5. Ordered'
    <2> SUFFICES ASSUME NEW i \in running', NEW s \in DOMAIN live', s < i PROVE ~Meet(live'[s], live'[i])
      BY Zenon DEF Ordered, Clear
    <2>1. i \in running /\ i \in DOMAIN live' /\ s \in DOMAIN live  BY <1>1, <1>2, Zenon DEF Numbered
    <2> QED  BY <1>2, <2>1, Zenon DEF Ordered, Clear
  <1>6. OneMove'
    <2>1. ASSUME NEW q \in DOMAIN asks', NEW i \in DOMAIN asks', asks'[i].op = "rename", asks'[q].op = "rename", i # q
          PROVE  i \in answered' \/ q \in answered'
      BY <1>1, <1>2, <2>1, Zenon DEF OneMove
    <2> QED  BY <2>1, Zenon DEF OneMove
  <1>7. Registered'
    <2>1. ASSUME NEW q \in DOMAIN asks', MovesFolder(asks'[q])
          PROVE  \E m \in moving' : /\ m.id = q /\ m.ino = Folder /\ m.to = <<asks'[q].name>>
                                    /\ place'[Folder] = IF q \in answered' THEN m.to ELSE m.from
      <3>1. q \in DOMAIN asks /\ q # j /\ asks'[q] = asks[q]  BY <1>2, <2>1, Zenon
      <3> QED  BY <1>1, <2>1, <3>1 DEF Registered
    <2> QED  BY <2>1, Zenon DEF Registered, MovesFolder
  <1>8. MeetsBelow'
    <2>1. ASSUME NEW q \in DOMAIN asks', NEW i \in DOMAIN asks', MovesFolder(asks'[q]), i # q,
                 \E x \in asks'[i].on : x # RootDir /\ Under(place[x], place[asks'[q].ino])
          PROVE  Meet(live'[i], live'[q])
      <3>1. /\ q \in DOMAIN asks /\ asks'[q] = asks[q] /\ live'[q] = live[q]
            /\ i \in DOMAIN asks /\ asks'[i] = asks[i] /\ live'[i] = live[i]
        BY <1>2, <2>1, Zenon DEF Numbered
      <3>2. Below(i, q)  BY <2>1, <3>1, Zenon DEF Below
      <3> QED  BY <2>1, <3>1, <3>2, Zenon DEF MeetsBelow
    <2> QED  BY <1>1, <2>1, Zenon DEF MeetsBelow, Below, MovesFolder
  <1> QED  BY <1>3, <1>4, <1>5, <1>6, <1>7, <1>8, Zenon

\* The invariant, from the start.
LEMMA DispatchInvariant == ASSUME Homes \subseteq {RootDir, Folder} PROVE DispatchSpec => []DispatchInv
  <1>1. DispatchInit => DispatchInv
    <2> SUFFICES ASSUME DispatchInit PROVE DispatchInv  BY Zenon
    <2>1. /\ last = 0 /\ live = [i \in {} |-> {}] /\ running = {} /\ asks = [i \in {} |-> {}]
          /\ answered = {} /\ moving = {}
      BY Zenon DEF DispatchInit, OrderInit
    <2>2. DOMAIN live = {} /\ DOMAIN asks = {}  BY <2>1, Zenon
    <2>3. PlaceOK
      <3>1. DOMAIN place = 1..4 /\ place[1] = <<>> /\ place[2] = <<"a">> /\ place[3] = <<"x">> /\ place[4] = <<"a", "f">>
        <4>1. PICK p : p = <<<<>>, <<"a">>, <<"x">>, <<"a", "f">>>>  BY Zenon
        <4>2. Len(p) = 4 /\ DOMAIN p = 1..Len(p)  BY <4>1
        <4> QED  BY <4>1, <4>2, Zenon DEF DispatchInit
      <3> QED  BY <3>1, Zenon DEF PlaceOK, RootDir, Folder, Other, File
    <2>4. Numbered  BY <2>1, <2>2, Zenon DEF Numbered
    <2>5. Ordered /\ OneMove /\ Registered /\ MeetsBelow  BY <2>1, <2>2, Zenon DEF Ordered, OneMove, Registered, MeetsBelow
    <2> QED  BY <2>3, <2>4, <2>5, Zenon DEF DispatchInv
  <1>2. DispatchInv /\ [DispatchNext]_dispatchVars => DispatchInv'
    <2> SUFFICES ASSUME DispatchInv, [DispatchNext]_dispatchVars PROVE DispatchInv'  BY Zenon
    <2>1. CASE Queue  BY <2>1, QueueStep, Zenon
    <2>2. CASE Scheduled  BY <2>2, ScheduledStep, Zenon
    <2>3. ASSUME NEW j \in running, Replies(j) PROVE DispatchInv'  BY <2>3, RepliesStep, Zenon
    <2>4. ASSUME NEW j \in running, End(j) PROVE DispatchInv'  BY <2>4, EndStep, Zenon
    <2>5. CASE UNCHANGED dispatchVars
      <3>1. PlaceOK'  BY <2>5, Zenon DEF dispatchVars, DispatchInv, PlaceOK
      <3>2. Numbered'  BY <2>5, Zenon DEF dispatchVars, DispatchInv, Numbered
      <3>3. Ordered' /\ OneMove'  BY <2>5, Zenon DEF dispatchVars, DispatchInv, Ordered, OneMove
      <3>4. Registered'  BY <2>5 DEF dispatchVars, DispatchInv, Registered
      <3>5. MeetsBelow'  BY <2>5, Zenon DEF dispatchVars, DispatchInv, MeetsBelow, Below
      <3> QED  BY <3>1, <3>2, <3>3, <3>4, <3>5, Zenon DEF DispatchInv
    <2> QED  BY <2>1, <2>2, <2>3, <2>4, <2>5, Zenon DEF DispatchNext
  <1> QED  BY <1>1, <1>2, PTL DEF DispatchSpec

\* fuse_dispatch.rs keeps a folder's rename and the requests on what is in the
\* folder in the order they came, while the file is moved between the root
\* and the folder, however many requests there are.
THEOREM RenamesKeepOrder == ASSUME Homes \subseteq {RootDir, Folder} PROVE DispatchSpec => []RenameOrdered
  <1>1. DispatchInv => RenameOrdered
    <2> SUFFICES ASSUME DispatchInv, NEW r \in DOMAIN asks, asks[r].op = "rename", asks[r].ino = Folder,
                        NEW i \in DOMAIN asks, i # r, Below(i, r)
                 PROVE  (i < r => r \notin running) /\ (r < i => i \notin running)
      BY Zenon DEF RenameOrdered
    <2>1. Meet(live[i], live[r])  BY Zenon DEF DispatchInv, MeetsBelow, MovesFolder
    <2>2. Meet(live[r], live[i])  BY <2>1, Zenon DEF Meet
    <2>3. i \in DOMAIN live /\ r \in DOMAIN live  BY Zenon DEF DispatchInv, Numbered
    <2> QED  BY <2>1, <2>2, <2>3, Zenon DEF DispatchInv, Ordered, Clear
  <1> QED  BY <1>1, DispatchInvariant, PTL
=============================================================================
