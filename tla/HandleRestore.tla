---------------------------- MODULE HandleRestore ----------------------------
(***************************************************************************)
(* One file handle a program is writing through, across restarts of the    *)
(* daemon: what handoff.log and the one-shot snapshot handoff-handles.json *)
(* record of it, and how the successor rebuilds it (write_state, rebuild). *)
(* The snapshot is exact but must only ever describe the moment of the     *)
(* hand-over it was written for; without it the successor infers.          *)
(***************************************************************************)
EXTENDS Naturals

CONSTANTS MaxWrites,    \* bound: writes, by the handle
          MaxChunks,    \* bound: chunks of a disk-low streamed upload
          MaxStops      \* bound: hand-overs, called off or not, and crashes

VARIABLES daemon,       \* "up", "paused" (scheduler quiesced), "down"
          handle,       \* OpenFile
          pump,         \* its uploader: progress, the chunk on its way, frozen
          staging,      \* its staging file: there, its identity, bytes punched out
          logged,       \* what the log says of the handle
          snapshot,     \* handoff-handles.json
          program,      \* what the program did: wrote, renamed, unlinked
          stops

handleVars == <<daemon, handle, pump, staging, logged, snapshot, program, stops>>

NoSnapshot == [there |-> FALSE]
Idle == [session |-> FALSE, punching |-> FALSE, sent |-> 0, busy |-> FALSE, frozen |-> FALSE]
NotWritten == [wrote |-> FALSE, path |-> "old", unlinked |-> FALSE]

\* open() for writing (handle_opened): a truncating open is dirty from the start.
HandleInit ==
    /\ daemon = "up" /\ stops = 0
    /\ \E truncated \in BOOLEAN :
          /\ handle = [at |-> "open", dirty |-> truncated, failed |-> FALSE, path |-> "old", unlinked |-> FALSE]
          /\ logged = [open |-> TRUE, dirty |-> truncated, id |-> 0, stream |-> FALSE,
                       path |-> "old", unlinked |-> FALSE]
          /\ program = [NotWritten EXCEPT !.wrote = truncated]
    /\ pump = Idle /\ staging = [there |-> TRUE, id |-> 0, punched |-> 0]
    /\ snapshot = NoSnapshot

Serving == daemon = "up" /\ handle.at = "open"

----------------------------------------------------------------------------
(* The handle in use. *)

\* write(): refused once the handle has failed; the staging file changes.
Write ==
    /\ Serving /\ ~handle.failed /\ staging.there /\ staging.id < MaxWrites
    /\ staging' = [staging EXCEPT !.id = @ + 1]
    /\ handle' = [handle EXCEPT !.dirty = TRUE]
    /\ program' = [program EXCEPT !.wrote = TRUE]
    /\ UNCHANGED <<daemon, pump, logged, snapshot, stops>>

\* A streamed upload opens its session, logged before any chunk is sent
\* (stream_started); an early one keeps every byte in the staging file.
StreamStarts ==
    /\ Serving /\ handle.dirty /\ ~handle.failed /\ ~pump.session /\ ~logged.stream
    /\ \E low \in BOOLEAN : pump' = [pump EXCEPT !.session = TRUE, !.punching = low]
    /\ logged' = [logged EXCEPT !.stream = TRUE]
    /\ UNCHANGED <<daemon, handle, staging, snapshot, program, stops>>

ChunkStarts ==
    /\ Serving /\ pump.session /\ ~pump.busy /\ ~pump.frozen /\ pump.sent < MaxChunks
    /\ pump' = [pump EXCEPT !.busy = TRUE]
    /\ UNCHANGED <<daemon, handle, staging, logged, snapshot, program, stops>>

\* A chunk landed: unless the session was frozen meanwhile, it counts, and a
\* disk-low upload punches it out of the staging file.
ChunkLands_Frozen ==
    /\ daemon # "down" /\ pump.busy
    /\ pump' = [pump EXCEPT !.busy = FALSE, !.sent = @ + 1]
    /\ staging' = IF pump.punching THEN [staging EXCEPT !.punched = @ + 1] ELSE staging
    /\ UNCHANGED <<daemon, handle, logged, snapshot, program, stops>>
ChunkLands ==
    /\ daemon # "down" /\ pump.busy
    /\ pump' = [pump EXCEPT !.busy = FALSE, !.sent = IF pump.frozen THEN @ ELSE @ + 1]
    /\ staging' = IF pump.punching /\ ~pump.frozen THEN [staging EXCEPT !.punched = @ + 1] ELSE staging
    /\ UNCHANGED <<daemon, handle, logged, snapshot, program, stops>>

\* handle_retargeted, handle_unlinked: written through before the reply.
Renamed ==
    /\ Serving /\ handle.path = "old"
    /\ handle' = [handle EXCEPT !.path = "new"]
    /\ logged' = [logged EXCEPT !.path = "new"]
    /\ program' = [program EXCEPT !.path = "new"]
    /\ UNCHANGED <<daemon, pump, staging, snapshot, stops>>
Unlinked ==
    /\ Serving /\ ~handle.unlinked
    /\ handle' = [handle EXCEPT !.unlinked = TRUE]
    /\ logged' = [logged EXCEPT !.unlinked = TRUE]
    /\ program' = [program EXCEPT !.unlinked = TRUE]
    /\ UNCHANGED <<daemon, pump, staging, snapshot, stops>>

----------------------------------------------------------------------------
(* Hand-over: drain_for_handover, write_handles_snapshot, undo_handover. *)

\* The scheduler stops dispatching.  Once nothing runs the exact state is
\* written; with a request still running after the budget, none is.
Drain ==
    /\ daemon = "up" /\ stops < MaxStops /\ stops' = stops + 1
    /\ daemon' = "paused"
    /\ \/ /\ pump' = [pump EXCEPT !.frozen = pump.session /\ pump.punching]
          /\ snapshot' = IF handle.at = "open"
                         THEN [there |-> TRUE, dirty |-> handle.dirty, failed |-> handle.failed,
                               path |-> handle.path, unlinked |-> handle.unlinked,
                               session |-> pump.session, punching |-> pump.punching, sent |-> pump.sent]
                         ELSE NoSnapshot
       \/ snapshot' = NoSnapshot /\ UNCHANGED pump
    /\ UNCHANGED <<handle, staging, logged, program>>

\* A request that was running when the drain gave up still ends.
LateWrite ==
    /\ daemon = "paused" /\ ~snapshot.there /\ handle.at = "open" /\ ~handle.failed
    /\ staging.there /\ staging.id < MaxWrites
    /\ staging' = [staging EXCEPT !.id = @ + 1]
    /\ handle' = [handle EXCEPT !.dirty = TRUE]
    /\ program' = [program EXCEPT !.wrote = TRUE]
    /\ UNCHANGED <<daemon, pump, logged, snapshot, stops>>

\* The exec failed: the snapshot goes before anything is served again, and a
\* frozen session carries on.
undo_handover_Keeps ==
    /\ daemon = "paused" /\ daemon' = "up"
    /\ pump' = [pump EXCEPT !.frozen = FALSE]
    /\ UNCHANGED <<handle, staging, logged, snapshot, program, stops>>
undo_handover ==
    /\ daemon = "paused" /\ daemon' = "up"
    /\ snapshot' = NoSnapshot
    /\ pump' = [pump EXCEPT !.frozen = FALSE]
    /\ UNCHANGED <<handle, staging, logged, program, stops>>

\* exec, or exit on SIGTERM: this image is gone, and its uploader with it.
Replaced ==
    /\ daemon = "paused" /\ daemon' = "down"
    /\ pump' = Idle
    /\ UNCHANGED <<handle, staging, logged, snapshot, program, stops>>

Crash ==
    /\ daemon # "down" /\ stops < MaxStops /\ stops' = stops + 1
    /\ daemon' = "down" /\ pump' = Idle
    /\ UNCHANGED <<handle, staging, logged, snapshot, program>>

\* The staging file is removed under a stopped daemon.
StagingGone ==
    /\ daemon = "down" /\ staging.there
    /\ staging' = [staging EXCEPT !.there = FALSE]
    /\ UNCHANGED <<daemon, handle, pump, logged, snapshot, program, stops>>

----------------------------------------------------------------------------
(* Restore. *)

\* write_state without a snapshot: written since it was opened iff the staging
\* file changed; a session's progress is not known, so its handle fails.
Inferred_LoggedOnly == [at |-> "open", dirty |-> logged.dirty \/ logged.stream, failed |-> logged.stream,
             path |-> logged.path, unlinked |-> logged.unlinked]
Inferred == [at |-> "open", dirty |-> logged.dirty \/ staging.id # logged.id \/ logged.stream,
             failed |-> logged.stream, path |-> logged.path, unlinked |-> logged.unlinked]

\* write_state with one: taken over as it stands, an early upload dropped.
Exact == [at |-> "open", dirty |-> snapshot.dirty, failed |-> snapshot.failed,
          path |-> snapshot.path, unlinked |-> snapshot.unlinked]
Resumed == IF snapshot.session /\ snapshot.punching
           THEN [Idle EXCEPT !.session = TRUE, !.punching = TRUE, !.sent = snapshot.sent]
           ELSE Idle

\* load, overlay, rebuild, apply: the snapshot is used once.
Restore ==
    /\ daemon = "down" /\ daemon' = "up"
    /\ snapshot' = NoSnapshot
    /\ IF ~logged.open \/ handle.at = "lost" THEN UNCHANGED <<handle, pump>>
       ELSE IF ~staging.there THEN handle' = [handle EXCEPT !.at = "lost"] /\ pump' = Idle
       ELSE IF snapshot.there THEN handle' = Exact /\ pump' = Resumed
       ELSE handle' = Inferred /\ pump' = Idle
    /\ UNCHANGED <<staging, logged, program, stops>>

\* release() (handle_released): the record is closed.  A failed handle or a
\* lost one reported EIO on its close.
Release ==
    /\ daemon = "up" /\ handle.at \in {"open", "lost"}
    /\ handle' = [handle EXCEPT !.at = "closed"]
    /\ logged' = [logged EXCEPT !.open = FALSE]
    /\ pump' = Idle
    /\ UNCHANGED <<daemon, staging, snapshot, program, stops>>

HandleNext ==
    \/ Write \/ StreamStarts \/ ChunkStarts \/ ChunkLands \/ Renamed \/ Unlinked
    \/ Drain \/ LateWrite \/ undo_handover \/ Replaced \/ Crash \/ StagingGone
    \/ Restore \/ Release

HandleSpec == HandleInit /\ [][HandleNext]_handleVars

----------------------------------------------------------------------------
HandleTypeOK ==
    /\ daemon \in {"up", "paused", "down"}
    /\ handle.at \in {"open", "lost", "closed"}
    /\ pump.sent \in 0..MaxChunks /\ staging.punched \in 0..MaxChunks
    /\ staging.id \in 0..MaxWrites

\* A handle the program wrote through is dirty, failing or lost in whichever
\* daemon serves it, and it commits to the file the program means: a close
\* that uploads nothing never reports success for bytes that were written.
WrittenNotForgotten ==
    daemon = "up" /\ handle.at = "open" =>
        /\ program.wrote => handle.dirty \/ handle.failed
        /\ handle.path = program.path /\ handle.unlinked = program.unlinked

\* Bytes a disk-low upload punched out of the staging file are bytes its
\* session counts as sent, whatever chunk was on its way when the hand-over
\* froze it or a daemon died; otherwise the handle fails rather than assemble
\* holes into the file.
PunchedIsSent ==
    daemon = "up" /\ handle.at = "open" /\ ~handle.failed =>
        staging.punched <= IF pump.session THEN pump.sent ELSE 0

\* A handle that crossed restarts still knows that it was written through and
\* where to, and bytes punched out of its staging file count as sent.
HandlesKept == WrittenNotForgotten /\ PunchedIsSent
=============================================================================
