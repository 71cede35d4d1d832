----------------------------- MODULE MountPoint -----------------------------
(***************************************************************************)
(* Starting on a mount point: what prepare_mount_point makes of a dead     *)
(* mount, a live one and a directory that is not empty, and how files that *)
(* a program saved into the bare directory after the mount went away are   *)
(* adopted: moved into the cache directory (relocate_leftovers) and queued *)
(* for upload once the filesystem exists (adopt_orphaned_files).           *)
(***************************************************************************)
EXTENDS Naturals, Sequences, FiniteSets

CONSTANTS TopFiles,    \* files that programs save, in the mount's root
          Nested,      \* and in a folder of it
          Folders,
          In,          \* the folder of a nested file
          MaxStarts,   \* bound on starts of the daemon
          MaxSaves,    \* bound on saves into the bare directory, and on the server
          MaxEntries,  \* ADOPT_MAX_FILES
          Mishaps      \* what this instance lets go wrong: "crash", "rename", "listing", "pid"

Junk == ".~lock.f#"
Root == "/"

ASSUME MountAssumption ==
    /\ In \in [Nested -> Folders] /\ Root \notin Folders /\ MaxEntries \in Nat
    /\ TopFiles \cap Nested = {} /\ (TopFiles \cup Nested) \cap Folders = {}
    /\ {Junk, "socket"} \cap (TopFiles \cup Nested \cup Folders) = {}

VARIABLES mount,      \* the mount point: "bare", "stale" (ENOTCONN), "live"
          dir,        \* what the bare directory holds
          marker,     \* last_mount_point names this path
          version,    \* per file: the last local save of it
          orphans,    \* saves <<file, version>> that are still to reach the server
          staged,     \* adopted_<pid>_<n> files in the cache directory
          toReplay,   \* the journal
          remote,     \* per path: its version on the server, Absent if none
          launch,     \* where a start is
          starts,
          clobbered   \* an upload replaced, unasked, a file that was there when it was looked for

mountVars == <<mount, dir, marker, version, orphans, staged, toReplay, remote, launch, starts, clobbered>>

Absent == 0
OrphanFiles == TopFiles \cup Nested
\* Everything a program or another tool may leave there: files, folders, an
\* editor's lock file, and something that is neither (a socket, a link).
Entries0 == OrphanFiles \cup Folders \cup {Junk, "socket"}
Parent(e) == IF e \in Nested THEN {In[e]} ELSE {}
IsDir(e) == e \in Folders
is_lock_junk(e) == e = Junk
Down == [at |-> "down", pid |-> 0, todo |-> <<>>, adopted |-> <<>>, made |-> {}, seen |-> <<>>]

MountInit ==
    /\ mount = "bare" /\ dir \in {{}} \cup {{x} : x \in TopFiles} /\ marker = FALSE
    /\ version = [x \in OrphanFiles |-> 0] /\ orphans = {}
    /\ staged = {} /\ toReplay = <<>>
    /\ remote \in {[x \in OrphanFiles \cup Folders |-> v] : v \in {Absent, 100}}
    /\ launch = Down /\ starts = 0 /\ clobbered = FALSE

----------------------------------------------------------------------------
(* The world while nothing is mounted, and the server. *)

\* A program that had the file open saves it into the directory itself.
OrphanSave(x) ==
    /\ mount = "bare" /\ marker /\ launch.at = "down" /\ version[x] < MaxSaves
    /\ dir' = dir \cup {x} \cup Parent(x) /\ version' = [version EXCEPT ![x] = @ + 1]
    /\ orphans' = {o \in orphans : ~(o[1] = x /\ x \in dir)} \cup {<<x, version[x] + 1>>}
    /\ UNCHANGED <<mount, marker, staged, toReplay, remote, launch, starts, clobbered>>
OrphanOther(e) ==
    /\ mount = "bare" /\ marker /\ launch.at = "down" /\ e \notin dir
    /\ dir' = dir \cup {e}
    /\ UNCHANGED <<mount, marker, version, orphans, staged, toReplay, remote, launch, starts, clobbered>>
SomeoneSaves(x) ==
    /\ remote[x] \in {Absent, 100}
    /\ remote' = [y \in DOMAIN remote |-> IF y = x THEN (IF remote[x] = Absent THEN 101 ELSE 102)
                                         ELSE IF y \in Parent(x) THEN 100 ELSE remote[y]]
    /\ UNCHANGED <<mount, dir, marker, version, orphans, staged, toReplay, launch, starts, clobbered>>

----------------------------------------------------------------------------
(* prepare_mount_point *)

\* scan_leftovers, in any order of the directory: a folder comes right before
\* what it holds; anything odd, or too much of it, and nothing is touched.
Scans ==
    {s \in UNION {[1..n -> dir] : n \in 0..MaxEntries} :
        /\ \A e \in dir : \E i \in DOMAIN s : s[i] = e
        /\ \A i, j \in DOMAIN s : s[i] = s[j] => i = j
        /\ \A j \in DOMAIN s : \A d \in Parent(s[j]) :
             \E i \in 1..(j - 1) : s[i] = d /\ \A k \in (i + 1)..j : d \in Parent(s[k])}
scan_refuses == "socket" \in dir \/ Cardinality(dir) > MaxEntries
Backwards_Not(s) == s
Backwards(s) == [i \in 1..Len(s) |-> s[Len(s) + 1 - i]]

StartDaemon(pid) ==
    /\ launch.at = "down" /\ starts < MaxStarts /\ starts' = starts + 1
    /\ pid # starts + 1 => "pid" \in Mishaps
    /\ mount # "live"
    /\ mount' = "bare"
    /\ \/ dir = {} /\ launch' = [Down EXCEPT !.at = "new", !.pid = pid]
       \/ dir # {} /\ (~marker \/ scan_refuses) /\ launch' = Down
       \/ /\ dir # {} /\ marker /\ ~scan_refuses
          /\ \E s \in Scans : launch' = [Down EXCEPT !.at = "relocate", !.pid = pid, !.todo = Backwards(s)]
    /\ UNCHANGED <<dir, marker, version, orphans, staged, toReplay, remote, clobbered>>

\* One entry of relocate_leftovers.  A rename onto an existing name replaces it.
relocate_one ==
    LET e == launch.todo[1]
        name == <<launch.pid, Len(launch.adopted) + 1>>
        full == IsDir(e) /\ \E x \in dir : e \in Parent(x) IN
    /\ launch.at = "relocate" /\ launch.todo # <<>>
    /\ \E fails \in {full} \cup (IF "rename" \in Mishaps /\ ~is_lock_junk(e) THEN {TRUE} ELSE {}) :
       IF fails THEN launch' = Down /\ UNCHANGED <<dir, staged>>
       ELSE /\ dir' = dir \ {e}
            /\ IF is_lock_junk(e) \/ IsDir(e)
               THEN launch' = [launch EXCEPT !.todo = Tail(@)] /\ UNCHANGED staged
               ELSE /\ staged' = {s \in staged : s.name # name}
                                   \cup {[name |-> name, file |-> e, ver |-> version[e]]}
                    /\ launch' = [launch EXCEPT !.todo = Tail(@),
                                                !.adopted = Append(@, [file |-> e, name |-> name])]
    /\ UNCHANGED <<mount, marker, version, orphans, toReplay, remote, starts, clobbered>>
Relocated ==
    /\ launch.at = "relocate" /\ launch.todo = <<>>
    /\ launch' = [launch EXCEPT !.at = "new"]
    /\ UNCHANGED <<mount, dir, marker, version, orphans, staged, toReplay, remote, starts, clobbered>>

\* NextCloudFs::new, which may fail (no login, no cache directory).
NewFs ==
    /\ launch.at = "new"
    /\ \/ launch' = [launch EXCEPT !.at = "adopt"]
       \/ (launch.adopted # <<>> => "crash" \in Mishaps) /\ launch' = Down
    /\ UNCHANGED <<mount, dir, marker, version, orphans, staged, toReplay, remote, starts, clobbered>>

----------------------------------------------------------------------------
(* adopt_orphaned_files *)

\* Each folder is listed once, unless that fails.
list_cached(d, listed) ==
    IF d \in DOMAIN launch.seen THEN launch.seen[d]
    ELSE IF listed THEN remote ELSE [x \in DOMAIN remote |-> Absent]

\* The folder it is in is queued first where the root's listing does not have
\* it, then the file, on condition of the version its folder's listing has.
\* (`had` is what was there at the time.)
adopt_one(listed) ==
    LET a == launch.adopted[1]
        folder == IF a.file \in Nested THEN In[a.file] ELSE Root
        mk == {d \in Parent(a.file) : d \notin launch.made /\ list_cached(Root, listed)[d] = Absent}
        made == launch.made \cup mk
        looked == (IF folder \in launch.made THEN {} ELSE {Root}) \cup ({folder} \ made)
        put == [op |-> "put", path |-> a.file, name |-> a.name,
                base |-> IF folder \in made THEN Absent ELSE list_cached(folder, listed)[a.file],
                had |-> list_cached(IF folder \in made THEN Root ELSE folder, TRUE)[a.file]] IN
    /\ launch.at = "adopt" /\ launch.adopted # <<>>
    /\ ~listed => "listing" \in Mishaps
    /\ launch' = [launch EXCEPT !.adopted = Tail(@), !.made = made,
         !.seen = IF listed THEN [d \in DOMAIN @ \cup looked |-> list_cached(d, TRUE)] ELSE @]
    /\ toReplay' = toReplay \o (IF mk = {} THEN <<>> ELSE <<[op |-> "mkdir", path |-> folder]>>) \o <<put>>
    /\ UNCHANGED <<mount, dir, marker, version, orphans, staged, remote, starts, clobbered>>

\* The kernel accepts the mount; the marker records it.
write_mount_marker ==
    /\ launch.at = "adopt" /\ launch.adopted = <<>>
    /\ launch' = [launch EXCEPT !.at = "serving"]
    /\ mount' = "live" /\ marker' = TRUE
    /\ UNCHANGED <<dir, version, orphans, staged, toReplay, remote, starts, clobbered>>

\* The journal's first entry is carried out (a refused upload becomes a
\* conflicted copy, which is on the server too).
ReplayFirst ==
    /\ launch.at = "serving" /\ toReplay # <<>> /\ toReplay' = Tail(toReplay)
    /\ LET q == toReplay[1] IN
       IF q.op = "mkdir"
       THEN remote' = [remote EXCEPT ![q.path] = IF @ = Absent THEN 1 ELSE @]
            /\ UNCHANGED <<orphans, staged, clobbered>>
       ELSE \E s \in staged :
              /\ s.name = q.name /\ staged' = staged \ {s}
              /\ orphans' = orphans \ {<<s.file, s.ver>>}
              /\ IF q.base # Absent /\ q.base # remote[q.path] THEN UNCHANGED <<remote, clobbered>>
                 ELSE /\ remote' = [remote EXCEPT ![q.path] = s.ver]
                      /\ clobbered' = (clobbered \/ (q.base = Absent /\ q.had >= 100))
    /\ UNCHANGED <<mount, dir, marker, version, launch, starts>>

Unmounted ==
    /\ launch.at = "serving" /\ launch' = Down /\ mount' = "bare"
    /\ UNCHANGED <<dir, marker, version, orphans, staged, toReplay, remote, starts, clobbered>>
Killed ==
    /\ launch.at # "down"
    /\ launch.adopted # <<>> \/ launch.at = "relocate" => "crash" \in Mishaps
    /\ launch' = Down /\ mount' = IF mount = "live" THEN "stale" ELSE mount
    /\ UNCHANGED <<dir, marker, version, orphans, staged, toReplay, remote, starts, clobbered>>
\* fusermount -uz by hand, after a crash.
Detached ==
    /\ mount = "stale" /\ mount' = "bare"
    /\ UNCHANGED <<dir, marker, version, orphans, staged, toReplay, remote, launch, starts, clobbered>>

MountNext ==
    \/ \E x \in OrphanFiles : OrphanSave(x) \/ SomeoneSaves(x)
    \/ \E e \in Entries0 \ OrphanFiles : OrphanOther(e)
    \/ \E p \in 1..MaxStarts : StartDaemon(p)
    \/ relocate_one \/ Relocated \/ NewFs
    \/ \E listed \in BOOLEAN : adopt_one(listed)
    \/ write_mount_marker \/ ReplayFirst \/ Unmounted \/ Killed \/ Detached

MountSpec == MountInit /\ [][MountNext]_mountVars

----------------------------------------------------------------------------
MountTypeOK ==
    /\ mount \in {"bare", "stale", "live"} /\ dir \subseteq Entries0
    /\ launch.at \in {"down", "relocate", "new", "adopt", "serving"}

\* A save that landed in the bare directory is still there, or staged with
\* the start that is adopting it or an entry of the journal naming its staged
\* file, until it is on the server: leftovers are "queued for upload", never
\* moved out of sight.
LeftoversKept ==
    \A o \in orphans :
        \/ o[1] \in dir /\ version[o[1]] = o[2]
        \/ \E s \in staged :
             /\ <<s.file, s.ver>> = o
             /\ \/ \E i \in 1..Len(launch.adopted) : launch.adopted[i].name = s.name
                \/ \E i \in 1..Len(toReplay) : toReplay[i].op = "put" /\ toReplay[i].name = s.name

\* An adopted file never replaces a version of it that was on the server when
\* its folder was listed: a change of that is a conflict, "instead of being
\* silently clobbered".
NothingClobbered == ~clobbered

\* A save into the directory under the mount is kept until it is uploaded, and
\* replaces nothing on the server that was to be seen there.
LeftoversSafe == LeftoversKept /\ NothingClobbered
=============================================================================
