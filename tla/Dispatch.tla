------------------------------ MODULE Dispatch ------------------------------
(***************************************************************************)
(* fuse_dispatch.rs: what each FUSE request is ordered on.  The dispatch   *)
(* thread works it out from the inodes' paths as they are when the request *)
(* arrives; requests then run in the order RequestOrder promises.  A       *)
(* folder's rename moves every path below it, so it has to be ordered      *)
(* against requests on inodes it does not name: those already queued (the  *)
(* busy keys below it) and those that arrive before it has run (Moves).    *)
(*                                                                         *)
(* Four inodes: the root, two folders in it, and a file that is in one of  *)
(* its Homes.  The file has one open handle.                               *)
(***************************************************************************)
EXTENDS RequestOrder, Sequences

CONSTANTS Homes,        \* the folders the file is moved between
          MaxRequests   \* bound on requests

VARIABLES place,     \* per inode, its path; Nowhere at last
          asks,      \* per unfinished request, what it asks
          answered,  \* the running requests that have sent their reply
          moving     \* the renames registered in Moves

dispatchVars == <<last, live, running, place, asks, answered, moving>>

RootDir == 1
Folder == 2
Other == 3
File == 4
Handle == 10      \* Key::Fh
Nowhere == <<"gone">>

DispatchInit ==
    /\ OrderInit
    /\ place = <<<<>>, <<"a">>, <<"x">>, <<"a", "f">>>>
    /\ asks = [i \in {} |-> {}] /\ answered = {} /\ moving = {}

Under(p, q) == Len(q) <= Len(p) /\ SubSeq(p, 1, Len(q)) = q
Home == CHOOSE i \in {RootDir, Folder, Other, 0} : IF place[File] = Nowhere THEN i = 0
                                                 ELSE i # 0 /\ place[i] = SubSeq(place[File], 1, Len(place[File]) - 1)

----------------------------------------------------------------------------
(* The requests and their keys. *)

Sh == "Shared"
Ex == "Exclusive"

\* Only requests on an inode, or one of its handles: read, write and the like.
On(op, ino, keys) == [op |-> op, on |-> {ino}, locks |-> {}, ino |-> 0, into |-> 0, name |-> "", keys |-> keys]
InodeRequests ==
    {On("getattr", File, {<<File, Sh>>}), On("read", File, {<<File, Sh>>, <<Handle, Ex>>}),
     On("write", File, {<<File, Ex>>}), On("readdir", Folder, {<<Folder, Sh>>})}

\* The file's inode, if it is what parent holds under that name.
child(parent) == IF Home = parent THEN {File} ELSE {}

\* A lookup in a folder without a listing takes it for itself.
Lookup(parent, listed) ==
    [op |-> "lookup", on |-> {parent}, locks |-> {}, ino |-> 0, into |-> 0, name |-> "",
     keys |-> {<<parent, IF listed THEN Sh ELSE Ex>>} \cup {<<c, Sh>> : c \in child(parent)}]

\* create, mkdir, unlink, rmdir
entry_keys(parent) == {<<parent, Ex>>} \cup {<<c, Ex>> : c \in child(parent)}
Entry(op, parent) ==
    [op |-> op, on |-> {parent}, locks |-> {parent}, ino |-> 0, into |-> 0, name |-> "",
     keys |-> entry_keys(parent)]

\* The inodes below a moved folder that have a request queued or running.
busy_below(from, src) ==
    {<<k, Ex>> : k \in {k \in {Folder, Other, File} :
        /\ k # src /\ \E i \in DOMAIN live : k \in DOMAIN live[i]
        /\ Under(place[k], from)}}
rename_keys_Named(parent, newparent, src) == {<<parent, Ex>>, <<newparent, Ex>>, <<src, Ex>>}
rename_keys(parent, newparent, src) ==
    {<<parent, Ex>>, <<newparent, Ex>>, <<src, Ex>>} \cup busy_below(place[src], src)
Rename(src, parent, newparent, newname) ==
    [op |-> "rename", on |-> {src, parent, newparent}, locks |-> {parent, newparent},
     ino |-> src, into |-> newparent, name |-> newname,
     keys |-> rename_keys(parent, newparent, src)]

MountRequests ==
    InodeRequests
    \cup {Lookup(Folder, b) : b \in BOOLEAN}
    \cup {Entry("create", Folder)}
    \cup (IF Home = Folder THEN {Entry("unlink", Folder)} ELSE {})
    \cup {Rename(Folder, RootDir, RootDir, n) : n \in {n \in {"a", "b"} : place[Folder] # <<n>>}}
    \cup (IF Home # 0 THEN {Rename(File, Home, h, "f") : h \in Homes \ {Home}} ELSE {})

\* A request on an inode under a move that has not run, or under where it
\* goes, is queued behind it on the moved folder as well.
order_under_moves_None(keys) == keys
order_under_moves(keys) ==
    keys \cup {<<m.ino, Sh>> : m \in {m \in moving :
                 \E k \in keys : k[1] # Handle /\ (Under(place[k[1]], m.from) \/ Under(place[k[1]], m.to))}}

MergedKeys(keys) == [k \in {x[1] : x \in keys} |-> IF <<k, Ex>> \in keys THEN Ex ELSE Sh]

Target(r) == Append(place[r.into], r.name)

\* queue(): a rename is registered before it is queued.  The kernel keeps a
\* folder locked from sending a request that changes it until its reply.
Locked(i) == IF i \in answered THEN {} ELSE asks[i].locks
Queue ==
    \E r \in MountRequests :
        /\ last < MaxRequests
        /\ \A i \in DOMAIN asks : Locked(i) \cap r.locks = {}
        /\ Arrive(MergedKeys(order_under_moves(r.keys)))
        /\ asks' = [i \in DOMAIN asks \cup {last'} |-> IF i = last' THEN r ELSE asks[i]]
        /\ moving' = IF r.op # "rename" THEN moving
                    ELSE moving \cup {[id |-> last', ino |-> r.ino, from |-> place[r.ino], to |-> Target(r)]}
        /\ UNCHANGED <<place, answered>>

----------------------------------------------------------------------------
(* The bodies, as far as they move paths, and their ends. *)

Scheduled == StartClear /\ running' # running /\ UNCHANGED <<place, asks, answered, moving>>

Moved(p, from, to) == IF Under(p, from) THEN to \o SubSeq(p, Len(from) + 1, Len(p)) ELSE p
Replies(i) ==
    /\ i \in running \ answered /\ answered' = answered \cup {i}
    /\ place' = CASE asks[i].op = "rename" ->
                       [x \in DOMAIN place |-> Moved(place[x], place[asks[i].ino], Target(asks[i]))]
                  [] asks[i].op = "unlink" /\ Home # 0 -> [place EXCEPT ![File] = Nowhere]
                  [] OTHER -> place
    /\ UNCHANGED <<last, live, running, asks, moving>>

\* The task ends, and its Move with it (MoveDone).
End(i) ==
    /\ i \in answered /\ FinishRequest(i)
    /\ asks' = [j \in DOMAIN asks \ {i} |-> asks[j]]
    /\ answered' = answered \ {i}
    /\ moving' = {m \in moving : m.id # i}
    /\ UNCHANGED place

DispatchNext == Queue \/ Scheduled \/ \E i \in running : Replies(i) \/ End(i)

DispatchSpec == DispatchInit /\ [][DispatchNext]_dispatchVars

----------------------------------------------------------------------------
DispatchTypeOK ==
    /\ DOMAIN asks = DOMAIN live /\ running \subseteq DOMAIN live /\ answered \subseteq running
    /\ {m.id : m \in moving} \subseteq DOMAIN live

\* A folder is not moved under a request's feet: a request on something in the
\* folder has run before the rename if it came first, and waits for it if it
\* came later, although it names another inode (busy_keys, order_under_moves).
Below(i, r) == \E x \in asks[i].on : x # RootDir /\ Under(place[x], place[asks[r].ino])
RenameOrdered ==
    \A r \in DOMAIN asks : asks[r].op = "rename" /\ asks[r].ino = Folder =>
        \A i \in DOMAIN asks : i # r /\ Below(i, r) =>
            /\ i < r => r \notin running
            /\ r < i => i \notin running
=============================================================================
