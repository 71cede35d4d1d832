---------------------------- MODULE RequestOrder ----------------------------
(***************************************************************************)
(* What the FUSE request scheduler promises: requests are numbered as they *)
(* arrive, each with the keys it touches, and one runs only when no        *)
(* earlier unfinished request meets it on a key that either of them needs  *)
(* for itself.  How the scheduler finds the requests that may run (the     *)
(* per-key queues, and what complete() looks at) is not said here: module  *)
(* FuseSched is shown to implement this one, and module Dispatch builds on *)
(* it.                                                                     *)
(***************************************************************************)
EXTENDS Naturals

CONSTANT KeyLists   \* what a request may come with: functions from keys to modes

VARIABLES last,     \* the last number given out
          live,     \* per unfinished request, its keys and their modes
          running   \* the requests that were started

orderVars == <<last, live, running>>

Meet(a, b) == \E k \in DOMAIN a \cap DOMAIN b : ~(a[k] = "Shared" /\ b[k] = "Shared")

\* No earlier unfinished request stands in the way of id.
Clear(l, id) == \A s \in DOMAIN l : s < id => ~Meet(l[s], l[id])

OrderInit == last = 0 /\ live = [i \in {} |-> {}] /\ running = {}

Arrive(keys) ==
    /\ last' = last + 1
    /\ live' = [i \in DOMAIN live \cup {last + 1} |-> IF i = last + 1 THEN keys ELSE live[i]]
    /\ running' = IF Clear(live', last + 1) THEN running \cup {last + 1} ELSE running

\* Any number of waiting requests that are clear are started.
StartClear ==
    /\ \E started \in SUBSET (DOMAIN live \ running) :
         /\ \A i \in started : Clear(live, i)
         /\ running' = running \cup started
    /\ UNCHANGED <<last, live>>

FinishRequest(id) ==
    /\ id \in running /\ running' = running \ {id}
    /\ live' = [i \in DOMAIN live \ {id} |-> live[i]]
    /\ UNCHANGED last

OrderNext ==
    \/ \E keys \in KeyLists : Arrive(keys)
    \/ StartClear
    \/ \E id \in running : FinishRequest(id)

OrderSpec == OrderInit /\ [][OrderNext]_orderVars
=============================================================================
