------------------------------ MODULE DirPages ------------------------------
(***************************************************************************)
(* Reading a folder: readdir_common's pages, which the kernel asks for one *)
(* after the other at offsets into a listing that may be evicted, replaced *)
(* or still streaming in, and the lookups of the names it was shown, which *)
(* parent_listing answers from the same listing.                           *)
(*                                                                         *)
(* One folder; its files are numbers, listed by the server in order.       *)
(***************************************************************************)
EXTENDS Naturals, Sequences, FiniteSets, SequencesExt

CONSTANTS Names, Temps,  \* the files; those named like GIO's temporary files
          Lookups,       \* lookups under way at a time
          FirstRoom,     \* rows the kernel's smallest first buffer holds
          Holes,         \* while a lookup waits for the rest of a listing: may someone
                         \* else hear that it "failed", may it be "evicted" at once,
                         \* may it be so "slow" that the lookup gives up?
          Word,          \* 2^64, scaled down: more than any listing has rows
          MaxEdits       \* bound: changes of the folder, one of each file

VARIABLES server,    \* the files there are
          resident,  \* the cached listing, or Nothing
          stream,    \* the fetch under way: how it stands, rows received and to come
          handle,    \* the open directory and how far it was read
          shown,     \* names handed out and not removed since
          lookups,
          misled,    \* a lookup answered ENOENT for one of them
          edits      \* the files created or removed so far

pageVars == <<server, resident, stream, handle, shown, lookups, misled, edits>>

Nothing == <<0>>
NoStream == [at |-> "none", got |-> <<>>, left |-> <<>>]
Shut == [at |-> "shut", named |-> TRUE, pinned |-> Nothing, from |-> <<>>, offset |-> 0, got |-> <<>>]
NoLookup == [at |-> "idle", name |-> 0]

Rows(names) == SetToSortSeq(names, <)
Has(listing, n) == \E i \in DOMAIN listing : listing[i] = n

PagesInit ==
    /\ server \in SUBSET Names /\ resident = Nothing /\ stream = NoStream
    /\ handle = Shut /\ shown = {} /\ misled = FALSE /\ edits = {}
    /\ lookups = [l \in Lookups |-> NoLookup]

----------------------------------------------------------------------------
(* The listing. *)

StreamRow ==
    /\ stream.at = "streaming" /\ stream.left # <<>>
    /\ stream' = [stream EXCEPT !.got = Append(@, Head(stream.left)), !.left = Tail(@)]
    /\ UNCHANGED <<server, resident, handle, shown, lookups, misled, edits>>

Waiting == {l \in Lookups : lookups[l].at = "polling"}

\* That the fetch failed is told to whoever asks first; others find no fetch.
OnlyOne == Waiting = {} \/ "failed" \in Holes
StreamEnds ==
    /\ stream.at = "streaming"
    /\ \/ stream.left = <<>> /\ stream' = [stream EXCEPT !.at = "whole"]
       \/ /\ Cardinality(Waiting) <= 1 \/ "failed" \in Holes
          /\ stream' = [stream EXCEPT !.at = "failed"]
    /\ UNCHANGED <<server, resident, handle, shown, lookups, misled, edits>>

Start == stream' = [at |-> "streaming", got |-> <<>>, left |-> Rows(server)] /\ UNCHANGED resident

\* get_pending_snapshot: the first to find the fetch over ends it.
Poll ==
    /\ stream' = IF stream.at \in {"whole", "failed"} THEN NoStream ELSE stream
    /\ resident' = IF stream.at = "whole" THEN stream.got ELSE resident
Snapshot == stream.at = "whole" \/ (stream.at = "streaming" /\ stream.got # <<>>)

\* get_or_list_dir, which answers with the cached listing or the rows so far.
Served == IF resident # Nothing THEN resident ELSE stream.got
CanServe == resident # Nothing \/ Snapshot
ListMisses ==
    /\ resident = Nothing /\ ~Snapshot
    /\ IF stream.at = "none" THEN Start ELSE Poll

\* A refresh (soft_refresh_dir), and the bound on the cache.
Refreshed ==
    /\ resident # Nothing /\ resident' = Rows(server)
    /\ UNCHANGED <<server, stream, handle, shown, lookups, misled, edits>>
Evicted ==
    /\ resident # Nothing /\ resident' = Nothing
    /\ Waiting = {} \/ "evicted" \in Holes
    /\ UNCHANGED <<server, stream, handle, shown, lookups, misled, edits>>

\* Files come and go, on the server or through create() and unlink() here.
Edit(n) ==
    /\ n \notin edits /\ Cardinality(edits) < MaxEdits /\ edits' = edits \cup {n}
    /\ server' = (server \cup {n}) \ (server \cap {n})
    /\ shown' = shown \ {n}
    /\ resident' \in {resident} \cup
         (IF resident = Nothing THEN {}
          ELSE {IF n \in server THEN SelectSeq(resident, LAMBDA m : m # n)
                ELSE IF Has(resident, n) THEN resident ELSE Append(resident, n)})
    /\ UNCHANGED <<stream, handle, lookups, misled>>

----------------------------------------------------------------------------
(* readdir_common *)

opendir ==
    /\ handle.at = "shut" /\ handle' = [Shut EXCEPT !.at = "open"]
    /\ UNCHANGED <<server, resident, stream, shown, lookups, misled, edits>>
releasedir ==
    /\ handle.at \in {"open", "end"} /\ handle' = Shut
    /\ UNCHANGED <<server, resident, stream, shown, lookups, misled, edits>>

\* The folder is renamed, or the daemon restarted: the handle's snapshot is not found.
Renamed ==
    /\ handle.at # "shut" /\ handle' = [handle EXCEPT !.named = FALSE]
    /\ UNCHANGED <<server, resident, stream, shown, lookups, misled, edits>>

visible(listing) == SelectSeq(listing, LAMBDA n : n \notin Temps)
Min2(a, b) == IF a < b THEN a ELSE b
Page(listing, skip, room) == SubSeq(listing, skip + 1, Min2(Len(listing), skip + room))

\* The page at offset 0: ".", "..", and the listing, which is pinned.
Pinned_Unpinned(listing) == Nothing
Pinned(listing) == IF handle.named THEN listing ELSE Nothing
FirstPage ==
    /\ handle.at = "open" /\ CanServe
    /\ Poll
    /\ \E room \in FirstRoom..3 :
          LET listing == visible(Served)
              page == Page(listing, 0, IF room > 2 THEN room - 2 ELSE 0)
          IN  /\ handle' = [handle EXCEPT !.at = "reading", !.from = listing,
                              !.pinned = IF room < 2 THEN Nothing ELSE Pinned(listing),
                              !.offset = Min2(room, 2) + Len(page), !.got = page]
              /\ shown' = shown \cup (ToSet(page) \cap server)
    /\ UNCHANGED <<server, lookups, misled, edits>>
FirstPageWaits ==
    /\ handle.at = "open" /\ ListMisses
    /\ stream.at = "failed" => OnlyOne
    /\ UNCHANGED <<server, handle, shown, lookups, misled, edits>>

\* The next: from the pinned listing, or else from whatever is listed now.
\* The subtraction is on u64.
Skip(offset) == (offset + Word - 2) % Word
NextPage ==
    /\ handle.at = "reading"
    /\ IF handle.named /\ handle.pinned # Nothing THEN UNCHANGED <<resident, stream>> ELSE CanServe /\ Poll
    /\ LET listing == visible(IF handle.named /\ handle.pinned # Nothing THEN handle.pinned ELSE Served)
           page == IF Skip(handle.offset) >= Len(listing) THEN <<>> ELSE Page(listing, Skip(handle.offset), 1)
       IN  /\ handle' = [handle EXCEPT !.at = IF page = <<>> THEN "end" ELSE "reading",
                           !.offset = @ + Len(page), !.got = @ \o page]
           /\ shown' = shown \cup (ToSet(page) \cap server)
    /\ UNCHANGED <<server, lookups, misled, edits>>
NextPageWaits ==
    /\ handle.at = "reading" /\ ~(handle.named /\ handle.pinned # Nothing) /\ ListMisses
    /\ stream.at = "failed" => OnlyOne
    /\ UNCHANGED <<server, handle, shown, lookups, misled, edits>>

----------------------------------------------------------------------------
(* lookup, getattr *)

LookupAsks(l) ==
    /\ lookups[l].at = "idle"
    /\ \E n \in Names : lookups' = [lookups EXCEPT ![l] = [at |-> "listing", name |-> n]]
    /\ UNCHANGED <<server, resident, stream, handle, shown, misled, edits>>

Reply(l, found) ==
    /\ lookups' = [lookups EXCEPT ![l] = NoLookup]
    /\ misled' = (misled \/ (~found /\ lookups[l].name \in shown))

\* parent_listing: the name is looked for in what there is of the listing, and
\* waited for while that is not all.
Awaits_Never(l) == FALSE
Awaits(l) == resident = Nothing /\ ~Has(stream.got, lookups[l].name)
LookupLists(l) ==
    /\ lookups[l].at = "listing" /\ CanServe /\ Poll
    /\ IF Awaits(l)
       THEN lookups' = [lookups EXCEPT ![l].at = "polling"] /\ UNCHANGED misled
       ELSE Reply(l, Has(Served, lookups[l].name))
    /\ UNCHANGED <<server, handle, shown, edits>>
LookupWaits(l) ==
    /\ lookups[l].at = "listing" /\ ListMisses
    /\ stream.at = "failed" => OnlyOne
    /\ lookups' = IF stream.at = "failed" THEN [lookups EXCEPT ![l] = NoLookup] ELSE lookups
    /\ UNCHANGED <<server, handle, shown, misled, edits>>

\* Found, or the listing is whole, or there is no fetch any more, which is taken
\* for the same; PROPFIND_TIMEOUT is the limit.  A failed fetch is an error.
LookupPolls(l) ==
    /\ lookups[l].at = "polling"
    /\ \/ resident # Nothing \/ stream.at # "streaming" \/ Has(stream.got, lookups[l].name) \/ "slow" \in Holes
    /\ IF resident # Nothing THEN UNCHANGED <<resident, stream>> ELSE Poll
    /\ IF resident = Nothing /\ stream.at = "failed"
       THEN lookups' = [lookups EXCEPT ![l] = NoLookup] /\ UNCHANGED misled
       ELSE Reply(l, Has(Served, lookups[l].name))
    /\ UNCHANGED <<server, handle, shown, edits>>

PagesNext ==
    \/ StreamRow \/ StreamEnds \/ Refreshed \/ Evicted
    \/ \E n \in Names : Edit(n)
    \/ opendir \/ releasedir \/ Renamed
    \/ FirstPage \/ FirstPageWaits \/ NextPage \/ NextPageWaits
    \/ \E l \in Lookups : LookupAsks(l) \/ LookupLists(l) \/ LookupWaits(l) \/ LookupPolls(l)

PagesSpec == PagesInit /\ [][PagesNext]_pageVars

----------------------------------------------------------------------------
PagesTypeOK ==
    /\ stream.at \in {"none", "streaming", "whole", "failed"}
    /\ handle.at \in {"shut", "open", "reading", "end"}
    /\ shown \subseteq server
    /\ \A l \in Lookups : lookups[l].at \in {"idle", "listing", "polling"}

\* The pages of a handle are the listing its first page was built from, each
\* name once and in order, and the end is reported only after the last, however
\* the cached listing is replaced or evicted between two pages.
PagesExact ==
    handle.named /\ handle.at \in {"reading", "end"} =>
        /\ IsPrefix(handle.got, handle.from)
        /\ handle.at = "end" => handle.got = handle.from

\* A name a program was shown, and that nobody removed, is never denied: lookup
\* says ENOENT only of a name the whole listing does not have.
ShownIsFound == ~misled
=============================================================================
