------------------------------ MODULE MCFiles -------------------------------
(***************************************************************************)
(* TLC instances of the components that keep files and folders as programs *)
(* see them.  They share no state, so a behaviour is one of one component, *)
(* named by `scene`: the components about which theorems are proved, and    *)
(* the read windows, have variables of their own; the others use v1, v2,   *)
(* ... for theirs, the rest being 0.                                       *)
(***************************************************************************)
EXTENDS ReadWindows, Throttle, FileCopies, IoModes, DocLocks, ListingStore, ChangeFeed, TLC

\* The two versions of the file the READs are of.
MCSizes == <<8, 7>>

VARIABLES scene, v1, v2, v3, v4, v5, v6, v7, v8, v9, v10, v11

ownVars == <<throttleVars, readVars, copyVars, ioVars, lockVars, storeVars, feedVars>>
otherVars == <<v1, v2, v3, v4, v5, v6, v7, v8, v9, v10, v11>>
fileVars == <<scene, ownVars, otherVars>>

\* Up to four chunks, streamed from the second on, one of them unsent at most.
Stream == INSTANCE StreamUpload WITH
    Threshold <- 1, MaxUnsent <- 1, MaxLength <- 4, MaxWrites <- 3, MaxMishaps <- 2,
    fd <- v1, stage <- v2, want <- v3, pump <- v4, sender <- v5, sniff <- v6, finish <- v7,
    dav <- v8, low <- v9, offline <- v10, mishaps <- v11

\* A folder of three names, one a temporary file, and one change of it.
Pages == INSTANCE DirPages WITH
    Names <- 1..3, Temps <- {2}, Lookups <- {"l1"}, FirstRoom <- 2, Holes <- {}, Word <- 16,
    MaxEdits <- 1,
    server <- v1, resident <- v2, stream <- v3, handle <- v4, shown <- v5, lookups <- v6,
    misled <- v7, edits <- v8

----------------------------------------------------------------------------
\* READs are interchangeable.
Symmetric == Permutations(Reads)

FilesInit ==
    /\ ThrottleInit /\ ReadInit /\ CopiesInit /\ IoInit /\ LocksInit /\ StoreInit /\ FeedInit
    /\ \/ scene = "stream" /\ Stream!StreamInit
       \/ scene = "pages" /\ Pages!PagesInit /\ v9 = 0 /\ v10 = 0 /\ v11 = 0
       \/ /\ scene \in {"read", "slots", "copies", "modes", "locks", "store", "feed"}
          /\ v1 = 0 /\ v2 = 0 /\ v3 = 0 /\ v4 = 0 /\ v5 = 0 /\ v6 = 0
          /\ v7 = 0 /\ v8 = 0 /\ v9 = 0 /\ v10 = 0 /\ v11 = 0
    /\ scene = "read" \/ listed = 0

FilesNext ==
    /\ UNCHANGED scene
    /\ \/ /\ scene = "read" /\ ReadNext
          /\ UNCHANGED <<throttleVars, copyVars, ioVars, lockVars, storeVars, feedVars, otherVars>>
       \/ /\ scene = "slots" /\ ThrottleNext
          /\ UNCHANGED <<readVars, copyVars, ioVars, lockVars, storeVars, feedVars, otherVars>>
       \/ /\ scene = "copies" /\ CopiesNext
          /\ UNCHANGED <<throttleVars, readVars, ioVars, lockVars, storeVars, feedVars, otherVars>>
       \/ /\ scene = "modes" /\ IoNext
          /\ UNCHANGED <<throttleVars, readVars, copyVars, lockVars, storeVars, feedVars, otherVars>>
       \/ /\ scene = "locks" /\ LocksNext
          /\ UNCHANGED <<throttleVars, readVars, copyVars, ioVars, storeVars, feedVars, otherVars>>
       \/ /\ scene = "store" /\ StoreNext
          /\ UNCHANGED <<throttleVars, readVars, copyVars, ioVars, lockVars, feedVars, otherVars>>
       \/ /\ scene = "feed" /\ FeedNext
          /\ UNCHANGED <<throttleVars, readVars, copyVars, ioVars, lockVars, storeVars, otherVars>>
       \/ scene = "stream" /\ Stream!StreamNext /\ UNCHANGED ownVars
       \/ scene = "pages" /\ Pages!PagesNext /\ UNCHANGED <<ownVars, v9, v10, v11>>

FilesSpec == FilesInit /\ [][FilesNext]_fileVars

----------------------------------------------------------------------------
\* Every variable of every component holds a value of its type.
FilesTypeOK ==
    /\ scene = "read" => ReadTypeOK
    /\ scene = "slots" => ThrottleTypeOK
    /\ scene = "stream" => Stream!StreamTypeOK
    /\ scene = "copies" => CopiesTypeOK
    /\ scene = "modes" => IoTypeOK
    /\ scene = "pages" => Pages!PagesTypeOK
    /\ scene = "store" => StoreTypeOK
    /\ scene = "feed" => FeedTypeOK
    /\ scene = "locks" => LocksTypeOK

\* read(): a READ is answered with the bytes at its offset, in order and of one
\* version, and short only at the end of the file, however the segments of its
\* windows arrive, break off, resume and are thrown away by seeks and closes.
ReadsExact == scene = "read" => BytesInPlace /\ ShortOnlyAtEnd /\ NotSpliced

\* No window, look-ahead, failed segment or closed handle keeps a request slot
\* or the look-ahead flag it no longer uses, and none gives a slot back twice.
NothingHeldBack == scene = "read" => SlotsConserved /\ LookaheadCleared

\* A file streamed to the server while it is written is assembled there as it
\* was written; until then each of its bytes is in the staging file or on the
\* server, and a READ beside the upload never sees a punched-out chunk.
StreamedAsWritten ==
    scene = "stream" => /\ Stream!AssembledAsWritten /\ Stream!EveryByteKept
                        /\ Stream!ReadsWhatWasWritten

\* The pages of a directory handle add up to one listing, each name once, and a
\* name a program was shown is not denied by lookup().
ListingExact == scene = "pages" => Pages!PagesExact /\ Pages!ShownIsFound
=============================================================================
