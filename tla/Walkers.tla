------------------------------ MODULE Walkers -------------------------------
(***************************************************************************)
(* walkers.rs: the token bucket each process has for listings that are not *)
(* cached, for a process that reads folders with several threads.  Time    *)
(* passes in ticks.                                                        *)
(***************************************************************************)
EXTENDS Integers, FiniteSets

CONSTANTS Burst, Refill, MaxWait, \* tokens at most, per tick; the longest wait
          Threads,                \* of the process
          MaxNow                  \* bound

ASSUME WalkAssumption ==
    /\ Burst \in Nat \ {0} /\ Refill \in Nat \ {0} /\ MaxWait \in Nat /\ MaxNow \in Nat
    /\ IsFiniteSet(Threads)

VARIABLES now,
          bucket,   \* the process's Requester
          waits,    \* per thread, until when its listing is held back
          fetched   \* listings the process was let through to

walkVars == <<now, bucket, waits, fetched>>

Free == -1
fresh == [tokens |-> Burst, at |-> now, since |-> now]

WalkInit ==
    /\ now = 1 /\ bucket = fresh /\ fetched = 0
    /\ waits = [t \in Threads |-> Free]

Later == now < MaxNow /\ now' = now + 1 /\ UNCHANGED <<bucket, waits, fetched>>

Least(a, b) == IF a < b THEN a ELSE b

\* note_uncached: a token, or the wait for one, which is taken in advance.
Refilled_Twice == Least(bucket.tokens + (now - bucket.since) * Refill, Burst)
Refilled == Least(bucket.tokens + (now - bucket.at) * Refill, Burst)
note_uncached(t) ==
    /\ waits[t] = Free
    /\ bucket' = [bucket EXCEPT !.tokens = Refilled - 1, !.at = now]
    /\ waits' = [waits EXCEPT ![t] =
         now + (IF Refilled >= 1 THEN 0 ELSE Least((1 - Refilled + Refill - 1) \div Refill, MaxWait))]
    /\ UNCHANGED <<now, fetched>>
Fetch(t) ==
    /\ waits[t] # Free /\ waits[t] <= now
    /\ waits' = [waits EXCEPT ![t] = Free] /\ fetched' = fetched + 1
    /\ UNCHANGED <<now, bucket>>

\* The pid is another process's now, as its start time tells, or the process
\* was forgotten over MAX_TRACKED others: it has a fresh bucket.
PidReused ==
    /\ \A t \in Threads : waits[t] = Free
    /\ bucket' = fresh /\ fetched' = 0
    /\ UNCHANGED <<now, waits>>

WalkNext ==
    \/ Later
    \/ \E t \in Threads : note_uncached(t) \/ Fetch(t)
    \/ PidReused

WalkSpec == WalkInit /\ [][WalkNext]_walkVars

----------------------------------------------------------------------------
WalkTypeOK == now \in 1..MaxNow /\ bucket.tokens <= Burst /\ bucket.at <= now

\* A process gets no more uncached listings than its burst and its rate allow, if
\* it has too few threads for a wait to reach MAX_WAIT.
WalkerPaced == fetched <= Burst + Refill * (now - bucket.since)
=============================================================================
