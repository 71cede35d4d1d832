------------------------------ MODULE Backoff -------------------------------
(***************************************************************************)
(* backoff.rs, as note_listing_outcome and its callers use it: a cooldown  *)
(* per directory whose listing the server failed, and a breaker over all   *)
(* answers.  One directory; time passes in ticks.                          *)
(***************************************************************************)
EXTENDS Integers, Sequences, FiniteSets

CONSTANTS BaseCooldown, MaxCooldown,          \* of a directory
          Window, TripErrors, TripMinSamples, \* of the breaker
          OpenBase, OpenMax, MaxSamples,
          MaxInstant, MaxAnswers              \* bounds

ASSUME BackoffAssumption ==
    /\ {BaseCooldown, MaxCooldown, Window, OpenBase, OpenMax, MaxSamples} \subseteq Nat
    /\ TripErrors \in Nat \ {0} /\ TripMinSamples \in Nat \ {0}

VARIABLES instant,
          cooling,  \* the directory's Failure
          breaker,  \* BreakerState
          asked,    \* listings of the directory under way
          answers,  \* answers so far
          badAt     \* when the server last answered with an error, or 0

backoffVars == <<instant, cooling, breaker, asked, answers, badAt>>

NotCooling == [until |-> 0, failures |-> 0]

BackoffInit ==
    /\ instant = 1 /\ cooling = NotCooling /\ asked = 0 /\ answers = 0 /\ badAt = 0
    /\ breaker = [samples |-> <<>>, until |-> 0, trips |-> 0]

InstantPasses == instant < MaxInstant /\ instant' = instant + 1 /\ UNCHANGED <<cooling, breaker, asked, answers, badAt>>

AtMost(a, b) == IF a < b THEN a ELSE b

\* 80 % to 120 % of d, in the ticks it takes to pass.
Longest(d) == (6 * d + 4) \div 5
Jittered(d) == (4 * d + 4) \div 5 .. Longest(d)

----------------------------------------------------------------------------
is_blocked == cooling.until > instant
is_open == breaker.until > instant

\* A listing someone waits for is held back by the cooldown; one in the
\* background by the breaker too.
AskListing ==
    /\ asked < 2 /\ answers < MaxAnswers /\ ~is_blocked /\ asked' = asked + 1
    /\ UNCHANGED <<instant, cooling, breaker, answers, badAt>>

Cooldown(failures) == AtMost(BaseCooldown * 2^AtMost(failures - 1, 10), MaxCooldown)
record_failure ==
    LET failures == cooling.failures + 1
    IN  {[until |-> instant + d, failures |-> failures] : d \in Jittered(Cooldown(failures))}

Recent_All(samples) == samples
Recent(samples) ==
    LET Fits(k) == Len(samples) - k <= MaxSamples /\ (k < Len(samples) => instant - samples[k + 1].at <= Window)
        popped == CHOOSE k \in 0..Len(samples) : Fits(k) /\ \A l \in 0..Len(samples) : Fits(l) => k <= l
    IN  SubSeq(samples, popped + 1, Len(samples))
Errors(samples) == Cardinality({i \in DOMAIN samples : samples[i].error})
record(error) ==
    LET samples == Recent(Append(breaker.samples, [at |-> instant, error |-> error]))
        errors == Errors(samples)
        trip == errors >= TripErrors \/ (Len(samples) >= TripMinSamples /\ 2 * errors >= Len(samples))
    IN  IF is_open THEN {[breaker EXCEPT !.samples = samples]}
        ELSE IF trip
        THEN {[samples |-> <<>>, until |-> instant + d, trips |-> breaker.trips + 1] :
                 d \in Jittered(AtMost(OpenBase * 2^AtMost(breaker.trips, 4), OpenMax))}
        ELSE {[breaker EXCEPT !.samples = samples,
                 !.trips = IF ~error /\ errors = 0 /\ Len(samples) >= TripMinSamples THEN 0 ELSE @]}

\* note_listing_outcome
ListingAnswered ==
    /\ asked > 0 /\ asked' = asked - 1 /\ answers' = answers + 1
    /\ \/ breaker' \in record(FALSE) /\ cooling' = NotCooling /\ UNCHANGED badAt
       \/ breaker' \in record(TRUE) /\ cooling' \in record_failure /\ badAt' = instant
       \/ breaker' \in record(TRUE) /\ badAt' = instant /\ UNCHANGED cooling   \* cut short
       \/ breaker' \in record(FALSE) /\ UNCHANGED <<cooling, badAt>>           \* some other status
       \/ UNCHANGED <<breaker, cooling, badAt>>                                \* no answer
    /\ UNCHANGED instant

\* A push event names the directory, or everything.
Pushed ==
    /\ cooling # NotCooling /\ cooling' = NotCooling
    /\ UNCHANGED <<instant, breaker, asked, answers, badAt>>

BackoffNext == InstantPasses \/ AskListing \/ ListingAnswered \/ Pushed

BackoffSpec == BackoffInit /\ [][BackoffNext]_backoffVars

----------------------------------------------------------------------------
BackoffTypeOK ==
    /\ instant \in 1..MaxInstant /\ asked \in 0..2
    /\ Len(breaker.samples) <= MaxSamples

\* The mount stops holding back once the server has stopped failing: after the
\* last error the breaker is closed within its window and longest opening, and
\* the directory is asked for again within the longest cooldown.
BackoffEnds ==
    /\ instant >= badAt + Window + Longest(OpenMax) => ~is_open
    /\ instant >= badAt + Longest(MaxCooldown) => ~is_blocked
=============================================================================
