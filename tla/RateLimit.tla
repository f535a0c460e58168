----------------------------- MODULE RateLimit -----------------------------
(***************************************************************************)
(* The in-process limiter (src/app/core/rate_limit.py): a deque of call    *)
(* times per key, pruned at every call, and a sweep that drops idle keys.  *)
(* A key stands for a use of the limiter by one caller: its window and its *)
(* number of calls come with the call (a minute for runs, checkouts and    *)
(* Ciel, five for an admin's login).  Times are whole ticks of the         *)
(* monotonic clock.                                                        *)
(***************************************************************************)
EXTENDS Naturals, Sequences, FiniteSets, FiniteSetsExt

CONSTANTS
    Keys,
    MaxCalls,       \* key -> calls allowed in its window
    Window,         \* key -> length of its window
    Start,          \* the clock when the process starts
    MaxClock        \* bound: the last instant

ASSUME RateAssumption ==
    /\ MaxCalls \in [Keys -> Nat \ {0}] /\ Window \in [Keys -> Nat \ {0}]
    /\ Start \in Nat /\ MaxClock \in Nat

VARIABLES
    clock,
    hits,           \* key -> the times kept for it, <<>> when it has none
    lastSweep,
    allowed         \* history: key -> the times of all its calls that were allowed

rateVars == <<clock, hits, lastSweep, allowed>>

RateInit ==
    /\ clock = Start /\ lastSweep = 0
    /\ hits = [k \in Keys |-> <<>>]
    /\ allowed = [k \in Keys |-> <<>>]

\* _sweep_idle_keys, with the window of the key that calls.
SweepDue(w) == clock - lastSweep >= w

Swept_ByOldest(w) ==     \* mutant: a key is dropped by its oldest call
    IF ~SweepDue(w) THEN hits
    ELSE [k \in Keys |-> IF hits[k] # <<>> /\ clock - hits[k][1] < w THEN hits[k] ELSE <<>>]

Swept(w) ==
    IF ~SweepDue(w) THEN hits
    ELSE [k \in Keys |->
            IF hits[k] # <<>> /\ clock - hits[k][Len(hits[k])] < w THEN hits[k] ELSE <<>>]

\* The calls that are popped: from the oldest on, as long as they are outside the window.
Popped(times, w) == {i \in DOMAIN times : \A j \in 1..i : clock - times[j] >= w}
Recent(times, w) == SubSeq(times, Cardinality(Popped(times, w)) + 1, Len(times))

\* hit: sweep, prune, then refuse or record.
Hit(k) ==
    LET w == Window[k]  kept == Recent(Swept(w)[k], w) IN
    /\ lastSweep' = IF SweepDue(w) THEN clock ELSE lastSweep
    /\ IF Len(kept) >= MaxCalls[k]
       THEN /\ hits' = [Swept(w) EXCEPT ![k] = kept]
            /\ UNCHANGED allowed
       ELSE /\ hits' = [Swept(w) EXCEPT ![k] = Append(kept, clock)]
            /\ allowed' = [allowed EXCEPT ![k] = Append(@, clock)]
    /\ UNCHANGED clock

Tick == clock < MaxClock /\ clock' = clock + 1 /\ UNCHANGED <<hits, lastSweep, allowed>>

RateNext == Tick \/ \E k \in Keys : Hit(k)
RateSpec == RateInit /\ [][RateNext]_rateVars

-----------------------------------------------------------------------------
RateTypeOK ==
    /\ clock \in Nat /\ lastSweep \in Nat /\ lastSweep <= clock
    /\ hits \in [Keys -> Seq(Nat)] /\ allowed \in [Keys -> Seq(Nat)]

Shortest == Min({Window[k] : k \in Keys})

(* A key gets no more than its number of calls in any window, except by    *)
(* falling silent for the shortest window of all keys: the sweep of a      *)
(* shorter window drops it (core/rate_limit.py:27), as it does to an       *)
(* admin's login, whose window is five times the others'.                  *)
BurstIsBounded ==
    \A k \in Keys : \A i \in DOMAIN allowed[k] :
        LET j == i + MaxCalls[k]  times == allowed[k] IN
        (j \in DOMAIN times /\ times[j] - times[i] < Window[k]) =>
            \E m \in i .. j - 1 : times[m + 1] - times[m] >= Shortest
=============================================================================
