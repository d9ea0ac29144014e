--------------------------- MODULE CircuitBreaker ---------------------------
(***************************************************************************)
(* src/circuitbreaker.go: standardCircuitBreaker, called by any number of  *)
(* goroutines at once.                                                     *)
(*                                                                         *)
(* beforeRequest and afterRequest each run under cb.mu and are one step    *)
(* each; between them the caller is at the vendor with no lock held, and   *)
(* every other caller's steps can come in between.                         *)
(*                                                                         *)
(* Time.  The code compares now-openedAt with Timeout (>=) and             *)
(* now-lastFailureTime with ResetTimeout (>).  The model keeps the two     *)
(* differences, saturated at the first value that decides the comparison,  *)
(* and Tick ages both: exact for these comparisons, and finite.            *)
(* consecutiveFailures is only compared with MaxFailures (>=) and is       *)
(* saturated there.  The totals, lastStateChange and the log are left out. *)
(*                                                                         *)
(* stale, trials, leaked and streak are history variables: no guard reads  *)
(* them.                                                                   *)
(***************************************************************************)
EXTENDS Integers, FiniteSets

CONSTANTS Callers,               \* goroutines that call Execute
          MaxFailures,           \* CircuitBreakerConfig, all > 0:
          Timeout,
          ResetTimeout,
          MaxHalfOpenRequests

\* NewCircuitBreakerWithConfig refuses any other configuration, and turns a
\* MaxHalfOpenRequests <= 0 into 1.
ASSUME ConfigAssumption ==
    /\ MaxFailures \in Nat \ {0}
    /\ Timeout \in Nat \ {0}
    /\ ResetTimeout \in Nat \ {0}
    /\ MaxHalfOpenRequests \in Nat \ {0}

ASSUME CallersAssumption == IsFiniteSet(Callers)

VARIABLES
    state,                \* cb.state
    consecutiveFailures,  \* cb.consecutiveFailures, at most MaxFailures
    halfOpenRequests,     \* cb.halfOpenRequests
    sinceOpened,          \* now - cb.openedAt, at most Timeout
    sinceFailure,         \* now - cb.lastFailureTime, at most ResetTimeout + 1
    inflight,             \* callers between beforeRequest and afterRequest
    refused,              \* callers whose last Execute the breaker refused
    trials,               \* history: calls in flight admitted as trials
    stale,                \* history: calls in flight admitted before the last
                          \*   state change
    leaked,               \* history: trials of this half-open period that
                          \*   panicked
    streak                \* history: calls that failed since one succeeded,
                          \*   at most MaxFailures

counters == <<consecutiveFailures, halfOpenRequests>>
clocks   == <<sinceOpened, sinceFailure>>
history  == <<trials, stale, leaked, streak>>
vars     == <<state, counters, clocks, inflight, refused, history>>

States == {"closed", "open", "half_open"}

AtMost(n, limit) == IF n > limit THEN limit ELSE n

\* The calls admitted as trials of the half-open period there is now.
CurrentTrials == trials \ stale

-----------------------------------------------------------------------------

\* NewCircuitBreakerWithConfig: the zero lastFailureTime and openedAt are long
\* ago.
Init == /\ state = "closed"
        /\ consecutiveFailures = 0
        /\ halfOpenRequests = 0
        /\ sinceOpened = Timeout
        /\ sinceFailure = ResetTimeout + 1
        /\ inflight = {}
        /\ refused = {}
        /\ trials = {}
        /\ stale = {}
        /\ leaked = 0
        /\ streak = 0

-----------------------------------------------------------------------------
(* beforeRequest *)

Enter(c) == /\ inflight' = inflight \union {c}
            /\ refused' = refused \ {c}

\* Closed: the failures are forgotten once the last is older than
\* ResetTimeout, here and nowhere else.
BeforeClosed(c) ==
    /\ state = "closed"
    /\ consecutiveFailures' = IF sinceFailure > ResetTimeout
                              THEN 0 ELSE consecutiveFailures
    /\ Enter(c)
    /\ UNCHANGED <<state, halfOpenRequests, clocks, history>>

\* Mutant: the timeout is not waited for.
BeforeOpenAtOnce(c) ==
    /\ state = "open"
    /\ state' = "half_open"
    /\ halfOpenRequests' = 1
    /\ Enter(c)
    /\ trials' = trials \union {c}
    /\ stale' = inflight
    /\ leaked' = 0
    /\ UNCHANGED <<consecutiveFailures, clocks, streak>>

\* Mutant: the call that finds the timeout over is let through without the
\* fallthrough that counts it.
BeforeOpenUncounted(c) ==
    /\ state = "open"
    /\ sinceOpened >= Timeout
    /\ state' = "half_open"
    /\ halfOpenRequests' = 0
    /\ Enter(c)
    /\ trials' = trials \union {c}
    /\ stale' = inflight
    /\ leaked' = 0
    /\ UNCHANGED <<consecutiveFailures, clocks, streak>>

\* Open for Timeout: half-open, and this call is its first trial.
BeforeOpen(c) ==
    /\ state = "open"
    /\ sinceOpened >= Timeout
    /\ state' = "half_open"
    /\ halfOpenRequests' = 1
    /\ Enter(c)
    /\ trials' = trials \union {c}
    /\ stale' = inflight
    /\ leaked' = 0
    /\ UNCHANGED <<consecutiveFailures, clocks, streak>>

\* Mutant: trials are counted, not bounded.
BeforeHalfOpenUnbounded(c) ==
    /\ state = "half_open"
    /\ halfOpenRequests' = halfOpenRequests + 1
    /\ Enter(c)
    /\ trials' = trials \union {c}
    /\ UNCHANGED <<state, consecutiveFailures, clocks, stale, leaked, streak>>

BeforeHalfOpen(c) ==
    /\ state = "half_open"
    /\ halfOpenRequests < MaxHalfOpenRequests
    /\ halfOpenRequests' = halfOpenRequests + 1
    /\ Enter(c)
    /\ trials' = trials \union {c}
    /\ UNCHANGED <<state, consecutiveFailures, clocks, stale, leaked, streak>>

\* ErrCircuitOpen and ErrTooManyRequests.
RefusesOpen == state = "open" /\ sinceOpened < Timeout
RefusesFull == state = "half_open" /\ halfOpenRequests >= MaxHalfOpenRequests

Refuse(c) ==
    /\ RefusesOpen \/ RefusesFull
    /\ refused' = refused \union {c}
    /\ UNCHANGED <<state, counters, clocks, inflight, history>>

Admit(c) == BeforeClosed(c) \/ BeforeOpen(c) \/ BeforeHalfOpen(c)

Attempt(c) == c \notin inflight /\ (Admit(c) \/ Refuse(c))

-----------------------------------------------------------------------------
(* afterRequest *)

Exit(c) == /\ inflight' = inflight \ {c}
           /\ trials' = trials \ {c}
           /\ UNCHANGED refused

\* What is in flight when the state changes is stale from then on.
OutdateAllBut(c) == stale' = inflight \ {c} /\ leaked' = 0

openCircuit(c) == /\ state' = "open"
                  /\ sinceOpened' = 0
                  /\ halfOpenRequests' = 0
                  /\ OutdateAllBut(c)

\* Mutant: the failures of before are kept.
closeCircuitKeepingCount(c) ==
    /\ state' = "closed"
    /\ halfOpenRequests' = 0
    /\ OutdateAllBut(c)
    /\ UNCHANGED consecutiveFailures

closeCircuit(c) == /\ state' = "closed"
                   /\ consecutiveFailures' = 0
                   /\ halfOpenRequests' = 0
                   /\ OutdateAllBut(c)

\* Mutant: every failure past the threshold opens, whatever the state.
TripsInAnyState(count) == state = "half_open" \/ count >= MaxFailures

\* Mutant: the failure of a trial is only counted.
TripsWhenClosed(count) == state = "closed" /\ count >= MaxFailures

\* Whether a failure, the failures now being count, opens the breaker.  One
\* that comes while it is open changes nothing but the count and the clock.
Trips(count) == \/ state = "half_open"
                \/ state = "closed" /\ count >= MaxFailures

AfterFailure(c) ==
    LET count == AtMost(consecutiveFailures + 1, MaxFailures)
    IN  /\ consecutiveFailures' = count
        /\ sinceFailure' = 0
        /\ streak' = AtMost(streak + 1, MaxFailures)
        /\ Exit(c)
        /\ \/ Trips(count) /\ openCircuit(c)
           \/ /\ ~Trips(count)
              /\ stale' = stale \ {c}
              /\ UNCHANGED <<state, sinceOpened, halfOpenRequests, leaked>>

\* Mutant: the success of a trial is not taken for a recovery.
AfterSuccessUnheeded(c) ==
    /\ streak' = 0
    /\ Exit(c)
    /\ consecutiveFailures' = IF state = "closed"
                              THEN 0 ELSE consecutiveFailures
    /\ stale' = stale \ {c}
    /\ UNCHANGED <<state, halfOpenRequests, clocks, leaked>>

AfterSuccess(c) ==
    /\ streak' = 0
    /\ Exit(c)
    /\ UNCHANGED clocks
    /\ \/ state = "half_open" /\ closeCircuit(c)
       \/ /\ state # "half_open"
          /\ consecutiveFailures' = IF state = "closed"
                                    THEN 0 ELSE consecutiveFailures
          /\ stale' = stale \ {c}
          /\ UNCHANGED <<state, halfOpenRequests, leaked>>

\* Execute's fn panicked: afterRequest is not deferred, so the breaker never
\* hears of the end of the call.
Panic(c) == /\ Exit(c)
            /\ stale' = stale \ {c}
            /\ leaked' = IF c \in CurrentTrials THEN leaked + 1 ELSE leaked
            /\ UNCHANGED <<state, counters, clocks, streak>>

Return(c) == c \in inflight /\ (AfterFailure(c) \/ AfterSuccess(c))

Reset == /\ state' = "closed"
         /\ consecutiveFailures' = 0
         /\ halfOpenRequests' = 0
         /\ stale' = inflight
         /\ leaked' = 0
         /\ UNCHANGED <<clocks, inflight, refused, trials, streak>>

Tick == /\ sinceOpened' = AtMost(sinceOpened + 1, Timeout)
        /\ sinceFailure' = AtMost(sinceFailure + 1, ResetTimeout + 1)
        /\ UNCHANGED <<state, counters, inflight, refused, history>>

-----------------------------------------------------------------------------

\* The steps when no fn panics, and all of them.
Step == \/ \E c \in Callers : Attempt(c)
        \/ \E c \in Callers : Return(c)
        \/ Reset
        \/ Tick

Next == Step \/ \E c \in inflight : Panic(c)

Spec == Init /\ [][Next]_vars

\* Time passes, every call ends (each vendor call has a timeout), and the
\* callers keep sending.
Fairness == /\ WF_vars(Tick)
            /\ \A c \in Callers :
                 /\ WF_vars(Return(c))
                 /\ WF_vars(Attempt(c))

FairSpec == Spec /\ Fairness

-----------------------------------------------------------------------------
(* Properties *)

TypeOK == /\ state \in States
          /\ consecutiveFailures \in 0..MaxFailures
          /\ halfOpenRequests \in 0..MaxHalfOpenRequests
          /\ sinceOpened \in 0..Timeout
          /\ sinceFailure \in 0..(ResetTimeout + 1)
          /\ inflight \subseteq Callers
          /\ refused \subseteq Callers
          /\ trials \subseteq inflight
          /\ stale \subseteq inflight
          /\ leaked \in Nat
          /\ streak \in 0..MaxFailures

\* halfOpenRequests is the number of trial slots taken: by the trials of this
\* half-open period that are at the vendor and by those that panicked, never
\* by a call of an earlier period, and at least one while half-open.  The
\* counter is never decremented: it is right because every return in half-open
\* ends the period, whichever call it is that returns.
TrialSlots ==
    IF state = "half_open"
    THEN /\ halfOpenRequests = Cardinality(CurrentTrials) + leaked
         /\ halfOpenRequests > 0
    ELSE halfOpenRequests = 0 /\ CurrentTrials = {}

\* What a closed breaker counts are failures since the last success, however
\* old the calls they come from, and it is never closed at the threshold: no
\* failure counted before the breaker last closed weighs on it, though stale
\* failures do count while it is open or half-open.
CountHonest ==
    state = "closed" => /\ consecutiveFailures <= streak
                        /\ consecutiveFailures < MaxFailures

\* While the breaker stays open, the time until the next trial never grows:
\* the failures of calls sent before it opened do not push the trial back
\* (afterRequest sets lastFailureTime, never openedAt, when open).
TimeUntilNextAttempt == IF state = "open" THEN Timeout - sinceOpened ELSE 0

OpenPeriodNotExtended ==
    [][state = "open" /\ state' = "open"
         => TimeUntilNextAttempt' <= TimeUntilNextAttempt]_vars

Contract == INSTANCE BreakerContract WITH
    phase  <- IF state # "open" THEN state
              ELSE IF sinceOpened < Timeout THEN "cooling" ELSE "ready",
    calls  <- inflight,
    probes <- CurrentTrials

\* The breaker implements BreakerContract: counting slots bounds the trials of
\* a half-open period, and the races of late results with openings, closings
\* and Reset move it between phases only as the contract lets them.
ContractImplemented == Contract!Spec

FailuresStop == <>[][~ \E c \in Callers : AfterFailure(c)]_vars

\* No slot stays lost to a panic.
TrialsReturn == <>[](leaked = 0)

\* Once the vendor answers every call, the breaker closes for good: no order of
\* stale results, trials and resets leaves it open or half-open.
Recovery == FailuresStop /\ TrialsReturn => <>[](state = "closed")

\* ... and every caller the breaker refused is let through if it tries again.
RefusedIsServed ==
    FailuresStop /\ TrialsReturn =>
        \A c \in Callers : c \in refused ~> c \notin refused

-----------------------------------------------------------------------------
(* What the documentation says, and the code does not do *)

\* types.go: "MaxHalfOpenRequests bounds concurrent trial requests while
\* half-open."  The trials of an earlier half-open period are still in flight
\* when the slots are handed out anew.
TrialsInFlightBounded ==
    state = "half_open" => Cardinality(trials) <= MaxHalfOpenRequests

\* types.go: ResetTimeout "is how long a closed breaker must go without a
\* failure before its consecutive-failure counter resets to zero."  The counter
\* is only reset when a call starts: a call that started before and fails
\* after is added to the failures of before.
OpensOnRecentFailures ==
    [][state = "closed" /\ state' = "open" /\ MaxFailures > 1
         => sinceFailure <= ResetTimeout]_vars

\* circuitbreaker.go: ErrTooManyRequests "is returned [...] when the breaker is
\* half-open and MaxHalfOpenRequests trial requests are already in flight."  A
\* trial that panicked holds its slot for ever.
FullMeansTrialsInFlight ==
    RefusesFull => Cardinality(CurrentTrials) >= MaxHalfOpenRequests

=============================================================================
