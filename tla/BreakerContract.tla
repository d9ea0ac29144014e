--------------------------- MODULE BreakerContract ---------------------------
(***************************************************************************)
(* What a sender may rely on from a circuit breaker, with the counters and *)
(* clocks of the implementation hidden: which calls reach the vendor in    *)
(* which phase, and what moves the breaker between phases.                 *)
(*                                                                         *)
(* "cooling" and "ready" are the two halves of the code's open state:      *)
(* before and after its timeout.  `probes' are the trial calls of the      *)
(* current half-open period.  CircuitBreaker.tla is checked and proved to  *)
(* implement this module.                                                  *)
(***************************************************************************)
EXTENDS Naturals, FiniteSets

CONSTANTS Callers,               \* the callers of Execute
          MaxHalfOpenRequests    \* the bound on trial calls

VARIABLES phase,     \* "closed", "cooling", "ready" or "half_open"
          calls,     \* callers whose call is at the vendor
          probes     \* the trial calls of the current half-open period

cvars == <<phase, calls, probes>>

Init == /\ phase = "closed"
        /\ calls = {}
        /\ probes = {}

\* A closed breaker lets every call through.
Pass(c) == /\ phase = "closed"
           /\ calls' = calls \union {c}
           /\ UNCHANGED <<phase, probes>>

\* The first trial, or one more while the bound allows it.
Probe(c) == /\ \/ phase = "ready"     /\ probes' = {c}
               \/ /\ phase = "half_open"
                  /\ Cardinality(probes) < MaxHalfOpenRequests
                  /\ probes' = probes \union {c}
            /\ phase' = "half_open"
            /\ calls' = calls \union {c}

\* Leaving the vendor: a call's end is forgotten with its trial.
Leave(c) == calls' = calls \ {c}

Succeed(c) == /\ Leave(c)
              /\ \/ /\ phase = "half_open"
                    /\ phase' = "closed"
                    /\ probes' = {}
                 \/ /\ phase # "half_open"
                    /\ UNCHANGED <<phase, probes>>

\* Only a failure starts an open period, and one that comes while the
\* breaker is open neither extends that period nor begins another.
Fail(c) == /\ Leave(c)
           /\ \/ /\ phase \in {"closed", "half_open"}
                 /\ phase' = "cooling"
                 /\ probes' = {}
              \/ /\ phase # "half_open"
                 /\ UNCHANGED <<phase, probes>>

\* The call ends without a result (its goroutine panicked).
Vanish(c) == /\ Leave(c)
             /\ probes' = probes \ {c}
             /\ UNCHANGED phase

CoolDown == /\ phase = "cooling"
            /\ phase' = "ready"
            /\ UNCHANGED <<calls, probes>>

Reset == /\ phase' = "closed"
         /\ probes' = {}
         /\ UNCHANGED calls

Next == \/ \E c \in Callers \ calls : Pass(c) \/ Probe(c)
        \/ \E c \in calls : Succeed(c) \/ Fail(c) \/ Vanish(c)
        \/ CoolDown
        \/ Reset

Spec == Init /\ [][Next]_cvars

=============================================================================
