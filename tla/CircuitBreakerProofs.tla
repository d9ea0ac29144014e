------------------------ MODULE CircuitBreakerProofs ------------------------
(***************************************************************************)
(* For every set of callers and every configuration NewCircuitBreaker      *)
(* accepts: the types, the accounting of the trial slots, the failure      *)
(* count, and the implementation of BreakerContract, panics included.      *)
(*                                                                         *)
(* TrialSlots and CountHonest are inductive together with TypeOK: IInv     *)
(* below.  The refinement and the action property follow from IInv.        *)
(***************************************************************************)
EXTENDS CircuitBreaker, FiniteSetTheorems, TLAPS

IInv == TypeOK /\ TrialSlots /\ CountHonest

(***************************************************************************)
(* Type correctness: one step for each action.                             *)
(***************************************************************************)
LEMMA TypeInit == Init => TypeOK
  BY ConfigAssumption DEF Init, TypeOK, States

LEMMA TypeAttempt ==
    ASSUME TypeOK, NEW c \in Callers, Attempt(c)
    PROVE  TypeOK'
  <1>1. CASE BeforeClosed(c)
    BY <1>1, ConfigAssumption
    DEF TypeOK, BeforeClosed, Enter, clocks, history
  <1>2. CASE BeforeOpen(c)
    BY <1>2, ConfigAssumption
    DEF TypeOK, BeforeOpen, Enter, clocks, States
  <1>3. CASE BeforeHalfOpen(c)
    BY <1>3, ConfigAssumption
    DEF TypeOK, BeforeHalfOpen, Enter, clocks
  <1>4. CASE Refuse(c)
    BY <1>4 DEF TypeOK, Refuse, counters, clocks, history
  <1> QED
    BY <1>1, <1>2, <1>3, <1>4 DEF Attempt, Admit

LEMMA TypeReturn ==
    ASSUME TypeOK, NEW c \in Callers, Return(c)
    PROVE  TypeOK'
  <1>1. CASE AfterFailure(c)
    <2> DEFINE count == AtMost(consecutiveFailures + 1, MaxFailures)
    <2>1. /\ count \in 0..MaxFailures
          /\ AtMost(streak + 1, MaxFailures) \in 0..MaxFailures
      BY ConfigAssumption DEF TypeOK, AtMost
    <2>2. CASE Trips(count) /\ openCircuit(c)
      BY <1>1, <2>1, <2>2, ConfigAssumption
      DEF AfterFailure, TypeOK, Exit, openCircuit, OutdateAllBut, States
    <2>3. CASE /\ stale' = stale \ {c}
               /\ UNCHANGED <<state, sinceOpened, halfOpenRequests, leaked>>
      BY <1>1, <2>1, <2>3, ConfigAssumption DEF AfterFailure, TypeOK, Exit
    <2> QED
      BY <1>1, <2>2, <2>3 DEF AfterFailure
  <1>2. CASE AfterSuccess(c)
    BY <1>2, ConfigAssumption
    DEF AfterSuccess, TypeOK, Exit, closeCircuit, OutdateAllBut, States, clocks
  <1> QED
    BY <1>1, <1>2 DEF Return

LEMMA TypePanic ==
    ASSUME TypeOK, NEW c \in inflight, Panic(c)
    PROVE  TypeOK'
  BY DEF Panic, TypeOK, Exit, counters, clocks

LEMMA TypeReset ==
    ASSUME TypeOK, Reset
    PROVE  TypeOK'
  BY ConfigAssumption DEF Reset, TypeOK, States, clocks

LEMMA TypeTick ==
    ASSUME TypeOK, Tick
    PROVE  TypeOK'
  <1>1. /\ AtMost(sinceOpened + 1, Timeout) \in 0..Timeout
        /\ AtMost(sinceFailure + 1, ResetTimeout + 1) \in 0..(ResetTimeout + 1)
    BY ConfigAssumption DEF TypeOK, AtMost
  <1> QED
    BY <1>1 DEF Tick, TypeOK, counters, history

LEMMA TypeNext == TypeOK /\ [Next]_vars => TypeOK'
  <1> SUFFICES ASSUME TypeOK, [Next]_vars
               PROVE  TypeOK'
    OBVIOUS
  <1>1. CASE UNCHANGED vars
    BY <1>1 DEF TypeOK, vars, counters, clocks, history
  <1>2. CASE Next
    BY <1>2, TypeAttempt, TypeReturn, TypePanic, TypeReset, TypeTick
    DEF Next, Step
  <1> QED
    BY <1>1, <1>2

\* Every reachable state has its types; in particular halfOpenRequests stays
\* within MaxHalfOpenRequests.
THEOREM TypeCorrect == Spec => []TypeOK
  BY TypeInit, TypeNext, PTL DEF Spec

(***************************************************************************)
(* The trial slots.                                                        *)
(***************************************************************************)
LEMMA TrialsFinite ==
    ASSUME TypeOK
    PROVE  /\ IsFiniteSet(CurrentTrials)
           /\ Cardinality(CurrentTrials) \in Nat
  <1>1. CurrentTrials \subseteq Callers
    BY DEF TypeOK, CurrentTrials
  <1> QED
    BY <1>1, FS_Subset, FS_CardinalityType, CallersAssumption

LEMMA SlotsAttempt ==
    ASSUME IInv, NEW c \in Callers, Attempt(c)
    PROVE  TrialSlots'
  <1> USE DEF IInv
  <1>0. c \notin inflight
    BY DEF Attempt
  <1>1. CASE BeforeClosed(c)
    BY <1>1 DEF BeforeClosed, TrialSlots, CurrentTrials, history
  <1>2. CASE BeforeOpen(c)
    <2>1. CurrentTrials' = {c}
      BY <1>0, <1>2 DEF BeforeOpen, CurrentTrials, TypeOK
    <2>2. Cardinality({c}) = 1
      BY FS_Singleton
    <2> QED
      BY <1>2, <2>1, <2>2 DEF BeforeOpen, TrialSlots
  <1>3. CASE BeforeHalfOpen(c)
    <2>1. /\ CurrentTrials' = CurrentTrials \union {c}
          /\ c \notin CurrentTrials
      BY <1>0, <1>3 DEF BeforeHalfOpen, CurrentTrials, TypeOK
    <2>2. Cardinality(CurrentTrials') = Cardinality(CurrentTrials) + 1
      BY <2>1, TrialsFinite, FS_AddElement
    <2> QED
      BY <1>3, <2>2, TrialsFinite DEF BeforeHalfOpen, TrialSlots, TypeOK
  <1>4. CASE Refuse(c)
    BY <1>4 DEF Refuse, TrialSlots, CurrentTrials, counters, history
  <1> QED
    BY <1>1, <1>2, <1>3, <1>4 DEF Attempt, Admit

LEMMA SlotsReturn ==
    ASSUME IInv, NEW c \in Callers, Return(c)
    PROVE  TrialSlots'
  <1> USE DEF IInv
  <1>1. CASE AfterFailure(c)
    <2>1. CASE openCircuit(c)
      BY <1>1, <2>1
      DEF AfterFailure, Exit, openCircuit, OutdateAllBut, TrialSlots,
          CurrentTrials, TypeOK
    <2>2. CASE /\ state # "half_open"
               /\ stale' = stale \ {c}
               /\ UNCHANGED <<state, sinceOpened, halfOpenRequests, leaked>>
      BY <1>1, <2>2 DEF AfterFailure, Exit, TrialSlots, CurrentTrials
    <2> QED
      BY <1>1, <2>1, <2>2 DEF AfterFailure, Trips
  <1>2. CASE AfterSuccess(c)
    <2>1. CASE closeCircuit(c)
      BY <1>2, <2>1
      DEF AfterSuccess, Exit, closeCircuit, OutdateAllBut, TrialSlots,
          CurrentTrials, TypeOK
    <2>2. CASE /\ state # "half_open"
               /\ stale' = stale \ {c}
               /\ UNCHANGED <<state, halfOpenRequests, leaked>>
      BY <1>2, <2>2 DEF AfterSuccess, Exit, TrialSlots, CurrentTrials
    <2> QED
      BY <1>2, <2>1, <2>2 DEF AfterSuccess
  <1> QED
    BY <1>1, <1>2 DEF Return

LEMMA SlotsPanic ==
    ASSUME IInv, NEW c \in inflight, Panic(c)
    PROVE  TrialSlots'
  <1> USE DEF IInv
  <1>1. CurrentTrials' = CurrentTrials \ {c}
    BY DEF Panic, Exit, CurrentTrials
  <1>2. CASE c \in CurrentTrials
    <2>1. Cardinality(CurrentTrials') = Cardinality(CurrentTrials) - 1
      BY <1>1, <1>2, TrialsFinite, FS_RemoveElement
    <2>2. leaked' = leaked + 1
      BY <1>2 DEF Panic
    <2> QED
      BY <1>2, <2>1, <2>2, TrialsFinite
      DEF Panic, TrialSlots, TypeOK, counters
  <1>3. CASE c \notin CurrentTrials
    <2>1. CurrentTrials' = CurrentTrials
      BY <1>1, <1>3
    <2> QED
      BY <1>3, <2>1 DEF Panic, TrialSlots, counters
  <1> QED
    BY <1>2, <1>3

LEMMA SlotsNext == IInv /\ [Next]_vars => TrialSlots'
  <1> SUFFICES ASSUME IInv, [Next]_vars
               PROVE  TrialSlots'
    OBVIOUS
  <1>1. CASE UNCHANGED vars
    BY <1>1 DEF IInv, TrialSlots, CurrentTrials, vars, counters, history
  <1>2. CASE Reset
    BY <1>2 DEF Reset, IInv, TrialSlots, CurrentTrials, TypeOK
  <1>3. CASE Tick
    BY <1>3 DEF Tick, IInv, TrialSlots, CurrentTrials, counters, history
  <1> QED
    BY <1>1, <1>2, <1>3, SlotsAttempt, SlotsReturn, SlotsPanic DEF Next, Step

(***************************************************************************)
(* The failure count.                                                      *)
(***************************************************************************)
LEMMA CountReturn ==
    ASSUME IInv, NEW c \in Callers, Return(c)
    PROVE  CountHonest'
  <1>1. CASE AfterFailure(c)
    <2> DEFINE count == AtMost(consecutiveFailures + 1, MaxFailures)
    <2>1. CASE openCircuit(c)
      BY <2>1 DEF openCircuit, CountHonest
    <2>2. CASE ~Trips(count) /\ UNCHANGED state
      <3> SUFFICES ASSUME state = "closed"
                   PROVE  /\ consecutiveFailures' <= streak'
                          /\ consecutiveFailures' < MaxFailures
        BY <2>2 DEF CountHonest
      <3>1. /\ consecutiveFailures' = count
            /\ streak' = AtMost(streak + 1, MaxFailures)
        BY <1>1 DEF AfterFailure
      <3>2. count \in 0..MaxFailures /\ count < MaxFailures
        BY <2>2, ConfigAssumption DEF Trips, IInv, TypeOK, AtMost
      <3>3. count <= AtMost(streak + 1, MaxFailures)
        BY ConfigAssumption DEF AtMost, IInv, TypeOK, CountHonest
      <3> QED
        BY <3>1, <3>2, <3>3
    <2> QED
      BY <1>1, <2>1, <2>2 DEF AfterFailure
  <1>2. CASE AfterSuccess(c)
    BY <1>2, ConfigAssumption
    DEF AfterSuccess, closeCircuit, CountHonest
  <1> QED
    BY <1>1, <1>2 DEF Return

LEMMA CountNext == IInv /\ [Next]_vars => CountHonest'
  <1> SUFFICES ASSUME IInv, [Next]_vars
               PROVE  CountHonest'
    OBVIOUS
  <1>1. CASE UNCHANGED <<state, consecutiveFailures, streak>>
    BY <1>1 DEF IInv, CountHonest
  <1>2. CASE Reset
    BY <1>2, ConfigAssumption DEF Reset, IInv, TypeOK, CountHonest
  <1>3. ASSUME NEW c \in Callers, Attempt(c)
        PROVE  CountHonest'
    <2>1. CASE BeforeClosed(c)
      BY <2>1, ConfigAssumption
      DEF BeforeClosed, history, IInv, TypeOK, CountHonest
    <2>2. CASE BeforeOpen(c)
      BY <2>2 DEF BeforeOpen, CountHonest
    <2>3. CASE BeforeHalfOpen(c)
      BY <2>3 DEF BeforeHalfOpen, CountHonest
    <2>4. CASE Refuse(c)
      BY <2>4, <1>1 DEF Refuse, counters, history
    <2> QED
      BY <1>3, <2>1, <2>2, <2>3, <2>4 DEF Attempt, Admit
  <1>4. CASE Tick
    BY <1>4, <1>1 DEF Tick, counters, history
  <1>5. ASSUME NEW c \in inflight, Panic(c)
        PROVE  CountHonest'
    BY <1>5, <1>1 DEF Panic, counters
  <1>6. CASE UNCHANGED vars
    BY <1>6, <1>1 DEF vars, counters, history
  <1> QED
    BY <1>2, <1>3, <1>4, <1>5, <1>6, CountReturn DEF Next, Step

(***************************************************************************)
(* The inductive invariant.                                                *)
(***************************************************************************)
LEMMA InvInit == Init => IInv
  BY TypeInit, ConfigAssumption
  DEF Init, IInv, TrialSlots, CountHonest, CurrentTrials

LEMMA InvNext == IInv /\ [Next]_vars => IInv'
  BY TypeNext, SlotsNext, CountNext DEF IInv

\* IInv holds in every reachable state, for any values of the constants.
THEOREM Invariance == Spec => []IInv
  BY InvInit, InvNext, PTL DEF Spec

\* The counter of trial slots is exact in every reachable state, whatever the
\* races between late results, openings, closings, resets and panics.
THEOREM SlotsExact == Spec => []TrialSlots
  <1>1. IInv => TrialSlots
    BY DEF IInv
  <1> QED
    BY <1>1, Invariance, PTL

\* A closed breaker counts only failures since the last success, and is below
\* its threshold.
THEOREM CountIsHonest == Spec => []CountHonest
  <1>1. IInv => CountHonest
    BY DEF IInv
  <1> QED
    BY <1>1, Invariance, PTL

(***************************************************************************)
(* The wait for the next trial, and the implementation of the contract.    *)
(***************************************************************************)

LEMMA LessLeft ==
    ASSUME NEW limit \in Int, NEW m \in Int, NEW n \in Int, n >= m
    PROVE  limit - n <= limit - m
  OBVIOUS

\* No step makes a breaker that stays open wait longer for its next trial.
THEOREM WaitNeverExtended == Spec => OpenPeriodNotExtended
  <1> DEFINE Wait == state = "open" /\ state' = "open"
                       => TimeUntilNextAttempt' <= TimeUntilNextAttempt
  <1>1. ASSUME IInv, [Next]_vars, state = "open", state' = "open"
        PROVE  sinceOpened' >= sinceOpened
    <2> USE DEF IInv, TypeOK
    <2>1. ASSUME UNCHANGED sinceOpened
          PROVE  sinceOpened' >= sinceOpened
      BY <1>1, <2>1
    <2>2. ASSUME NEW c \in Callers, Attempt(c)
          PROVE  sinceOpened' >= sinceOpened
      BY <1>1, <2>1, <2>2
      DEF Attempt, Admit, BeforeClosed, BeforeOpen, BeforeHalfOpen, Refuse,
          clocks
    <2>3. ASSUME NEW c \in Callers, Return(c)
          PROVE  sinceOpened' >= sinceOpened
      BY <1>1, <2>1, <2>3
      DEF Return, AfterFailure, AfterSuccess, Trips, closeCircuit, clocks
    <2>4. CASE Tick
      BY <1>1, <2>4, ConfigAssumption DEF Tick, AtMost
    <2>5. CASE \/ Reset
               \/ \E c \in inflight : Panic(c)
               \/ UNCHANGED vars
      BY <2>5, <2>1 DEF Reset, Panic, vars, clocks
    <2> QED
      BY <1>1, <2>2, <2>3, <2>4, <2>5 DEF Next, Step
  <1>2. IInv /\ [Next]_vars => [Wait]_vars
    <2>1. ASSUME IInv, [Next]_vars, state = "open", state' = "open"
          PROVE  TimeUntilNextAttempt' <= TimeUntilNextAttempt
      <3>1. sinceOpened \in Int /\ sinceOpened' \in Int /\ Timeout \in Int
        BY <2>1, InvNext, ConfigAssumption DEF IInv, TypeOK
      <3>2. sinceOpened' >= sinceOpened
        BY <1>1, <2>1
      <3>3. TimeUntilNextAttempt = Timeout - sinceOpened
        BY <2>1 DEF TimeUntilNextAttempt
      <3>4. TimeUntilNextAttempt' = Timeout - sinceOpened'
        BY <2>1 DEF TimeUntilNextAttempt
      <3> QED
        BY <3>1, <3>2, <3>3, <3>4, LessLeft
    <2> QED
      BY <2>1
  <1>3. Spec => [][Wait]_vars
    BY <1>2, Invariance, PTL DEF Spec
  <1> QED
    BY <1>3 DEF OpenPeriodNotExtended

\* Each admission is one the contract allows, to the same calls and probes.
LEMMA AttemptRefines ==
    ASSUME IInv, NEW c \in Callers, Attempt(c)
    PROVE  [Contract!Next]_(Contract!cvars)
  <1> USE DEF IInv, TypeOK
  <1>0. c \in Callers \ inflight
    BY DEF Attempt
  <1>1. CASE BeforeClosed(c)
    <2>1. Contract!Pass(c)
      BY <1>1 DEF BeforeClosed, Enter, clocks, history, CurrentTrials,
                  Contract!Pass
    <2> QED
      BY <1>0, <2>1 DEF Contract!Next
  <1>2. CASE BeforeOpen(c)
    <2>1. CurrentTrials' = {c}
      BY <1>0, <1>2 DEF BeforeOpen, CurrentTrials
    <2>2. Contract!Probe(c)
      BY <1>2, <2>1, ConfigAssumption DEF BeforeOpen, Enter, Contract!Probe
    <2> QED
      BY <1>0, <2>2 DEF Contract!Next
  <1>3. CASE BeforeHalfOpen(c)
    <2>1. CurrentTrials' = CurrentTrials \union {c}
      BY <1>0, <1>3 DEF BeforeHalfOpen, CurrentTrials
    <2>2. Contract!Cardinality(CurrentTrials) < MaxHalfOpenRequests
      <3>1. Cardinality(CurrentTrials) < MaxHalfOpenRequests
        BY <1>3, TrialsFinite, ConfigAssumption DEF BeforeHalfOpen, TrialSlots
      <3>2. Contract!Cardinality(CurrentTrials) = Cardinality(CurrentTrials)
        BY DEF Contract!Cardinality, Cardinality
      <3> QED
        BY <3>1, <3>2
    <2>3. Contract!Probe(c)
      BY <1>3, <2>1, <2>2 DEF BeforeHalfOpen, Enter, Contract!Probe
    <2> QED
      BY <1>0, <2>3 DEF Contract!Next
  <1>4. CASE Refuse(c)
    BY <1>4 DEF Refuse, clocks, history, CurrentTrials, Contract!cvars
  <1> QED
    BY <1>1, <1>2, <1>3, <1>4 DEF Attempt, Admit

\* A failure is the contract's Fail, a success its Succeed.
LEMMA ReturnRefines ==
    ASSUME IInv, NEW c \in Callers, Return(c)
    PROVE  Contract!Fail(c) \/ Contract!Succeed(c)
  <1> USE DEF IInv, TypeOK, Exit, CurrentTrials, Contract!Leave
  <1>1. CASE AfterFailure(c)
    <2>1. CASE (state = "half_open" \/ state = "closed") /\ openCircuit(c)
      <3>1. CurrentTrials' = {}
        BY <1>1, <2>1 DEF AfterFailure, openCircuit, OutdateAllBut
      <3> QED
        BY <1>1, <2>1, <3>1, ConfigAssumption
        DEF AfterFailure, openCircuit, Contract!Fail
    <2>2. CASE /\ state # "half_open"
               /\ stale' = stale \ {c}
               /\ UNCHANGED <<state, sinceOpened, halfOpenRequests, leaked>>
      <3>1. CurrentTrials = {} /\ CurrentTrials' = {}
        BY <1>1, <2>2 DEF AfterFailure, TrialSlots
      <3> QED
        BY <1>1, <2>2, <3>1 DEF AfterFailure, Contract!Fail
    <2> QED
      BY <1>1, <2>1, <2>2 DEF AfterFailure, Trips
  <1>2. CASE AfterSuccess(c)
    <2>1. CASE state = "half_open" /\ closeCircuit(c)
      <3>1. CurrentTrials' = {}
        BY <1>2, <2>1 DEF AfterSuccess, closeCircuit, OutdateAllBut
      <3> QED
        BY <1>2, <2>1, <3>1 DEF AfterSuccess, closeCircuit, Contract!Succeed
    <2>2. CASE /\ state # "half_open"
               /\ stale' = stale \ {c}
               /\ UNCHANGED <<state, halfOpenRequests, leaked>>
      <3>1. CurrentTrials = {} /\ CurrentTrials' = {}
        BY <1>2, <2>2 DEF AfterSuccess, TrialSlots
      <3> QED
        BY <1>2, <2>2, <3>1 DEF AfterSuccess, clocks, Contract!Succeed
    <2> QED
      BY <1>2, <2>1, <2>2 DEF AfterSuccess
  <1> QED
    BY <1>1, <1>2 DEF Return

LEMMA StepRefines ==
    ASSUME IInv, [Next]_vars
    PROVE  [Contract!Next]_(Contract!cvars)
  <1>1. ASSUME NEW c \in Callers, Return(c)
        PROVE  [Contract!Next]_(Contract!cvars)
    BY <1>1, ReturnRefines DEF Return, Contract!Next
  <1>2. ASSUME NEW c \in inflight, Panic(c)
        PROVE  [Contract!Next]_(Contract!cvars)
    <2>1. Contract!Vanish(c)
      BY <1>2 DEF Panic, Exit, clocks, CurrentTrials,
                  Contract!Vanish, Contract!Leave
    <2> QED
      BY <2>1 DEF Contract!Next
  <1>3. CASE Reset
    <2>1. CurrentTrials' = {}
      BY <1>3 DEF Reset, CurrentTrials, IInv, TypeOK
    <2>2. Contract!Reset
      BY <1>3, <2>1 DEF Reset, Contract!Reset
    <2> QED
      BY <2>2 DEF Contract!Next
  <1>4. CASE Tick
    <2>1. CASE state = "open" /\ sinceOpened < Timeout /\ ~(sinceOpened' < Timeout)
      <3>1. Contract!CoolDown
        BY <1>4, <2>1 DEF Tick, history, CurrentTrials, Contract!CoolDown
      <3> QED
        BY <3>1 DEF Contract!Next
    <2>2. CASE ~(state = "open" /\ sinceOpened < Timeout
                                /\ ~(sinceOpened' < Timeout))
      BY <1>4, <2>2, ConfigAssumption
      DEF Tick, AtMost, history, CurrentTrials, IInv, TypeOK, Contract!cvars
    <2> QED
      BY <2>1, <2>2
  <1>5. CASE UNCHANGED vars
    BY <1>5 DEF vars, clocks, history, CurrentTrials, Contract!cvars
  <1> QED
    BY <1>1, <1>2, <1>3, <1>4, <1>5, AttemptRefines DEF Next, Step

\* The breaker, with its counters and clocks, is an implementation of
\* BreakerContract for every number of callers.
THEOREM Refinement == Spec => ContractImplemented
  <1>1. Init => Contract!Init
    BY DEF Init, CurrentTrials, Contract!Init
  <1>2. IInv /\ [Next]_vars => [Contract!Next]_(Contract!cvars)
    BY StepRefines
  <1>3. Spec => Contract!Spec
    BY <1>1, <1>2, Invariance, PTL DEF Spec, Contract!Spec
  <1> QED
    BY <1>3 DEF ContractImplemented
=============================================================================
