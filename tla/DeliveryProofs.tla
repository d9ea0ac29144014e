---------------------------- MODULE DeliveryProofs ----------------------------
(***************************************************************************)
(* Theorems about Delivery, for any messages, senders, number of attempts  *)
(* and bound on trials.                                                    *)
(*                                                                         *)
(* The verdicts are not inductive by themselves: what a caller is told is  *)
(* decided by an exchange it no longer sees.  Tidy says where an exchange  *)
(* can be at all, and Grounds what each of its results, and each result of *)
(* Send, rests on.                                                         *)
(***************************************************************************)
EXTENDS Delivery, FiniteSetTheorems, TLAPS

\* An attempt not yet at the vendor has no exchange, and the vendor nothing of
\* it.
Untouched(m, i) == tx[m][i] = "none" /\ i \notin delivered[m]

Tidy == \A m \in Messages, i \in Attempts :
            i > attempt[m] \/ (i = attempt[m] /\ at[m] \in {"ready", "limits", "breaker"})
                => Untouched(m, i)

\* What the vendor has taken, given the stage of an exchange...
GroundsOfStage ==
    \A m \in Messages, i \in Attempts :
        /\ tx[m][i] \in {"talking", "permanent"} => i \notin delivered[m]
        /\ tx[m][i] \in {"taken", "ok"} => delivered[m] # {}

\* ... and given what the caller was told.
GroundsOfVerdict ==
    \A m \in Messages :
        /\ (at[m] = "returned" /\ outcome[m] = "ok") \/ at[m] = "sent"
               => delivered[m] # {}
        /\ at[m] \in {"returned", "gaveup"} /\ outcome[m] = "permanent"
               => Untouched(m, attempt[m])

\* Resend has at most one copy of a keyed message.
OneCopy ==
    sender = "resend" =>
        \A m \in Keyed : \A i, j \in delivered[m] : i = j

\* A message on its way to the vendor has had no verdict.
Undecided ==
    \A m \in Messages : at[m] \in {"ready", "limits", "breaker"}
                           => outcome[m] = "temporary"

IInv == /\ TypeOK
        /\ Undecided
        /\ TokensInOrder
        /\ BreakerKnowsCalls
        /\ OneCopy
        /\ Tidy
        /\ GroundsOfStage
        /\ GroundsOfVerdict

-----------------------------------------------------------------------------
(* Types *)

LEMMA TypeInit == Init => TypeOK
  <1> SUFFICES ASSUME Init PROVE TypeOK
    OBVIOUS
  <1>1. cancelled \in BOOLEAN
    BY Zenon DEF Init
  <1>2. 1 \in Attempts
    BY MaxAttemptsAssumption DEF Attempts
  <1>3. "none" \in Stages
    BY DEF Stages
  <1>4. tx \in [Messages -> [Attempts -> Stages]]
    BY <1>3 DEF Init
  <1>5. at \in [Messages -> Places] /\ outcome \in [Messages -> Results]
    BY DEF Init, Places, Results
  <1>6. /\ attempt \in [Messages -> Attempts]
        /\ tokens \in [Messages -> SUBSET Limiters]
        /\ delivered \in [Messages -> SUBSET Attempts]
    BY <1>2 DEF Init
  <1> QED
    BY <1>1, <1>4, <1>5, <1>6 DEF Init, Breaker!Init, TypeOK

\* The operations of the breaker keep its types.
LEMMA TypeBreaker ==
    ASSUME TypeOK, NEW m \in Messages,
           \/ Breaker!Pass(m) \/ Breaker!Probe(m)
           \/ Breaker!Fail(m) \/ Breaker!Succeed(m)
           \/ Breaker!CoolDown \/ Breaker!Reset
           \/ UNCHANGED breaker
    PROVE  /\ phase' \in {"closed", "cooling", "ready", "half_open"}
           /\ calls' \subseteq Messages
           /\ probes' \subseteq Messages
  BY DEF TypeOK, breaker, Breaker!Pass, Breaker!Probe, Breaker!Fail,
         Breaker!Succeed, Breaker!Leave, Breaker!CoolDown, Breaker!Reset

\* Setting one message's entry keeps a function's type.
LEMMA Updated ==
    ASSUME NEW f, NEW S, NEW v \in S, NEW m \in Messages, f \in [Messages -> S]
    PROVE  [f EXCEPT ![m] = v] \in [Messages -> S]
  OBVIOUS

LEMMA TypeStage ==
    ASSUME TypeOK, NEW m \in Messages, NEW i \in Attempts, NEW stage \in Stages,
           Stage(m, i, stage)
    PROVE  tx' \in [Messages -> [Attempts -> Stages]]
  BY DEF TypeOK, Stage

LEMMA TypeReturns ==
    ASSUME TypeOK, NEW m \in Messages, NEW result \in Results,
           SendReturns(m, result)
    PROVE  /\ at' \in [Messages -> Places]
           /\ outcome' \in [Messages -> Results]
           /\ tokens' \in [Messages -> SUBSET Limiters]
  BY DEF TypeOK, SendReturns, Go, Places

\* Steps of a message's own goroutine.
LEMMA TypeProgress ==
    ASSUME TypeOK, NEW m \in Messages, Progress(m)
    PROVE  TypeOK'
  <1> attempt[m] \in Attempts /\ at[m] \in Places /\ outcome[m] \in Results
    BY DEF TypeOK
  <1>1. CASE Prepare(m)
    <2>1. /\ at' \in [Messages -> Places]
          /\ outcome' \in [Messages -> Results]
          /\ tokens' \in [Messages -> SUBSET Limiters]
      <3>1. CASE \E result \in Results : SendReturns(m, result)
        BY <3>1, TypeReturns
      <3>2. CASE Go(m, "limits") /\ UNCHANGED <<tokens, outcome>>
        BY <3>2 DEF Go, TypeOK, Places
      <3> QED
        BY <1>1, <3>1, <3>2 DEF Prepare, Results
    <2> QED
      BY <1>1, <2>1 DEF Prepare, TypeOK, breaker, vendor
  <1>2. CASE CheckRateLimit(m)
    <2>1. /\ at' \in [Messages -> Places]
          /\ outcome' \in [Messages -> Results]
          /\ tokens' \in [Messages -> SUBSET Limiters]
      <3>1. CASE SendReturns(m, "temporary")
        BY <3>1, TypeReturns DEF Results
      <3>2. CASE ~SendReturns(m, "temporary")
        <4>1. NextLimiter(m) \in Limiters
          BY DEF NextLimiter, FirstLimiter, Limiters
        <4>2. tokens[m] \union {NextLimiter(m)} \in SUBSET Limiters
          BY <4>1 DEF TypeOK
        <4>3. /\ tokens' = [tokens EXCEPT ![m] = tokens[m] \union {NextLimiter(m)}]
              /\ outcome' = outcome
              /\ Go(m, IF tokens[m] = {} THEN "limits" ELSE "breaker")
          BY <1>2, <3>2 DEF CheckRateLimit
        <4>4. tokens' \in [Messages -> SUBSET Limiters]
          BY <4>2, <4>3, Updated DEF TypeOK
        <4> QED
          BY <4>3, <4>4 DEF Go, TypeOK, Places
      <3> QED
        BY <3>1, <3>2
    <2> QED
      BY <1>2, <2>1 DEF CheckRateLimit, TypeOK, breaker, vendor
  <1>3. CASE Execute(m)
    <2>1. CASE SendReturns(m, "temporary") /\ UNCHANGED <<breaker, tx>>
      BY <1>3, <2>1, TypeReturns DEF Execute, TypeOK, breaker, Results
    <2>2. CASE /\ Breaker!Pass(m) \/ Breaker!Probe(m)
               /\ Stage(m, attempt[m], "talking")
               /\ Go(m, "vendor")
               /\ UNCHANGED <<tokens, outcome>>
      <3>1. tx' \in [Messages -> [Attempts -> Stages]]
        BY <2>2, TypeStage DEF Stages
      <3>2. at' \in [Messages -> Places]
        BY <2>2 DEF Go, TypeOK, Places
      <3> QED
        BY <1>3, <2>2, <3>1, <3>2, TypeBreaker DEF Execute, TypeOK
    <2> QED
      BY <1>3, <2>1, <2>2 DEF Execute, Stage
  <1>4. CASE Receive(m) \/ StopWaiting(m)
    <2>1. PICK result \in Results : Finish(m, result) /\ Forget(m)
      BY <1>4 DEF Receive, StopWaiting, Results
    <2>2. tx' \in [Messages -> [Attempts -> Stages]]
      BY <2>1, TypeStage DEF Forget, TypeOK, Stages
    <2> QED
      BY <2>1, <2>2, TypeReturns, TypeBreaker DEF Finish, TypeOK
  <1>5. CASE Decide(m)
    <2>1. attempt' \in [Messages -> Attempts]
      <3>1. CASE attempt' = attempt
        BY <3>1 DEF TypeOK
      <3>2. CASE TriesAgain(m) /\ attempt' = [attempt EXCEPT ![m] = attempt[m] + 1]
        <4>1. attempt[m] + 1 \in Attempts
          BY <3>2, MaxAttemptsAssumption DEF TriesAgain, Attempts
        <4> QED
          BY <3>2, <4>1, Updated DEF TypeOK
      <3> QED
        BY <1>5, <3>1, <3>2 DEF Decide
    <2>2. at' \in [Messages -> Places]
      BY <1>5 DEF Decide, Go, TypeOK, Places
    <2> QED
      BY <1>5, <2>1, <2>2 DEF Decide, TypeOK, breaker, vendor
  <1> QED
    BY <1>1, <1>2, <1>3, <1>4, <1>5 DEF Progress

LEMMA TypeExchange ==
    ASSUME TypeOK, NEW m \in Messages, NEW i \in Attempts, Exchange(m, i)
    PROVE  TypeOK'
  <1>1. PICK stage \in Stages : Stage(m, i, stage)
    BY DEF Exchange, Take, Refuse, Confirm, LoseReply, Ends, Stages, Results
  <1>2. tx' \in [Messages -> [Attempts -> Stages]]
    BY <1>1, TypeStage
  <1>3. delivered' \in [Messages -> SUBSET Attempts]
    BY DEF Exchange, Take, Refuse, Confirm, LoseReply, TypeOK
  <1>4. VendorOnly
    BY DEF Exchange, Take, Refuse, Confirm, LoseReply
  <1> QED
    BY <1>2, <1>3, <1>4 DEF VendorOnly, TypeOK, breaker

LEMMA TypeNext == TypeOK /\ [Next]_vars => TypeOK'
  <1> SUFFICES ASSUME TypeOK, [Next]_vars PROVE TypeOK'
    OBVIOUS
  <1>1. CASE Cancel
    <2>1. cancelled' \in BOOLEAN
      BY <1>1, Zenon DEF Cancel
    <2> QED
      BY <1>1, <2>1 DEF Cancel, TypeOK, breaker, vendor
  <1>2. CASE BreakerMoves
    BY <1>2 DEF BreakerMoves, TypeOK, vendor, Breaker!CoolDown, Breaker!Reset
  <1>3. CASE UNCHANGED vars
    BY <1>3 DEF vars, TypeOK, breaker, vendor
  <1> QED
    BY <1>1, <1>2, <1>3, TypeProgress, TypeExchange DEF Next

\* Every reachable state has its types; no message is tried more than
\* MaxAttempts times (sendWithRetry).
THEOREM TypeCorrect == Spec => []TypeOK
  <1> QED
    BY TypeInit, TypeNext, PTL DEF Spec

-----------------------------------------------------------------------------
(* The limiters and the breaker *)

LEMMA TokensProgress ==
    ASSUME TypeOK, TokensInOrder, NEW m \in Messages, Progress(m)
    PROVE  TokensInOrder'
  <1>0. tokens[m] \subseteq Limiters
    BY DEF TypeOK
  <1> DEFINE InOrder(n) == /\ "channel" \in tokens[n] => "recipient" \in tokens[n]
                           /\ at[n] \in {"breaker", "vendor"} => tokens[n] = Limiters
  <1>1. \A n \in Messages : n # m => at'[n] = at[n] /\ tokens'[n] = tokens[n]
    BY DEF Progress, Prepare, CheckRateLimit, Execute, Receive, StopWaiting,
           Decide, Finish, SendReturns, Go, TypeOK
  <1>2. ASSUME NEW result, SendReturns(m, result)
        PROVE  InOrder(m)'
    BY <1>2 DEF SendReturns, Go, TypeOK
  <1> SUFFICES InOrder(m)'
    BY <1>1 DEF TokensInOrder
  <1>3. CASE Prepare(m)
    BY <1>2, <1>3 DEF Prepare, Go, TypeOK, TokensInOrder
  <1>4. CASE CheckRateLimit(m)
    <2>1. CASE SendReturns(m, "temporary")
      BY <1>2, <2>1
    <2>2. CASE ~SendReturns(m, "temporary")
      <3>1. /\ tokens'[m] = tokens[m] \union {NextLimiter(m)}
            /\ at'[m] = IF tokens[m] = {} THEN "limits" ELSE "breaker"
        BY <1>4, <2>2 DEF CheckRateLimit, Go, TypeOK
      <3>2. CASE tokens[m] = {}
        BY <3>1, <3>2 DEF NextLimiter, FirstLimiter
      <3>3. CASE tokens[m] # {}
        <4>1. "recipient" \in tokens[m]
          BY <1>0, <3>3 DEF TokensInOrder, Limiters
        <4>2. NextLimiter(m) = "channel"
          BY <3>3 DEF NextLimiter, FirstLimiter, Limiters
        <4> QED
          BY <1>0, <3>1, <3>3, <4>1, <4>2 DEF Limiters
      <3> QED
        BY <3>2, <3>3
    <2> QED
      BY <2>1, <2>2
  <1>5. CASE Execute(m)
    BY <1>2, <1>5 DEF Execute, Go, TypeOK, TokensInOrder
  <1>6. CASE Receive(m) \/ StopWaiting(m)
    BY <1>2, <1>6 DEF Receive, StopWaiting, Finish
  <1>7. CASE Decide(m)
    BY <1>7 DEF Decide, Go, TypeOK, TokensInOrder
  <1> QED
    BY <1>3, <1>4, <1>5, <1>6, <1>7 DEF Progress

LEMMA CallsProgress ==
    ASSUME TypeOK, BreakerKnowsCalls, NEW m \in Messages, Progress(m)
    PROVE  BreakerKnowsCalls'
  <1>1. ASSUME NEW place, Go(m, place),
               calls' = IF place = "vendor" THEN calls \union {m} ELSE calls \ {m}
        PROVE  BreakerKnowsCalls'
    BY <1>1 DEF Go, BreakerKnowsCalls, TypeOK
  <1>2. CASE at[m] # "vendor" /\ calls' = calls /\ \E place \in Places \ {"vendor"} : Go(m, place)
    BY <1>1, <1>2 DEF BreakerKnowsCalls
  <1>3. CASE Prepare(m)
    BY <1>2, <1>3 DEF Prepare, SendReturns, breaker, Places
  <1>4. CASE CheckRateLimit(m)
    BY <1>2, <1>4 DEF CheckRateLimit, SendReturns, breaker, Places
  <1>5. CASE Execute(m)
    <2>1. CASE SendReturns(m, "temporary") /\ UNCHANGED breaker
      BY <1>2, <1>5, <2>1 DEF Execute, SendReturns, breaker, Places
    <2>2. CASE (Breaker!Pass(m) \/ Breaker!Probe(m)) /\ Go(m, "vendor")
      BY <1>1, <2>2 DEF Breaker!Pass, Breaker!Probe
    <2> QED
      BY <1>5, <2>1, <2>2 DEF Execute
  <1>6. CASE Receive(m) \/ StopWaiting(m)
    <2>1. calls' = calls \ {m} /\ Go(m, "returned")
      BY <1>6 DEF Receive, StopWaiting, Finish, SendReturns, Breaker!Fail,
                  Breaker!Succeed, Breaker!Leave
    <2> QED
      BY <1>1, <2>1
  <1>7. CASE Decide(m)
    BY <1>2, <1>7 DEF Decide, breaker, Places
  <1> QED
    BY <1>3, <1>4, <1>5, <1>6, <1>7 DEF Progress

-----------------------------------------------------------------------------
(* The verdicts *)

\* What a step of message m's goroutine may do to the exchanges: begin the one
\* of an attempt that passed the breaker, and be done with one that has ended.
LEMMA StagesProgress ==
    ASSUME TypeOK, NEW m \in Messages, Progress(m)
    PROVE  /\ delivered' = delivered
           /\ sender' = sender
           /\ \A n \in Messages : n # m => /\ tx'[n] = tx[n]
                                          /\ at'[n] = at[n]
                                          /\ attempt'[n] = attempt[n]
                                          /\ outcome'[n] = outcome[n]
           /\ \A i \in Attempts : \/ tx'[m][i] = tx[m][i]
                                  \/ i = attempt[m] /\ tx'[m][i] = "none"
                                  \/ /\ i = attempt[m]
                                     /\ at[m] = "breaker"
                                     /\ at'[m] = "vendor"
                                     /\ tx'[m][i] = "talking"
           /\ \/ attempt'[m] = attempt[m]
              \/ /\ attempt'[m] = attempt[m] + 1
                 /\ tx' = tx
                 /\ at'[m] = "ready"
  <1>1. CASE Prepare(m)
    BY <1>1 DEF Prepare, SendReturns, Go, vendor, TypeOK
  <1>2. CASE CheckRateLimit(m)
    BY <1>2 DEF CheckRateLimit, SendReturns, Go, vendor, TypeOK
  <1>3. CASE Execute(m)
    BY <1>3 DEF Execute, SendReturns, Go, TypeOK
  <1>4. CASE Receive(m) \/ StopWaiting(m)
    BY <1>4 DEF Receive, StopWaiting, Finish, Forget, Stage, SendReturns, Go, TypeOK
  <1>5. CASE Decide(m)
    BY <1>5 DEF Decide, Go, vendor, TypeOK
  <1> QED
    BY <1>1, <1>2, <1>3, <1>4, <1>5 DEF Progress

LEMMA TidyProgress ==
    ASSUME TypeOK, Tidy, NEW m \in Messages, Progress(m)
    PROVE  Tidy'
  <1> SUFFICES ASSUME NEW n \in Messages, NEW i \in Attempts,
                      \/ i > attempt'[n]
                      \/ /\ i = attempt'[n]
                         /\ at'[n] \in {"ready", "limits", "breaker"}
               PROVE  tx'[n][i] = "none" /\ i \notin delivered'[n]
    BY DEF Tidy, Untouched
  <1>1. CASE n # m
    BY <1>1, StagesProgress DEF Tidy, Untouched
  <1>2. CASE n = m
    <2>0. attempt[m] \in Nat /\ i \in Nat
      BY DEF TypeOK, Attempts
    <2>1. \/ i > attempt[m]
          \/ i = attempt[m] /\ at[m] \in {"ready", "limits", "breaker"}
      <3>1. CASE attempt'[m] = attempt[m] + 1
        BY <1>2, <2>0, <3>1
      <3>2. CASE attempt'[m] = attempt[m] /\ i = attempt[m]
        BY <1>2, <2>0, <3>2
        DEF Progress, Prepare, CheckRateLimit, Execute, Receive, StopWaiting,
            Decide, Finish, SendReturns, Go, TypeOK
      <3> QED
        BY <1>2, <2>0, <3>1, <3>2, StagesProgress
    <2>2. tx[m][i] = "none" /\ i \notin delivered[m]
      BY <2>1 DEF Tidy, Untouched
    <2> QED
      BY <1>2, <2>0, <2>1, <2>2, StagesProgress
  <1> QED
    BY <1>1, <1>2

LEMMA StageProgress ==
    ASSUME TypeOK, Tidy, GroundsOfStage, NEW m \in Messages, Progress(m)
    PROVE  GroundsOfStage'
  <1>1. ASSUME NEW i \in Attempts, i = attempt[m], at[m] = "breaker"
        PROVE  i \notin delivered[m]
    BY <1>1 DEF Tidy, Untouched
  <1> QED
    BY <1>1, StagesProgress DEF GroundsOfStage

LEMMA VerdictProgress ==
    ASSUME TypeOK, Tidy, GroundsOfStage, GroundsOfVerdict,
           NEW m \in Messages, Progress(m)
    PROVE  GroundsOfVerdict'
  <1> DEFINE Grounds(n) ==
        /\ (at[n] = "returned" /\ outcome[n] = "ok") \/ at[n] = "sent"
               => delivered[n] # {}
        /\ at[n] \in {"returned", "gaveup"} /\ outcome[n] = "permanent"
               => tx[n][attempt[n]] = "none" /\ attempt[n] \notin delivered[n]
  <1>0. attempt[m] \in Attempts
    BY DEF TypeOK
  <1>1. \A n \in Messages : n # m => Grounds(n)'
    BY StagesProgress DEF GroundsOfVerdict, Untouched
  <1> SUFFICES Grounds(m)'
    BY <1>1 DEF GroundsOfVerdict, Untouched
  <1>2. ASSUME SendReturns(m, "temporary") PROVE Grounds(m)'
    BY <1>2 DEF SendReturns, Go, TypeOK
  <1>3. CASE Prepare(m)
    <2>1. tx[m][attempt[m]] = "none" /\ attempt[m] \notin delivered[m]
      BY <1>0, <1>3 DEF Prepare, Tidy, Untouched
    <2> QED
      BY <1>3, <2>1 DEF Prepare, SendReturns, Go, vendor, TypeOK
  <1>4. CASE CheckRateLimit(m)
    BY <1>2, <1>4 DEF CheckRateLimit, Go, TypeOK
  <1>5. CASE Execute(m)
    BY <1>2, <1>5 DEF Execute, Go, TypeOK
  <1>6. CASE Receive(m)
    <2>1. /\ at'[m] = "returned"
          /\ outcome'[m] = tx[m][attempt[m]]
          /\ attempt' = attempt
          /\ delivered' = delivered
          /\ tx'[m][attempt[m]] = "none"
      BY <1>0, <1>6 DEF Receive, Finish, Forget, Stage, SendReturns, Go, TypeOK
    <2> QED
      BY <1>0, <2>1 DEF GroundsOfStage
  <1>7. CASE StopWaiting(m)
    BY <1>2, <1>7 DEF StopWaiting, Finish
  <1>8. CASE Decide(m)
    BY <1>8 DEF Decide, Go, vendor, TypeOK, GroundsOfVerdict, Untouched
  <1> QED
    BY <1>3, <1>4, <1>5, <1>6, <1>7, <1>8 DEF Progress

\* What a step of an exchange may do.
LEMMA StagesExchange ==
    ASSUME TypeOK, NEW m \in Messages, NEW i \in Attempts, Exchange(m, i)
    PROVE  /\ VendorOnly
           /\ \A n \in Messages : n # m => tx'[n] = tx[n] /\ delivered'[n] = delivered[n]
           /\ \A j \in Attempts : j # i => tx'[m][j] = tx[m][j]
           /\ \/ /\ tx[m][i] = "talking"
                 /\ tx'[m][i] = "taken"
                 /\ delivered' = IF Collapsed(m, i) THEN delivered
                                 ELSE [delivered EXCEPT ![m] = @ \union {i}]
              \/ /\ tx[m][i] = "talking"
                 /\ tx'[m][i] \in {"temporary", "permanent", "none"}
                 /\ delivered' = delivered
              \/ /\ tx[m][i] = "taken"
                 /\ tx'[m][i] \in {"ok", "temporary", "none"}
                 /\ delivered' = delivered
  <1>1. CASE Take(m, i)
    BY <1>1 DEF Take, Stage, TypeOK
  <1>2. CASE Refuse(m, i)
    BY <1>2 DEF Refuse, Ends, Stage, TypeOK
  <1>3. CASE Confirm(m, i)
    BY <1>3 DEF Confirm, Ends, Stage, TypeOK
  <1>4. CASE LoseReply(m, i)
    BY <1>4 DEF LoseReply, Ends, Stage, TypeOK
  <1> QED
    BY <1>1, <1>2, <1>3, <1>4 DEF Exchange

LEMMA TakenExchange ==
    ASSUME TypeOK, NEW m \in Messages, NEW i \in Attempts, Exchange(m, i)
    PROVE  /\ delivered[m] \subseteq delivered'[m]
           /\ delivered'[m] \subseteq delivered[m] \union {i}
           /\ tx[m][i] # "talking" => delivered'[m] = delivered[m]
           /\ tx'[m][i] = "taken" => delivered'[m] # {}
           /\ tx'[m][i] # "taken" => delivered'[m] = delivered[m]
  <1>1. CASE delivered' = delivered /\ tx'[m][i] # "taken"
    BY <1>1
  <1>2. CASE /\ tx[m][i] = "talking"
             /\ tx'[m][i] = "taken"
             /\ delivered' = IF Collapsed(m, i) THEN delivered
                             ELSE [delivered EXCEPT ![m] = @ \union {i}]
    BY <1>2 DEF Collapsed, TypeOK
  <1> QED
    BY <1>1, <1>2, StagesExchange

LEMMA VerdictExchange ==
    ASSUME IInv, NEW m \in Messages, NEW i \in Attempts, Exchange(m, i)
    PROVE  Tidy' /\ GroundsOfStage' /\ GroundsOfVerdict'
  <1> USE DEF IInv
  <1>0. /\ at' = at /\ attempt' = attempt /\ outcome' = outcome
        /\ tx[m][i] # "none"
    BY StagesExchange DEF VendorOnly
  <1>1. attempt[m] \in Attempts
    BY DEF TypeOK
  <1>2. Tidy'
    <2>1. ASSUME NEW n \in Messages, NEW j \in Attempts, Untouched(n, j)
          PROVE  Untouched(n, j)'
      BY <1>0, <2>1, StagesExchange, TakenExchange DEF Untouched
    <2> QED
      BY <1>0, <2>1 DEF Tidy
  <1>3. GroundsOfStage'
    <2> SUFFICES ASSUME NEW n \in Messages, NEW j \in Attempts
                 PROVE  /\ tx'[n][j] \in {"talking", "permanent"} => j \notin delivered'[n]
                        /\ tx'[n][j] \in {"taken", "ok"} => delivered'[n] # {}
      BY DEF GroundsOfStage
    <2>1. CASE n # m
      BY <2>1, StagesExchange DEF GroundsOfStage
    <2>2. CASE n = m /\ j # i
      BY <2>2, StagesExchange, TakenExchange DEF GroundsOfStage
    <2>3. CASE n = m /\ j = i
      BY <2>3, StagesExchange, TakenExchange DEF GroundsOfStage
    <2> QED
      BY <2>1, <2>2, <2>3
  <1>4. GroundsOfVerdict'
    <2> SUFFICES ASSUME NEW n \in Messages
                 PROVE  /\ (at[n] = "returned" /\ outcome[n] = "ok") \/ at[n] = "sent"
                               => delivered'[n] # {}
                        /\ at[n] \in {"returned", "gaveup"} /\ outcome[n] = "permanent"
                               => tx'[n][attempt[n]] = "none" /\ attempt[n] \notin delivered'[n]
      BY <1>0 DEF GroundsOfVerdict, Untouched
    <2>1. CASE n # m
      BY <2>1, StagesExchange DEF GroundsOfVerdict, Untouched
    <2>2. CASE n = m
      BY <1>0, <1>1, <2>2, StagesExchange, TakenExchange
      DEF GroundsOfVerdict, Untouched
    <2> QED
      BY <2>1, <2>2
  <1> QED
    BY <1>2, <1>3, <1>4

\* Resend takes a keyed message only where it has none: all its copies have
\* one identity.
LEMMA CopiesExchange ==
    ASSUME IInv, NEW m \in Messages, NEW i \in Attempts, Exchange(m, i)
    PROVE  OneCopy'
  <1> USE DEF IInv
  <1> SUFFICES ASSUME sender = "resend", NEW n \in Keyed
               PROVE  \A j, k \in delivered'[n] : j = k
    BY StagesExchange DEF OneCopy, VendorOnly
  <1>0. n \in Messages
    BY KeyedAssumption
  <1>1. CASE delivered'[n] = delivered[n]
    BY <1>1 DEF OneCopy
  <1>2. CASE n = m /\ delivered'[m] # delivered[m]
    <2>1. ~Collapsed(m, i)
      BY <1>2, StagesExchange
    <2>2. delivered[m] = {}
      BY <1>2, <2>1 DEF Collapsed, Identity
    <2> QED
      BY <1>2, <2>2, TakenExchange
  <1> QED
    BY <1>0, <1>1, <1>2, StagesExchange

LEMMA UndecidedProgress ==
    ASSUME TypeOK, Undecided, NEW m \in Messages, Progress(m)
    PROVE  Undecided'
  <1>1. ASSUME at'[m] \in {"ready", "limits", "breaker"}
        PROVE  outcome'[m] = "temporary"
    BY <1>1 DEF Progress, Prepare, CheckRateLimit, Execute, Receive, StopWaiting,
                Decide, TriesAgain, Finish, SendReturns, Go, TypeOK, Undecided
  <1> QED
    BY <1>1, StagesProgress DEF Undecided

-----------------------------------------------------------------------------
(* The invariant *)

LEMMA InvInit == Init => IInv
  <1> SUFFICES ASSUME Init PROVE IInv
    OBVIOUS
  <1>1. TypeOK
    BY TypeInit
  <1>2. TokensInOrder /\ BreakerKnowsCalls /\ Undecided
    BY DEF Undecided, Init, Breaker!Init, TokensInOrder, BreakerKnowsCalls
  <1>3. OneCopy
    BY KeyedAssumption DEF Init, OneCopy
  <1>4. Tidy /\ GroundsOfStage /\ GroundsOfVerdict
    BY DEF Init, Tidy, GroundsOfStage, GroundsOfVerdict, Untouched
  <1> QED
    BY <1>1, <1>2, <1>3, <1>4 DEF IInv

\* The messages' side of the state stays.
LEMMA InvUnmoved ==
    ASSUME IInv, calls' = calls,
           UNCHANGED <<sender, at, attempt, tokens, outcome, vendor>>
    PROVE  /\ TokensInOrder' /\ BreakerKnowsCalls' /\ OneCopy' /\ Undecided'
           /\ Tidy' /\ GroundsOfStage' /\ GroundsOfVerdict'
  BY DEF IInv, vendor, TokensInOrder, BreakerKnowsCalls, OneCopy, Undecided,
         Tidy, GroundsOfStage, GroundsOfVerdict, Untouched

LEMMA InvNext == IInv /\ [Next]_vars => IInv'
  <1> SUFFICES ASSUME IInv, [Next]_vars PROVE IInv'
    OBVIOUS
  <1> USE DEF IInv
  <1>0. TypeOK'
    BY TypeNext
  <1>1. ASSUME NEW m \in Messages, Progress(m) PROVE IInv'
    <2>1. OneCopy'
      BY <1>1, StagesProgress, KeyedAssumption DEF OneCopy
    <2> QED
      BY <1>0, <1>1, <2>1, TokensProgress, CallsProgress, TidyProgress,
         UndecidedProgress, StageProgress, VerdictProgress
  <1>2. ASSUME NEW m \in Messages, NEW i \in Attempts, Exchange(m, i)
        PROVE  IInv'
    <2>1. TokensInOrder' /\ BreakerKnowsCalls' /\ Undecided'
      BY <1>2, StagesExchange
      DEF VendorOnly, breaker, TokensInOrder, BreakerKnowsCalls, Undecided
    <2> QED
      BY <1>0, <1>2, <2>1, VerdictExchange, CopiesExchange
  <1>3. CASE Cancel
    BY <1>0, <1>3, InvUnmoved DEF Cancel, breaker
  <1>4. CASE BreakerMoves
    BY <1>0, <1>4, InvUnmoved DEF BreakerMoves, Breaker!CoolDown, Breaker!Reset
  <1>5. CASE UNCHANGED vars
    BY <1>0, <1>5, InvUnmoved DEF vars, breaker
  <1> QED
    BY <1>1, <1>2, <1>3, <1>4, <1>5 DEF Next

\* IInv holds in every reachable state, for any values of the constants.
THEOREM Invariance == Spec => []IInv
  <1> QED
    BY InvInit, InvNext, PTL DEF Spec

-----------------------------------------------------------------------------
(* What it shows *)

\* The recipient's limiter is asked before the channel's, and no send reaches
\* the breaker without both (checkRateLimits).
THEOREM LimitersComeFirst == Spec => []TokensInOrder
  <1>1. IInv => TokensInOrder
    BY DEF IInv
  <1> QED
    BY <1>1, Invariance, PTL

\* The breaker knows of exactly the calls that are waited for
\* (executeThroughBreaker, transact).
THEOREM CallsAreKnown == Spec => []BreakerKnowsCalls
  <1>1. IInv => BreakerKnowsCalls
    BY DEF IInv
  <1> QED
    BY <1>1, Invariance, PTL

\* A message reported sent is one the vendor took (doTransact, post,
\* SendTemplateMessage).
THEOREM SentIsTaken == Spec => []SentMeansTaken
  <1>1. IInv => SentMeansTaken
    BY DEF IInv, GroundsOfVerdict, SentMeansTaken
  <1> QED
    BY <1>1, Invariance, PTL

\* An attempt that failed for good was not taken, and will not be.
THEOREM PermanentIsNotTaken == Spec => []PermanentNotTaken
  <1>1. IInv => PermanentNotTaken
    BY DEF IInv, GroundsOfVerdict, Untouched, PermanentNotTaken
  <1> QED
    BY <1>1, Invariance, PTL

LEMMA AtMostOne ==
    ASSUME NEW S, \A x, y \in S : x = y
    PROVE  Cardinality(S) <= 1
  <1>1. CASE S = {}
    BY <1>1, FS_EmptySet
  <1>2. CASE S # {}
    <2>1. PICK x \in S : S = {x}
      BY <1>2
    <2> QED
      BY <2>1, FS_Singleton
  <1> QED
    BY <1>1, <1>2

\* However often a keyed message is sent through Resend, and whatever becomes
\* of the replies, it is taken once.
THEOREM KeyedIsTakenOnce == Spec => []TakenOnce
  <1>1. IInv => TakenOnce
    BY AtMostOne DEF IInv, OneCopy, TakenOnce
  <1> QED
    BY <1>1, Invariance, PTL

\* No call to the vendor follows a verdict (sendWithRetry, Send).
THEOREM CallsFollowTemporary == Spec => NoCallAfterVerdict
  <1> DEFINE Follows == \A m \in Messages : at[m] # "vendor" /\ at'[m] = "vendor"
                          => outcome[m] = "temporary"
  <1>1. ASSUME IInv, Next, NEW m \in Messages, at[m] # "vendor", at'[m] = "vendor"
        PROVE  outcome[m] = "temporary"
    <2>1. CASE at' = at
      BY <1>1, <2>1
    <2>2. CASE Progress(m)
      <3>1. Execute(m)
        BY <1>1, <2>2
        DEF Progress, Prepare, CheckRateLimit, Receive, StopWaiting, Decide,
            Finish, SendReturns, Go, IInv, TypeOK
      <3> QED
        BY <1>1, <3>1 DEF Execute, IInv, Undecided
    <2>3. CASE \E n \in Messages : n # m /\ Progress(n)
      BY <1>1, <2>3, StagesProgress DEF IInv
    <2>4. CASE \E n \in Messages, i \in Attempts : Exchange(n, i)
      BY <1>1, <2>4, StagesExchange DEF IInv, VendorOnly
    <2> QED
      BY <1>1, <2>1, <2>2, <2>3, <2>4 DEF Next, Cancel, BreakerMoves
  <1>2. IInv /\ [Next]_vars => [Follows]_vars
    BY <1>1 DEF vars
  <1> QED
    BY <1>2, Invariance, PTL DEF Spec, NoCallAfterVerdict

\* Only the temporary failure of a call opens the breaker (executeThroughBreaker).
THEOREM OpensOnTemporary == Spec => OpensOnlyOnTemporary
  <1> DEFINE Opens == phase # "cooling" /\ phase' = "cooling"
                        => \E m \in Messages : /\ at[m] = "vendor"
                                               /\ at'[m] = "returned"
                                               /\ outcome'[m] = "temporary"
  <1>1. ASSUME IInv, NEW m \in Messages, NEW result \in Results, Finish(m, result),
               at[m] = "vendor", phase # "cooling", phase' = "cooling"
        PROVE  at'[m] = "returned" /\ outcome'[m] = "temporary"
    <2>1. CountsAsFailure(result)
      BY <1>1 DEF Finish, Breaker!Succeed
    <2> QED
      BY <1>1, <2>1 DEF CountsAsFailure, Finish, SendReturns, Go, IInv, TypeOK
  <1>2. ASSUME IInv, Next, phase # "cooling", phase' = "cooling"
        PROVE  \E m \in Messages : /\ at[m] = "vendor"
                                   /\ at'[m] = "returned"
                                   /\ outcome'[m] = "temporary"
    <2>1. CASE phase' = phase
      BY <1>2, <2>1
    <2>2. ASSUME NEW m \in Messages, Progress(m)
          PROVE  at[m] = "vendor" /\ at'[m] = "returned" /\ outcome'[m] = "temporary"
      <3>1. at[m] = "vendor" /\ \E result \in Results : Finish(m, result)
        BY <1>2, <2>2
        DEF Progress, Prepare, CheckRateLimit, Execute, Decide, Receive,
            StopWaiting, Breaker!Pass, Breaker!Probe, breaker, Results
      <3> QED
        BY <1>1, <1>2, <3>1
    <2>3. CASE \E n \in Messages, i \in Attempts : Exchange(n, i)
      BY <1>2, <2>3, StagesExchange DEF IInv, VendorOnly, breaker
    <2> QED
      BY <1>2, <2>1, <2>2, <2>3
      DEF Next, Cancel, BreakerMoves, breaker, Breaker!CoolDown, Breaker!Reset
  <1>3. IInv /\ [Next]_vars => [Opens]_vars
    BY <1>2 DEF vars
  <1> QED
    BY <1>3, Invariance, PTL DEF Spec, OpensOnlyOnTemporary

=============================================================================
