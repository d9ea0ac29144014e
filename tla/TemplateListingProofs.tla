------------------------- MODULE TemplateListingProofs -------------------------
(***************************************************************************)
(* For any number of templates, any page size and any page limit: what a   *)
(* listing returns was so (AnswerIsARead), and it fails only for a cause   *)
(* (FailsOnlyForCause).                                                    *)
(*                                                                         *)
(* The argument: as long as Meta is orderly, everything up to the cursor   *)
(* has been read, nothing beyond it has, and every page read was full.     *)
(***************************************************************************)
EXTENDS TemplateListing, FiniteSetTheorems, TLAPS

\* What is listed so far, of an orderly Meta: the templates up to the cursor,
\* page full pages of them.
ReadToCursor ==
    at = "listing" /\ orderly =>
        /\ \A s \in always : s <= after => s \in out
        /\ \A s \in out : s <= after
        /\ Cardinality(out) = page * PageSize

IInv == /\ TypeOK
        /\ ReadToCursor
        /\ AnswerIsARead
        /\ FailsOnlyForCause

-----------------------------------------------------------------------------

\* The set of places is finite, and with it all that is listed.
LEMMA FiniteSubset == \A X \in SUBSET Places : IsFiniteSet(X) /\ Cardinality(X) \in Nat
<1>1. IsFiniteSet(Places)
  <2>1. Slots \in Int /\ 1 \in Int
    BY SizesAssumption
  <2> QED BY <2>1, FS_Interval DEF Places
<1> QED BY <1>1, FS_Subset, FS_CardinalityType

LEMMA OnePageMore ==
    ASSUME NEW p \in Nat, NEW size \in Nat PROVE (p + 1) * size = p * size + size
OBVIOUS

\* The templates kept of a page are approved ones, so ones that were.
LEMMA KeptWereApproved ==
    ASSUME TypeOK, NEW items \in SUBSET Places
    PROVE  Kept(items) \subseteq Approved /\ Approved \subseteq ever
BY DEF Kept, Approved, TypeOK, Places

\* An orderly page but for the last is full, and moves the cursor on.
LEMMA OrderlyPages ==
    ASSUME TypeOK, NEW items \in SUBSET Approved, NEW cursor \in 0..Slots,
           NEW next \in BOOLEAN, IsPage(items, cursor, next)
    PROVE  /\ Kept(items) = items
           /\ IsLast(cursor, next) => \A s \in Approved : s <= after \/ s \in items
           /\ ~IsLast(cursor, next) => /\ cursor > after
                                       /\ Cardinality(items) = PageSize
                                       /\ \A s \in items : s > after /\ s <= cursor
                                       /\ \A s \in Approved :
                                            s <= after \/ s \in items \/ s > cursor
<1> USE DEF IsPage, IsLast, TypeOK
<1>0. /\ Slots \in Nat
      /\ \A s \in Approved : s \in Nat /\ s > 0
  BY SizesAssumption DEF Approved, Places
<1>1. Kept(items) = items
  BY DEF Kept, Approved
<1>2. ASSUME IsLast(cursor, next)
      PROVE  \A s \in Approved : s <= after \/ s \in items
  <2>1. CASE items = {}
    BY <2>1
  <2>2. CASE items # {}
    <3>1. cursor \in items /\ cursor # 0
      BY <2>2, <1>0
    <3>2. ~next
      BY <3>1, <1>2
    <3>3. \A s \in Approved : s <= cursor
      BY <3>2, <2>2, <1>0
    <3> QED BY <3>3, <1>0
  <2> QED BY <2>1, <2>2
<1>3. ASSUME ~IsLast(cursor, next)
      PROVE  /\ cursor > after
             /\ Cardinality(items) = PageSize
             /\ \A s \in items : s > after /\ s <= cursor
             /\ \A s \in Approved : s <= after \/ s \in items \/ s > cursor
  <2>1. next /\ items # {} /\ cursor \in items
    BY <1>3
  <2> QED BY <2>1, <1>0
<1> QED BY <1>1, <1>2, <1>3

-----------------------------------------------------------------------------

LEMMA InitIInv == Init => IInv
<1> SUFFICES ASSUME Init PROVE IInv
  OBVIOUS
<1> USE DEF Init
<1>1. TypeOK
  <2>1. orderly \in BOOLEAN /\ failing \in BOOLEAN
    BY Zenon
  <2>2. 0 \in 0..MaxPages /\ 0 < MaxPages /\ 0 \in 0..Slots
    BY SizesAssumption
  <2> QED BY <2>1, <2>2 DEF TypeOK, Approved
<1>2. ReadToCursor
  <2>1. \A s \in always : s > 0 /\ s \in Nat
    BY SizesAssumption DEF Approved, Places
  <2>2. Cardinality(out) = 0
    BY FS_EmptySet
  <2> QED BY <2>1, <2>2, SizesAssumption DEF ReadToCursor
<1> QED BY <1>1, <1>2 DEF IInv, AnswerIsARead, FailsOnlyForCause

-----------------------------------------------------------------------------
(* Reading a page *)

\* What Read leaves of the types, whatever page it reads.
LEMMA ReadTypes ==
    ASSUME TypeOK, at = "listing", NEW items \in SUBSET Places, NEW cursor \in 0..Slots,
           NEW next \in BOOLEAN, Read(items, cursor, next)
    PROVE  /\ at' \in {"listing", "done", "failed"}
           /\ page' \in 0..MaxPages
           /\ at' = "listing" => page' < MaxPages
           /\ after' \in 0..Slots
           /\ out' \subseteq Places
           /\ out \subseteq ever => out' \subseteq ever
<1> USE SizesAssumption DEF TypeOK
<1>1. page + 1 \in 0..MaxPages
  OBVIOUS
<1>2. ~AtLimit => page + 1 < MaxPages
  BY DEF AtLimit
<1>3. out' \subseteq Places /\ (out \subseteq ever => out' \subseteq ever)
  BY KeptWereApproved DEF Read
<1> QED BY <1>1, <1>2, <1>3 DEF Read

LEMMA OrderlyStep == ASSUME IInv, OrderlyPage PROVE IInv'
<1> USE DEF IInv
<1> PICK items \in SUBSET Approved, cursor \in 0..Slots, next \in BOOLEAN :
      IsPage(items, cursor, next) /\ Read(items, cursor, next)
  BY DEF OrderlyPage
<1>0. /\ at = "listing"
      /\ UNCHANGED <<status, orderly, failing, always, ever>>
  BY DEF OrderlyPage, history
<1>t. /\ items \subseteq Places
      /\ always \subseteq Approved /\ Approved \subseteq Places
      /\ after \in Nat /\ cursor \in Nat /\ PageSize \in Nat /\ page \in Nat
      /\ \A s \in Places : s \in Nat
  BY SizesAssumption DEF TypeOK, Approved, Places
<1>p. /\ Kept(items) = items
      /\ IsLast(cursor, next) => \A s \in Approved : s <= after \/ s \in items
      /\ ~IsLast(cursor, next) => /\ cursor > after
                                  /\ Cardinality(items) = PageSize
                                  /\ \A s \in items : s > after /\ s <= cursor
                                  /\ \A s \in Approved :
                                       s <= after \/ s \in items \/ s > cursor
  BY OrderlyPages
<1>u. out' = out \union items
  BY <1>p DEF Read
<1>1. TypeOK'
  <2>1. Approved' = Approved
    BY <1>0 DEF Approved
  <2> QED BY <1>0, <1>t, <2>1, ReadTypes DEF TypeOK
<1>2. ASSUME orderly, ~IsLast(cursor, next)
      PROVE  /\ \A s \in always : s <= cursor => s \in out'
             /\ \A s \in out' : s <= cursor
             /\ Cardinality(out') = (page + 1) * PageSize
  <2>1. \A s \in always : s <= cursor => s \in out'
    BY <1>2, <1>0, <1>t, <1>p, <1>u DEF ReadToCursor
  <2>2. \A s \in out' : s <= cursor
    BY <1>2, <1>0, <1>t, <1>p, <1>u DEF ReadToCursor, TypeOK
  <2>3. Cardinality(out') = (page + 1) * PageSize
    <3>1. out \intersect items = {}
      BY <1>2, <1>0, <1>t, <1>p DEF ReadToCursor, TypeOK
    <3>2. out \in SUBSET Places /\ items \in SUBSET Places
      BY <1>t DEF TypeOK
    <3>3. IsFiniteSet(out) /\ IsFiniteSet(items)
      BY <3>2, FiniteSubset
    <3>4. Cardinality(out \union items) = Cardinality(out) + Cardinality(items)
      <4>1. Cardinality(out \intersect items) = 0
        BY <3>1, FS_EmptySet
      <4>2. Cardinality(out) \in Nat /\ Cardinality(items) \in Nat
        BY <3>2, FiniteSubset
      <4>3. Cardinality(out \union items)
              = Cardinality(out) + Cardinality(items) - Cardinality(out \intersect items)
        BY <3>3, FS_Union
      <4> QED BY <4>1, <4>2, <4>3
    <3>5. Cardinality(out) = page * PageSize /\ Cardinality(items) = PageSize
      BY <1>2, <1>0, <1>p DEF ReadToCursor
    <3>6. (page + 1) * PageSize = page * PageSize + PageSize
      BY <1>t, OnePageMore
    <3>7. Cardinality(out') = Cardinality(out \union items)
      BY <1>u
    <3> QED BY <3>4, <3>5, <3>6, <3>7
  <2> QED BY <2>1, <2>2, <2>3
<1>3. ReadToCursor'
  <2> SUFFICES ASSUME at' = "listing", orderly'
               PROVE  /\ \A s \in always' : s <= after' => s \in out'
                      /\ \A s \in out' : s <= after'
                      /\ Cardinality(out') = page' * PageSize
    BY DEF ReadToCursor
  <2>1. ~IsLast(cursor, next) /\ after' = cursor /\ page' = page + 1
    BY <1>0 DEF Read
  <2> QED BY <1>2, <2>1, <1>0
<1>4. AnswerIsARead'
  <2>1. out' \subseteq ever'
    BY <1>0, <1>t, ReadTypes DEF AnswerIsARead
  <2>2. ASSUME at' = "done", orderly'
        PROVE  always' \subseteq out'
    <3>1. IsLast(cursor, next)
      BY <2>2, <1>0 DEF Read
    <3> QED BY <2>2, <3>1, <1>0, <1>t, <1>p, <1>u DEF ReadToCursor
  <2> QED BY <2>1, <2>2 DEF AnswerIsARead
<1>5. FailsOnlyForCause'
  <2> SUFFICES ASSUME at' = "failed", orderly'
               PROVE  Cardinality(out') >= MaxPages * PageSize
    BY DEF FailsOnlyForCause
  <2>1. ~IsLast(cursor, next) /\ orderly
    BY <1>0 DEF Read
  <2>2. AtLimit
    BY <2>1, <1>0, <1>t, <1>p DEF Read
  <2>3. page + 1 = MaxPages
    BY <2>2, <1>0, SizesAssumption DEF AtLimit, TypeOK
  <2>4. Cardinality(out') = MaxPages * PageSize
    BY <2>1, <2>3, <1>2
  <2>5. MaxPages * PageSize \in Nat
    BY SizesAssumption
  <2> QED BY <2>4, <2>5
<1> QED BY <1>1, <1>3, <1>4, <1>5

LEMMA DisorderlyStep == ASSUME IInv, DisorderlyPage PROVE IInv'
<1> USE DEF IInv
<1> PICK items \in SUBSET {s \in Places : status[s] # "absent"},
         cursor \in 0..Slots, next \in BOOLEAN : Read(items, cursor, next)
  BY DEF DisorderlyPage
<1>0. /\ at = "listing"
      /\ ~orderly' /\ orderly' \in BOOLEAN
      /\ UNCHANGED <<status, failing, always, ever>>
  BY DEF DisorderlyPage
<1>t. items \subseteq Places
  OBVIOUS
<1>1. TypeOK'
  <2>1. Approved' = Approved
    BY <1>0 DEF Approved
  <2> QED BY <1>0, <1>t, <2>1, ReadTypes DEF TypeOK
<1>2. out' \subseteq ever'
  BY <1>0, <1>t, ReadTypes DEF AnswerIsARead
<1> QED BY <1>0, <1>1, <1>2 DEF ReadToCursor, AnswerIsARead, FailsOnlyForCause

-----------------------------------------------------------------------------

\* Templates that change move between the histories only.
LEMMA ChangeStep == ASSUME IInv, Change PROVE IInv'
<1> USE DEF IInv
<1> PICK s \in Places, new \in Statuses :
      /\ status' = [status EXCEPT ![s] = new]
      /\ always' = IF new = "approved" THEN always ELSE always \ {s}
      /\ ever' = IF new = "approved" THEN ever \union {s} ELSE ever
  BY DEF Change
<1>0. /\ at = "listing"
      /\ UNCHANGED <<at, page, after, out, orderly, failing>>
  BY DEF Change, listing
<1>1. always' \subseteq Approved' /\ Approved' \subseteq ever' /\ ever' \subseteq Places
  BY DEF TypeOK, Approved
<1>2. TypeOK'
  BY <1>0, <1>1 DEF TypeOK
<1>3. always' \subseteq always /\ ever \subseteq ever'
  OBVIOUS
<1>4. ReadToCursor'
  BY <1>0, <1>3 DEF ReadToCursor
<1>5. AnswerIsARead'
  BY <1>0, <1>3 DEF AnswerIsARead
<1>6. FailsOnlyForCause'
  BY <1>0 DEF FailsOnlyForCause
<1> QED BY <1>2, <1>4, <1>5, <1>6

LEMMA RequestFailsStep == ASSUME IInv, RequestFails PROVE IInv'
<1> USE DEF IInv, RequestFails
<1>1. Approved' = Approved
  BY DEF Approved
<1>2. TypeOK'
  BY <1>1 DEF TypeOK
<1> QED BY <1>2 DEF ReadToCursor, AnswerIsARead, FailsOnlyForCause

LEMMA StutterStep == ASSUME IInv, UNCHANGED vars PROVE IInv'
<1> USE DEF IInv, vars, listing, history
<1>1. Approved' = Approved
  BY DEF Approved
<1>2. TypeOK'
  BY <1>1 DEF TypeOK
<1>3. ReadToCursor'
  BY DEF ReadToCursor
<1> QED BY <1>2, <1>3 DEF AnswerIsARead, FailsOnlyForCause

-----------------------------------------------------------------------------

LEMMA Inductive == Spec => []IInv
<1>1. IInv /\ [Next]_vars => IInv'
  BY OrderlyStep, DisorderlyStep, RequestFailsStep, ChangeStep, StutterStep
  DEF Next, Respond
<1> QED BY InitIInv, <1>1, PTL DEF Spec

\* Every reachable state has its types; no listing reads more than MaxPages
\* pages.
THEOREM TypeCorrect == Spec => []TypeOK
<1>1. IInv => TypeOK
  BY DEF IInv
<1> QED BY Inductive, <1>1, PTL

\* However templates change between the pages, a listing names only templates
\* that were approved at some instant of it, and an orderly Meta's listing misses
\* none that was approved all along.
THEOREM AnswersAreReads == Spec => []AnswerIsARead
<1>1. IInv => AnswerIsARead
  BY DEF IInv
<1> QED BY Inductive, <1>1, PTL

\* The listing of an orderly Meta whose requests succeed fails only after
\* MaxPages full pages.
THEOREM FailuresHaveACause == Spec => []FailsOnlyForCause
<1>1. IInv => FailsOnlyForCause
  BY DEF IInv
<1> QED BY Inductive, <1>1, PTL

=============================================================================
