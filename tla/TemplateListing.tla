--------------------------- MODULE TemplateListing ---------------------------
(***************************************************************************)
(* metaCloudAPIClient.GetApprovedTemplates: Meta's templates are listed    *)
(* page by page, with the cursor each page gives, while templates are      *)
(* created, approved, paused and deleted.                                  *)
(*                                                                         *)
(* Meta (external) keeps its templates in an order, 1..Slots, and a cursor *)
(* is the place of a page's last template: 0 stands for no cursor.  It is  *)
(* orderly as long as its pages are what was asked for; it may also answer *)
(* with templates of other statuses, with any cursor, and with or without  *)
(* a next link.                                                            *)
(***************************************************************************)
EXTENDS Naturals, FiniteSets

CONSTANTS Slots,       \* places for templates
          PageSize,    \* metaTemplatePageSize
          MaxPages     \* metaTemplateMaxPages

ASSUME SizesAssumption ==
    Slots \in Nat /\ PageSize \in Nat \ {0} /\ MaxPages \in Nat \ {0}

VARIABLES status,      \* Meta: each template's
          at,          \* where the listing is
          page,        \* pages read
          after,       \* the query's cursor
          out,         \* the templates listed
          orderly,     \* history: Meta has been
          failing,     \* history: a request failed
          always,      \* history: the templates approved ever since the
                       \*   listing began
          ever         \* history: those approved at some time since

listing == <<at, page, after, out>>
history == <<orderly, failing, always, ever>>
vars    == <<status, listing, history>>

Places   == 1..Slots
Statuses == {"absent", "pending", "approved"}

Approved == {s \in Places : status[s] = "approved"}

-----------------------------------------------------------------------------

Init == /\ status \in [Places -> Statuses]
        /\ at = "listing"
        /\ page = 0
        /\ after = 0
        /\ out = {}
        /\ orderly = TRUE
        /\ failing = FALSE
        /\ always = Approved
        /\ ever = Approved

-----------------------------------------------------------------------------
(* Meta's pages *)

\* The page of the approved templates after a cursor: the next ones in order,
\* PageSize of them when there are more, the last one's place, and whether a
\* next page is left.
IsPage(items, cursor, next) ==
    /\ \A s \in items : s > after /\ s <= cursor
    /\ \A s \in Approved : s > after /\ s <= cursor => s \in items
    /\ items = {} => cursor = 0 /\ \A s \in Approved : s <= after
    /\ items # {} => cursor \in items
    /\ Cardinality(items) <= PageSize
    /\ next <=> items # {} /\ \E s \in Approved : s > cursor
    /\ next => Cardinality(items) = PageSize

-----------------------------------------------------------------------------
(* GetApprovedTemplates *)

\* Meta's own filter is not relied on.
Kept(items) == {s \in items : status[s] = "approved"}

\* Mutant: the page that reaches the limit is not looked at for its next link.
IsLastOrLimit(cursor, next) == ~next \/ cursor = 0 \/ page + 1 = MaxPages
IsLast(cursor, next) == ~next \/ cursor = 0

\* Mutants: one page too few, one too many.
AtLimitEarly == page + 2 >= MaxPages
AtLimitLate  == page >= MaxPages
AtLimit      == page + 1 >= MaxPages

\* Mutant: a repeated cursor is not noticed, nor are pages counted.
ReadUnbounded(items, cursor, next) ==
    /\ out' = out \union Kept(items)
    /\ IF IsLast(cursor, next) THEN at' = "done" /\ UNCHANGED <<page, after>>
       ELSE after' = cursor /\ UNCHANGED <<at, page>>

\* One page is read.
Read(items, cursor, next) ==
    /\ out' = out \union Kept(items)
    /\ \/ /\ IsLast(cursor, next)
          /\ at' = "done"
          /\ page' = page + 1
          /\ UNCHANGED after
       \/ /\ ~IsLast(cursor, next) /\ cursor = after
          /\ at' = "failed"
          /\ page' = page + 1
          /\ UNCHANGED after
       \/ /\ ~IsLast(cursor, next) /\ cursor # after
          /\ at' = IF AtLimit THEN "failed" ELSE "listing"
          /\ page' = page + 1
          /\ after' = cursor

OrderlyPage ==
    /\ at = "listing"
    /\ \E items \in SUBSET Approved, cursor \in 0..Slots, next \in BOOLEAN :
         IsPage(items, cursor, next) /\ Read(items, cursor, next)
    /\ UNCHANGED <<status, history>>

DisorderlyPage ==
    /\ at = "listing"
    /\ \E items \in SUBSET {s \in Places : status[s] # "absent"},
          cursor \in 0..Slots, next \in BOOLEAN : Read(items, cursor, next)
    /\ orderly' = FALSE
    /\ UNCHANGED <<status, failing, always, ever>>

\* doJSON's error, or a page that is no JSON.
RequestFails ==
    /\ at = "listing"
    /\ at' = "failed"
    /\ failing' = TRUE
    /\ UNCHANGED <<status, page, after, out, orderly, always, ever>>

-----------------------------------------------------------------------------

\* A template is created, approved, paused or deleted during the listing.
Change ==
    /\ at = "listing"
    /\ \E s \in Places, new \in Statuses :
         /\ status' = [status EXCEPT ![s] = new]
         /\ always' = IF new = "approved" THEN always ELSE always \ {s}
         /\ ever' = IF new = "approved" THEN ever \union {s} ELSE ever
    /\ UNCHANGED <<listing, orderly, failing>>

Respond == OrderlyPage \/ DisorderlyPage \/ RequestFails

Next == Respond \/ Change

Spec == Init /\ [][Next]_vars

\* Every request ends: the HTTP client has a timeout.
FairSpec == Spec /\ WF_vars(Respond)

-----------------------------------------------------------------------------
(* Properties *)

TypeOK == /\ status \in [Places -> Statuses]
          /\ at \in {"listing", "done", "failed"}
          /\ page \in 0..MaxPages
          /\ at = "listing" => page < MaxPages
          /\ after \in 0..Slots
          /\ out \subseteq Places
          /\ orderly \in BOOLEAN
          /\ failing \in BOOLEAN
          /\ always \subseteq Approved
          /\ Approved \subseteq ever
          /\ ever \subseteq Places

\* What a listing says of each template was so at some instant of the listing,
\* whatever changed between its pages: it lists none that was not approved, and
\* none is missing that was approved all along, however long the list.  (What
\* TemplateValidator's MetaAnswers takes a listing to be.)
AnswerIsARead ==
    /\ out \subseteq ever
    /\ at = "done" /\ orderly => always \subseteq out

\* A listing of an orderly Meta that fails was too long: MaxPages full pages
\* have been read.
FailsOnlyForCause ==
    at = "failed" => \/ failing
                     \/ ~orderly
                     \/ Cardinality(out) >= MaxPages * PageSize

\* Every listing ends, whatever cursors Meta gives and however often its
\* templates change.
Ends == <>(at # "listing")

=============================================================================
