----------------------------- MODULE PageCaches -----------------------------
(***************************************************************************)
(* The pages that GetProductsByPage, GetDetail, GetOrderHistory,           *)
(* GetAdminReviewAnalysis and GetAdminReviewDetail keep in Redis, and the  *)
(* handlers that change what they show.  A page is built by several        *)
(* queries without a transaction, stored under a key with a TTL, and its   *)
(* key is added to a set.  ClearCache is called with names; a page can go  *)
(* only if a name is that of its set.                                      *)
(*                                                                         *)
(* Pages do not meet, so there is one; PageInit chooses which.  A table is *)
(* known by the number of times it was written (the rows that the page     *)
(* shows, and no others), a page by the numbers its queries have seen.     *)
(***************************************************************************)
EXTENDS Naturals, Sequences, FiniteSets

CONSTANTS
    Calls,         \* slots for requests in flight
    MaxWrites      \* bound: writes of all tables

ASSUME MaxWritesAssumption == MaxWrites \in Nat

VARIABLES
    page,          \* the page that is looked at
    written,       \* how often each table was written
    value,         \* Redis: what is stored under the key of the page
    listed,        \* Redis: whether the set has the key
    step,          \* the next step of a request
    todo,          \* what a mutation has still to do
    draft,         \* what the queries of a reader have seen
    late,          \* history: readers whose answers a write overtook
    behind         \* history: a write overtook the stored page

pageVars == <<page, written, value, listed, step, todo, draft, late, behind>>

Tables == {"product", "product_images", "product_type", "review",
           "review_images", "reply", "account", "invoice"}
Kinds  == {"products", "detail", "history", "analysis", "adminReview", "adminReviews"}
PageStages == {"idle", "query", "sadd", "do", "smembers", "delMembers"}

-----------------------------------------------------------------------------
(* The queries of each page, by the table they read.                       *)

\* GetProductsUtil: the type, the number of products, the products, their types
GetProductsUtil == <<"product_type", "product", "product", "product_type">>

\* reviewDisplay: their number, the reviews, and what is loaded with them
reviewDisplay == <<"review", "review", "account", "product", "review_images", "reply">>

\* countStars: a query for each rating; two of the five
countStars == <<"review", "review">>

\* BuildProductDetail
BuildProductDetail == <<"product", "product_images">> \o reviewDisplay \o countStars

\* GetOrderHistory: the orders under a tab, their number
GetOrderHistory == <<"invoice", "invoice">>

\* FetchReviewData: three goroutines
FetchReviewData == <<"review", "review_images", "reply">>

Queries ==
    CASE page = "products"    -> GetProductsUtil
      [] page = "detail"      -> BuildProductDetail
      [] page = "history"     -> GetOrderHistory
      [] page = "adminReview" -> FetchReviewData
      [] OTHER                -> <<"review">>

Concurrent == page = "adminReview"

(* The set has the name of the key itself.                                 *)
SetIsKey == page \in {"analysis", "adminReview", "adminReviews"}

NotAsked == MaxWrites + 1
NoPage   == <<>>
Members  == <<NotAsked>>      \* a set that SADD made under the key: not a page
Blank    == [i \in 1..Len(Queries) |-> NotAsked]
IsPage   == value \notin {NoPage, Members}

Shown == {Queries[i] : i \in DOMAIN Queries}

(* What the queries would see now.                                         *)
Now == [i \in 1..Len(Queries) |-> written[Queries[i]]]

-----------------------------------------------------------------------------
(* The handlers that write what pages show: their commits and the names    *)
(* that they clear, in the order of the code.  "set" is the set of the     *)
(* detail page; "other" is a name that no key has: a pattern, or "tab=X"   *)
(* where the set is called "tab:X" and keys go on with the page.           *)

Write(tables) == [op |-> "write", tables |-> tables, name |-> ""]
Clear(name)   == [op |-> "clear", tables |-> {}, name |-> name]

\* AdminProductCreate, AdminProductUpdate: one transaction
SaveProduct == <<Write({"product", "product_images"}), Clear("other"), Clear("other")>>

\* AdminProductTypeCreate, AdminProductTypeUpdate
SaveProductType == <<Write({"product_type"})>>

HandleSubmitReview == <<Write({"review"}), Clear("set"), Write({"review_images"})>>

\* HandleUpdateReview, without and with new images
UpdateText   == <<Write({"review"}), Clear("other")>>
UpdateImages == <<Write({"review"}), Write({"review_images"}), Write({"review_images"}),
                  Clear("other")>>

\* InsertReviewReply, UpdateReviewReply
SaveReply == <<Write({"reply"})>>

HandleUpdateAccount == <<Write({"account"})>>

\* InvoicePay, UpdateInvoice
SaveInvoice == <<Write({"invoice"})>>

CancelOrder == <<Write({"invoice"}), Clear("other"), Clear("other")>>

Handlers == {SaveProduct, SaveProductType, HandleSubmitReview, UpdateText, UpdateImages,
             SaveReply, HandleUpdateAccount, SaveInvoice, CancelOrder}

-----------------------------------------------------------------------------

Suffixes(s) == {SubSeq(s, i, Len(s)) : i \in 1..(Len(s) + 1)}

PageTypeOK ==
    /\ page \in Kinds
    /\ written \in [Tables -> 0..MaxWrites]
    /\ value \in {NoPage, Members} \cup [1..Len(Queries) -> 0..MaxWrites]
    /\ value = Members => SetIsKey
    /\ listed \in BOOLEAN
    /\ step \in [Calls -> PageStages]
    /\ todo \in [Calls -> UNION {Suffixes(h) : h \in Handlers}]
    /\ draft \in [Calls -> [1..Len(Queries) -> 0..NotAsked]]
    /\ late \subseteq Calls /\ behind \in BOOLEAN

PageInit ==
    /\ page \in Kinds
    /\ written = [t \in Tables |-> 0]
    /\ value = NoPage /\ listed = FALSE
    /\ step = [r \in Calls |-> "idle"]
    /\ todo = [r \in Calls |-> <<>>]
    /\ draft = [r \in Calls |-> Blank]
    /\ late = {} /\ behind = FALSE

MovesTo(r, stage) == step' = [step EXCEPT ![r] = stage]

EndRequest(r) ==
    /\ MovesTo(r, "idle")
    /\ todo' = [todo EXCEPT ![r] = <<>>]
    /\ draft' = [draft EXCEPT ![r] = Blank]
    /\ late' = late \ {r}

-----------------------------------------------------------------------------
(* Readers.                                                                *)

(* No page under the key, or no answer.  GetAdminReview takes that for an  *)
(* error and gives up, so its page is never there.  A hit changes nothing. *)
Miss(r) ==
    /\ step[r] = "idle" /\ page # "adminReviews"
    /\ MovesTo(r, "query")
    /\ UNCHANGED <<page, written, value, listed, todo, draft, late, behind>>

Query(r) ==
    /\ step[r] = "query"
    /\ \E i \in DOMAIN Queries :
        /\ draft[r][i] = NotAsked
        /\ Concurrent \/ \A j \in 1..(i - 1) : draft[r][j] # NotAsked
        /\ draft' = [draft EXCEPT ![r][i] = written[Queries[i]]]
    /\ UNCHANGED <<page, written, value, listed, step, todo, late, behind>>

\* Slip: the page is stored before the last query has answered.
AnsweredButOne(r) == Cardinality({i \in DOMAIN Queries : draft[r][i] = NotAsked}) <= 1

(* wg.Wait(), or the end of the queries.                                   *)
Answered(r) == \A i \in DOMAIN Queries : draft[r][i] # NotAsked

(* SetCache: SET with a TTL, whatever the key held; its error is dropped.  *)
Set(r) ==
    /\ step[r] = "query" /\ Answered(r)
    /\ \/ value' = draft[r] /\ behind' = (r \in late)
       \/ UNCHANGED <<value, behind>>
    /\ MovesTo(r, "sadd")
    /\ UNCHANGED <<page, written, listed, todo, draft, late>>

(* SADD fails on a string, and makes a set if the string is gone.          *)
SAdd(r) ==
    /\ step[r] = "sadd"
    /\ \/ /\ SetIsKey
          /\ value' = IF value = NoPage THEN Members ELSE value
          /\ UNCHANGED listed
       \/ ~SetIsKey /\ listed' = TRUE /\ UNCHANGED value
       \/ UNCHANGED <<value, listed>>
    /\ EndRequest(r)
    /\ UNCHANGED <<page, written, behind>>

(* The TTL: 10, 15 or 30 minutes, ten days for the pages of an admin.      *)
Expire ==
    /\ IsPage
    /\ value' = NoPage /\ behind' = FALSE
    /\ UNCHANGED <<page, written, listed, step, todo, draft, late>>

-----------------------------------------------------------------------------
(* Mutations, of those tables that the page shows.                         *)

Mutate(r) ==
    /\ step[r] = "idle"
    /\ MovesTo(r, "do")
    /\ \E h \in Handlers :
        /\ \E i \in DOMAIN h : h[i].tables \cap Shown # {}
        /\ todo' = [todo EXCEPT ![r] = h]
    /\ UNCHANGED <<page, written, value, listed, draft, late, behind>>

ToDo(r) == Head(todo[r])
Done(r) == todo' = [todo EXCEPT ![r] = Tail(@)]

HasSeen(q, tables) ==
    \E i \in DOMAIN Queries : draft[q][i] # NotAsked /\ Queries[i] \in tables

Writes == Cardinality(UNION {{t} \X (1..written[t]) : t \in Tables})

(* A commit.                                                               *)
CommitWrite(r) ==
    /\ step[r] = "do" /\ todo[r] # <<>> /\ ToDo(r).op = "write"
    /\ LET tables == ToDo(r).tables IN
        /\ Writes + Cardinality(tables) <= MaxWrites
        /\ written' = [t \in Tables |-> IF t \in tables THEN written[t] + 1 ELSE written[t]]
        /\ late' = late \cup {q \in Calls : HasSeen(q, tables)}
        /\ behind' = (behind \/ (IsPage /\ Shown \cap tables # {}))
    /\ Done(r)
    /\ UNCHANGED <<page, value, listed, step, draft>>

IsSet(name) == name = "set" /\ page = "detail"

(* DEL of the name.                                                        *)
DelSet(name) == listed' = (listed /\ ~IsSet(name))

(* ClearCache: DEL, whose error is dropped, then SMEMBERS.                 *)
Del(r) ==
    /\ step[r] = "do" /\ todo[r] # <<>> /\ ToDo(r).op = "clear"
    /\ \/ DelSet(ToDo(r).name)
       \/ UNCHANGED listed
    /\ MovesTo(r, "smembers")
    /\ UNCHANGED <<page, written, value, todo, draft, late, behind>>

(* With an error there are no members.                                     *)
SMembers(r) ==
    /\ step[r] = "smembers"
    /\ \/ /\ IsSet(ToDo(r).name) /\ listed
          /\ MovesTo(r, "delMembers")
          /\ UNCHANGED todo
       \/ MovesTo(r, "do") /\ Done(r)
    /\ UNCHANGED <<page, written, value, listed, draft, late, behind>>

(* DEL of the members.                                                     *)
DelMembers(r) ==
    /\ step[r] = "delMembers"
    /\ \/ value' = NoPage /\ behind' = FALSE
       \/ UNCHANGED <<value, behind>>
    /\ MovesTo(r, "do") /\ Done(r)
    /\ UNCHANGED <<page, written, listed, draft, late>>

Answer(r) ==
    /\ step[r] = "do" /\ todo[r] = <<>>
    /\ EndRequest(r)
    /\ UNCHANGED <<page, written, value, listed, behind>>

(* A query, the analysis or a commit fails.  There is no way back for what *)
(* was committed before.                                                   *)
GiveUp(r) ==
    /\ step[r] \in {"query", "do"}
    /\ EndRequest(r)
    /\ UNCHANGED <<page, written, value, listed, behind>>

-----------------------------------------------------------------------------

Read(r)   == Miss(r) \/ Query(r) \/ Set(r) \/ SAdd(r)
Change(r) == Mutate(r) \/ CommitWrite(r) \/ Del(r) \/ SMembers(r) \/ DelMembers(r)
             \/ Answer(r)

PageNext == Expire \/ \E r \in Calls : Read(r) \/ Change(r) \/ GiveUp(r)

PageSpec == PageInit /\ [][PageNext]_pageVars

-----------------------------------------------------------------------------

(* A stored page is what all its queries would answer at this moment,      *)
(* though each ran at another, unless a table was written after it was     *)
(* read for the page.                                                      *)
PageIsOfOneMoment == IsPage /\ ~behind => value = Now


=============================================================================
