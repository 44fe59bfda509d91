----------------------------- MODULE Catalogue ------------------------------
(***************************************************************************)
(* Products with their images, and product types.  AdminProductCreate and *)
(* AdminProductUpdate are the only handlers beside InvoicePay with a       *)
(* transaction, but the update reads the old cover and the old images      *)
(* outside of it.  What orders two updates is the lock that PostgreSQL     *)
(* takes on the row at UPDATE and keeps until the end of the transaction.  *)
(* Types are checked, then written, without one.                           *)
(*                                                                         *)
(* Left out: name, price, weight, description and status, which go the way *)
(* of the type.  The pages that show products are in PageCaches.           *)
(***************************************************************************)
EXTENDS Naturals

CONSTANTS
    Requests,      \* slots for requests in flight
    MaxProducts,   \* bound: productIDs that are handed out
    Types,         \* productTypeIDs
    Names,         \* names of types
    Covers,        \* cover images
    Sets           \* the rows of product_images that one body brings

ASSUME CatalogueBounds ==
    /\ MaxProducts \in Nat /\ 0 \notin Types
    /\ "" \notin Covers /\ "" \notin Names /\ "none" \notin Sets

VARIABLES
    product,       \* the committed row of each productID
    images,        \* product_images: what each product has
    typeName,      \* product_type: the name of each type, "" if there is no row
    at, on,        \* the next step of a request, and the product or type
    copy,          \* the row it is going to write
    brings,        \* whether its body has images
    olds,          \* the images it has read, to delete them
    matched,       \* requests whose INSERT or UPDATE has a row, locked until the end
    latest,        \* history: what the last update with images brought
    stale,         \* history: updates that go by a cover that is not current
    strays         \* history: products that got images before they were committed

tables  == <<product, images, typeName>>
memory  == <<copy, brings, olds, matched>>
history == <<latest, stale, strays>>
vars    == <<tables, at, on, memory, history>>

Ids     == 1..MaxProducts
Row     == [cover : Covers \cup {""}, type : Types]
TypeRow == [name : Names]
NoRow   == [name |-> ""]

Exists(p) == product[p] # NoRow

Stages == {"idle", "insert", "row", "olds", "replace", "commit",
           "typeInsert", "typeFind", "typeWrite"}

TypeOK ==
    /\ product \in [Ids -> Row \cup {NoRow}]
    /\ \A p \in Ids : Exists(p) => typeName[product[p].type] # ""
    /\ images \in [Ids -> SUBSET Sets]
    /\ typeName \in [Types -> Names \cup {""}]
    /\ \A t, u \in Types : typeName[t] = typeName[u] /\ typeName[t] # "" => t = u
    /\ at \in [Requests -> Stages]
    /\ on \in [Requests -> {0} \cup Ids \cup Types]
    /\ copy \in [Requests -> Row \cup TypeRow \cup {NoRow}]
    /\ brings \in [Requests -> BOOLEAN]
    /\ olds \in [Requests -> SUBSET Sets]
    /\ matched \subseteq Requests
    /\ latest \in [Ids -> Sets \cup {"none"}]
    /\ stale \subseteq Requests /\ strays \subseteq Ids

Init ==
    /\ product = [p \in Ids |-> NoRow]
    /\ images = [p \in Ids |-> {}]
    /\ typeName = [t \in Types |-> ""]
    /\ at = [r \in Requests |-> "idle"] /\ on = [r \in Requests |-> 0]
    /\ copy = [r \in Requests |-> NoRow]
    /\ brings = [r \in Requests |-> FALSE]
    /\ olds = [r \in Requests |-> {}]
    /\ matched = {}
    /\ latest = [p \in Ids |-> "none"]
    /\ stale = {} /\ strays = {}

Goes(r, stage) == at' = [at EXCEPT ![r] = stage] /\ UNCHANGED on

Begin(r, stage, id, row, with) ==
    /\ at[r] = "idle"
    /\ at' = [at EXCEPT ![r] = stage]
    /\ on' = [on EXCEPT ![r] = id]
    /\ copy' = [copy EXCEPT ![r] = row]
    /\ brings' = [brings EXCEPT ![r] = with]
    /\ UNCHANGED <<tables, olds, matched>>

(* The request ends, its transaction with it, and lets go of everything.   *)
Forget(r) ==
    /\ copy' = [copy EXCEPT ![r] = NoRow]
    /\ brings' = [brings EXCEPT ![r] = FALSE]
    /\ olds' = [olds EXCEPT ![r] = {}]
    /\ matched' = matched \ {r}

Finish(r) ==
    /\ at' = [at EXCEPT ![r] = "idle"] /\ on' = [on EXCEPT ![r] = 0]
    /\ Forget(r)
    /\ stale' = stale \ {r}

-----------------------------------------------------------------------------
(* AdminProductCreate: a body without images is refused.                   *)

AdminProductCreate(r) ==
    /\ \E row \in Row : Begin(r, "insert", 0, row, TRUE)
    /\ UNCHANGED history

(* The foreign key of product on product_type.                             *)
TypeExists(t) == typeName[t] # ""

(* Insert of the product and its images, which nobody sees before the      *)
(* commit.                                                                 *)
InsertProduct(r) ==
    /\ at[r] = "insert"
    /\ TypeExists(copy[r].type)
    /\ \E p \in Ids :
        /\ ~Exists(p) /\ \A q \in matched : on[q] # p
        /\ on' = [on EXCEPT ![r] = p]
    /\ at' = [at EXCEPT ![r] = "commit"]
    /\ matched' = matched \cup {r}
    /\ UNCHANGED <<tables, copy, brings, olds, history>>

-----------------------------------------------------------------------------
(* AdminProductUpdate.                                                     *)

\* Slip: the cover of the body replaces the old one.
CoverOfBody(q, row) == row

(* A cover that is there is kept.  It is looked up by the productID of the *)
(* URL, the update goes by that of the body.                               *)
KeepCover(q, row) ==
    IF product[q].cover # "" THEN [row EXCEPT !.cover = product[q].cover] ELSE row

AdminProductUpdate(r) ==
    \E q, p \in Ids, row \in Row, with \in BOOLEAN :
        /\ Exists(q)
        /\ Begin(r, "row", p, KeepCover(q, row), with)
        /\ stale' = IF q = p THEN stale ELSE stale \cup {r}
        /\ UNCHANGED <<latest, strays>>

\* Slip: the UPDATE takes no lock.
LockedByNobody(p) == FALSE

Locked(p) == \E q \in matched : on[q] = p

(* UPDATE waits for whoever updates the row, and locks it.  A productID    *)
(* that is not there, or not committed, matches no row, which is no error. *)
UpdateRow(r) ==
    /\ at[r] = "row"
    /\ \/ /\ Exists(on[r]) /\ ~Locked(on[r]) /\ TypeExists(copy[r].type)
          /\ matched' = matched \cup {r}
       \/ ~Exists(on[r]) /\ UNCHANGED matched
    /\ Goes(r, IF brings[r] THEN "olds" ELSE "commit")
    /\ UNCHANGED <<tables, copy, brings, olds, history>>

OldImages(p) == images[p]

FetchOldImages(r) ==
    /\ at[r] = "olds"
    /\ olds' = [olds EXCEPT ![r] = OldImages(on[r])]
    /\ Goes(r, "replace")
    /\ UNCHANGED <<tables, copy, brings, matched, history>>

(* DeleteAll and the Inserts, seen by others only after the commit.  The   *)
(* foreign key wants a product that is committed.                          *)
ReplaceImages(r) ==
    /\ at[r] = "replace"
    /\ Exists(on[r])
    /\ Goes(r, "commit")
    /\ UNCHANGED <<tables, memory, history>>

-----------------------------------------------------------------------------
(* Both end with Commit.  ClearCache is then called with names that no key *)
(* has, and changes nothing.                                               *)

(* The new rows, and what is left of the old ones.                         *)
Replaced(r, new) ==
    [p \in Ids |-> (images[p] \ olds[r]) \cup (IF p = on[r] THEN {new} ELSE {})]

InUse == (UNION {images[p] \cup {latest[p]} : p \in Ids}) \cup (UNION {olds[r] : r \in Requests})

CommitRow(r) ==
    product' = IF r \in matched THEN [product EXCEPT ![on[r]] = copy[r]] ELSE product

CommitImages(r) ==
    IF brings[r]
    THEN \E new \in Sets \ InUse :
            /\ images' = Replaced(r, new)
            /\ latest' = [latest EXCEPT ![on[r]] = new]
            /\ strays' = IF r \in matched THEN strays ELSE strays \cup {on[r]}
    ELSE UNCHANGED <<images, latest, strays>>

Waiting(p) == {q \in Requests : at[q] = "row" /\ on[q] = p}

Commit(r) ==
    /\ at[r] = "commit"
    /\ CommitRow(r) /\ CommitImages(r)
    /\ stale' = (IF r \in matched THEN stale \cup Waiting(on[r]) ELSE stale) \ {r}
    /\ Forget(r)
    /\ at' = [at EXCEPT ![r] = "idle"] /\ on' = [on EXCEPT ![r] = 0]
    /\ UNCHANGED typeName

-----------------------------------------------------------------------------
(* Product types: validationProductType, then the write.                   *)

NameTaken(t, n) == \E u \in Types \ {t} : typeName[u] = n

AdminProductTypeCreate(r) ==
    \E n \in Names :
        /\ ~NameTaken(0, n)
        /\ Begin(r, "typeInsert", 0, [name |-> n], FALSE)
        /\ UNCHANGED history

AdminProductTypeUpdate(r) ==
    \E t \in Types, n \in Names :
        /\ ~NameTaken(t, n)
        /\ Begin(r, "typeFind", t, [name |-> n], FALSE)
        /\ UNCHANGED history

FindProductType(r) ==
    /\ at[r] = "typeFind"
    /\ typeName[on[r]] # ""
    /\ Goes(r, "typeWrite")
    /\ UNCHANGED <<tables, memory, history>>

(* The name is unique in the table.                                        *)
NameFree(t, n) == ~NameTaken(t, n)

(* Insert takes an id that is free by now, Update writes every column.     *)
WriteType(r) ==
    /\ at[r] \in {"typeInsert", "typeWrite"}
    /\ \E t \in Types :
        /\ IF at[r] = "typeWrite" THEN t = on[r] ELSE typeName[t] = ""
        /\ NameFree(t, copy[r].name)
        /\ typeName' = [typeName EXCEPT ![t] = copy[r].name]
    /\ at' = [at EXCEPT ![r] = "idle"] /\ on' = [on EXCEPT ![r] = 0]
    /\ Forget(r)
    /\ stale' = stale \ {r}
    /\ UNCHANGED <<product, images, latest, strays>>

-----------------------------------------------------------------------------
(* A query fails, a constraint refuses, or the body is not valid: what was *)
(* not committed is rolled back.                                           *)
Fail(r) ==
    /\ at[r] # "idle"
    /\ Finish(r)
    /\ UNCHANGED <<tables, latest, strays>>

-----------------------------------------------------------------------------

Save(r) ==
    \/ AdminProductCreate(r) \/ InsertProduct(r)
    \/ AdminProductUpdate(r) \/ UpdateRow(r) \/ FetchOldImages(r) \/ ReplaceImages(r)
    \/ Commit(r)

SaveType(r) ==
    \/ AdminProductTypeCreate(r) \/ AdminProductTypeUpdate(r)
    \/ FindProductType(r) \/ WriteType(r)

Next == \E r \in Requests : Save(r) \/ SaveType(r) \/ Fail(r)

Spec == Init /\ [][Next]_vars

-----------------------------------------------------------------------------

(* A product has the images of one update, the last that brought any: two  *)
(* updates at the same time never leave a mixture, though the old images   *)
(* are read outside the transaction.  Only an update sent for a product    *)
(* that was not there yet can add to those it was created with.            *)
ImagesOfOneUpdate ==
    \A p \in Ids : Exists(p) /\ p \notin strays => images[p] = {latest[p]}

(* A cover that is set is replaced or lost only if two updates of the      *)
(* product overlapped, or the cover was looked up for another product.     *)
CoverKept ==
    [][\A p \in Ids :
        Exists(p) /\ product[p].cover # "" /\ product'[p].cover # product[p].cover
            => \E r \in stale : at[r] = "commit" /\ on[r] = p]_vars

=============================================================================
