----------------------------- MODULE Addresses ------------------------------
(***************************************************************************)
(* The delivery addresses of the accounts, and which of them is the        *)
(* default (status).  AddressFill takes any address with the status for    *)
(* the checkout.  AddressQuickChange moves the status from one address to  *)
(* another by two updates without a transaction; AddressInsert and         *)
(* AddressUpdate take the status from the body.  An update of a row that   *)
(* is gone changes nothing and is no error.                                *)
(*                                                                         *)
(* Left out: the columns with the address itself.  AddressUpdate takes     *)
(* them from the body, a quick change writes them back as it read them.    *)
(***************************************************************************)
EXTENDS Naturals, Sequences, FiniteSets

CONSTANTS
    Requests,      \* slots for requests in flight
    Accounts,
    MaxAddresses,  \* bound: addresses at a time
    PageSize       \* rows of a page; 6 in FetchAddress

ASSUME AddressBounds == MaxAddresses \in Nat /\ PageSize \in Nat \ {0}

VARIABLES
    address,       \* the row of each addressID
    at,            \* the next step of a request
    on, off,       \* the addressID it writes, and the one to be disabled
    copy,          \* the row it is going to write
    overtaken,     \* history: quick changes whose new default was taken away
    mixed          \* history: accounts that were given a second default

memory      == <<on, off, copy>>
addressVars == <<address, at, memory, overtaken, mixed>>

Ids   == 1..MaxAddresses
Row   == [account : Accounts, status : BOOLEAN]
NoRow == [status |-> FALSE]

Exists(i)   == address[i] # NoRow
AddressesOf(a) == {i \in Ids : Exists(i) /\ address[i].account = a}
Defaults(a) == {i \in AddressesOf(a) : address[i].status}

AddressTypeOK ==
    /\ address \in [Ids -> Row \cup {NoRow}]
    /\ at \in [Requests -> {"idle", "update", "delete", "find", "enable", "disable"}]
    /\ on \in [Requests -> {0} \cup Ids] /\ off \in [Requests -> {0} \cup Ids]
    /\ copy \in [Requests -> Row \cup {NoRow}]
    /\ \A r \in Requests :
        /\ at[r] # "idle" => on[r] \in Ids /\ copy[r] \in Row
        /\ at[r] # "idle" /\ Exists(on[r]) => address[on[r]].account = copy[r].account
        /\ at[r] \in {"find", "enable", "disable"} => off[r] # on[r]
    /\ overtaken \subseteq Requests /\ mixed \subseteq Accounts

AddressInit ==
    /\ address = [i \in Ids |-> NoRow]
    /\ at = [r \in Requests |-> "idle"]
    /\ on = [r \in Requests |-> 0] /\ off = [r \in Requests |-> 0]
    /\ copy = [r \in Requests |-> NoRow]
    /\ overtaken = {} /\ mixed = {}

MovesTo(r, stage) == at' = [at EXCEPT ![r] = stage]

Finish(r) ==
    /\ MovesTo(r, "idle")
    /\ on' = [on EXCEPT ![r] = 0] /\ off' = [off EXCEPT ![r] = 0]
    /\ copy' = [copy EXCEPT ![r] = NoRow]

(* Quick changes that will end without their address i as the default:     *)
(* somebody else disables it after they did, or deletes it.                *)
Overtakes(r, i, gone) ==
    {q \in Requests \ {r} :
        /\ on[q] = i
        /\ at[q] = "disable" \/ (gone /\ at[q] \in {"find", "enable"})}

-----------------------------------------------------------------------------
(* AddressInsert: the row is that of the body, the id one that no request  *)
(* knows.                                                                  *)
AddressInsert(r) ==
    /\ at[r] = "idle"
    /\ \E i \in Ids, row \in Row :
        /\ ~Exists(i) /\ \A q \in Requests : i \notin {on[q], off[q]}
        /\ address' = [address EXCEPT ![i] = row]
        /\ mixed' = IF row.status /\ Defaults(row.account) # {}
                    THEN mixed \cup {row.account} ELSE mixed
    /\ UNCHANGED <<at, memory, overtaken>>

(* AddressUpdate, AddressDelete, AddressQuickChange: the address is looked *)
(* up, and belongs to the account of the query.                            *)
Find(r, i, row, stage) ==
    /\ at[r] = "idle" /\ Exists(i)
    /\ MovesTo(r, stage)
    /\ on' = [on EXCEPT ![r] = i]
    /\ copy' = [copy EXCEPT ![r] = row]
    /\ UNCHANGED <<address, overtaken, mixed>>

AddressUpdate(r) ==
    \E i \in Ids, status \in BOOLEAN :
        Find(r, i, [address[i] EXCEPT !.status = status], "update") /\ UNCHANGED off

AddressDelete(r) ==
    \E i \in Ids : Find(r, i, address[i], "delete") /\ UNCHANGED off

\* Slip: the two are not compared.
NotCompared(i, j) == TRUE

(* The two addresses cannot be the same.                                   *)
Differ(i, j) == i # j

AddressQuickChange(r) ==
    \E i, j \in Ids :
        /\ Differ(i, j)
        /\ Find(r, i, [address[i] EXCEPT !.status = TRUE], "find")
        /\ off' = [off EXCEPT ![r] = j]

(* The other address, of the same account.                                 *)
FindOff(r) ==
    /\ at[r] = "find"
    /\ Exists(off[r]) /\ address[off[r]].account = copy[r].account
    /\ MovesTo(r, "enable")
    /\ UNCHANGED <<address, memory, overtaken, mixed>>

Updated(i, row) == IF Exists(i) THEN [address EXCEPT ![i] = row] ELSE address

WriteUpdate(r) ==
    /\ at[r] = "update"
    /\ address' = Updated(on[r], copy[r])
    /\ mixed' = IF copy[r].status /\ Defaults(copy[r].account) \ {on[r]} # {}
                THEN mixed \cup {copy[r].account} ELSE mixed
    /\ overtaken' = IF copy[r].status THEN overtaken
                    ELSE overtaken \cup Overtakes(r, on[r], FALSE)
    /\ Finish(r)

DeleteRow(r) ==
    /\ at[r] = "delete"
    /\ address' = [address EXCEPT ![on[r]] = NoRow]
    /\ overtaken' = overtaken \cup Overtakes(r, on[r], TRUE)
    /\ Finish(r)
    /\ UNCHANGED mixed

\* Slip: the old default is disabled first.
DisabledFirst(r) == Updated(off[r], [copy[r] EXCEPT !.status = FALSE])

Enabled(r) == Updated(on[r], copy[r])

(* The first update.  A third default beside the two is not looked for.    *)
Enable(r) ==
    /\ at[r] = "enable"
    /\ address' = Enabled(r)
    /\ mixed' = IF Defaults(copy[r].account) \subseteq {on[r], off[r]} THEN mixed
                ELSE mixed \cup {copy[r].account}
    /\ MovesTo(r, "disable")
    /\ UNCHANGED <<memory, overtaken>>

\* Slip: the address that is enabled is written again.
EnabledAgain(r) == Updated(on[r], copy[r])

Disabled(r) == Updated(off[r], [copy[r] EXCEPT !.status = FALSE])

(* The second.                                                             *)
Disable(r) ==
    /\ at[r] = "disable"
    /\ address' = Disabled(r)
    /\ overtaken' = (overtaken \cup Overtakes(r, off[r], FALSE)) \ {r}
    /\ Finish(r)
    /\ UNCHANGED mixed

(* A query fails, or finds nothing; what was written before stays.         *)
Fail(r) ==
    /\ at[r] # "idle"
    /\ Finish(r)
    /\ overtaken' = overtaken \ {r}
    /\ mixed' = IF at[r] = "disable" THEN mixed \cup {copy[r].account} ELSE mixed
    /\ UNCHANGED address

AddressNext == \E r \in Requests :
    \/ AddressInsert(r)
    \/ AddressUpdate(r) \/ WriteUpdate(r)
    \/ AddressDelete(r) \/ DeleteRow(r)
    \/ AddressQuickChange(r) \/ FindOff(r) \/ Enable(r) \/ Disable(r)
    \/ Fail(r)

AddressSpec == AddressInit /\ [][AddressNext]_addressVars

-----------------------------------------------------------------------------
(* FetchAddress: a page of the addresses, the newest first.  The page is   *)
(* that of the query, and not 0.                                           *)

\* Slip: pages are counted from zero.
PaginateFromZero(page, pageSize, totalRecords) ==
    [offset |-> page * pageSize, totalPage |-> (totalRecords + pageSize - 1) \div pageSize]

(* A page below one is the first, and a page of no rows has six.  Not      *)
(* every list is cut with this offset: those of products, of orders and of *)
(* an admin's reviews have one of their own.                               *)
Paginate(page, pageSize, totalRecords) ==
    LET size == IF pageSize <= 0 THEN 6 ELSE pageSize IN
    [offset    |-> ((IF page <= 0 THEN 1 ELSE page) - 1) * size,
     totalPage |-> (totalRecords + size - 1) \div size]

Total(a)     == Cardinality(AddressesOf(a))
TotalPage(a) == Paginate(1, PageSize, Total(a)).totalPage
PagesOf(a)   == 1..TotalPage(a)

(* ORDER BY addressID DESC: the position of an address among all.          *)
Position(a, i) == Cardinality({j \in AddressesOf(a) : j >= i})

(* OFFSET and LIMIT.                                                       *)
FetchAddress(a, page) ==
    LET offset == Paginate(page, PageSize, Total(a)).offset
        rows   == IF offset + PageSize < Total(a) THEN PageSize ELSE Total(a) - offset
    IN [k \in 1..rows |-> CHOOSE i \in AddressesOf(a) : Position(a, i) = offset + k]

-----------------------------------------------------------------------------

Ends(r, stages) == at[r] \in stages /\ at'[r] = "idle"

(* An account loses its last default only by an update or a deletion that  *)
(* was asked for, or if one overtook a quick change: a quick change that   *)
(* fails, at whatever step, leaves a default, and so do two of them that   *)
(* do not meet.                                                            *)
DefaultKept ==
    [][\A a \in Accounts :
        Defaults(a) # {} /\ Defaults(a)' = {} =>
            \E r \in Requests :
                \/ Ends(r, {"update", "delete"})
                \/ r \in overtaken /\ Ends(r, {"disable"})]_addressVars

(* An account has two defaults only between the updates of a quick change, *)
(* or after one of these: a body with the status for a second address, a   *)
(* quick change that disabled an address that was not the default or that  *)
(* failed half-way.                                                        *)
OneDefault ==
    \A a \in Accounts \ mixed : \A i, j \in Defaults(a) :
        i # j => \E r \in Requests : at[r] = "disable" /\ {on[r], off[r]} = {i, j}

(* A client that asks for all pages, from the first to the last, gets each *)
(* address once, the newest first; no page is empty, all but the last are  *)
(* full, and a page past the last one is empty.                            *)
PagesPartition ==
    \A a \in Accounts :
        /\ \A i \in AddressesOf(a) : \E p \in PagesOf(a) :
            \E k \in DOMAIN FetchAddress(a, p) : FetchAddress(a, p)[k] = i
        /\ \A p, q \in PagesOf(a) :
            \A k \in DOMAIN FetchAddress(a, p), l \in DOMAIN FetchAddress(a, q) :
                (FetchAddress(a, p)[k] > FetchAddress(a, q)[l]) <=> (p < q \/ (p = q /\ k < l))
        /\ \A p \in PagesOf(a) : Len(FetchAddress(a, p)) \in 1..PageSize
        /\ \A p \in PagesOf(a) \ {TotalPage(a)} : Len(FetchAddress(a, p)) = PageSize
        /\ FetchAddress(a, TotalPage(a) + 1) = <<>>

=============================================================================
