-------------------------------- MODULE Carts --------------------------------
(***************************************************************************)
(* The cart of one account: its cart_detail rows in the database, and the  *)
(* copy of them that GetCartDetail keeps in Redis for ten minutes under    *)
(* cart:accountID=...  Requests run concurrently, without transactions:    *)
(* every query, update and Redis command is a step of its own.  The        *)
(* requests of other accounts matter only where they name this one.        *)
(***************************************************************************)
EXTENDS Naturals

CONSTANTS
    Requests,      \* request slots; a slot serves one request after another
    Products,
    MaxQuantity,   \* bound on quantities
    MaxLines       \* bound on the cartIDs that are handed out

ASSUME CartBounds == MaxQuantity \in Nat \ {0} /\ MaxLines \in Nat

VARIABLES
    rows,      \* cart_detail: the line of each cartID
    nextId,    \* the identity column
    cache,     \* the value of the key in Redis
    at,        \* the next step of each request
    id, copy,  \* the line a request holds, read or about to be inserted
    snap,      \* the rows a request has read
    excuse,    \* history: why the cached cart may be stale
    addsMet    \* history: two AddToCart ran at the same time

vars == <<rows, nextId, cache, at, id, copy, snap, excuse, addsMet>>

table   == <<rows, nextId>>
memory  == <<id, copy, snap>>
history == <<excuse, addsMet>>

Ids        == 1..MaxLines
Quantities == 0..MaxQuantity
Line       == [product : Products, quantity : Quantities]
NoLine     == [quantity |-> 0]
Carts      == [Ids -> Line \cup {NoLine}]
NoCart     == [i \in Ids |-> NoLine]

\* A string with a cart, no key, or a set that SADD made (see SAdd).
Cached     == [kind : {"cart", "none", "members"}, rows : Carts]
NoKey      == [kind |-> "none", rows |-> NoCart]
Members    == [kind |-> "members", rows |-> NoCart]

Stages == {"idle", "query", "set", "sadd", "update", "delete", "deleteAll",
           "del", "smembers", "delMembers", "delFirst", "smembersFirst",
           "delMembersFirst", "check", "insert", "increase"}
Adding == {"delFirst", "smembersFirst", "delMembersFirst", "check", "insert",
           "increase"}
Reasons == {"none", "lateSet", "earlyClear", "redis", "otherKey", "crash"}

TypeOK ==
    /\ rows \in Carts
    /\ nextId \in 1..(MaxLines + 1)
    /\ \A i \in Ids : i >= nextId => rows[i] = NoLine
    /\ cache \in Cached
    /\ at \in [Requests -> Stages]
    /\ id \in [Requests -> {0} \cup Ids]
    /\ \A r \in Requests : at[r] \in {"update", "delete", "increase"} =>
           id[r] \in 1..(nextId - 1) /\ copy[r] \in Line
    /\ copy \in [Requests -> Line \cup {NoLine}]
    /\ snap \in [Requests -> Carts]
    /\ excuse \in Reasons
    /\ addsMet \in BOOLEAN

Init ==
    /\ rows = NoCart
    /\ nextId = 1
    /\ cache = NoKey
    /\ at = [r \in Requests |-> "idle"]
    /\ id = [r \in Requests |-> 0]
    /\ copy = [r \in Requests |-> NoLine]
    /\ snap = [r \in Requests |-> NoCart]
    /\ excuse = "none"
    /\ addsMet = FALSE

Exists(i) == rows[i] # NoLine
Stale     == cache.kind = "cart" /\ cache.rows # rows

Goes(r, stage) == at' = [at EXCEPT ![r] = stage]

Holds(r, i, line, cart) ==
    /\ id' = [id EXCEPT ![r] = i]
    /\ copy' = [copy EXCEPT ![r] = line]
    /\ snap' = [snap EXCEPT ![r] = cart]

Finish(r) == Goes(r, "idle") /\ Holds(r, 0, NoLine, NoCart)

(* This step is why the cached cart is stale, if it is.                    *)
Excuse(reason) == excuse' = IF Stale' THEN reason ELSE "none"

-----------------------------------------------------------------------------
(* GetCartDetail: GET; on a miss SELECT, SET with a TTL, SADD.  A hit, and *)
(* FetchCart, which never looks at the cache, change nothing.  The errors  *)
(* of Redis are dropped: any command may do nothing.                       *)

(* No cart under the key, or no answer.                                    *)
GetMiss(r) ==
    /\ at[r] = "idle"
    /\ Goes(r, "query")
    /\ UNCHANGED <<table, cache, memory, history>>

Query(r) ==
    /\ at[r] = "query"
    /\ Goes(r, "set")
    /\ Holds(r, 0, NoLine, rows)
    /\ UNCHANGED <<table, cache, history>>

Set(r) ==
    /\ at[r] = "set"
    /\ cache' = [kind |-> "cart", rows |-> snap[r]]
    /\ UNCHANGED <<table, memory, addsMet>>
    /\ Excuse("lateSet")
    /\ Goes(r, "sadd")

SetFails(r) ==
    /\ at[r] = "set"
    /\ Goes(r, "sadd")
    /\ UNCHANGED <<table, cache, memory, history>>

(* The set of keys has the name of the key itself: SADD fails on a string, *)
(* and makes a set, which GET cannot read, if the string is gone by now.   *)
SAdd(r) ==
    /\ at[r] = "sadd"
    /\ cache' \in IF cache.kind = "none" THEN {Members, cache} ELSE {cache}
    /\ Finish(r)
    /\ UNCHANGED <<table, history>>

(* The TTL of ten minutes; a set has none.                                 *)
Expire ==
    /\ cache.kind = "cart"
    /\ cache' = NoKey
    /\ UNCHANGED <<table, at, memory, history>>

-----------------------------------------------------------------------------
(* ClearCache: DEL, SMEMBERS, and DEL of the members, if there are any:    *)
(* the key itself, whatever it holds by then.  AddToCart goes on after it. *)

Then(r, stage, stageFirst) ==
    Goes(r, IF at[r] \in Adding THEN stageFirst ELSE stage)

Del(r) ==
    /\ at[r] \in {"del", "delFirst"}
    /\ cache' = NoKey
    /\ excuse' = "none"
    /\ Then(r, "smembers", "smembersFirst")
    /\ UNCHANGED <<table, memory, addsMet>>

DelFails(r) ==
    /\ at[r] \in {"del", "delFirst"}
    /\ UNCHANGED <<table, cache, memory, addsMet>>
    /\ Excuse("redis")
    /\ Then(r, "smembers", "smembersFirst")

Cleared(r) ==
    IF at[r] \in Adding THEN Goes(r, "check") /\ UNCHANGED memory ELSE Finish(r)

(* With an error there are no members.                                     *)
SMembers(r) ==
    /\ at[r] \in {"smembers", "smembersFirst"}
    /\ \/ Cleared(r)
       \/ /\ cache.kind = "members"
          /\ Then(r, "delMembers", "delMembersFirst")
          /\ UNCHANGED memory
    /\ UNCHANGED <<table, cache, history>>

DelMembers(r) ==
    /\ at[r] \in {"delMembers", "delMembersFirst"}
    /\ cache' \in {NoKey, cache}
    /\ Cleared(r)
    /\ UNCHANGED <<table, history>>

-----------------------------------------------------------------------------
(* Cart_ModifyQuantity and DeleteCartItem: find the line by its cartID,    *)
(* write it, clear the cache.                                              *)

Find(r, i, line, next) ==
    /\ at[r] = "idle"
    /\ Exists(i)
    /\ Holds(r, i, line, NoCart)
    /\ Goes(r, next)
    /\ UNCHANGED <<table, cache, history>>

Modify(r, i, q) == Find(r, i, [rows[i] EXCEPT !.quantity = q], "update")
Delete(r, i)    == Find(r, i, rows[i], "delete")

\* An update of a line that is gone changes no row, and is no error.
Updated(i, line) == IF Exists(i) THEN [rows EXCEPT ![i] = line] ELSE rows

\* Slip: the cache is left alone.
UpdateOnly(r) ==
    /\ at[r] = "update"
    /\ rows' = Updated(id[r], copy[r])
    /\ Finish(r)
    /\ UNCHANGED <<nextId, cache, history>>

(* The key to clear is that of the account the query names: nothing says   *)
(* that it is the account of the line.                                     *)
ClearNamed(r) ==
    \/ Goes(r, "del") /\ UNCHANGED <<memory, excuse>>
    \/ Finish(r) /\ Excuse("otherKey")

Update(r) ==
    /\ at[r] = "update"
    /\ rows' = Updated(id[r], copy[r])
    /\ UNCHANGED <<nextId, cache, addsMet>>
    /\ ClearNamed(r)

DeleteRow(r) ==
    /\ at[r] = "delete"
    /\ rows' = [rows EXCEPT ![id[r]] = NoLine]
    /\ UNCHANGED <<nextId, cache, addsMet>>
    /\ ClearNamed(r)

(* A line of another account was written, and the query names this one.    *)
WriteElsewhere(r) ==
    /\ at[r] = "idle"
    /\ Goes(r, "del")
    /\ UNCHANGED <<table, cache, memory, history>>

(* DeleteAllItems: read the lines, delete those, clear the cache.          *)
DeleteAll(r) ==
    /\ at[r] = "idle"
    /\ Holds(r, 0, NoLine, rows)
    /\ Goes(r, "deleteAll")
    /\ UNCHANGED <<table, cache, history>>

DeleteRows(r) ==
    /\ at[r] = "deleteAll"
    /\ rows' = [i \in Ids |-> IF snap[r][i] # NoLine THEN NoLine ELSE rows[i]]
    /\ Goes(r, "del")
    /\ UNCHANGED <<nextId, cache, memory, excuse, addsMet>>

-----------------------------------------------------------------------------
(* AddToCart: clear the cache, look for a line of the product, then insert *)
(* one or add to its quantity.                                             *)

Add(r, p, q) ==
    /\ at[r] = "idle"
    /\ Holds(r, 0, [product |-> p, quantity |-> q], NoCart)
    /\ Goes(r, "delFirst")
    /\ addsMet' = (addsMet \/ \E s \in Requests : at[s] \in Adding)
    /\ UNCHANGED <<table, cache, excuse>>

LinesOf(p) == {i \in Ids : Exists(i) /\ rows[i].product = p}

\* Slip: the line is not looked for.
CheckNothing(r) ==
    /\ at[r] = "check"
    /\ Goes(r, "insert")
    /\ UNCHANGED <<table, cache, memory, history>>

Check(r) ==
    LET found == LinesOf(copy[r].product) IN
    /\ at[r] = "check"
    /\ \/ /\ found = {}
          /\ Goes(r, "insert")
          /\ UNCHANGED memory
       \/ \E i \in found :
          LET sum == rows[i].quantity + copy[r].quantity IN
          /\ sum <= MaxQuantity
          /\ Holds(r, i, [rows[i] EXCEPT !.quantity = sum], rows)
          /\ Goes(r, "increase")
    /\ UNCHANGED <<table, cache, history>>

(* The cache may have been filled again since it was cleared.              *)
Insert(r) ==
    /\ at[r] = "insert"
    /\ nextId <= MaxLines
    /\ rows' = [rows EXCEPT ![nextId] = copy[r]]
    /\ nextId' = nextId + 1
    /\ UNCHANGED <<cache, addsMet>>
    /\ Excuse("earlyClear")
    /\ Finish(r)

Increase(r) ==
    /\ at[r] = "increase"
    /\ rows' = Updated(id[r], copy[r])
    /\ UNCHANGED <<nextId, cache, addsMet>>
    /\ Excuse("earlyClear")
    /\ Finish(r)

(* A query or an update fails: the handler returns an error at once.       *)
Fail(r) ==
    /\ at[r] \in {"query", "update", "delete", "deleteAll", "check", "insert",
                  "increase"}
    /\ Finish(r)
    /\ UNCHANGED <<table, cache, history>>

(* The process dies, and starts again.                                     *)
Crash ==
    /\ at' = [r \in Requests |-> "idle"]
    /\ id' = [r \in Requests |-> 0]
    /\ copy' = [r \in Requests |-> NoLine]
    /\ snap' = [r \in Requests |-> NoCart]
    /\ excuse' = IF Stale /\ excuse = "none" THEN "crash" ELSE excuse
    /\ UNCHANGED <<table, cache, addsMet>>

Get(r) == GetMiss(r) \/ Query(r) \/ Set(r) \/ SetFails(r) \/ SAdd(r)
Clear(r) == Del(r) \/ DelFails(r) \/ SMembers(r) \/ DelMembers(r)
Change(r) ==
    \/ \E i \in Ids : Delete(r, i) \/ \E q \in Quantities : Modify(r, i, q)
    \/ Update(r) \/ DeleteRow(r) \/ WriteElsewhere(r)
    \/ DeleteAll(r) \/ DeleteRows(r)
AddToCart(r) ==
    \/ \E p \in Products, q \in Quantities : Add(r, p, q)
    \/ Check(r) \/ Insert(r) \/ Increase(r)

Next ==
    \/ \E r \in Requests :
         Get(r) \/ Clear(r) \/ Change(r) \/ AddToCart(r) \/ Fail(r)
    \/ Expire \/ Crash

Spec == Init /\ [][Next]_vars

-----------------------------------------------------------------------------

(* A cached cart differs from the database only while a DEL of its key is  *)
(* still to come, or for one of five reasons: a reader stored what it had  *)
(* read before a write, AddToCart had cleared before its own write, a      *)
(* write named another account's key, Redis lost a DEL, or the process     *)
(* died before it.                                                         *)
StaleHasReason ==
    Stale => excuse # "none" \/ \E r \in Requests : at[r] = "del"

(* A product has one line, unless two AddToCart ran at the same time: both *)
(* look, find none, and insert.                                            *)
OneLinePerProduct ==
    \A i, j \in Ids :
        ~addsMet /\ Exists(i) /\ Exists(j) /\ rows[i].product = rows[j].product
            => i = j

=============================================================================
