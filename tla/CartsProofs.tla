----------------------------- MODULE CartsProofs -----------------------------
(***************************************************************************)
(* Theorems about Carts, for any requests, products and bounds.            *)
(***************************************************************************)
EXTENDS Carts, TLAPS

(* A cartID never changes its product, so neither does a line in memory.   *)
SameProduct ==
    \A r \in Requests :
        at[r] \in {"update", "increase"} /\ Exists(id[r])
            => rows[id[r]].product = copy[r].product

OneAdder ==
    ~addsMet => \A r, s \in Requests :
        at[r] \in Adding /\ at[s] \in Adding => r = s

(* What AddToCart did not find is still not there when it inserts.         *)
NotThereYet ==
    ~addsMet => \A r \in Requests, i \in Ids :
        at[r] = "insert" /\ Exists(i) => rows[i].product # copy[r].product

LinesInv == SameProduct /\ OneAdder /\ NotThereYet /\ OneLinePerProduct

-----------------------------------------------------------------------------
(* Type correctness.                                                       *)

LEMMA NoLineFacts == NoCart \in Carts /\ NoKey \in Cached /\ Members \in Cached
BY DEF NoCart, Carts, NoKey, Members, Cached

(* What TypeOK says of the requests.                                       *)
RequestsOK ==
    /\ at \in [Requests -> Stages]
    /\ id \in [Requests -> {0} \cup Ids]
    /\ \A r \in Requests : at[r] \in {"update", "delete", "increase"} =>
           id[r] \in 1..(nextId - 1) /\ copy[r] \in Line
    /\ copy \in [Requests -> Line \cup {NoLine}]
    /\ snap \in [Requests -> Carts]

LEMMA FinishKeepsTypes ==
  ASSUME TypeOK, NEW r \in Requests, Finish(r), nextId' \in {nextId, nextId + 1}
  PROVE  RequestsOK'
BY CartBounds, NoLineFacts
   DEF TypeOK, RequestsOK, Finish, Goes, Holds, Stages, Ids

LEMMA HoldKeepsTypes ==
  ASSUME TypeOK, NEW r \in Requests,
         NEW i \in {0} \cup Ids, NEW line \in Line \cup {NoLine},
         NEW cart \in Carts, NEW stage \in Stages,
         stage \in {"update", "delete", "increase"}
            => i \in 1..(nextId - 1) /\ line \in Line,
         Goes(r, stage), Holds(r, i, line, cart), UNCHANGED nextId
  PROVE  RequestsOK'
BY DEF TypeOK, RequestsOK, Goes, Holds

LEMMA GoKeepsTypes ==
  ASSUME TypeOK, NEW r \in Requests,
         NEW stage \in Stages \ {"update", "delete", "increase"},
         Goes(r, stage), UNCHANGED <<memory, nextId>>
  PROVE  RequestsOK'
BY DEF TypeOK, RequestsOK, Goes, memory

LEMMA ClearedKeepsTypes ==
  ASSUME TypeOK, NEW r \in Requests, Cleared(r), UNCHANGED nextId
  PROVE  RequestsOK'
<1>1. CASE at[r] \in Adding
  BY <1>1, GoKeepsTypes DEF Cleared, Stages
<1>2. CASE at[r] \notin Adding
  BY <1>2, FinishKeepsTypes DEF Cleared
<1>q. QED BY <1>1, <1>2

LEMMA ClearNamedKeepsTypes ==
  ASSUME TypeOK, NEW r \in Requests, ClearNamed(r), UNCHANGED nextId
  PROVE  RequestsOK' /\ excuse' \in Reasons
<1>1. CASE Goes(r, "del") /\ UNCHANGED <<memory, excuse>>
  BY <1>1, GoKeepsTypes DEF Stages, TypeOK
<1>2. CASE Finish(r) /\ Excuse("otherKey")
  BY <1>2, FinishKeepsTypes DEF Excuse, Reasons
<1>q. QED BY <1>1, <1>2 DEF ClearNamed

LEMMA LineExists ==
  ASSUME TypeOK, NEW i \in Ids, Exists(i)
  PROVE  rows[i] \in Line /\ i \in 1..(nextId - 1)
BY CartBounds DEF TypeOK, Exists, Carts, Ids

LEMMA UpdatedType ==
  ASSUME TypeOK, NEW i \in {0} \cup Ids, NEW line \in Line, i \in 1..(nextId - 1)
  PROVE  /\ Updated(i, line) \in Carts
         /\ \A j \in Ids : j >= nextId => Updated(i, line)[j] = NoLine
BY CartBounds DEF TypeOK, Updated, Carts, Ids

(* Every variable keeps its type; a request about to write a line holds    *)
(* the cartID of one that was inserted.                                    *)
THEOREM TypeCorrect == Spec => []TypeOK
<1>1. Init => TypeOK
  <2> SUFFICES ASSUME Init PROVE TypeOK
    OBVIOUS
  <2>1. /\ at \in [Requests -> Stages]
        /\ id \in [Requests -> {0} \cup Ids]
        /\ copy \in [Requests -> Line \cup {NoLine}]
        /\ snap \in [Requests -> Carts]
    BY NoLineFacts DEF Init, Stages
  <2>2. \A i \in Ids : rows[i] = NoLine
    BY DEF Init, NoCart
  <2>3. \A r \in Requests : at[r] \notin {"update", "delete", "increase"}
    BY DEF Init
  <2>4. nextId \in 1..(MaxLines + 1)
    BY CartBounds DEF Init
  <2>q. QED BY <2>1, <2>2, <2>3, <2>4, NoLineFacts DEF Init, TypeOK, Reasons
<1>2. TypeOK /\ [Next]_vars => TypeOK'
  <2> SUFFICES ASSUME TypeOK, [Next]_vars PROVE TypeOK'
    OBVIOUS
  <2>t. /\ rows \in Carts
        /\ nextId \in 1..(MaxLines + 1)
        /\ \A i \in Ids : i >= nextId => rows[i] = NoLine
        /\ cache \in Cached
        /\ excuse \in Reasons
        /\ addsMet \in BOOLEAN
    BY DEF TypeOK
  <2>s. ASSUME RequestsOK', UNCHANGED table, cache' \in Cached,
               excuse' \in Reasons, addsMet' \in BOOLEAN
        PROVE  TypeOK'
    BY <2>t, <2>s DEF RequestsOK, TypeOK, table
  <2>w. ASSUME RequestsOK', rows' \in Carts, nextId' = nextId,
               \A i \in Ids : i >= nextId => rows'[i] = NoLine,
               UNCHANGED <<cache, addsMet>>, excuse' \in Reasons
        PROVE  TypeOK'
    BY <2>t, <2>w DEF RequestsOK, TypeOK
  <2>1. ASSUME NEW r \in Requests, Get(r) PROVE TypeOK'
    <3>1. CASE GetMiss(r)
      <4>1. RequestsOK'
        BY <3>1, GoKeepsTypes DEF GetMiss, table, memory, Stages
      <4>q. QED BY <2>s, <2>t, <3>1, <4>1 DEF GetMiss, history
    <3>2. CASE Query(r)
      <4>1. RequestsOK'
        BY <2>t, <3>2, HoldKeepsTypes DEF Query, table, Stages
      <4>q. QED BY <2>s, <2>t, <3>2, <4>1 DEF Query, history
    <3>3. CASE Set(r)
      <4>1. RequestsOK'
        BY <3>3, GoKeepsTypes DEF Set, table, memory, Stages
      <4>2. cache' \in Cached
        BY <3>3 DEF Set, Cached, TypeOK
      <4>q. QED BY <2>s, <2>t, <3>3, <4>1, <4>2 DEF Set, Excuse, Reasons
    <3>4. CASE SAdd(r)
      <4>1. RequestsOK'
        BY <3>4, FinishKeepsTypes DEF SAdd, table
      <4>q. QED BY <2>s, <2>t, <3>4, <4>1, NoLineFacts DEF SAdd, history
    <3>5. CASE SetFails(r)
      <4>1. RequestsOK'
        BY <3>5, GoKeepsTypes DEF SetFails, table, memory, Stages
      <4>q. QED BY <2>s, <2>t, <3>5, <4>1 DEF SetFails, history
    <3>q. QED BY <2>1, <3>1, <3>2, <3>3, <3>4, <3>5 DEF Get
  <2>2. ASSUME NEW r \in Requests, Clear(r) PROVE TypeOK'
    <3>1. CASE Del(r) \/ DelFails(r)
      <4>1. RequestsOK'
        <5>1. PICK stage \in {"smembers", "smembersFirst"} : Goes(r, stage)
          BY <3>1 DEF Del, DelFails, Then
        <5>q. QED BY <3>1, <5>1, GoKeepsTypes DEF Del, DelFails, table, memory, Stages
      <4>2. excuse' \in Reasons
        BY <3>1 DEF Del, DelFails, Excuse, Reasons
      <4>q. QED BY <2>s, <2>t, <3>1, <4>1, <4>2, NoLineFacts DEF Del, DelFails
    <3>2. CASE SMembers(r)
      <4>1. CASE Cleared(r)
        <5>1. RequestsOK'
          BY <3>2, <4>1, ClearedKeepsTypes DEF SMembers, table
        <5>q. QED BY <2>s, <2>t, <3>2, <5>1 DEF SMembers, history
      <4>2. CASE Then(r, "delMembers", "delMembersFirst") /\ UNCHANGED memory
        <5>1. RequestsOK'
          BY <3>2, <4>2, GoKeepsTypes DEF SMembers, Then, table, Stages
        <5>q. QED BY <2>s, <2>t, <3>2, <5>1 DEF SMembers, history
      <4>q. QED BY <3>2, <4>1, <4>2 DEF SMembers
    <3>3. CASE DelMembers(r)
      <4>1. RequestsOK'
        BY <3>3, ClearedKeepsTypes DEF DelMembers, table
      <4>q. QED BY <2>s, <2>t, <3>3, <4>1, NoLineFacts DEF DelMembers, history
    <3>q. QED BY <2>2, <3>1, <3>2, <3>3 DEF Clear
  <2>3. ASSUME NEW r \in Requests, Change(r) PROVE TypeOK'
    <3>1. ASSUME NEW i \in Ids, Delete(r, i) PROVE TypeOK'
      <4>1. RequestsOK'
        BY <3>1, LineExists, HoldKeepsTypes, NoLineFacts
           DEF Delete, Find, table, Stages
      <4>q. QED BY <2>s, <2>t, <3>1, <4>1 DEF Delete, Find, history
    <3>2. ASSUME NEW i \in Ids, NEW q \in Quantities, Modify(r, i, q) PROVE TypeOK'
      <4>1. rows[i] \in Line /\ i \in 1..(nextId - 1)
        BY <3>2, LineExists DEF Modify, Find
      <4>2. [rows[i] EXCEPT !.quantity = q] \in Line
        BY <4>1 DEF Line
      <4>3. RequestsOK'
        BY <3>2, <4>1, <4>2, HoldKeepsTypes, NoLineFacts
           DEF Modify, Find, table, Stages
      <4>q. QED BY <2>s, <2>t, <3>2, <4>3 DEF Modify, Find, history
    <3>3. CASE Update(r)
      <4>1. RequestsOK' /\ excuse' \in Reasons
        BY <3>3, ClearNamedKeepsTypes DEF Update
      <4>2. /\ Updated(id[r], copy[r]) \in Carts
            /\ \A j \in Ids : j >= nextId => Updated(id[r], copy[r])[j] = NoLine
        BY <3>3, UpdatedType DEF Update, TypeOK
      <4>q. QED BY <2>t, <2>w, <3>3, <4>1, <4>2 DEF Update
    <3>4. CASE DeleteRow(r)
      <4>1. RequestsOK' /\ excuse' \in Reasons
        BY <3>4, ClearNamedKeepsTypes DEF DeleteRow
      <4>2. rows' \in Carts /\ \A i \in Ids : i >= nextId => rows'[i] = NoLine
        BY <2>t, <3>4 DEF DeleteRow, Carts
      <4>q. QED BY <2>t, <2>w, <3>4, <4>1, <4>2 DEF DeleteRow
    <3>5. CASE DeleteAll(r)
      <4>1. RequestsOK'
        BY <2>t, <3>5, HoldKeepsTypes DEF DeleteAll, table, Stages
      <4>q. QED BY <2>s, <2>t, <3>5, <4>1 DEF DeleteAll, history
    <3>6. CASE DeleteRows(r)
      <4>1. RequestsOK'
        BY <3>6, GoKeepsTypes DEF DeleteRows, table, memory, Stages
      <4>2. rows' \in Carts /\ \A i \in Ids : i >= nextId => rows'[i] = NoLine
        BY <2>t, <3>6 DEF DeleteRows, Carts
      <4>q. QED BY <2>t, <2>w, <3>6, <4>1, <4>2 DEF DeleteRows
    <3>7. CASE WriteElsewhere(r)
      <4>1. RequestsOK'
        BY <3>7, GoKeepsTypes DEF WriteElsewhere, table, memory, Stages
      <4>q. QED BY <2>s, <2>t, <3>7, <4>1 DEF WriteElsewhere, history
    <3>q. QED BY <2>3, <3>1, <3>2, <3>3, <3>4, <3>5, <3>6, <3>7 DEF Change
  <2>4. ASSUME NEW r \in Requests, AddToCart(r) PROVE TypeOK'
    <3>1. ASSUME NEW p \in Products, NEW q \in Quantities, Add(r, p, q) PROVE TypeOK'
      <4>1. [product |-> p, quantity |-> q] \in Line
        BY DEF Line
      <4>2. RequestsOK'
        BY <3>1, <4>1, HoldKeepsTypes, NoLineFacts DEF Add, table, Stages
      <4>3. addsMet' \in BOOLEAN
        BY <2>t, <3>1 DEF Add
      <4>q. QED BY <2>s, <2>t, <3>1, <4>2, <4>3 DEF Add
    <3>2. CASE Check(r)
      <4>1. CASE Goes(r, "insert") /\ UNCHANGED memory
        <5>1. RequestsOK'
          BY <3>2, <4>1, GoKeepsTypes DEF Check, table, Stages, memory
        <5>q. QED BY <2>s, <2>t, <3>2, <5>1 DEF Check, history
      <4>2. ASSUME NEW i \in LinesOf(copy[r].product),
                   NEW sum, sum = rows[i].quantity + copy[r].quantity,
                   sum <= MaxQuantity,
                   Holds(r, i, [rows[i] EXCEPT !.quantity = sum], rows),
                   Goes(r, "increase")
            PROVE  TypeOK'
        <5>1. i \in Ids /\ rows[i] \in Line /\ i \in 1..(nextId - 1)
          BY LineExists DEF LinesOf
        <5>2. sum \in Quantities
          BY <4>2, <5>1, CartBounds DEF TypeOK, Line, NoLine, Quantities
        <5>3. [rows[i] EXCEPT !.quantity = sum] \in Line
          BY <5>1, <5>2 DEF Line
        <5>4. RequestsOK'
          BY <2>t, <3>2, <4>2, <5>1, <5>3, HoldKeepsTypes
             DEF Check, table, Stages
        <5>q. QED BY <2>s, <2>t, <3>2, <5>4 DEF Check, history
      <4>q. QED BY <3>2, <4>1, <4>2 DEF Check
    <3>3. CASE Insert(r)
      <4>1. RequestsOK'
        BY <3>3, FinishKeepsTypes DEF Insert
      <4>2. rows' \in Carts /\ nextId' \in 1..(MaxLines + 1)
        BY <2>t, <3>3, CartBounds DEF Insert, Carts, Ids, TypeOK
      <4>3. \A i \in Ids : i >= nextId' => rows'[i] = NoLine
        BY <2>t, <3>3, CartBounds DEF Insert, Carts, Ids
      <4>4. excuse' \in Reasons
        BY <3>3 DEF Insert, Excuse, Reasons
      <4>q. QED BY <2>t, <3>3, <4>1, <4>2, <4>3, <4>4 DEF Insert, TypeOK, RequestsOK
    <3>4. CASE Increase(r)
      <4>1. RequestsOK'
        BY <3>4, FinishKeepsTypes DEF Increase
      <4>2. /\ Updated(id[r], copy[r]) \in Carts
            /\ \A j \in Ids : j >= nextId => Updated(id[r], copy[r])[j] = NoLine
        BY <3>4, UpdatedType DEF Increase, TypeOK
      <4>3. excuse' \in Reasons
        BY <3>4 DEF Increase, Excuse, Reasons
      <4>q. QED BY <2>t, <2>w, <3>4, <4>1, <4>2, <4>3 DEF Increase
    <3>q. QED BY <2>4, <3>1, <3>2, <3>3, <3>4 DEF AddToCart
  <2>5. ASSUME NEW r \in Requests, Fail(r) PROVE TypeOK'
    <3>1. RequestsOK'
      BY <2>5, FinishKeepsTypes DEF Fail, table
    <3>q. QED BY <2>s, <2>t, <2>5, <3>1 DEF Fail, history
  <2>6. CASE Expire
    BY <2>6, NoLineFacts DEF Expire, TypeOK, table, memory, history
  <2>7. CASE Crash
    <3>1. RequestsOK'
      BY <2>7, NoLineFacts DEF Crash, RequestsOK, Stages
    <3>2. excuse' \in Reasons
      BY <2>t, <2>7 DEF Crash, Reasons
    <3>q. QED BY <2>s, <2>t, <2>7, <3>1, <3>2 DEF Crash
  <2>8. CASE UNCHANGED vars
    BY <2>8 DEF vars, TypeOK
  <2>q. QED BY <2>1, <2>2, <2>3, <2>4, <2>5, <2>6, <2>7, <2>8 DEF Next
<1>q. QED BY <1>1, <1>2, PTL DEF Spec

-----------------------------------------------------------------------------
(* Lines: one per product as long as AddToCart runs alone.                 *)

(* No line appears or changes its product.                                 *)
LinesKept == \A i \in Ids : rows'[i] # NoLine =>
                 rows[i] # NoLine /\ rows'[i].product = rows[i].product

(* A step of r that is no insertion and starts no addition.                *)
LEMMA QuietKeepsLines ==
  ASSUME TypeOK, TypeOK', LinesInv, LinesKept, UNCHANGED addsMet,
         NEW r \in Requests, NEW stage \in Stages \ {"insert"}, Goes(r, stage),
         stage \in Adding => at[r] \in Adding,
         \A s \in Requests : s # r => id'[s] = id[s] /\ copy'[s] = copy[s],
         stage \in {"update", "increase"} /\ rows'[id'[r]] # NoLine
             => rows'[id'[r]].product = copy'[r].product
  PROVE  LinesInv'
<1>1. /\ at'[r] = stage
      /\ \A s \in Requests : s # r => at'[s] = at[s]
  BY DEF Goes, TypeOK
<1>2. SameProduct'
  <2>1. SUFFICES ASSUME NEW s \in Requests, s # r, at[s] \in {"update", "increase"},
                        rows'[id[s]] # NoLine
                 PROVE  rows'[id[s]].product = copy[s].product
    BY <1>1 DEF SameProduct, Exists
  <2>2. id[s] \in Ids
    BY <2>1 DEF TypeOK, Ids
  <2>q. QED BY <2>1, <2>2 DEF LinesKept, LinesInv, SameProduct, Exists
<1>3. OneAdder'
  BY <1>1 DEF LinesInv, OneAdder
<1>4. NotThereYet'
  BY <1>1 DEF LinesInv, NotThereYet, LinesKept, Exists
<1>5. OneLinePerProduct'
  BY DEF LinesInv, OneLinePerProduct, LinesKept, Exists
<1>q. QED BY <1>2, <1>3, <1>4, <1>5 DEF LinesInv

(* The same when nothing is written and r does not hold a line to write.   *)
LEMMA ReadKeepsLines ==
  ASSUME TypeOK, TypeOK', LinesInv, UNCHANGED <<rows, addsMet>>,
         NEW r \in Requests,
         NEW stage \in Stages \ {"insert", "update", "increase"}, Goes(r, stage),
         stage \in Adding => at[r] \in Adding,
         \A s \in Requests : s # r => id'[s] = id[s] /\ copy'[s] = copy[s]
  PROVE  LinesInv'
<1>1. LinesKept
  BY DEF LinesKept
<1>q. QED BY <1>1, QuietKeepsLines

LEMMA HoldsOthers ==
  ASSUME TypeOK, NEW r \in Requests, NEW i, NEW line, NEW cart, Holds(r, i, line, cart)
  PROVE  /\ \A s \in Requests : s # r => id'[s] = id[s] /\ copy'[s] = copy[s]
         /\ id'[r] = i /\ copy'[r] = line
BY DEF TypeOK, Holds

LEMMA UpdatedKeepsLines ==
  ASSUME TypeOK, LinesInv, NEW r \in Requests, at[r] \in {"update", "increase"},
         rows' = Updated(id[r], copy[r])
  PROVE  LinesKept
<1>1. id[r] \in Ids /\ copy[r] \in Line
  BY DEF TypeOK, Ids
<1>2. CASE Exists(id[r])
  <2>1. rows[id[r]].product = copy[r].product /\ rows[id[r]] # NoLine
    BY <1>2 DEF LinesInv, SameProduct, Exists
  <2>2. rows' = [rows EXCEPT ![id[r]] = copy[r]]
    BY <1>2 DEF Updated
  <2>q. QED BY <1>1, <2>1, <2>2 DEF LinesKept, TypeOK, Carts
<1>3. CASE ~Exists(id[r])
  BY <1>3 DEF Updated, LinesKept
<1>q. QED BY <1>2, <1>3

(* A request may end with any step that keeps the lines.                   *)
LEMMA EndKeepsLines ==
  ASSUME TypeOK, TypeOK', LinesInv, LinesKept, UNCHANGED addsMet,
         NEW r \in Requests, Finish(r)
  PROVE  LinesInv'
BY QuietKeepsLines, HoldsOthers DEF Finish, Stages, Adding

LEMMA ClearedKeepsLines ==
  ASSUME TypeOK, TypeOK', LinesInv, UNCHANGED <<rows, addsMet>>,
         NEW r \in Requests, Cleared(r)
  PROVE  LinesInv'
<1>1. LinesKept
  BY DEF LinesKept
<1>2. CASE at[r] \in Adding
  BY <1>2, ReadKeepsLines DEF Cleared, memory, Stages
<1>q. QED BY <1>1, <1>2, EndKeepsLines DEF Cleared

LEMMA ClearNamedKeepsLines ==
  ASSUME TypeOK, TypeOK', LinesInv, LinesKept, UNCHANGED addsMet,
         NEW r \in Requests, ClearNamed(r)
  PROVE  LinesInv'
<1>1. CASE Goes(r, "del") /\ UNCHANGED <<memory, excuse>>
  BY <1>1, QuietKeepsLines DEF memory, Stages, Adding
<1>q. QED BY <1>1, EndKeepsLines DEF ClearNamed

LEMMA InsertKeepsLines ==
  ASSUME TypeOK, TypeOK', LinesInv, NEW r \in Requests, Insert(r) PROVE LinesInv'
<1>1. /\ at'[r] = "idle" /\ at[r] = "insert"
      /\ \A s \in Requests : s # r => at'[s] = at[s] /\ id'[s] = id[s] /\ copy'[s] = copy[s]
  BY HoldsOthers DEF Insert, Finish, Goes, TypeOK
<1>2. /\ nextId \in Ids
      /\ rows'[nextId] = copy[r]
      /\ \A i \in Ids : i # nextId => rows'[i] = rows[i]
      /\ ~Exists(nextId)
  BY CartBounds DEF Insert, TypeOK, Ids, Carts, Exists
<1>3. SameProduct'
  <2>1. SUFFICES ASSUME NEW s \in Requests, s # r, at[s] \in {"update", "increase"},
                        rows'[id[s]] # NoLine
                 PROVE  rows'[id[s]].product = copy[s].product
    BY <1>1 DEF SameProduct, Exists
  <2>2. id[s] \in Ids /\ id[s] # nextId
    BY <2>1, CartBounds DEF TypeOK, Ids
  <2>q. QED BY <1>2, <2>1, <2>2 DEF LinesInv, SameProduct, Exists
<1>4. OneAdder'
  BY <1>1 DEF LinesInv, OneAdder, Insert, Adding
<1>5. addsMet' = addsMet /\ (~addsMet => \A s \in Requests : s # r => at[s] # "insert")
  BY <1>1 DEF Insert, LinesInv, OneAdder, Adding
<1>6. NotThereYet'
  BY <1>1, <1>5 DEF NotThereYet
<1>7. OneLinePerProduct'
  <2>1. SUFFICES ASSUME NEW i \in Ids, NEW j \in Ids, ~addsMet,
                        rows'[i] # NoLine, rows'[j] # NoLine,
                        rows'[i].product = rows'[j].product, i # j
                 PROVE  FALSE
    BY <1>5 DEF OneLinePerProduct, Exists
  <2>2. \A k \in Ids : rows[k] # NoLine => rows[k].product # copy[r].product
    BY <1>1, <2>1 DEF LinesInv, NotThereYet, Exists
  <2>3. CASE i = nextId
    BY <1>2, <2>1, <2>2, <2>3
  <2>4. CASE j = nextId
    BY <1>2, <2>1, <2>2, <2>4
  <2>5. CASE i # nextId /\ j # nextId
    BY <1>2, <2>1, <2>5 DEF LinesInv, OneLinePerProduct, Exists
  <2>q. QED BY <2>3, <2>4, <2>5
<1>q. QED BY <1>3, <1>4, <1>6, <1>7 DEF LinesInv

LEMMA StepKeepsLines ==
  ASSUME TypeOK, TypeOK', LinesInv, NEW r \in Requests,
         Get(r) \/ Clear(r) \/ Change(r) \/ AddToCart(r) \/ Fail(r)
  PROVE  LinesInv'
<1> USE DEF table, memory, history
<1>1. CASE Get(r)
  <2>1. CASE GetMiss(r)
    BY <2>1, ReadKeepsLines DEF GetMiss, Stages, Adding
  <2>2. CASE Query(r)
    BY <2>2, ReadKeepsLines, HoldsOthers DEF Query, Stages, Adding
  <2>3. CASE Set(r)
    BY <2>3, ReadKeepsLines DEF Set, Stages, Adding
  <2>4. CASE SAdd(r)
    BY <2>4, ReadKeepsLines, HoldsOthers DEF SAdd, Finish, Stages, Adding
  <2>5. CASE SetFails(r)
    BY <2>5, ReadKeepsLines DEF SetFails, Stages, Adding
  <2>q. QED BY <1>1, <2>1, <2>2, <2>3, <2>4, <2>5 DEF Get
<1>2. CASE Clear(r)
  <2>1. CASE Del(r) \/ DelFails(r)
    <3>1. CASE at[r] = "del"
      BY <2>1, <3>1, ReadKeepsLines DEF Del, DelFails, Then, Stages, Adding
    <3>2. CASE at[r] = "delFirst"
      BY <2>1, <3>2, ReadKeepsLines DEF Del, DelFails, Then, Stages, Adding
    <3>q. QED BY <2>1, <3>1, <3>2 DEF Del, DelFails
  <2>2. CASE SMembers(r)
    <3>1. CASE Cleared(r)
      BY <2>2, <3>1, ClearedKeepsLines DEF SMembers
    <3>2. CASE Then(r, "delMembers", "delMembersFirst") /\ UNCHANGED memory
      BY <2>2, <3>2, ReadKeepsLines DEF SMembers, Then, Stages, Adding
    <3>q. QED BY <2>2, <3>1, <3>2 DEF SMembers
  <2>3. CASE DelMembers(r)
    BY <2>3, ClearedKeepsLines DEF DelMembers
  <2>q. QED BY <1>2, <2>1, <2>2, <2>3 DEF Clear
<1>3. CASE Change(r)
  <2>1. ASSUME NEW i \in Ids, Delete(r, i) PROVE LinesInv'
    BY <2>1, ReadKeepsLines, HoldsOthers DEF Delete, Find, Stages, Adding
  <2>2. ASSUME NEW i \in Ids, NEW q \in Quantities, Modify(r, i, q) PROVE LinesInv'
    <3>1. id'[r] = i /\ copy'[r] = [rows[i] EXCEPT !.quantity = q]
      BY <2>2, HoldsOthers DEF Modify, Find
    <3>2. rows[i] \in Line
      BY <2>2, LineExists DEF Modify, Find
    <3>3. rows'[id'[r]].product = copy'[r].product
      BY <2>2, <3>1, <3>2 DEF Modify, Find, Line
    <3>4. LinesKept
      BY <2>2 DEF Modify, Find, LinesKept
    <3>q. QED BY <2>2, <3>3, <3>4, QuietKeepsLines, HoldsOthers
              DEF Modify, Find, Stages, Adding
  <2>3. CASE Update(r)
    BY <2>3, UpdatedKeepsLines, ClearNamedKeepsLines DEF Update
  <2>4. CASE DeleteRow(r)
    <3>1. LinesKept
      BY <2>4 DEF DeleteRow, LinesKept, TypeOK, Carts
    <3>q. QED BY <2>4, <3>1, ClearNamedKeepsLines DEF DeleteRow
  <2>5. CASE DeleteAll(r)
    BY <2>5, ReadKeepsLines, HoldsOthers DEF DeleteAll, Stages, Adding
  <2>6. CASE DeleteRows(r)
    <3>1. LinesKept
      BY <2>6 DEF DeleteRows, LinesKept
    <3>q. QED BY <2>6, <3>1, QuietKeepsLines DEF DeleteRows, Stages, Adding
  <2>7. CASE WriteElsewhere(r)
    BY <2>7, ReadKeepsLines DEF WriteElsewhere, Stages, Adding
  <2>q. QED BY <1>3, <2>1, <2>2, <2>3, <2>4, <2>5, <2>6, <2>7 DEF Change
<1>4. CASE AddToCart(r)
  <2>1. ASSUME NEW p \in Products, NEW q \in Quantities, Add(r, p, q) PROVE LinesInv'
    <3>1. /\ at'[r] = "delFirst"
          /\ \A s \in Requests : s # r => at'[s] = at[s] /\ id'[s] = id[s] /\ copy'[s] = copy[s]
      BY <2>1, HoldsOthers DEF Add, Goes, TypeOK
    <3>2. addsMet' = (addsMet \/ \E s \in Requests : at[s] \in Adding) /\ UNCHANGED rows
      BY <2>1 DEF Add
    <3>3. addsMet \in BOOLEAN
      BY DEF TypeOK
    <3>4. SameProduct'
      BY <3>1, <3>2 DEF LinesInv, SameProduct, Exists
    <3>5. OneAdder'
      BY <3>1, <3>2 DEF LinesInv, OneAdder
    <3>6. NotThereYet' /\ OneLinePerProduct'
      BY <3>1, <3>2 DEF LinesInv, NotThereYet, OneLinePerProduct, Exists
    <3>q. QED BY <3>4, <3>5, <3>6 DEF LinesInv
  <2>2. CASE Check(r)
    <3>1. CASE LinesOf(copy[r].product) = {} /\ Goes(r, "insert") /\ UNCHANGED memory
      <4>1. /\ at'[r] = "insert" /\ at[r] \in Adding
            /\ \A s \in Requests : s # r => at'[s] = at[s]
        BY <2>2, <3>1 DEF Check, Goes, TypeOK, Adding
      <4>2. UNCHANGED <<rows, addsMet>>
        BY <2>2 DEF Check
      <4>3. SameProduct' /\ OneAdder'
        BY <3>1, <4>1, <4>2 DEF LinesInv, SameProduct, OneAdder, Exists
      <4>4. NotThereYet' /\ OneLinePerProduct'
        BY <3>1, <4>1, <4>2 DEF LinesInv, NotThereYet, OneLinePerProduct, Exists, LinesOf
      <4>q. QED BY <4>3, <4>4 DEF LinesInv
    <3>2. ASSUME NEW i \in LinesOf(copy[r].product), NEW sum,
                 Holds(r, i, [rows[i] EXCEPT !.quantity = sum], rows),
                 Goes(r, "increase")
          PROVE  LinesInv'
      <4>1. rows[i] \in Line
        BY LineExists DEF LinesOf
      <4>2. id'[r] = i /\ copy'[r].product = rows[i].product
        BY <3>2, <4>1, HoldsOthers DEF Line
      <4>3. UNCHANGED <<rows, addsMet>> /\ LinesKept /\ at[r] \in Adding
        BY <2>2 DEF Check, LinesKept, Adding
      <4>q. QED BY <3>2, <4>2, <4>3, QuietKeepsLines, HoldsOthers DEF Stages
    <3>q. QED BY <2>2, <3>1, <3>2 DEF Check
  <2>3. CASE Insert(r)
    BY <2>3, InsertKeepsLines
  <2>4. CASE Increase(r)
    BY <2>4, UpdatedKeepsLines, EndKeepsLines DEF Increase
  <2>q. QED BY <1>4, <2>1, <2>2, <2>3, <2>4 DEF AddToCart
<1>5. CASE Fail(r)
  BY <1>5, ReadKeepsLines, HoldsOthers DEF Fail, Finish, Stages, Adding
<1>q. QED BY <1>1, <1>2, <1>3, <1>4, <1>5

(* Without two AddToCart at a time no product ever has two lines           *)
(* (carts.go:146-154), whatever the other requests do in between.          *)
THEOREM OneLinePerProductHolds == Spec => []OneLinePerProduct
<1>1. Init => LinesInv
  BY DEF Init, LinesInv, SameProduct, OneAdder, NotThereYet, OneLinePerProduct,
         Exists, NoCart, Adding
<1>2. TypeOK /\ TypeOK' /\ LinesInv /\ [Next]_vars => LinesInv'
  <2> SUFFICES ASSUME TypeOK, TypeOK', LinesInv, [Next]_vars PROVE LinesInv'
    OBVIOUS
  <2>1. CASE Expire \/ UNCHANGED vars
    BY <2>1 DEF Expire, vars, table, memory, history, LinesInv, SameProduct,
                OneAdder, NotThereYet, OneLinePerProduct, Exists
  <2>2. CASE Crash
    BY <2>2 DEF Crash, table, LinesInv, SameProduct, OneAdder, NotThereYet,
                OneLinePerProduct, Exists, Adding
  <2>q. QED BY <2>1, <2>2, StepKeepsLines DEF Next
<1>3. LinesInv => OneLinePerProduct
  BY DEF LinesInv
<1>q. QED BY <1>1, <1>2, <1>3, TypeCorrect, PTL DEF Spec

-----------------------------------------------------------------------------
(* The cache.                                                              *)

(* The five causes of a stale cart are the only ones: every mutation that  *)
(* is not followed by a DEL of this account's key, or whose DEL does not   *)
(* outlast a reader, is accounted for (carts.go:53-54, 66, 88-90, 107,     *)
(* 123-125, 142-144, 243-245).                                             *)
THEOREM StaleCartsHaveReason == Spec => []StaleHasReason
<1>1. Init => StaleHasReason
  BY DEF Init, StaleHasReason, Stale, NoKey
<1>2. TypeOK /\ StaleHasReason /\ [Next]_vars => StaleHasReason'
  <2> SUFFICES ASSUME TypeOK, StaleHasReason, [Next]_vars PROVE StaleHasReason'
    OBVIOUS
  <2> USE DEF table, memory, history, StaleHasReason, Stale
  <2>at. at \in [Requests -> Stages]
    BY DEF TypeOK
  <2>1. ASSUME NEW r \in Requests, UNCHANGED <<rows, excuse>>,
               at[r] # "del", NEW stage \in Stages, Goes(r, stage),
               cache' = cache \/ cache'.kind # "cart"
        PROVE  StaleHasReason'
    BY <2>at, <2>1 DEF Goes
  <2>e. ASSUME NEW reason \in Reasons \ {"none"}, Excuse(reason)
        PROVE  StaleHasReason'
    BY <2>e DEF Excuse
  <2>2. ASSUME NEW r \in Requests, Set(r) PROVE StaleHasReason'
    BY <2>2, <2>e DEF Set, Reasons
  <2>3. ASSUME NEW r \in Requests, Del(r) \/ DelFails(r) PROVE StaleHasReason'
    BY <2>3, <2>e DEF Del, DelFails, NoKey, Reasons
  <2>4. ASSUME NEW r \in Requests, Update(r) \/ DeleteRow(r) \/ DeleteRows(r)
        PROVE  StaleHasReason'
    <3>1. Goes(r, "del") \/ Excuse("otherKey")
      BY <2>4 DEF Update, DeleteRow, DeleteRows, ClearNamed
    <3>q. QED BY <2>at, <2>e, <3>1 DEF Goes, Reasons
  <2>5. ASSUME NEW r \in Requests, Insert(r) \/ Increase(r) PROVE StaleHasReason'
    BY <2>5, <2>e DEF Insert, Increase, Reasons
  <2>6. ASSUME NEW r \in Requests,
               GetMiss(r) \/ Query(r) \/ SetFails(r) \/ WriteElsewhere(r)
        PROVE  StaleHasReason'
    BY <2>1, <2>6 DEF GetMiss, Query, SetFails, WriteElsewhere, Stages
  <2>7. ASSUME NEW r \in Requests, SAdd(r) PROVE StaleHasReason'
    BY <2>1, <2>7 DEF SAdd, Finish, Stages, Members
  <2>8. ASSUME NEW r \in Requests, SMembers(r) \/ DelMembers(r)
        PROVE  StaleHasReason'
    <3>1. PICK stage \in {"idle", "check", "delMembers", "delMembersFirst"} :
              Goes(r, stage)
      BY <2>8 DEF SMembers, DelMembers, Then, Cleared, Finish
    <3>q. QED BY <2>1, <2>8, <3>1 DEF SMembers, DelMembers, Stages, NoKey
  <2>9. ASSUME NEW r \in Requests, DeleteAll(r) \/ Fail(r) PROVE StaleHasReason'
    BY <2>1, <2>9 DEF DeleteAll, Fail, Finish, Stages
  <2>10. ASSUME NEW r \in Requests, NEW i \in Ids,
                Delete(r, i) \/ \E q \in Quantities : Modify(r, i, q)
         PROVE  StaleHasReason'
    BY <2>1, <2>10 DEF Delete, Modify, Find, Stages
  <2>11. ASSUME NEW r \in Requests, Check(r) PROVE StaleHasReason'
    <3>1. PICK stage \in {"insert", "increase"} : Goes(r, stage)
      BY <2>11 DEF Check
    <3>q. QED BY <2>1, <2>11, <3>1 DEF Check, Stages
  <2>12. ASSUME NEW r \in Requests, NEW p \in Products, NEW q \in Quantities, Add(r, p, q)
         PROVE  StaleHasReason'
    BY <2>1, <2>12 DEF Add, Stages
  <2>13. CASE Expire
    BY <2>13 DEF Expire, NoKey
  <2>14. CASE UNCHANGED vars
    BY <2>14 DEF vars
  <2>15. CASE Crash
    BY <2>15 DEF Crash
  <2>q. QED
    BY <2>2, <2>3, <2>4, <2>5, <2>6, <2>7, <2>8, <2>9, <2>10, <2>11, <2>12,
       <2>13, <2>14, <2>15 DEF Next, Get, Clear, Change, AddToCart
<1>q. QED BY <1>1, <1>2, TypeCorrect, PTL DEF Spec

=============================================================================
