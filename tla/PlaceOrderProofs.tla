-------------------------- MODULE PlaceOrderProofs --------------------------
(***************************************************************************)
(* Theorems about PlaceOrder, for any set of products, and about Addresses *)
(* (the assistant sends what it ordered to the default address), for any   *)
(* requests, accounts, numbers of addresses and sizes of a page.           *)
(***************************************************************************)
EXTENDS PlaceOrder, Addresses, FiniteSetTheorems, TLAPS

(* A goroutine is on the branch its lookup sent it to.                     *)
StageInv ==
    \A p \in Products :
        /\ worker[p] \in {"ask", "sendReply"} => lookup[p] = "missing"
        /\ worker[p] = "sendErr" => lookup[p] = "failing"
        /\ worker[p] \in {"lock", "append"} => lookup[p] = "found"

(* A goroutine that is done left its result.                               *)
DoneInv ==
    \A p \in Products : worker[p] = "done" =>
        \/ lookup[p] = "found" /\ p \in carts
        \/ lookup[p] = "missing" /\ p \in respChan
        \/ lookup[p] = "failing" /\ p \in errChan

(* Errors come from goroutines that are done with a failure.               *)
ErrorsInv ==
    \A p \in errChan : worker[p] = "done" /\ lookup[p] = "failing"

(* Replies, from goroutines that are done and found no such product.       *)
RepliesInv ==
    \A p \in respChan : worker[p] = "done" /\ lookup[p] = "missing"

(* The holder of the mutex saw the current slice.                          *)
LockInv ==
    \A p \in Products :
        /\ (worker[p] = "append") <=> (mu = p)
        /\ worker[p] = "append" => seen[p] = carts

(* Goroutines exist only between the start of the loop and wg.Wait().      *)
MainInv ==
    /\ main \in {"start", "address"} => spawned = {}
    /\ main \in {"closed", "done"} => \A p \in spawned : worker[p] = "done"
    /\ main = "closed" => spawned = Products
    /\ main # "done" => response = "none"

(* What the answer was read from.                                          *)
AnswerInv ==
    /\ response = "order" =>
           spawned = Products /\ respChan = {} /\ errChan = {}
    /\ response = "error" /\ spawned # {} =>
           spawned = Products /\ respChan = {} /\ errChan # {}

IInv == /\ TypeOK /\ StageInv /\ DoneInv /\ ErrorsInv /\ RepliesInv
        /\ LockInv /\ MainInv /\ AnswerInv

-----------------------------------------------------------------------------
(* Every variable keeps its type, and the WaitGroup counts the goroutines  *)
(* that were added and did not call Done (chatbot.go:243).                 *)
THEOREM TypeCorrect == Spec => []TypeOK
<1>1. Init => TypeOK
  BY DEF Init, TypeOK, Workers, Replies, Lookups
<1>2. TypeOK /\ [Next]_vars => TypeOK'
  <2> SUFFICES ASSUME TypeOK, [Next]_vars PROVE TypeOK'
    OBVIOUS
  <2> USE DEF TypeOK, environment, handler, channels, slice, Workers, Replies
  <2>1. CASE Reject
    BY <2>1 DEF Reject, Respond
  <2>2. CASE NoAddress
    BY <2>2 DEF NoAddress
  <2>3. CASE AskAddress
    BY <2>3 DEF AskAddress, Respond
  <2>4. CASE StartLoop
    BY <2>4 DEF StartLoop
  <2>5. ASSUME NEW p \in Products, Spawn(p) PROVE TypeOK'
    BY <2>5 DEF Spawn
  <2>6. CASE WaitAndClose
    BY <2>6 DEF WaitAndClose
  <2>7. CASE Answer
    BY <2>7 DEF Answer, Respond
  <2>8. ASSUME NEW p \in Products, Query(p) PROVE TypeOK'
    <3>1. PICK stage \in {"lock", "ask", "sendErr"} : Goes(p, stage)
      BY <2>8 DEF Query
    <3>q. QED BY <2>8, <3>1 DEF Query, Goes
  <2>9. ASSUME NEW p \in Products, AssertArguments(p) PROVE TypeOK'
    BY <2>9 DEF AssertArguments
  <2>10. ASSUME NEW p \in Products, Ask(p) PROVE TypeOK'
    BY <2>10 DEF Ask, Goes
  <2>11. ASSUME NEW p \in Products, SendReply(p) PROVE TypeOK'
    BY <2>11 DEF SendReply, Return, Goes
  <2>12. ASSUME NEW p \in Products, SendErr(p) PROVE TypeOK'
    BY <2>12 DEF SendErr, Return, Goes
  <2>13. ASSUME NEW p \in Products, Lock(p) PROVE TypeOK'
    BY <2>13 DEF Lock, Goes
  <2>14. ASSUME NEW p \in Products, AppendAndUnlock(p) PROVE TypeOK'
    BY <2>14 DEF AppendAndUnlock, Return, Goes
  <2>15. CASE UNCHANGED vars
    BY <2>15 DEF vars
  <2>q. QED
    BY <2>1, <2>2, <2>3, <2>4, <2>5, <2>6, <2>7, <2>8, <2>9, <2>10, <2>11,
       <2>12, <2>13, <2>14, <2>15 DEF Next, Main, Work
<1>q. QED BY <1>1, <1>2, PTL DEF Spec

-----------------------------------------------------------------------------
(* The inductive invariant, one lemma for the handler's actions and one    *)
(* for a goroutine's.                                                      *)

LEMMA InitIInv == Init => IInv
BY ProductsAssumption
   DEF Init, IInv, TypeOK, StageInv, DoneInv, ErrorsInv, RepliesInv, LockInv,
       MainInv, AnswerInv, Workers, Replies, Lookups

LEMMA MainKeepsIInv ==
  ASSUME IInv, TypeOK', Main PROVE IInv'
<1> USE DEF IInv, environment, handler, channels, slice, TypeOK
<1>1. CASE Reject
  BY <1>1 DEF Reject, Respond, StageInv, DoneInv, ErrorsInv, RepliesInv,
              LockInv, MainInv, AnswerInv
<1>2. CASE NoAddress
  BY <1>2 DEF NoAddress, StageInv, DoneInv, ErrorsInv, RepliesInv, LockInv,
              MainInv, AnswerInv
<1>3. CASE AskAddress
  BY <1>3 DEF AskAddress, Respond, StageInv, DoneInv, ErrorsInv, RepliesInv,
              LockInv, MainInv, AnswerInv
<1>4. CASE StartLoop
  BY <1>4 DEF StartLoop, StageInv, DoneInv, ErrorsInv, RepliesInv, LockInv,
              MainInv, AnswerInv
<1>5. ASSUME NEW p \in Products, Spawn(p) PROVE IInv'
  <2>1. worker[p] = "none" /\ mu # p /\ p \notin errChan \cup respChan
    BY <1>5 DEF Spawn, LockInv, ErrorsInv, RepliesInv
  <2>2. StageInv' /\ DoneInv'
    BY <1>5, <2>1 DEF Spawn, StageInv, DoneInv
  <2>3. ErrorsInv' /\ RepliesInv'
    BY <1>5, <2>1 DEF Spawn, ErrorsInv, RepliesInv
  <2>4. LockInv'
    BY <1>5, <2>1 DEF Spawn, LockInv
  <2>5. MainInv' /\ AnswerInv'
    BY <1>5 DEF Spawn, MainInv, AnswerInv
  <2>q. QED BY <2>2, <2>3, <2>4, <2>5
<1>6. CASE WaitAndClose
  <2>1. MainInv'
    BY <1>6 DEF WaitAndClose, MainInv
  <2>q. QED BY <1>6, <2>1 DEF WaitAndClose, StageInv, DoneInv, ErrorsInv,
                              RepliesInv, LockInv, AnswerInv
<1>7. CASE Answer
  <2>1. spawned = Products
    BY <1>7 DEF Answer, MainInv
  <2>2. AnswerInv'
    BY <1>7, <2>1 DEF Answer, Respond, AnswerInv
  <2>3. MainInv'
    BY <1>7, <2>1 DEF Answer, Respond, MainInv
  <2>q. QED BY <1>7, <2>2, <2>3 DEF Answer, StageInv, DoneInv, ErrorsInv,
                                    RepliesInv, LockInv
<1>q. QED BY <1>1, <1>2, <1>3, <1>4, <1>5, <1>6, <1>7 DEF Main

(* A goroutine at work belongs to a loop that is still waiting.            *)
LEMMA WorkerRuns ==
  ASSUME IInv, NEW p \in Products, worker[p] \notin {"none", "done"}
  PROVE  main = "spawning" /\ p \in spawned /\ response = "none"
BY DEF IInv, TypeOK, MainInv

LEMMA WorkKeepsIInv ==
  ASSUME IInv, TypeOK', NEW p \in Products, Work(p) PROVE IInv'
<1> USE DEF environment, handler, channels, slice
<1>1. worker[p] \notin {"none", "done"}
  BY DEF Work, Query, AssertArguments, Ask, SendReply, SendErr, Lock,
         AppendAndUnlock
<1>2. main = "spawning" /\ p \in spawned /\ response = "none"
  BY <1>1, WorkerRuns
<1>3. UNCHANGED <<lookup, main, spawned, response>>
  BY DEF Work, Query, AssertArguments, Ask, SendReply, SendErr, Lock,
         AppendAndUnlock
<1>4. MainInv' /\ AnswerInv'
  BY <1>2, <1>3 DEF IInv, MainInv, AnswerInv
<1> USE DEF IInv, TypeOK
<1>5. CASE Query(p)
  <2>1. \/ lookup[p] = "found" /\ Goes(p, "lock")
        \/ lookup[p] = "missing" /\ Goes(p, "ask")
        \/ lookup[p] = "failing" /\ Goes(p, "sendErr")
    BY <1>5 DEF Query, Lookups
  <2>2. StageInv'
    BY <1>5, <2>1 DEF Query, Goes, StageInv
  <2>3. DoneInv' /\ ErrorsInv' /\ RepliesInv'
    BY <1>5, <2>1 DEF Query, Goes, DoneInv, ErrorsInv, RepliesInv
  <2>4. LockInv'
    BY <1>5, <2>1 DEF Query, Goes, LockInv
  <2>q. QED BY <1>4, <2>2, <2>3, <2>4
<1>6. CASE AssertArguments(p)
  BY <1>4, <1>6 DEF AssertArguments, StageInv, DoneInv, ErrorsInv, RepliesInv,
                    LockInv
<1>7. CASE Ask(p)
  <2>1. StageInv'
    BY <1>7 DEF Ask, Goes, StageInv
  <2>2. DoneInv' /\ ErrorsInv' /\ RepliesInv'
    BY <1>7 DEF Ask, Goes, DoneInv, ErrorsInv, RepliesInv
  <2>3. LockInv'
    BY <1>7 DEF Ask, Goes, LockInv
  <2>q. QED BY <1>4, <2>1, <2>2, <2>3
<1>8. CASE SendReply(p)
  <2>1. lookup[p] = "missing"
    BY <1>8 DEF SendReply, StageInv
  <2>2. StageInv' /\ DoneInv'
    BY <1>8, <2>1 DEF SendReply, Return, Goes, StageInv, DoneInv
  <2>3. ErrorsInv' /\ RepliesInv'
    BY <1>8, <2>1 DEF SendReply, Return, Goes, ErrorsInv, RepliesInv
  <2>4. LockInv'
    BY <1>8 DEF SendReply, Return, Goes, LockInv
  <2>q. QED BY <1>4, <2>2, <2>3, <2>4
<1>9. CASE SendErr(p)
  <2>1. lookup[p] = "failing"
    BY <1>9 DEF SendErr, StageInv
  <2>2. StageInv' /\ DoneInv'
    BY <1>9, <2>1 DEF SendErr, Return, Goes, StageInv, DoneInv
  <2>3. ErrorsInv' /\ RepliesInv'
    BY <1>9, <2>1 DEF SendErr, Return, Goes, ErrorsInv, RepliesInv
  <2>4. LockInv'
    BY <1>9 DEF SendErr, Return, Goes, LockInv
  <2>q. QED BY <1>4, <2>2, <2>3, <2>4
<1>10. CASE Lock(p)
  <2>1. StageInv' /\ DoneInv'
    BY <1>10 DEF Lock, Goes, StageInv, DoneInv
  <2>2. ErrorsInv' /\ RepliesInv'
    BY <1>10 DEF Lock, Goes, ErrorsInv, RepliesInv
  <2>3. LockInv'
    BY <1>10, ProductsAssumption DEF Lock, Goes, LockInv
  <2>q. QED BY <1>4, <2>1, <2>2, <2>3
<1>11. CASE AppendAndUnlock(p)
  <2>1. lookup[p] = "found" /\ carts' = carts \cup {p}
    BY <1>11 DEF AppendAndUnlock, StageInv, LockInv
  <2>2. StageInv' /\ DoneInv'
    BY <1>11, <2>1 DEF AppendAndUnlock, Return, Goes, StageInv, DoneInv
  <2>3. ErrorsInv' /\ RepliesInv'
    BY <1>11, <2>1 DEF AppendAndUnlock, Return, Goes, ErrorsInv, RepliesInv
  <2>4. LockInv'
    BY <1>11, ProductsAssumption DEF AppendAndUnlock, Return, Goes, LockInv
  <2>q. QED BY <1>4, <2>2, <2>3, <2>4
<1>q. QED BY <1>5, <1>6, <1>7, <1>8, <1>9, <1>10, <1>11 DEF Work

LEMMA Inductive == Spec => []IInv
<1>1. IInv /\ TypeOK' /\ [Next]_vars => IInv'
  <2> SUFFICES ASSUME IInv, TypeOK', [Next]_vars PROVE IInv'
    OBVIOUS
  <2>1. CASE Main
    BY <2>1, MainKeepsIInv
  <2>2. ASSUME NEW p \in Products, Work(p) PROVE IInv'
    BY <2>2, WorkKeepsIInv
  <2>3. CASE UNCHANGED vars
    BY <2>3 DEF vars, IInv, TypeOK, StageInv, DoneInv, ErrorsInv, RepliesInv,
                LockInv, MainInv, AnswerInv
  <2>q. QED BY <2>1, <2>2, <2>3 DEF Next
<1>q. QED BY <1>1, InitIInv, TypeCorrect, PTL DEF Spec

-----------------------------------------------------------------------------
(* What follows from it.                                                   *)

(* An order that is announced is complete, however the appends to carts    *)
(* interleave (chatbot.go:270-279, 300-307).                               *)
THEOREM OrdersAreComplete == Spec => []OrderIsComplete
<1>1. IInv => OrderIsComplete
  BY DEF IInv, TypeOK, MainInv, DoneInv, AnswerInv, OrderIsComplete, Missing, Failing
<1>q. QED BY <1>1, Inductive, PTL

(* The reply about an unknown product wins over any error                  *)
(* (chatbot.go:288-298).                                                   *)
THEOREM RepliesHavePriority == Spec => []ReplyHasPriority
<1>1. IInv => ReplyHasPriority
  BY DEF IInv, TypeOK, MainInv, DoneInv, ErrorsInv, RepliesInv, AnswerInv,
         ReplyHasPriority, Missing, Failing
<1>q. QED BY <1>1, Inductive, PTL

(* Nothing is sent on a channel after it is closed (chatbot.go:284-286).   *)
THEOREM NoSendsAfterClose == Spec => []NoSendAfterClose
<1>1. IInv => NoSendAfterClose
  BY DEF IInv, TypeOK, MainInv, LockInv, NoSendAfterClose
<1>q. QED BY <1>1, Inductive, PTL

(* errChan holds errors of goroutines that are done.                       *)
LEMMA RoomForErrors ==
  ASSUME IInv, NEW p \in Products, worker[p] = "sendErr"
  PROVE  /\ Cardinality(errChan) < ErrCapacity
         /\ Cardinality(errChan) \in Nat /\ ErrCapacity \in Nat
<1>1. errChan \subseteq Products \ {p}
  BY DEF IInv, TypeOK, ErrorsInv
<1>2. /\ IsFiniteSet(Products \ {p})
      /\ Cardinality(Products \ {p}) = Cardinality(Products) - 1
      /\ Cardinality(Products) \in Nat
  BY ProductsAssumption, FS_RemoveElement, FS_CardinalityType
<1>3. /\ Cardinality(errChan) <= Cardinality(Products \ {p})
      /\ Cardinality(errChan) \in Nat
  BY <1>1, <1>2, FS_Subset, FS_CardinalityType
<1>q. QED BY <1>2, <1>3 DEF ErrCapacity

(* A channel with room for every goroutine never blocks one of them, for   *)
(* any number of products (chatbot.go:238).                                *)
THEOREM ErrSendsNeverBlock == Spec => []ErrSendNeverBlocks
<1>1. IInv => ErrSendNeverBlocks
  BY RoomForErrors DEF ErrSendNeverBlocks
<1>q. QED BY <1>1, Inductive, PTL

(* The channel for one reply holds the reply of another unknown product.   *)
LEMMA RoomForTheReply ==
  ASSUME IInv, Cardinality(Missing) <= 1, NEW p \in Products, worker[p] = "sendReply"
  PROVE  ~Waits(p)
<1>1. p \in Missing \ respChan /\ respChan \subseteq Missing
  BY DEF IInv, TypeOK, StageInv, RepliesInv, Missing
<1>2. IsFiniteSet(Missing) /\ IsFiniteSet(Missing \ {p})
  BY ProductsAssumption, FS_Subset DEF Missing
<1>3. /\ Cardinality(Missing \ {p}) = Cardinality(Missing) - 1
      /\ Cardinality(Missing \ {p}) \in Nat
  BY <1>1, <1>2, FS_RemoveElement, FS_CardinalityType
<1>4. IsFiniteSet(respChan) /\ respChan \subseteq Missing \ {p}
  BY <1>1, <1>2, FS_Subset
<1>5. /\ Cardinality(respChan) <= Cardinality(Missing \ {p})
      /\ Cardinality(respChan) \in Nat /\ Cardinality(Missing) \in Nat
  BY <1>2, <1>4, FS_Subset, FS_CardinalityType
<1>q. QED BY <1>3, <1>5 DEF Waits, RespCapacity

(* With one unknown product wg.Wait() never waits for goroutines that all  *)
(* wait themselves, for any number of products (chatbot.go:239-284): what  *)
(* AnswersOneUnknown needs of the mutex and of the channels.               *)
THEOREM WaitGroupIsNotStuck == Spec => []SomeoneRuns
<1>1. IInv => SomeoneRuns
  <2> SUFFICES ASSUME IInv, Cardinality(Missing) <= 1, NEW p \in running
               PROVE  \E q \in running : ~Waits(q)
    BY DEF SomeoneRuns
  <2>0. p \in Products /\ running = {q \in Products : worker[q] \notin {"none", "done"}}
    BY DEF IInv, TypeOK
  <2>1. CASE worker[p] = "sendReply"
    BY <2>0, <2>1, RoomForTheReply
  <2>2. CASE worker[p] = "sendErr"
    BY <2>0, <2>2, RoomForErrors DEF Waits
  <2>3. CASE worker[p] = "lock" /\ mu # Nobody
    <3>1. mu \in Products /\ worker[mu] = "append"
      BY <2>3 DEF IInv, TypeOK, LockInv
    <3>q. QED BY <2>0, <3>1 DEF Waits
  <2>4. CASE ~Waits(p)
    BY <2>4
  <2>q. QED BY <2>1, <2>2, <2>3, <2>4 DEF Waits
<1>q. QED BY <1>1, Inductive, PTL

-----------------------------------------------------------------------------
(***************************************************************************)
(* Addresses.  An update of a row changes nothing if the row is gone, so   *)
(* what a request knows of its addresses has to allow for that.            *)
(***************************************************************************)

QuickChange == {"find", "enable", "disable"}

(* What a quick change knows of the address it is going to disable.        *)
OffOf(r) ==
    /\ at[r] \in QuickChange => off[r] \in Ids /\ copy[r].status
    /\ at[r] \in {"enable", "disable"} /\ Exists(off[r])
          => address[off[r]].account = copy[r].account

(* Unless another request was in the way, its new default is there.        *)
OnOf(r) ==
    r \notin overtaken =>
        /\ at[r] \in QuickChange => Exists(on[r])
        /\ at[r] = "disable" => address[on[r]].status

AddressInv ==
    /\ AddressTypeOK
    /\ \A r \in Requests : OffOf(r) /\ OnOf(r)
    /\ OneDefault

(* The rows and what the other requests hold, after a step of r.           *)
Alone(r) ==
    \A s \in Requests \ {r} :
        at'[s] = at[s] /\ on'[s] = on[s] /\ off'[s] = off[s] /\ copy'[s] = copy[s]

LEMMA InitAddressInv == AddressInit => AddressInv
BY DEF AddressInit, AddressInv, AddressTypeOK, OffOf, OnOf, OneDefault, Defaults, AddressesOf,
       Exists, QuickChange

LEMMA RowFacts == \A row : row \in Row =>
    row # NoRow /\ row.account \in Accounts /\ row.status \in BOOLEAN
BY DEF Row, NoRow

LEMMA FinishFacts ==
  ASSUME AddressTypeOK, NEW r \in Requests, Finish(r)
  PROVE  /\ Alone(r) /\ at'[r] = "idle"
         /\ at' \in [Requests -> {"idle", "update", "delete", "find", "enable", "disable"}]
         /\ on' \in [Requests -> {0} \cup Ids] /\ off' \in [Requests -> {0} \cup Ids]
         /\ copy' \in [Requests -> Row \cup {NoRow}]
BY DEF Finish, MovesTo, AddressTypeOK, Alone

LEMMA UpdatedFacts ==
  ASSUME AddressTypeOK, NEW i \in Ids, NEW row \in Row,
         Exists(i) => row.account = address[i].account,
         address' = Updated(i, row)
  PROVE  /\ address' \in [Ids -> Row \cup {NoRow}]
         /\ \A j \in Ids : Exists(j)' = Exists(j)
         /\ \A j \in Ids : Exists(j) => address'[j].account = address[j].account
         /\ \A j \in Ids \ {i} : address'[j] = address[j]
         /\ Exists(i) => address'[i] = row
BY RowFacts DEF AddressTypeOK, Updated, Exists

(* A request starts on an address that is there.                           *)
Begins(r, i, row, stage) ==
    /\ Find(r, i, row, stage) /\ row.account = address[i].account
    /\ off' \in [Requests -> {0} \cup Ids]
    /\ \A s \in Requests \ {r} : off'[s] = off[s]
    /\ stage = "find" => off'[r] \in Ids \ {i} /\ row.status

LEMMA BeginFacts ==
  ASSUME AddressTypeOK, NEW r \in Requests,
         AddressUpdate(r) \/ AddressDelete(r) \/ AddressQuickChange(r)
  PROVE  \E i \in Ids, row \in Row, stage \in {"update", "delete", "find"} :
            Begins(r, i, row, stage)
<1>1. \A i \in Ids : Exists(i) => address[i] \in Row
  BY DEF Exists, AddressTypeOK
<1>2. \A i \in Ids, status \in BOOLEAN : Exists(i) =>
        LET row == [address[i] EXCEPT !.status = status]
        IN  row \in Row /\ row.account = address[i].account /\ row.status = status
  BY <1>1 DEF Row
<1>3. CASE AddressUpdate(r)
  <2>1. PICK i \in Ids, status \in BOOLEAN :
          Find(r, i, [address[i] EXCEPT !.status = status], "update") /\ UNCHANGED off
    BY <1>3 DEF AddressUpdate
  <2>q. QED BY <2>1, <1>2 DEF Begins, Find, AddressTypeOK
<1>4. CASE AddressDelete(r)
  <2>1. PICK i \in Ids : Find(r, i, address[i], "delete") /\ UNCHANGED off
    BY <1>4 DEF AddressDelete
  <2>q. QED BY <2>1, <1>1 DEF Begins, Find, AddressTypeOK
<1>5. CASE AddressQuickChange(r)
  <2>1. PICK i \in Ids, j \in Ids :
          /\ i # j /\ Find(r, i, [address[i] EXCEPT !.status = TRUE], "find")
          /\ off' = [off EXCEPT ![r] = j]
    BY <1>5 DEF AddressQuickChange, Differ
  <2>2. off' \in [Requests -> {0} \cup Ids] /\ off'[r] = j
    BY <2>1 DEF AddressTypeOK
  <2>q. QED BY <2>1, <2>2, <1>2 DEF Begins, Find, AddressTypeOK
<1>q. QED BY <1>3, <1>4, <1>5

(* The second update of a quick change, of a row of its account.           *)
LEMMA DisableFacts ==
  ASSUME AddressTypeOK, NEW r \in Requests, OffOf(r), Disable(r)
  PROVE  /\ at[r] = "disable" /\ off[r] \in Ids /\ copy[r] \in Row
         /\ Exists(off[r]) => address[off[r]].account = copy[r].account
         /\ address' \in [Ids -> Row \cup {NoRow}]
         /\ \A k \in Ids : Exists(k)' = Exists(k)
         /\ \A k \in Ids : Exists(k) => address'[k].account = address[k].account
         /\ \A k \in Ids \ {off[r]} : address'[k] = address[k]
         /\ Exists(off[r]) => ~address'[off[r]].status
<1> DEFINE row == [copy[r] EXCEPT !.status = FALSE]
<1>1. /\ at[r] = "disable" /\ off[r] \in Ids /\ copy[r] \in Row
      /\ Exists(off[r]) => address[off[r]].account = copy[r].account
  BY DEF Disable, OffOf, QuickChange, AddressTypeOK
<1>2. row \in Row /\ row.account = copy[r].account /\ row.status = FALSE
  BY <1>1 DEF Row
<1>3. address' = Updated(off[r], row)
  BY DEF Disable, Disabled
<1> HIDE DEF row
<1>q. QED BY <1>1, <1>2, <1>3, UpdatedFacts

LEMMA KeepsAddressTypeOK ==
  ASSUME AddressTypeOK, \A r \in Requests : OffOf(r), AddressNext
  PROVE  AddressTypeOK'
<1> USE DEF AddressTypeOK
<1>1. PICK r \in Requests :
        \/ AddressInsert(r)
        \/ AddressUpdate(r) \/ WriteUpdate(r)
        \/ AddressDelete(r) \/ DeleteRow(r)
        \/ AddressQuickChange(r) \/ FindOff(r) \/ Enable(r) \/ Disable(r)
        \/ Fail(r)
  BY DEF AddressNext
<1>2. CASE AddressInsert(r)
  <2>1. PICK i \in Ids, row \in Row :
          /\ ~Exists(i) /\ \A q \in Requests : i \notin {on[q], off[q]}
          /\ address' = [address EXCEPT ![i] = row]
          /\ mixed' \subseteq mixed \cup {row.account}
    BY <1>2 DEF AddressInsert
  <2>2. UNCHANGED <<at, on, off, copy, overtaken>>
    BY <1>2 DEF AddressInsert, memory
  <2>3. row.account \in Accounts
    BY RowFacts
  <2>q. QED BY <2>1, <2>2, <2>3 DEF Exists
<1>3. CASE AddressUpdate(r) \/ AddressDelete(r) \/ AddressQuickChange(r)
  <2>1. PICK i \in Ids, row \in Row, stage \in {"update", "delete", "find"} :
               Begins(r, i, row, stage)
    BY <1>3, BeginFacts
  <2>q. QED BY <2>1 DEF Begins, Find, MovesTo, Exists
<1>4. CASE WriteUpdate(r) \/ Enable(r) \/ Disable(r)
  <2>2. /\ address' \in [Ids -> Row \cup {NoRow}]
        /\ \A j \in Ids : Exists(j)' = Exists(j)
        /\ \A j \in Ids : Exists(j) => address'[j].account = address[j].account
    <3>1. CASE WriteUpdate(r) \/ Enable(r)
      <4>1. /\ on[r] \in Ids /\ copy[r] \in Row
            /\ Exists(on[r]) => copy[r].account = address[on[r]].account
            /\ address' = Updated(on[r], copy[r])
        BY <3>1 DEF WriteUpdate, Enable, Enabled
      <4>q. QED BY <4>1, UpdatedFacts
    <3>2. CASE Disable(r)
      BY <3>2, DisableFacts
    <3>q. QED BY <1>4, <3>1, <3>2
  <2>3. overtaken' \subseteq Requests /\ mixed' \subseteq Accounts
    BY <1>4, RowFacts DEF WriteUpdate, Enable, Disable, Overtakes
  <2>4. CASE Enable(r)
    BY <2>2, <2>3, <2>4 DEF Enable, MovesTo, memory
  <2>5. CASE WriteUpdate(r) \/ Disable(r)
    <3>1. Finish(r)
      BY <2>5 DEF WriteUpdate, Disable
    <3>q. QED BY <2>2, <2>3, <3>1, FinishFacts DEF Alone
  <2>q. QED BY <1>4, <2>4, <2>5
<1>5. CASE DeleteRow(r) \/ Fail(r)
  <2>1. /\ address' \in [Ids -> Row \cup {NoRow}]
        /\ \A j \in Ids : Exists(j)' => address'[j] = address[j] /\ Exists(j)
    BY <1>5 DEF DeleteRow, Fail, Exists
  <2>2. overtaken' \subseteq Requests /\ mixed' \subseteq Accounts
    BY <1>5, RowFacts DEF DeleteRow, Fail, Overtakes
  <2>3. Finish(r)
    BY <1>5 DEF DeleteRow, Fail
  <2>q. QED BY <2>1, <2>2, <2>3, FinishFacts DEF Alone
<1>6. CASE FindOff(r)
  BY <1>6 DEF FindOff, MovesTo, memory, Exists
<1>q. QED BY <1>1, <1>2, <1>3, <1>4, <1>5, <1>6

(* What a quick change knows stays true whatever another request does.     *)
LEMMA KeepsQuickChanges ==
  ASSUME AddressTypeOK, \A r \in Requests : OffOf(r) /\ OnOf(r), AddressTypeOK', AddressNext
  PROVE  \A r \in Requests : OffOf(r)' /\ OnOf(r)'
<1> USE DEF QuickChange
<1>1. PICK r \in Requests :
        \/ AddressInsert(r)
        \/ AddressUpdate(r) \/ WriteUpdate(r)
        \/ AddressDelete(r) \/ DeleteRow(r)
        \/ AddressQuickChange(r) \/ FindOff(r) \/ Enable(r) \/ Disable(r)
        \/ Fail(r)
  BY DEF AddressNext
<1> SUFFICES ASSUME NEW s \in Requests
             PROVE  OffOf(s)' /\ OnOf(s)'
  OBVIOUS
<1>s. /\ at[s] \in QuickChange =>
            on[s] \in Ids /\ off[s] \in Ids /\ on[s] # off[s] /\ copy[s] \in Row
      /\ OffOf(s) /\ OnOf(s)
  BY DEF AddressTypeOK, OffOf
<1>2. CASE AddressInsert(r)
  <2>1. PICK i \in Ids :
          /\ i \notin {on[s], off[s]}
          /\ \A j \in Ids \ {i} : address'[j] = address[j]
    BY <1>2 DEF AddressInsert, AddressTypeOK
  <2>2. UNCHANGED <<at, on, off, copy, overtaken>>
    BY <1>2 DEF AddressInsert, memory
  <2>q. QED BY <2>1, <2>2, <1>s DEF OffOf, OnOf, Exists
<1>3. CASE AddressUpdate(r) \/ AddressDelete(r) \/ AddressQuickChange(r)
  <2>1. PICK i \in Ids, row \in Row, stage \in {"update", "delete", "find"} :
               Begins(r, i, row, stage)
    BY <1>3, BeginFacts
  <2>2. UNCHANGED <<address, overtaken>>
    BY <2>1 DEF Begins, Find
  <2>3. CASE s = r
    BY <2>1, <2>2, <2>3 DEF Begins, Find, MovesTo, AddressTypeOK, OffOf, OnOf, Exists
  <2>4. CASE s # r
    BY <2>1, <2>2, <2>4, <1>s DEF Begins, Find, MovesTo, AddressTypeOK, OffOf, OnOf, Exists
  <2>q. QED BY <2>3, <2>4
<1>4. CASE FindOff(r)
  BY <1>4, <1>s DEF FindOff, MovesTo, memory, OffOf, OnOf, Exists, AddressTypeOK
<1>5. CASE Enable(r)
  <2>1. /\ on[r] \in Ids /\ copy[r] \in Row /\ copy[r].status
        /\ Exists(on[r]) => copy[r].account = address[on[r]].account
    BY <1>5 DEF Enable, AddressTypeOK, OffOf
  <2>2. /\ \A j \in Ids : Exists(j)' = Exists(j)
        /\ \A j \in Ids : Exists(j) => address'[j].account = address[j].account
        /\ \A j \in Ids \ {on[r]} : address'[j] = address[j]
        /\ Exists(on[r]) => address'[on[r]] = copy[r]
    BY <2>1, <1>5, UpdatedFacts DEF Enable, Enabled
  <2>3. /\ UNCHANGED <<on, off, copy, overtaken>>
        /\ at' = [at EXCEPT ![r] = "disable"] /\ at[r] = "enable"
    BY <1>5 DEF Enable, MovesTo, memory
  <2>q. QED BY <2>1, <2>2, <2>3, <1>s DEF OffOf, OnOf, AddressTypeOK
<1>6. CASE WriteUpdate(r) \/ Disable(r) \/ DeleteRow(r) \/ Fail(r)
  <2>1. Finish(r)
    BY <1>6 DEF WriteUpdate, Disable, DeleteRow, Fail
  <2>2. Alone(r) /\ at'[r] = "idle"
    BY <2>1, FinishFacts
  <2>3. CASE s = r
    BY <2>2, <2>3 DEF OffOf, OnOf
  <2>4. CASE s # r
    <3>0. at'[s] = at[s] /\ on'[s] = on[s] /\ off'[s] = off[s] /\ copy'[s] = copy[s]
      BY <2>2, <2>4 DEF Alone
    <3>1. CASE WriteUpdate(r)
      <4>1. /\ \A j \in Ids : Exists(j)' = Exists(j)
            /\ \A j \in Ids : Exists(j) => address'[j].account = address[j].account
            /\ \A j \in Ids \ {on[r]} : address'[j] = address[j]
            /\ Exists(on[r]) => address'[on[r]] = copy[r]
        BY <3>1, UpdatedFacts DEF WriteUpdate, AddressTypeOK
      <4>2. at[s] = "disable" /\ on[s] = on[r] /\ s \notin overtaken' => copy[r].status
        BY <3>1, <2>4 DEF WriteUpdate, Overtakes
      <4>3. s \notin overtaken' => s \notin overtaken
        BY <3>1 DEF WriteUpdate
      <4>q. QED BY <4>1, <4>2, <4>3, <3>0, <1>s DEF OffOf, OnOf
    <3>2. CASE Disable(r)
      <4>2. /\ \A j \in Ids : Exists(j)' = Exists(j)
            /\ \A j \in Ids : Exists(j) => address'[j].account = address[j].account
            /\ \A j \in Ids \ {off[r]} : address'[j] = address[j]
        BY <3>2, DisableFacts
      <4>3. s \notin overtaken' => s \notin overtaken /\ ~(at[s] = "disable" /\ on[s] = off[r])
        BY <3>2, <2>4 DEF Disable, Overtakes
      <4>q. QED BY <4>2, <4>3, <3>0, <1>s DEF OffOf, OnOf
    <3>3. CASE DeleteRow(r)
      <4>1. /\ \A j \in Ids \ {on[r]} : address'[j] = address[j]
            /\ \A j \in Ids : Exists(j)' => address'[j] = address[j] /\ Exists(j)
        BY <3>3 DEF DeleteRow, AddressTypeOK, Exists
      <4>2. s \notin overtaken' => s \notin overtaken /\ ~(at[s] \in QuickChange /\ on[s] = on[r])
        BY <3>3, <2>4 DEF DeleteRow, Overtakes
      <4>q. QED BY <4>1, <4>2, <3>0, <1>s DEF OffOf, OnOf, Exists
    <3>4. CASE Fail(r)
      BY <3>4, <3>0, <2>4, <1>s DEF Fail, OffOf, OnOf, Exists
    <3>q. QED BY <1>6, <3>1, <3>2, <3>3, <3>4
  <2>q. QED BY <2>3, <2>4
<1>q. QED BY <1>1, <1>2, <1>3, <1>4, <1>5, <1>6

(* Two defaults that a step leaves were two defaults before it, unless it  *)
(* enables one of them; and a request that explains them still does.       *)
LEMMA KeepsOneDefault ==
  ASSUME AddressTypeOK, \A r \in Requests : OffOf(r), OneDefault, AddressTypeOK', AddressNext
  PROVE  OneDefault'
<1> USE DEF QuickChange
<1>1. PICK r \in Requests :
        \/ AddressInsert(r)
        \/ AddressUpdate(r) \/ WriteUpdate(r)
        \/ AddressDelete(r) \/ DeleteRow(r)
        \/ AddressQuickChange(r) \/ FindOff(r) \/ Enable(r) \/ Disable(r)
        \/ Fail(r)
  BY DEF AddressNext
<1> SUFFICES ASSUME NEW a \in Accounts \ mixed',
                    NEW i \in Defaults(a)', NEW j \in Defaults(a)', i # j
             PROVE  \E s \in Requests : (at[s] = "disable" /\ {on[s], off[s]} = {i, j})'
  BY DEF OneDefault
<1>m. mixed \subseteq mixed'
  BY <1>1 DEF AddressInsert, AddressUpdate, WriteUpdate, AddressDelete, DeleteRow,
              AddressQuickChange, FindOff, Enable, Disable, Fail, Find
<1>d. ASSUME i \in Defaults(a), j \in Defaults(a),
             \A s \in Requests : at[s] = "disable" => UNCHANGED <<at[s], on[s], off[s]>>
      PROVE  \E s \in Requests : (at[s] = "disable" /\ {on[s], off[s]} = {i, j})'
  BY <1>d, <1>m DEF OneDefault
<1>i. i \in Ids /\ j \in Ids
  BY DEF Defaults, AddressesOf
<1>2. CASE AddressInsert(r)
  <2>1. PICK k \in Ids, row \in Row :
          /\ address' = [address EXCEPT ![k] = row]
          /\ row.status /\ Defaults(row.account) # {} => row.account \in mixed'
    <3>1. PICK k \in Ids, row \in Row :
            /\ address' = [address EXCEPT ![k] = row]
            /\ mixed' = IF row.status /\ Defaults(row.account) # {}
                        THEN mixed \cup {row.account} ELSE mixed
      BY <1>2 DEF AddressInsert
    <3>q. QED BY <3>1
  <2>2. UNCHANGED <<at, on, off>>
    BY <1>2 DEF AddressInsert, memory
  <2>3. \A l \in Ids \ {k} : l \in Defaults(a)' <=> l \in Defaults(a)
    BY <2>1 DEF Defaults, AddressesOf, Exists, AddressTypeOK
  <2>4. k \in Defaults(a)' => row.status /\ row.account = a
    BY <2>1 DEF Defaults, AddressesOf, Exists, AddressTypeOK
  <2>5. i # k /\ j # k
    BY <2>1, <2>3, <2>4, <1>i
  <2>q. QED BY <2>2, <2>3, <2>5, <1>d, <1>i
<1>3. CASE AddressUpdate(r) \/ AddressDelete(r) \/ AddressQuickChange(r)
  <2>1. UNCHANGED address /\ at[r] = "idle"
    BY <1>3 DEF AddressUpdate, AddressDelete, AddressQuickChange, Find
  <2>2. \A s \in Requests \ {r} : UNCHANGED <<at[s], on[s], off[s]>>
    BY <1>3 DEF AddressUpdate, AddressDelete, AddressQuickChange, Find, MovesTo, AddressTypeOK
  <2>q. QED BY <2>1, <2>2, <1>d DEF Defaults, AddressesOf, Exists
<1>4. CASE FindOff(r)
  BY <1>4, <1>d DEF FindOff, MovesTo, memory, AddressTypeOK, Defaults, AddressesOf, Exists
<1>5. CASE Enable(r)
  <2>1. /\ on[r] \in Ids /\ copy[r] \in Row
        /\ Exists(on[r]) => copy[r].account = address[on[r]].account
    BY <1>5 DEF Enable, AddressTypeOK
  <2>2. /\ \A k \in Ids : Exists(k)' = Exists(k)
        /\ \A k \in Ids : Exists(k) => address'[k].account = address[k].account
        /\ \A k \in Ids \ {on[r]} : address'[k] = address[k]
    BY <2>1, <1>5, UpdatedFacts DEF Enable, Enabled
  <2>3. /\ \A k \in Ids \ {on[r]} : k \in Defaults(a)' => k \in Defaults(a)
        /\ on[r] \in Defaults(a)' => a = copy[r].account
    BY <2>1, <2>2 DEF Defaults, AddressesOf
  <2>4. at[r] = "enable" /\ at' = [at EXCEPT ![r] = "disable"] /\ UNCHANGED <<on, off>>
    BY <1>5 DEF Enable, MovesTo, memory
  <2>5. CASE i # on[r] /\ j # on[r]
    <3>1. \A s \in Requests : at[s] = "disable" => UNCHANGED <<at[s], on[s], off[s]>>
      BY <2>4 DEF AddressTypeOK
    <3>q. QED BY <2>3, <2>5, <3>1, <1>d, <1>i
  <2>6. CASE i = on[r] \/ j = on[r]
    <3>1. Defaults(a) \subseteq {on[r], off[r]}
      <4>1. a = copy[r].account
        BY <2>3, <2>6
      <4>q. QED BY <1>5, <4>1 DEF Enable
    <3>2. {i, j} = {on[r], off[r]}
      BY <2>3, <2>6, <3>1, <1>i
    <3>q. QED BY <2>4, <3>2 DEF AddressTypeOK
  <2>q. QED BY <2>5, <2>6
<1>6. CASE WriteUpdate(r) \/ DeleteRow(r)
  <2>1. Finish(r) /\ at[r] # "disable"
    BY <1>6 DEF WriteUpdate, DeleteRow
  <2>2. \A s \in Requests : at[s] = "disable" => UNCHANGED <<at[s], on[s], off[s]>>
    BY <2>1, FinishFacts DEF Alone
  <2>3. i \in Defaults(a) /\ j \in Defaults(a)
    <3>1. CASE DeleteRow(r)
      BY <3>1, <1>i DEF DeleteRow, Defaults, AddressesOf, Exists, AddressTypeOK
    <3>2. CASE WriteUpdate(r)
      <4>0. /\ on[r] \in Ids /\ copy[r] \in Row
            /\ Exists(on[r]) => copy[r].account = address[on[r]].account
        BY <3>2 DEF WriteUpdate, AddressTypeOK
      <4>1. /\ \A k \in Ids : Exists(k)' = Exists(k)
            /\ \A k \in Ids : Exists(k) => address'[k].account = address[k].account
            /\ \A k \in Ids \ {on[r]} : address'[k] = address[k]
            /\ Exists(on[r]) => address'[on[r]] = copy[r]
        BY <3>2, <4>0, UpdatedFacts DEF WriteUpdate
      <4>2. /\ \A k \in Ids \ {on[r]} : k \in Defaults(a)' => k \in Defaults(a)
            /\ on[r] \in Defaults(a)' => a = copy[r].account /\ copy[r].status
        BY <4>0, <4>1 DEF Defaults, AddressesOf
      <4>3. on[r] \notin Defaults(a)'
        <5>1. SUFFICES ASSUME on[r] \in Defaults(a)'
                       PROVE  FALSE
          OBVIOUS
        <5>2. Defaults(a) \ {on[r]} # {}
          BY <4>2, <1>i
        <5>q. QED BY <5>1, <5>2, <4>2, <3>2 DEF WriteUpdate
      <4>q. QED BY <4>2, <4>3, <1>i
    <3>q. QED BY <1>6, <3>1, <3>2
  <2>q. QED BY <2>2, <2>3, <1>d
<1>7. CASE Disable(r) \/ Fail(r)
  <2>1. Finish(r)
    BY <1>7 DEF Disable, Fail
  <2>2. \A s \in Requests \ {r} : UNCHANGED <<at[s], on[s], off[s]>>
    BY <2>1, FinishFacts DEF Alone
  <2>3. i \in Defaults(a) /\ j \in Defaults(a) /\ ~(at[r] = "disable" /\ {on[r], off[r]} = {i, j})
    <3>1. CASE Fail(r)
      <4>1. UNCHANGED address /\ (at[r] = "disable" => copy[r].account \in mixed')
        BY <3>1 DEF Fail
      <4>2. i \in Defaults(a) /\ j \in Defaults(a)
        BY <4>1 DEF Defaults, AddressesOf, Exists
      <4>3. at[r] = "disable" => (on[r] \in Defaults(a) => copy[r].account = a)
        BY DEF AddressTypeOK, Defaults, AddressesOf
      <4>q. QED BY <4>1, <4>2, <4>3
    <3>2. CASE Disable(r)
      <4>1. /\ off[r] \in Ids
            /\ \A k \in Ids : Exists(k)' = Exists(k)
            /\ \A k \in Ids : Exists(k) => address'[k].account = address[k].account
            /\ \A k \in Ids \ {off[r]} : address'[k] = address[k]
            /\ Exists(off[r]) => ~address'[off[r]].status
        BY <3>2, DisableFacts
      <4>2. /\ \A k \in Ids \ {off[r]} : k \in Defaults(a)' => k \in Defaults(a)
            /\ off[r] \notin Defaults(a)'
        BY <4>1 DEF Defaults, AddressesOf
      <4>q. QED BY <4>2, <1>i
    <3>q. QED BY <1>7, <3>1, <3>2
  <2>4. PICK s \in Requests : at[s] = "disable" /\ {on[s], off[s]} = {i, j}
    BY <2>3, <1>m DEF OneDefault
  <2>q. QED BY <2>2, <2>3, <2>4
<1>q. QED BY <1>1, <1>2, <1>3, <1>4, <1>5, <1>6, <1>7

LEMMA AddressInvHolds == AddressSpec => []AddressInv
<1>1. AddressInv /\ [AddressNext]_addressVars => AddressInv'
  <2> SUFFICES ASSUME AddressInv, [AddressNext]_addressVars
               PROVE  AddressInv'
    OBVIOUS
  <2>0. AddressTypeOK /\ OneDefault /\ \A r \in Requests : OffOf(r) /\ OnOf(r)
    BY DEF AddressInv
  <2>1. CASE AddressNext
    <3>1. AddressTypeOK'
      BY <2>0, <2>1, KeepsAddressTypeOK
    <3>2. \A r \in Requests : OffOf(r)' /\ OnOf(r)'
      BY <2>0, <2>1, <3>1, KeepsQuickChanges
    <3>3. OneDefault'
      BY <2>0, <2>1, <3>1, KeepsOneDefault
    <3>q. QED BY <3>1, <3>2, <3>3 DEF AddressInv
  <2>2. CASE UNCHANGED addressVars
    <3>0. UNCHANGED <<address, at, on, off, copy, overtaken, mixed>>
      BY <2>2 DEF addressVars, memory
    <3>1. AddressTypeOK'
      BY <2>0, <3>0 DEF AddressTypeOK, Exists
    <3>2. \A r \in Requests : OffOf(r)' /\ OnOf(r)'
      BY <2>0, <3>0 DEF OffOf, OnOf, Exists
    <3>3. OneDefault'
      BY <2>0, <3>0 DEF OneDefault, Defaults, AddressesOf, Exists
    <3>q. QED BY <3>1, <3>2, <3>3 DEF AddressInv
  <2>q. QED BY <2>1, <2>2
<1>q. QED BY InitAddressInv, <1>1, PTL DEF AddressSpec

(* Every variable keeps its type; what a request holds is of the account   *)
(* whose address it writes, and a quick change is about two addresses.     *)
THEOREM AddressTypes == AddressSpec => []AddressTypeOK
<1>1. AddressInv => AddressTypeOK
  BY DEF AddressInv
<1>q. QED BY <1>1, AddressInvHolds, PTL

(* Two defaults of an account are those of a quick change in between its   *)
(* updates, unless a body or a failure made the second.                    *)
THEOREM OneDefaultHolds == AddressSpec => []OneDefault
<1>1. AddressInv => OneDefault
  BY DEF AddressInv
<1>q. QED BY <1>1, AddressInvHolds, PTL

(* A step after which an account has no default is one that was meant to   *)
(* take it, or the end of a quick change that was overtaken.               *)
LEMMA StepKeepsDefault ==
  ASSUME AddressInv, AddressNext, NEW a \in Accounts, Defaults(a) # {}, Defaults(a)' = {}
  PROVE  \E r \in Requests :
            \/ Ends(r, {"update", "delete"})
            \/ r \in overtaken /\ Ends(r, {"disable"})
<1> USE DEF QuickChange
<1>0. AddressTypeOK /\ \A r \in Requests : OffOf(r) /\ OnOf(r)
  BY DEF AddressInv
<1>1. PICK r \in Requests :
        \/ AddressInsert(r)
        \/ AddressUpdate(r) \/ WriteUpdate(r)
        \/ AddressDelete(r) \/ DeleteRow(r)
        \/ AddressQuickChange(r) \/ FindOff(r) \/ Enable(r) \/ Disable(r)
        \/ Fail(r)
  BY DEF AddressNext
<1>2. PICK i \in Ids : i \in Defaults(a) /\ i \notin Defaults(a)'
  BY DEF Defaults, AddressesOf
<1>3. CASE AddressInsert(r)
  <2>1. PICK k \in Ids, row \in Row : ~Exists(k) /\ address' = [address EXCEPT ![k] = row]
    BY <1>3 DEF AddressInsert
  <2>2. i # k
    BY <1>2, <2>1 DEF Defaults, AddressesOf
  <2>3. address'[i] = address[i]
    BY <2>1, <2>2, <1>0 DEF AddressTypeOK
  <2>q. QED BY <1>2, <2>3 DEF Defaults, AddressesOf, Exists
<1>4. CASE AddressUpdate(r) \/ AddressDelete(r) \/ AddressQuickChange(r) \/ FindOff(r) \/ Fail(r)
  <2>1. UNCHANGED address
    BY <1>4 DEF AddressUpdate, AddressDelete, AddressQuickChange, FindOff, Fail, Find
  <2>q. QED BY <2>1, <1>2 DEF Defaults, AddressesOf, Exists
<1>5. CASE WriteUpdate(r) \/ DeleteRow(r)
  <2>1. at[r] \in {"update", "delete"} /\ Finish(r)
    BY <1>5 DEF WriteUpdate, DeleteRow
  <2>q. QED BY <2>1, <1>0, FinishFacts DEF Ends
<1>6. CASE Enable(r)
  <2>1. /\ on[r] \in Ids /\ copy[r] \in Row /\ copy[r].status
        /\ Exists(on[r]) => copy[r].account = address[on[r]].account
    BY <1>0, <1>6 DEF Enable, AddressTypeOK, OffOf
  <2>2. /\ \A j \in Ids : Exists(j)' = Exists(j)
        /\ \A j \in Ids : Exists(j) => address'[j].account = address[j].account
        /\ \A j \in Ids \ {on[r]} : address'[j] = address[j]
        /\ Exists(on[r]) => address'[on[r]] = copy[r]
    BY <2>1, <1>0, <1>6, UpdatedFacts DEF Enable, Enabled
  <2>q. QED BY <2>1, <2>2, <1>2 DEF Defaults, AddressesOf
<1>7. CASE Disable(r)
  <2>0. at[r] = "disable" /\ on[r] \in Ids /\ on[r] # off[r] /\ Finish(r)
    BY <1>0, <1>7 DEF Disable, AddressTypeOK
  <2>1. off[r] \in Ids /\ (Exists(off[r]) => address[off[r]].account = copy[r].account)
    BY <1>0, <1>7, DisableFacts
  <2>2. /\ \A j \in Ids : Exists(j)' = Exists(j)
        /\ \A j \in Ids : Exists(j) => address'[j].account = address[j].account
        /\ \A j \in Ids \ {off[r]} : address'[j] = address[j]
    BY <1>0, <1>7, DisableFacts
  <2>3. CASE r \in overtaken
    BY <2>0, <2>3, <1>0, FinishFacts DEF Ends
  <2>4. CASE r \notin overtaken
    <3>1. Exists(on[r]) /\ address[on[r]].status /\ address[on[r]].account = copy[r].account
      BY <2>0, <2>4, <1>0 DEF OnOf, AddressTypeOK
    <3>2. i = off[r] /\ a = copy[r].account
      BY <1>2, <2>1, <2>2 DEF Defaults, AddressesOf, Exists
    <3>3. on[r] \in Defaults(a)'
      BY <2>0, <2>2, <3>1, <3>2 DEF Defaults, AddressesOf
    <3>q. QED BY <3>3
  <2>q. QED BY <2>3, <2>4
<1>q. QED BY <1>1, <1>3, <1>4, <1>5, <1>6, <1>7

(* An account does not lose its default to a quick change that fails, or   *)
(* to two that do not meet.                                                *)
THEOREM DefaultsAreKept == AddressSpec => DefaultKept
<1>1. AddressInv /\ [AddressNext]_addressVars =>
        [\A a \in Accounts :
            Defaults(a) # {} /\ Defaults(a)' = {} =>
                \E r \in Requests :
                    \/ Ends(r, {"update", "delete"})
                    \/ r \in overtaken /\ Ends(r, {"disable"})]_addressVars
  BY StepKeepsDefault
<1>q. QED BY <1>1, AddressInvHolds, PTL DEF AddressSpec, DefaultKept

-----------------------------------------------------------------------------
(* Pages: positions are numbered without gaps, and pages are intervals.    *)

LEMMA PositionFacts ==
  ASSUME NEW a
  PROVE  /\ Total(a) \in Nat
         /\ \A i \in AddressesOf(a) : Position(a, i) \in 1..Total(a)
         /\ \A i, j \in AddressesOf(a) : i < j => Position(a, j) < Position(a, i)
<1> DEFINE From(i) == {j \in AddressesOf(a) : j >= i}
<1>1. IsFiniteSet(AddressesOf(a)) /\ AddressesOf(a) \subseteq Nat
  <2>1. IsFiniteSet(Ids)
    BY AddressBounds, FS_Interval DEF Ids
  <2>2. AddressesOf(a) \in SUBSET Ids
    BY DEF AddressesOf
  <2>3. Ids \subseteq Nat
    BY DEF Ids
  <2>q. QED BY <2>1, <2>2, <2>3, FS_Subset
<1>2. Total(a) \in Nat
  BY <1>1, FS_CardinalityType DEF Total
<1>3. \A i \in AddressesOf(a) : IsFiniteSet(From(i)) /\ Cardinality(From(i)) \in 1..Total(a)
  <2> TAKE i \in AddressesOf(a)
  <2>1. From(i) \in SUBSET AddressesOf(a) /\ i \in From(i)
    BY <1>1
  <2>2. IsFiniteSet(From(i)) /\ Cardinality(From(i)) <= Total(a)
    BY <1>1, <2>1, FS_Subset DEF Total
  <2>3. Cardinality(From(i)) \in Nat /\ Cardinality(From(i)) # 0
    BY <2>1, <2>2, FS_CardinalityType, FS_EmptySet
  <2>q. QED BY <1>2, <2>2, <2>3
<1>4. ASSUME NEW i \in AddressesOf(a), NEW j \in AddressesOf(a), i < j
      PROVE  Cardinality(From(j)) < Cardinality(From(i))
  <2>1. From(j) \in SUBSET From(i) /\ i \in From(i) /\ i \notin From(j)
    BY <1>1, <1>4
  <2>2. Cardinality(From(j)) <= Cardinality(From(i)) /\ Cardinality(From(j)) # Cardinality(From(i))
    BY <1>3, <2>1, FS_Subset
  <2>3. Cardinality(From(i)) \in Nat /\ Cardinality(From(j)) \in Nat
    BY <1>2, <1>3
  <2>q. QED BY <2>2, <2>3
<1>q. QED BY <1>2, <1>3, <1>4 DEF Position

(* The address at a position, as FetchAddress chooses it.                  *)
RowAt(a, k) == CHOOSE i \in AddressesOf(a) : Position(a, i) = k

(* There is one at every position: positions differ, and there are as many *)
(* of them as there are addresses.                                         *)
LEMMA EachPositionIsTaken ==
  ASSUME NEW a
  PROVE  /\ \A k \in 1..Total(a) : RowAt(a, k) \in AddressesOf(a) /\ Position(a, RowAt(a, k)) = k
         /\ \A i \in AddressesOf(a) : RowAt(a, Position(a, i)) = i
         /\ \A k, l \in 1..Total(a) : RowAt(a, k) > RowAt(a, l) <=> k < l
<1> DEFINE f == [i \in AddressesOf(a) |-> Position(a, i)]
<1>1. Total(a) \in Nat /\ AddressesOf(a) \subseteq Nat
  BY PositionFacts DEF AddressesOf, Ids
<1>2. f \in Injection(AddressesOf(a), 1..Total(a))
  <2>1. f \in [AddressesOf(a) -> 1..Total(a)]
    BY PositionFacts
  <2>2. \A i, j \in AddressesOf(a) : i # j => f[i] # f[j]
    <3> TAKE i, j \in AddressesOf(a)
    <3> HAVE i # j
    <3>1. i < j \/ j < i
      BY <1>1
    <3>2. f[i] \in Nat /\ f[j] \in Nat /\ (f[i] < f[j] \/ f[j] < f[i])
      BY <1>1, <3>1, PositionFacts
    <3>q. QED BY <3>2
  <2>q. QED BY <2>1, <2>2 DEF Injection, IsInjective
<1>3. f \in Surjection(AddressesOf(a), 1..Total(a))
  <2>1. IsFiniteSet(1..Total(a)) /\ Cardinality(1..Total(a)) = Total(a)
    BY <1>1, FS_Interval
  <2>q. QED BY <1>2, <2>1, FS_Injection DEF Total
<1>4. \A k \in 1..Total(a) : \E i \in AddressesOf(a) : Position(a, i) = k
  BY <1>3 DEF Surjection
<1>5. \A k \in 1..Total(a) : RowAt(a, k) \in AddressesOf(a) /\ Position(a, RowAt(a, k)) = k
  BY <1>4 DEF RowAt
<1>6. \A i, j \in AddressesOf(a) : Position(a, i) = Position(a, j) => i = j
  BY <1>2 DEF Injection, IsInjective
<1>7. \A i \in AddressesOf(a) : RowAt(a, Position(a, i)) = i
  <2> TAKE i \in AddressesOf(a)
  <2>1. Position(a, i) \in 1..Total(a)
    BY PositionFacts
  <2>q. QED BY <1>5, <1>6, <2>1
<1>8. ASSUME NEW k \in 1..Total(a), NEW l \in 1..Total(a)
      PROVE  RowAt(a, k) > RowAt(a, l) <=> k < l
  <2> DEFINE i == RowAt(a, k)  j == RowAt(a, l)
  <2>1. /\ i \in AddressesOf(a) /\ Position(a, i) = k /\ i \in Nat
        /\ j \in AddressesOf(a) /\ Position(a, j) = l /\ j \in Nat
    BY <1>1, <1>5
  <2> HIDE DEF i, j
  <2>2. (i < j => l < k) /\ (j < i => k < l) /\ (i = j => k = l)
    BY <2>1, PositionFacts
  <2>3. k \in Nat /\ l \in Nat
    BY <1>1
  <2>4. i > j <=> k < l
    BY <2>1, <2>2, <2>3
  <2>q. QED BY <2>4 DEF i, j
<1>q. QED BY <1>5, <1>7, <1>8

LEMMA DivisionFacts ==
  ASSUME NEW m \in Nat, NEW s \in Nat \ {0}
  PROVE  m \div s \in Nat /\ (m \div s) * s <= m /\ m < (m \div s) * s + s
OBVIOUS

LEMMA ProductFacts ==
  ASSUME NEW s \in Nat
  PROVE  /\ \A p \in Nat : p * s \in Nat
         /\ \A p, q \in Nat : p < q => p * s + s <= q * s
OBVIOUS

(* Page p has the positions after its offset, PageSize of them or, on the  *)
(* last page, those that are left.                                         *)
Offset(p)  == (p - 1) * PageSize
Rows(a, p) == IF Offset(p) + PageSize < Total(a) THEN PageSize ELSE Total(a) - Offset(p)

LEMMA TotalPageFacts ==
  ASSUME NEW a
  PROVE  /\ PageSize \in Nat \ {0} /\ Total(a) \in Nat /\ TotalPage(a) \in Nat
         /\ TotalPage(a) * PageSize <= Total(a) + PageSize - 1
         /\ Total(a) - 1 < TotalPage(a) * PageSize
<1>1. PageSize \in Nat \ {0} /\ Total(a) \in Nat
  BY AddressBounds, PositionFacts
<1>2. TotalPage(a) = (Total(a) + PageSize - 1) \div PageSize
  BY <1>1 DEF Paginate, TotalPage
<1>3. Total(a) + PageSize - 1 \in Nat
  BY <1>1
<1>q. QED BY <1>1, <1>2, <1>3, DivisionFacts

LEMMA OffsetFacts ==
  /\ \A p \in Nat \ {0} : Offset(p) \in Nat /\ Offset(p) + PageSize = p * PageSize
  /\ \A p, q \in Nat \ {0} : p < q => Offset(p) + PageSize <= Offset(q)
<1>1. PageSize \in Nat
  BY AddressBounds
<1>2. \A p \in Nat \ {0} : p - 1 \in Nat
  OBVIOUS
<1>3. ASSUME NEW p \in Nat \ {0}
      PROVE  Offset(p) \in Nat /\ Offset(p) + PageSize = p * PageSize
  BY <1>1, <1>2, ProductFacts DEF Offset
<1>4. ASSUME NEW p \in Nat \ {0}, NEW q \in Nat \ {0}, p < q
      PROVE  Offset(p) + PageSize <= Offset(q)
  <2>1. p - 1 < q - 1
    BY <1>4
  <2>q. QED BY <1>1, <1>2, <2>1, ProductFacts DEF Offset
<1>q. QED BY <1>3, <1>4

LEMMA PageFacts ==
  ASSUME NEW a, NEW p \in Nat \ {0}
  PROVE  /\ Offset(p) \in Nat /\ Rows(a, p) \in Int
         /\ FetchAddress(a, p) = [k \in 1..Rows(a, p) |-> RowAt(a, Offset(p) + k)]
         /\ Rows(a, p) <= PageSize /\ Offset(p) + Rows(a, p) <= Total(a)
         /\ \A m \in 1..Total(a) : m <= Offset(p) + PageSize => m <= Offset(p) + Rows(a, p)
         /\ p <= TotalPage(a) <=> Rows(a, p) >= 1
         /\ p < TotalPage(a) => Rows(a, p) = PageSize
<1> DEFINE all == TotalPage(a) * PageSize
<1>1. /\ PageSize \in Nat \ {0} /\ Total(a) \in Nat /\ TotalPage(a) \in Nat
      /\ all <= Total(a) + PageSize - 1 /\ Total(a) - 1 < all
  BY TotalPageFacts
<1>2. Offset(p) \in Nat /\ all \in Nat
  BY <1>1, OffsetFacts, ProductFacts
<1>3. FetchAddress(a, p) = [k \in 1..Rows(a, p) |-> RowAt(a, Offset(p) + k)]
  <2>1. Paginate(p, PageSize, Total(a)).offset = Offset(p)
    BY <1>1 DEF Paginate, Offset
  <2>q. QED BY <2>1 DEF FetchAddress, RowAt, Rows
<1>4. p = TotalPage(a) => Offset(p) + PageSize = all
  BY <1>1, OffsetFacts
<1>5. p < TotalPage(a) => Offset(p) + PageSize + PageSize <= all
  <2>1. p < TotalPage(a) => p * PageSize + PageSize <= all
    BY <1>1, ProductFacts
  <2>q. QED BY <2>1, OffsetFacts
<1>6. p > TotalPage(a) => all <= Offset(p)
  <2>1. p - 1 \in Nat /\ (p > TotalPage(a) => p - 1 = TotalPage(a) \/ TotalPage(a) < p - 1)
    BY <1>1
  <2>2. TotalPage(a) < p - 1 => all + PageSize <= Offset(p)
    BY <1>1, <2>1, ProductFacts DEF Offset
  <2>3. p - 1 = TotalPage(a) => all = Offset(p)
    BY <2>1 DEF Offset
  <2>q. QED BY <1>1, <1>2, <2>1, <2>2, <2>3
<1> HIDE DEF all
<1>7. /\ Rows(a, p) \in Int
      /\ Rows(a, p) <= PageSize /\ Offset(p) + Rows(a, p) <= Total(a)
      /\ \A m \in 1..Total(a) : m <= Offset(p) + PageSize => m <= Offset(p) + Rows(a, p)
  BY <1>1, <1>2 DEF Rows
<1>8. p < TotalPage(a) => Rows(a, p) = PageSize
  BY <1>1, <1>2, <1>5 DEF Rows
<1>9. p <= TotalPage(a) => Rows(a, p) >= 1
  BY <1>1, <1>2, <1>4, <1>8 DEF Rows
<1>10. p > TotalPage(a) => Rows(a, p) < 1
  BY <1>1, <1>2, <1>6 DEF Rows
<1>q. QED BY <1>1, <1>2, <1>3, <1>7, <1>8, <1>9, <1>10

(* A list of addresses is cut into pages that leave none out and repeat    *)
(* none, whatever the number of addresses and the size of a page.          *)
THEOREM PagesPartitionAddresses == AddressSpec => []PagesPartition
<1>1. ASSUME NEW a \in Accounts, NEW i \in AddressesOf(a)
      PROVE  \E p \in PagesOf(a) :
                \E k \in DOMAIN FetchAddress(a, p) : FetchAddress(a, p)[k] = i
  <2> DEFINE m == Position(a, i)
             p == ((m - 1) \div PageSize) + 1
             k == m - Offset(p)
  <2>1. m \in 1..Total(a) /\ RowAt(a, m) = i /\ PageSize \in Nat \ {0} /\ Total(a) \in Nat
    BY PositionFacts, EachPositionIsTaken, TotalPageFacts
  <2>2. m - 1 \in Nat
    BY <2>1
  <2>3. /\ p \in Nat \ {0}
        /\ Offset(p) <= m - 1 /\ m - 1 < Offset(p) + PageSize
    <3>1. p \in Nat \ {0} /\ p - 1 = (m - 1) \div PageSize
      BY <2>1, <2>2, DivisionFacts
    <3>q. QED BY <2>1, <2>2, <3>1, DivisionFacts DEF Offset
  <2> HIDE DEF m, p
  <2>4. /\ Offset(p) \in Nat /\ Rows(a, p) \in Int
        /\ FetchAddress(a, p) = [j \in 1..Rows(a, p) |-> RowAt(a, Offset(p) + j)]
        /\ m <= Offset(p) + PageSize => m <= Offset(p) + Rows(a, p)
        /\ Rows(a, p) >= 1 => p <= TotalPage(a)
    BY <2>1, <2>3, PageFacts
  <2>5. k \in 1..Rows(a, p) /\ Rows(a, p) >= 1 /\ Offset(p) + k = m
    BY <2>1, <2>2, <2>3, <2>4
  <2>6. p \in PagesOf(a)
    BY <2>3, <2>4, <2>5, TotalPageFacts DEF PagesOf
  <2>q. QED BY <2>1, <2>4, <2>5, <2>6
<1>2. ASSUME NEW a \in Accounts, NEW p \in PagesOf(a), NEW q \in PagesOf(a),
             NEW k \in DOMAIN FetchAddress(a, p), NEW l \in DOMAIN FetchAddress(a, q)
      PROVE  (FetchAddress(a, p)[k] > FetchAddress(a, q)[l]) <=> (p < q \/ (p = q /\ k < l))
  <2>1. /\ p \in Nat \ {0} /\ q \in Nat \ {0}
        /\ PageSize \in Nat /\ Total(a) \in Nat
    BY TotalPageFacts DEF PagesOf
  <2>2. /\ Offset(p) \in Nat /\ Rows(a, p) \in Int /\ Rows(a, p) <= PageSize
        /\ Offset(p) + Rows(a, p) <= Total(a)
        /\ FetchAddress(a, p) = [j \in 1..Rows(a, p) |-> RowAt(a, Offset(p) + j)]
        /\ Offset(q) \in Nat /\ Rows(a, q) \in Int /\ Rows(a, q) <= PageSize
        /\ Offset(q) + Rows(a, q) <= Total(a)
        /\ FetchAddress(a, q) = [j \in 1..Rows(a, q) |-> RowAt(a, Offset(q) + j)]
    BY <2>1, PageFacts
  <2>3. /\ k \in 1..Rows(a, p) /\ FetchAddress(a, p)[k] = RowAt(a, Offset(p) + k)
        /\ l \in 1..Rows(a, q) /\ FetchAddress(a, q)[l] = RowAt(a, Offset(q) + l)
    BY <2>2
  <2>4. Offset(p) + k \in 1..Total(a) /\ Offset(q) + l \in 1..Total(a)
    BY <2>1, <2>2, <2>3
  <2>5. FetchAddress(a, p)[k] > FetchAddress(a, q)[l] <=> Offset(p) + k < Offset(q) + l
    BY <2>3, <2>4, EachPositionIsTaken
  <2>6. /\ p < q => Offset(p) + PageSize <= Offset(q)
        /\ q < p => Offset(q) + PageSize <= Offset(p)
    BY <2>1, OffsetFacts
  <2>7. Offset(p) + k < Offset(q) + l <=> (p < q \/ (p = q /\ k < l))
    BY <2>1, <2>2, <2>3, <2>6
  <2>q. QED BY <2>5, <2>7
<1>3. ASSUME NEW a \in Accounts, NEW p \in PagesOf(a)
      PROVE  /\ Len(FetchAddress(a, p)) \in 1..PageSize
             /\ p # TotalPage(a) => Len(FetchAddress(a, p)) = PageSize
  <2>1. /\ p \in Nat \ {0} /\ p <= TotalPage(a) /\ TotalPage(a) \in Nat
        /\ PageSize \in Nat
    BY TotalPageFacts DEF PagesOf
  <2>2. /\ Rows(a, p) \in 1..PageSize
        /\ FetchAddress(a, p) = [j \in 1..Rows(a, p) |-> RowAt(a, Offset(p) + j)]
        /\ p < TotalPage(a) => Rows(a, p) = PageSize
    BY <2>1, PageFacts
  <2>3. Len(FetchAddress(a, p)) = Rows(a, p)
    BY <2>2
  <2>q. QED BY <2>1, <2>2, <2>3
<1>4. ASSUME NEW a \in Accounts
      PROVE  FetchAddress(a, TotalPage(a) + 1) = <<>>
  <2> DEFINE p == TotalPage(a) + 1
  <2>1. p \in Nat \ {0} /\ ~(p <= TotalPage(a))
    BY TotalPageFacts
  <2>2. /\ Rows(a, p) \in Int /\ ~(Rows(a, p) >= 1)
        /\ FetchAddress(a, p) = [j \in 1..Rows(a, p) |-> RowAt(a, Offset(p) + j)]
    BY <2>1, PageFacts
  <2>3. 1..Rows(a, p) = {}
    BY <2>2
  <2>q. QED BY <2>2, <2>3
<1>5. PagesPartition
  BY <1>1, <1>2, <1>3, <1>4 DEF PagesPartition
<1>q. QED BY <1>5, PTL

=============================================================================
