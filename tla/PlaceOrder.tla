----------------------------- MODULE PlaceOrder -----------------------------
(***************************************************************************)
(* place_order of handlers/chatbot.go: the chat assistant turns the        *)
(* products a user asked for into a cart.  One goroutine per product looks *)
(* the product up; the handler waits for all of them on a WaitGroup, and   *)
(* they report through a shared slice under a mutex, through errChan (room *)
(* for every product) and through respChan (room for one reply).           *)
(***************************************************************************)
EXTENDS Naturals, FiniteSets

CONSTANTS
    Products,   \* the items of the order, one goroutine each
    Nobody      \* no goroutine holds the mutex

ASSUME ProductsAssumption == IsFiniteSet(Products) /\ Nobody \notin Products

VARIABLES
    lookup,    \* environment: what becomes of the lookup of each product
    aiUp,      \* environment: whether Vertex AI answers
    main,      \* where the handler is
    spawned,   \* products whose goroutine was started
    worker,    \* where each goroutine is
    running,   \* the WaitGroup: goroutines added and not done
    mu,        \* who holds the mutex
    seen,      \* the slice a goroutine loaded inside the critical section
    carts,     \* the shared slice of cart lines
    errChan,   \* products whose error is buffered
    respChan,  \* products whose AI reply is buffered
    response,  \* what the client got
    crashed    \* a panic in a goroutine took the process down

vars == <<lookup, aiUp, main, spawned, worker, running, mu, seen, carts,
          errChan, respChan, response, crashed>>

environment == <<lookup, aiUp>>
handler     == <<main, spawned, response>>
channels    == <<errChan, respChan>>
slice       == <<mu, seen, carts>>

\* "malformed": the assistant's call lacks the quantity or the name.
Lookups == {"found", "missing", "failing", "malformed"}
Workers == {"none", "query", "ask", "sendReply", "sendErr", "lock", "append", "done"}
Replies == {"none", "error", "reply", "order"}

TypeOK ==
    /\ lookup \in [Products -> Lookups]
    /\ aiUp \in BOOLEAN
    /\ main \in {"start", "address", "spawning", "closed", "done"}
    /\ worker \in [Products -> Workers]
    /\ spawned = {p \in Products : worker[p] # "none"}
    /\ running = {p \in spawned : worker[p] # "done"}
    /\ mu \in Products \cup {Nobody}
    /\ seen \in [Products -> SUBSET Products]
    /\ carts \in SUBSET Products
    /\ errChan \in SUBSET Products
    /\ respChan \in SUBSET Products
    /\ response \in Replies
    /\ crashed \in BOOLEAN

Init ==
    /\ lookup \in [Products -> Lookups]
    /\ aiUp \in BOOLEAN
    /\ main = "start"
    /\ spawned = {}
    /\ worker = [p \in Products |-> "none"]
    /\ running = {}
    /\ mu = Nobody
    /\ seen = [p \in Products |-> {}]
    /\ carts = {}
    /\ errChan = {}
    /\ respChan = {}
    /\ response = "none"
    /\ crashed = FALSE

-----------------------------------------------------------------------------
(* The handler.                                                            *)

Respond(r) == main' = "done" /\ response' = r

(* Not authenticated, or the account cannot be read.                       *)
Reject ==
    /\ main = "start"
    /\ Respond("error")
    /\ UNCHANGED <<environment, spawned, worker, running, slice, channels, crashed>>

(* The user has no delivery address, and the assistant is asked to say so. *)
NoAddress ==
    /\ main = "start"
    /\ main' = "address"
    /\ UNCHANGED <<environment, spawned, worker, running, slice, channels,
                   response, crashed>>

(* CallVertexAI reports a failure as (nil, nil), and the nil answer is     *)
(* dereferenced: no recover middleware is installed, the process dies.     *)
AskAddress ==
    /\ main = "address"
    /\ IF aiUp
       THEN Respond("reply") /\ UNCHANGED crashed
       ELSE crashed' = TRUE /\ UNCHANGED <<main, response>>
    /\ UNCHANGED <<environment, spawned, worker, running, slice, channels>>

(* The address is there, or its query failed with another error than       *)
(* sql.ErrNoRows, which nobody looks at: make the channels, start the loop. *)
StartLoop ==
    /\ main = "start"
    /\ main' = "spawning"
    /\ UNCHANGED <<environment, spawned, worker, running, slice, channels,
                   response, crashed>>

(* wg.Add(1); go func.                                                     *)
Spawn(p) ==
    /\ main = "spawning"
    /\ p \notin spawned
    /\ spawned' = spawned \cup {p}
    /\ running' = running \cup {p}
    /\ worker' = [worker EXCEPT ![p] = "query"]
    /\ UNCHANGED <<environment, main, slice, channels, response, crashed>>

(* Slip: the channels are closed without waiting.                          *)
CloseEarly ==
    /\ main = "spawning"
    /\ spawned = Products
    /\ main' = "closed"
    /\ UNCHANGED <<environment, spawned, worker, running, slice, channels,
                   response, crashed>>

(* wg.Wait() returns when every goroutine is done; close both channels.    *)
WaitAndClose ==
    /\ main = "spawning"
    /\ spawned = Products
    /\ running = {}
    /\ main' = "closed"
    /\ UNCHANGED <<environment, spawned, worker, running, slice, channels,
                   response, crashed>>

(* A reply of the assistant comes first, then an error, then the order.    *)
Answer ==
    /\ main = "closed"
    /\ Respond(IF respChan # {} THEN "reply"
               ELSE IF errChan # {} THEN "error" ELSE "order")
    /\ UNCHANGED <<environment, spawned, worker, running, slice, channels, crashed>>

-----------------------------------------------------------------------------
(* The goroutine of product p.                                             *)

Goes(p, stage) == worker' = [worker EXCEPT ![p] = stage]

(* The deferred wg.Done().                                                 *)
Return(p) == Goes(p, "done") /\ running' = running \ {p}

\* Slip: an unbuffered channel, nobody receives before wg.Wait().
RespCapacityZero == 0

(* make(chan error, len(products)) and make(chan fiber.Map, 1).            *)
ErrCapacity  == Cardinality(Products)
RespCapacity == 1

(* SELECT the product by name: a row, sql.ErrNoRows, or another error.     *)
Query(p) ==
    /\ worker[p] = "query"
    /\ lookup[p] # "malformed"
    /\ Goes(p, CASE lookup[p] = "found"   -> "lock"
                 [] lookup[p] = "missing" -> "ask"
                 [] OTHER                 -> "sendErr")
    /\ UNCHANGED <<environment, handler, running, slice, channels, crashed>>

(* The arguments of the call are asserted to be a float64 and a string.    *)
AssertArguments(p) ==
    /\ worker[p] = "query"
    /\ lookup[p] = "malformed"
    /\ crashed' = TRUE
    /\ UNCHANGED <<environment, handler, worker, running, slice, channels>>

(* GiveAnswerForUnreachableData; an outage is a nil dereference here too.  *)
Ask(p) ==
    /\ worker[p] = "ask"
    /\ IF aiUp
       THEN Goes(p, "sendReply") /\ UNCHANGED crashed
       ELSE crashed' = TRUE /\ UNCHANGED worker
    /\ UNCHANGED <<environment, handler, running, slice, channels>>

(* respChan <- reply blocks while another reply is in the channel.         *)
SendReply(p) ==
    /\ worker[p] = "sendReply"
    /\ Cardinality(respChan) < RespCapacity
    /\ respChan' = respChan \cup {p}
    /\ Return(p)
    /\ UNCHANGED <<environment, handler, slice, errChan, crashed>>

SendErr(p) ==
    /\ worker[p] = "sendErr"
    /\ Cardinality(errChan) < ErrCapacity
    /\ errChan' = errChan \cup {p}
    /\ Return(p)
    /\ UNCHANGED <<environment, handler, slice, respChan, crashed>>

(* Slip: the slice is appended to without the mutex.                       *)
LockNothing(p) ==
    /\ worker[p] = "lock"
    /\ mu' = p
    /\ seen' = [seen EXCEPT ![p] = carts]
    /\ Goes(p, "append")
    /\ UNCHANGED <<environment, handler, running, carts, channels, crashed>>

(* mu.Lock(), and append loads the slice.                                  *)
Lock(p) ==
    /\ worker[p] = "lock"
    /\ mu = Nobody
    /\ mu' = p
    /\ seen' = [seen EXCEPT ![p] = carts]
    /\ Goes(p, "append")
    /\ UNCHANGED <<environment, handler, running, carts, channels, crashed>>

(* The grown slice is stored, mu.Unlock().                                 *)
AppendAndUnlock(p) ==
    /\ worker[p] = "append"
    /\ carts' = seen[p] \cup {p}
    /\ mu' = Nobody
    /\ Return(p)
    /\ UNCHANGED <<environment, handler, seen, channels, crashed>>

Work(p) == \/ Query(p) \/ AssertArguments(p) \/ Ask(p) \/ SendReply(p) \/ SendErr(p)
           \/ Lock(p) \/ AppendAndUnlock(p)

Main == \/ Reject \/ NoAddress \/ AskAddress \/ StartLoop
        \/ \E p \in Products : Spawn(p)
        \/ WaitAndClose \/ Answer

(* A panic stops every goroutine.                                          *)
Next == ~crashed /\ (Main \/ \E p \in Products : Work(p))

Spec == Init /\ [][Next]_vars

(* Runnable goroutines run, and the database and the assistant answer.     *)
OrderFairness ==
    /\ WF_vars(~crashed /\ Main)
    /\ \A p \in Products : WF_vars(~crashed /\ Work(p))

-----------------------------------------------------------------------------

Missing == {p \in Products : lookup[p] = "missing"}
Failing == {p \in Products : lookup[p] = "failing"}
Malformed == {p \in Products : lookup[p] = "malformed"}

(* "Your order is ready" is said only of a complete order: every product   *)
(* was found, and the concurrent appends to carts lost none of them.       *)
OrderIsComplete ==
    response = "order" => carts = Products /\ Missing = {} /\ Failing = {}

(* The assistant's reply about an unknown product has priority: an error   *)
(* of another product never hides it, and an error is not made up.         *)
ReplyHasPriority ==
    response = "error" /\ spawned = Products /\ Products # {}
        => Missing = {} /\ Failing # {}

(* errChan has room for every goroutine: a send on it never blocks.        *)
ErrSendNeverBlocks ==
    \A p \in Products : worker[p] = "sendErr" => Cardinality(errChan) < ErrCapacity

(* For the mutex, or for room in a channel, which nobody receives from     *)
(* before wg.Wait() returns.                                               *)
Waits(p) ==
    \/ worker[p] = "lock" /\ mu # Nobody
    \/ worker[p] = "sendReply" /\ Cardinality(respChan) >= RespCapacity
    \/ worker[p] = "sendErr" /\ Cardinality(errChan) >= ErrCapacity

(* wg.Wait() never waits for goroutines that all wait themselves, if the   *)
(* order names at most one unknown product, whatever fails besides.        *)
SomeoneRuns ==
    Cardinality(Missing) <= 1 /\ running # {} => \E p \in running : ~Waits(p)

(* No goroutine is still going to send, or holds the mutex, once the       *)
(* channels are closed: a send on a closed channel would panic.            *)
NoSendAfterClose ==
    main = "closed" => /\ \A p \in Products : worker[p] = "done"
                       /\ mu = Nobody

(* Left to itself the handler answers, if the assistant is up, its call    *)
(* well formed, and the order names at most one unknown product.           *)
AnswersOneUnknown ==
    aiUp /\ Malformed = {} /\ Cardinality(Missing) <= 1 => <>(response # "none")

=============================================================================
