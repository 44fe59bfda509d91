------------------------------- MODULE ChatHub -------------------------------
(***************************************************************************)
(* The chat of handlers/chatMessage.go.  Each WebSocket connection is one  *)
(* goroutine that registers itself under its account in the map of its     *)
(* side, forwards what it reads to the connections of the other side, and  *)
(* unregisters when its peer is gone.  Two RWMutexes guard the two maps.   *)
(* A connection is written to while the map of its side is read-locked,    *)
(* which does not keep two goroutines from writing to it at once.          *)
(***************************************************************************)
EXTENDS FiniteSets

CONSTANTS
    UserConns, AdminConns,   \* connections of the two sides
    Ids,                     \* accounts
    Account,                 \* the account a connection is opened for
    None

Conns == UserConns \cup AdminConns

ASSUME ConnsAssumption ==
    /\ UserConns \cap AdminConns = {}
    /\ Account \in [Conns -> Ids]
    /\ None \notin Conns

Sides == {"user", "admin"}
Side(c)  == IF c \in UserConns THEN "user" ELSE "admin"
Other(s) == IF s = "user" THEN "admin" ELSE "user"

VARIABLES
    connections,  \* userConnections and adminConnections
    writer,       \* per RWMutex: who called Lock and was let in or is next
    readers,      \* per RWMutex: who holds RLock
    pc,           \* where the goroutine of each connection is
    todo,         \* connections a goroutine has still to write to
    gone,         \* environment: the peer is disconnected
    overlapped    \* history: accounts registered while still registered

vars == <<connections, writer, readers, pc, todo, gone, overlapped>>

locks == <<writer, readers>>

Stages == {"new", "lock", "locked", "read", "rlock", "send", "leave",
           "leaving", "closed"}

TypeOK ==
    /\ connections \in [Sides -> [Ids -> Conns \cup {None}]]
    /\ \A s \in Sides, i \in Ids : connections[s][i] # None =>
           Side(connections[s][i]) = s /\ Account[connections[s][i]] = i
    /\ writer \in [Sides -> Conns \cup {None}]
    /\ readers \in [Sides -> SUBSET Conns]
    /\ pc \in [Conns -> Stages]
    /\ todo \in [Conns -> SUBSET Conns]
    /\ gone \in SUBSET Conns
    /\ overlapped \in SUBSET (Sides \X Ids)

Init ==
    /\ connections = [s \in Sides |-> [i \in Ids |-> None]]
    /\ writer = [s \in Sides |-> None]
    /\ readers = [s \in Sides |-> {}]
    /\ pc = [c \in Conns |-> "new"]
    /\ todo = [c \in Conns |-> {}]
    /\ gone = {}
    /\ overlapped = {}

Goes(c, stage) == pc' = [pc EXCEPT ![c] = stage]

-----------------------------------------------------------------------------
(* sync.RWMutex: one announced writer keeps new readers out and waits for  *)
(* the readers that are in; its Unlock lets in the readers that waited.    *)

Announce(c) ==
    /\ writer[Side(c)] = None
    /\ writer' = [writer EXCEPT ![Side(c)] = c]
    /\ UNCHANGED readers

Exclusive(c) == writer[Side(c)] = c /\ readers[Side(c)] = {}

Waiting(s) == {c \in Conns : pc[c] = "rlock" /\ Other(Side(c)) = s}

Unlock(c) ==
    /\ writer' = [writer EXCEPT ![Side(c)] = None]
    /\ readers' = [readers EXCEPT ![Side(c)] = @ \cup Waiting(Side(c))]

RUnlock(c) ==
    /\ readers' = [readers EXCEPT ![Other(Side(c))] = @ \ {c}]
    /\ UNCHANGED writer

-----------------------------------------------------------------------------
(* The goroutine of connection c.                                          *)

(* The id in the path is no positive number: the connection is refused.    *)
Refuse(c) ==
    /\ pc[c] = "new"
    /\ Goes(c, "closed")
    /\ UNCHANGED <<connections, locks, todo, gone, overlapped>>

Connect(c) ==
    /\ pc[c] = "new"
    /\ Goes(c, "lock")
    /\ UNCHANGED <<connections, locks, todo, gone, overlapped>>

(* Lock(), to register or, in the deferred function, to unregister.        *)
LockMap(c) ==
    /\ pc[c] \in {"lock", "leave"}
    /\ Announce(c)
    /\ Goes(c, IF pc[c] = "lock" THEN "locked" ELSE "leaving")
    /\ UNCHANGED <<connections, todo, gone, overlapped>>

\* Slip: the section ends without Unlock.
RegisterNoUnlock(c) ==
    /\ pc[c] = "locked"
    /\ Exclusive(c)
    /\ connections' = [connections EXCEPT ![Side(c)][Account[c]] = c]
    /\ Goes(c, "read")
    /\ UNCHANGED <<locks, todo, gone, overlapped>>

(* The newest connection of an account replaces an older one.              *)
Register(c) ==
    LET s == Side(c)  i == Account[c] IN
    /\ pc[c] = "locked"
    /\ Exclusive(c)
    /\ connections' = [connections EXCEPT ![s][i] = c]
    /\ overlapped' = IF connections[s][i] = None THEN overlapped
                     ELSE overlapped \cup {<<s, i>>}
    /\ Unlock(c)
    /\ Goes(c, "read")
    /\ UNCHANGED <<todo, gone>>

(* ReadMessage returns a message: RLock the other map, at once or after    *)
(* the announced writer.                                                   *)
ReadMessage(c) ==
    LET s == Other(Side(c)) IN
    /\ pc[c] = "read"
    /\ Goes(c, "rlock")
    /\ readers' = IF writer[s] = None THEN [readers EXCEPT ![s] = @ \cup {c}]
                  ELSE readers
    /\ UNCHANGED <<connections, writer, todo, gone, overlapped>>

(* A user writes to every admin, an admin to the user its payload names.   *)
Registered(s) == {connections[s][i] : i \in Ids} \ {None}

Targets(c) ==
    IF c \in UserConns THEN {Registered("admin")}
    ELSE {{connections["user"][i]} \ {None} : i \in Ids}

(* The section begins; a payload that is no JSON is skipped before it.     *)
BeginSend(c) ==
    /\ pc[c] = "rlock"
    /\ c \in readers[Other(Side(c))]
    /\ \E ds \in Targets(c) : todo' = [todo EXCEPT ![c] = ds]
    /\ Goes(c, "send")
    /\ UNCHANGED <<connections, locks, gone, overlapped>>

\* Slip: a peer that cannot be written to is dropped from the map.
WriteOrDrop(c, d) ==
    /\ pc[c] = "send"
    /\ d \in todo[c]
    /\ todo' = [todo EXCEPT ![c] = @ \ {d}]
    /\ connections' = IF d \in gone
                      THEN [connections EXCEPT ![Side(d)][Account[d]] = None]
                      ELSE connections
    /\ UNCHANGED <<locks, pc, gone, overlapped>>

(* WriteMessage, WriteJSON: an error is ignored.                           *)
Write(c, d) ==
    /\ pc[c] = "send"
    /\ d \in todo[c]
    /\ todo' = [todo EXCEPT ![c] = @ \ {d}]
    /\ UNCHANGED <<connections, locks, pc, gone, overlapped>>

\* Slip: the section ends without RUnlock.
EndSendNoUnlock(c) ==
    /\ pc[c] = "send"
    /\ todo[c] = {}
    /\ Goes(c, "read")
    /\ UNCHANGED <<connections, locks, todo, gone, overlapped>>

EndSend(c) ==
    /\ pc[c] = "send"
    /\ todo[c] = {}
    /\ RUnlock(c)
    /\ Goes(c, "read")
    /\ UNCHANGED <<connections, todo, gone, overlapped>>

(* ReadMessage returns an error: break, and the deferred function runs.    *)
ReadError(c) ==
    /\ pc[c] = "read"
    /\ c \in gone
    /\ Goes(c, "leave")
    /\ UNCHANGED <<connections, locks, todo, gone, overlapped>>

(* Two goroutines write to one connection, and the library panics in one   *)
(* of them.  The panic unwinds to the deferred function, and the wrapper   *)
(* websocket.New recovers it: only the RUnlock after the loop is skipped.  *)
Collide(c) ==
    /\ \E e \in Conns \ {c} : todo[c] \cap todo[e] # {}
    /\ todo' = [todo EXCEPT ![c] = {}]
    /\ Goes(c, "leave")
    /\ UNCHANGED <<connections, locks, gone, overlapped>>

\* Slip: the map is changed while others read it.
UnregisterUnlocked(c) ==
    /\ pc[c] = "leaving"
    /\ connections' = [connections EXCEPT ![Side(c)][Account[c]] = None]
    /\ Unlock(c)
    /\ Goes(c, "closed")
    /\ UNCHANGED <<todo, gone, overlapped>>

(* delete by account, whoever is registered there; then c.Close().         *)
Unregister(c) ==
    /\ pc[c] = "leaving"
    /\ Exclusive(c)
    /\ connections' = [connections EXCEPT ![Side(c)][Account[c]] = None]
    /\ Unlock(c)
    /\ Goes(c, "closed")
    /\ UNCHANGED <<todo, gone, overlapped>>

(* The peer goes away.                                                     *)
Disconnect(c) ==
    /\ pc[c] \notin {"new", "closed"}
    /\ gone' = gone \cup {c}
    /\ UNCHANGED <<connections, locks, pc, todo, overlapped>>

Send(c) == BeginSend(c) \/ (\E d \in Conns : Write(c, d)) \/ EndSend(c)

Step(c) == LockMap(c) \/ Register(c) \/ Send(c) \/ Unregister(c)

Next ==
    \E c \in Conns :
        \/ Refuse(c) \/ Connect(c) \/ ReadMessage(c) \/ ReadError(c)
        \/ Disconnect(c) \/ Collide(c) \/ Step(c)

Spec == Init /\ [][Next]_vars

(* Runnable goroutines run; a peer that is gone has left a finite number   *)
(* of messages to read before the error.                                   *)
FairSpec ==
    /\ Spec
    /\ \A c \in Conns : WF_vars(Step(c)) /\ SF_vars(ReadError(c))

-----------------------------------------------------------------------------

Live   == {"read", "rlock", "send", "leave", "leaving"}
Online == {"read", "rlock", "send"}

(* Whatever the order of reconnections, the maps hold no connection that   *)
(* is closed: the library takes a closed connection back and reuses it.    *)
NoDanglingConn ==
    \A s \in Sides, i \in Ids :
        connections[s][i] # None => pc[connections[s][i]] \in Live

(* A goroutine writes only to connections that are not closed, and they    *)
(* stay open until it has written to all of them.                          *)
WritesToLive ==
    \A c \in Conns, d \in Conns : d \in todo[c] => pc[d] \in Live

(* A map does not change while another goroutine iterates over it: the Go  *)
(* runtime stops the program.                                              *)
MapStillWhileRead ==
    [][\A s \in Sides : connections'[s] # connections[s] =>
           \A c \in Conns : Side(c) = Other(s) => pc[c] # "send"]_vars

(* An account with one connection at a time is found by the other side as  *)
(* long as it is connected.                                                *)
OnlineIsRegistered ==
    \A c \in Conns :
        pc[c] \in Online /\ <<Side(c), Account[c]>> \notin overlapped
            => connections[Side(c)][Account[c]] = c

(* A goroutine that panicked left its RLock behind.                        *)
Leaked(s) == \E c \in readers[s] : pc[c] \in {"leave", "leaving", "closed"}

(* For a mutex: to lock it, for its readers, for its writer.               *)
WaitsFor(c, s) ==
    \/ s = Side(c) /\ pc[c] \in {"lock", "leave"} /\ writer[s] # None
    \/ s = Side(c) /\ pc[c] \in {"locked", "leaving"} /\ ~Exclusive(c)
    \/ s = Other(Side(c)) /\ pc[c] = "rlock" /\ c \notin readers[s]

(* A goroutine that waits for a mutex waits for one that has it, or is     *)
(* next, and waits for nothing itself: the two mutexes, and the readers    *)
(* and writers of each, never wait for each other.  The exception is a     *)
(* mutex whose RLock a panic has left behind.                              *)
SomeoneProceeds ==
    \A s \in Sides :
        ~Leaked(s) /\ (\E c \in Conns : WaitsFor(c, s)) =>
            \E d \in Conns :
                /\ d = writer[s] \/ d \in readers[s]
                /\ \A t \in Sides : ~WaitsFor(d, t)

(* No deadline is set for a write: it returns if the peer reads or goes.   *)
WritesReturn == \A c, d \in Conns : []<>(d \notin todo[c])

(* A connection whose peer is gone is unregistered and closed in the end,  *)
(* if writes return, unless a panic has left an RLock behind.              *)
GoneIsClosed ==
    WritesReturn =>
        \A c \in Conns :
            c \in gone ~> pc[c] = "closed" \/ \E s \in Sides : Leaked(s)

(* HandleUserWebsocket "sends message to all admins if asked to": if       *)
(* writes return, a message that was read gets to be written.              *)
MessagesGetThrough ==
    WritesReturn => \A c \in UserConns : pc[c] = "rlock" ~> pc[c] # "rlock"

=============================================================================
