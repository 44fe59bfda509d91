---------------------------- MODULE ChatHubProofs ----------------------------
(***************************************************************************)
(* Theorems about ChatHub, for any connections and any accounts, and about *)
(* MailJobs, for any requests, tasks and retries.  The two share nothing.  *)
(***************************************************************************)
EXTENDS ChatHub, MailJobs, TLAPS

(* The announced writer of a mutex is in its exclusive section, or next.   *)
WriterInv ==
    \A c \in Conns : pc[c] \in {"locked", "leaving"} <=> writer[Side(c)] = c

(* A mutex is read-locked by the other side, and kept while sending; a     *)
(* panic takes the lock along to the end of the goroutine.                 *)
ReaderInv ==
    \A c \in Conns :
        /\ \A s \in Sides : c \in readers[s] =>
               s = Other(Side(c))
               /\ pc[c] \in {"rlock", "send", "leave", "leaving", "closed"}
        /\ pc[c] = "send" => c \in readers[Other(Side(c))]

(* Only a goroutine that holds RLock has writes to do.                     *)
TodoInv ==
    \A c, d \in Conns : d \in todo[c] =>
        /\ pc[c] = "send"
        /\ Side(d) = Other(Side(c))
        /\ pc[d] \in Live

(* OnlineIsRegistered, up to the end of the goroutine.                     *)
LiveIsRegistered ==
    \A c \in Conns :
        pc[c] \in Live /\ <<Side(c), Account[c]>> \notin overlapped
            => connections[Side(c)][Account[c]] = c

IInv == /\ TypeOK /\ WriterInv /\ ReaderInv /\ TodoInv
        /\ NoDanglingConn /\ LiveIsRegistered

-----------------------------------------------------------------------------
(* The two sides.                                                          *)

LEMMA SideFacts ==
  /\ \A c : Side(c) \in Sides
  /\ \A s \in Sides : Other(s) \in Sides /\ Other(s) # s /\ Other(Other(s)) = s
BY DEF Side, Other, Sides

LEMMA SideOfUsers ==
  /\ \A c \in UserConns : Side(c) = "user"
  /\ \A c \in AdminConns : Side(c) = "admin"
BY ConnsAssumption DEF Side

(* What a goroutine may write to is registered on the other side.          *)
LEMMA TargetsAreRegistered ==
  ASSUME TypeOK, NEW c \in Conns, NEW ds \in Targets(c), NEW d \in ds
  PROVE  /\ d \in Conns
         /\ Side(d) = Other(Side(c))
         /\ connections[Other(Side(c))][Account[d]] = d
<1>1. CASE c \in UserConns
  <2>1. Other(Side(c)) = "admin" /\ ds = Registered("admin")
    BY <1>1, SideOfUsers DEF Targets, Other
  <2>2. PICK i \in Ids : d = connections["admin"][i] /\ d # None
    BY <2>1 DEF Registered
  <2>q. QED BY <2>1, <2>2, SideFacts DEF TypeOK, Sides
<1>2. CASE c \in AdminConns /\ c \notin UserConns
  <2>1. Other(Side(c)) = "user"
    BY <1>2, SideOfUsers DEF Other
  <2>2. PICK i \in Ids : d = connections["user"][i] /\ d # None
    BY <1>2 DEF Targets
  <2>q. QED BY <2>1, <2>2, SideFacts DEF TypeOK, Sides
<1>q. QED BY <1>1, <1>2 DEF Conns

-----------------------------------------------------------------------------
(* Type correctness.                                                       *)

(* Every variable keeps its type; in particular a connection is only ever  *)
(* registered on its own side, under its own account.                      *)
THEOREM TypeCorrect == Spec => []TypeOK
<1>1. Init => TypeOK
  BY DEF Init, TypeOK, Stages
<1>2. TypeOK /\ [Next]_vars => TypeOK'
  <2> SUFFICES ASSUME TypeOK, [Next]_vars PROVE TypeOK'
    OBVIOUS
  <2> USE DEF TypeOK, locks, Goes, Stages
  <2>1. ASSUME NEW c \in Conns, Refuse(c) PROVE TypeOK'
    BY <2>1 DEF Refuse
  <2>2. ASSUME NEW c \in Conns, Connect(c) PROVE TypeOK'
    BY <2>2 DEF Connect
  <2>3. ASSUME NEW c \in Conns, LockMap(c) PROVE TypeOK'
    BY <2>3 DEF LockMap, Announce
  <2>4. ASSUME NEW c \in Conns, Unlock(c)
        PROVE  /\ writer' \in [Sides -> Conns \cup {None}]
               /\ readers' \in [Sides -> SUBSET Conns]
    BY <2>4 DEF Unlock, Waiting
  <2>5. ASSUME NEW c \in Conns, Register(c) PROVE TypeOK'
    <3>1. Side(c) \in Sides /\ Account[c] \in Ids
      BY SideFacts, ConnsAssumption
    <3>2. /\ connections' \in [Sides -> [Ids -> Conns \cup {None}]]
          /\ overlapped' \in SUBSET (Sides \X Ids)
      BY <2>5, <3>1 DEF Register
    <3>3. ASSUME NEW s \in Sides, NEW i \in Ids, connections'[s][i] # None
          PROVE  Side(connections'[s][i]) = s /\ Account[connections'[s][i]] = i
      BY <2>5, <3>1, <3>3 DEF Register
    <3>q. QED BY <2>4, <2>5, <3>2, <3>3 DEF Register
  <2>6. ASSUME NEW c \in Conns, ReadMessage(c) PROVE TypeOK'
    BY <2>6, SideFacts DEF ReadMessage
  <2>7. ASSUME NEW c \in Conns, BeginSend(c) PROVE TypeOK'
    <3>1. PICK ds \in Targets(c) : todo' = [todo EXCEPT ![c] = ds]
      BY <2>7 DEF BeginSend
    <3>2. ds \subseteq Conns
      BY TargetsAreRegistered
    <3>q. QED BY <2>7, <3>1, <3>2 DEF BeginSend
  <2>8. ASSUME NEW c \in Conns, NEW d \in Conns, Write(c, d) PROVE TypeOK'
    BY <2>8 DEF Write
  <2>9. ASSUME NEW c \in Conns, EndSend(c) PROVE TypeOK'
    BY <2>9 DEF EndSend, RUnlock
  <2>10. ASSUME NEW c \in Conns, ReadError(c) PROVE TypeOK'
    BY <2>10 DEF ReadError
  <2>11. ASSUME NEW c \in Conns, Unregister(c) PROVE TypeOK'
    <3>1. connections' \in [Sides -> [Ids -> Conns \cup {None}]]
      BY <2>11 DEF Unregister
    <3>2. ASSUME NEW s \in Sides, NEW i \in Ids, connections'[s][i] # None
          PROVE  connections'[s][i] = connections[s][i]
      BY <2>11, <3>2 DEF Unregister
    <3>q. QED BY <2>4, <2>11, <3>1, <3>2 DEF Unregister
  <2>12. ASSUME NEW c \in Conns, Disconnect(c) PROVE TypeOK'
    BY <2>12 DEF Disconnect
  <2>13. ASSUME NEW c \in Conns, Collide(c) PROVE TypeOK'
    BY <2>13 DEF Collide
  <2>14. CASE UNCHANGED vars
    BY <2>14 DEF vars
  <2>q. QED
    BY <2>1, <2>2, <2>3, <2>5, <2>6, <2>7, <2>8, <2>9, <2>10, <2>11, <2>12,
       <2>13, <2>14 DEF Next, Step, Send
<1>q. QED BY <1>1, <1>2, PTL DEF Spec

-----------------------------------------------------------------------------
(* The inductive invariant.                                                *)

(* While a goroutine writes to d, nobody is in the exclusive section of    *)
(* the map that d is registered in.                                        *)
LEMMA WritersKeepOut ==
  ASSUME IInv, NEW c \in Conns, Exclusive(c)
  PROVE  /\ \A e \in Conns : c \notin todo[e]
         /\ \A e \in Conns : Side(c) = Other(Side(e)) => pc[e] # "send"
<1>1. ASSUME NEW e \in Conns, Side(c) = Other(Side(e)) PROVE pc[e] # "send"
  BY <1>1 DEF IInv, ReaderInv, Exclusive
<1>q. QED BY <1>1 DEF IInv, TodoInv

(* Unlock lets in only goroutines of the other side that waited.           *)
LEMMA UnlockKeepsReaders ==
  ASSUME IInv, NEW c \in Conns, Unlock(c), NEW stage,
         Goes(c, stage),
         \/ pc[c] = "locked" /\ stage = "read"
         \/ pc[c] = "leaving" /\ stage = "closed"
  PROVE  ReaderInv' /\ WriterInv'
<1> USE DEF IInv, TypeOK
<1>1. readers' = [readers EXCEPT ![Side(c)] = @ \cup Waiting(Side(c))]
  BY DEF Unlock
<1>2. ReaderInv'
  <2>1. ASSUME NEW e \in Conns, NEW s \in Sides, e \in readers'[s]
        PROVE  s = Other(Side(e))
               /\ pc'[e] \in {"rlock", "send", "leave", "leaving", "closed"}
    <3>1. CASE e \in readers[s]
      BY <3>1 DEF ReaderInv, Goes
    <3>2. CASE s = Side(c) /\ e \in Waiting(Side(c))
      BY <3>2 DEF Waiting, Goes
    <3>q. QED BY <1>1, <2>1, <3>1, <3>2, SideFacts
  <2>2. ASSUME NEW e \in Conns, pc'[e] = "send"
        PROVE  e \in readers'[Other(Side(e))]
    <3>1. pc[e] = "send"
      BY <2>2 DEF Goes
    <3>q. QED BY <1>1, <3>1, SideFacts DEF ReaderInv
  <2>q. QED BY <2>1, <2>2 DEF ReaderInv
<1>3. WriterInv'
  BY SideFacts, ConnsAssumption DEF Unlock, Goes, WriterInv
<1>q. QED BY <1>2, <1>3

LEMMA RegisterKeepsIInv ==
  ASSUME IInv, TypeOK', NEW c \in Conns, Register(c) PROVE IInv'
<1> USE DEF IInv, TypeOK
<1>1. Side(c) \in Sides /\ Account[c] \in Ids
  BY SideFacts, ConnsAssumption
<1>2. ReaderInv' /\ WriterInv'
  BY UnlockKeepsReaders DEF Register
<1>3. TodoInv'
  BY DEF Register, Goes, TodoInv, Live
<1>4. NoDanglingConn'
  BY <1>1 DEF Register, Goes, NoDanglingConn, Live
<1>5. LiveIsRegistered'
  <2>1. SUFFICES ASSUME NEW d \in Conns, d # c, pc[d] \in Live,
                        <<Side(d), Account[d]>> \notin overlapped'
                 PROVE  connections'[Side(d)][Account[d]] = d
    BY <1>1 DEF Register, Goes, LiveIsRegistered
  <2>2. connections[Side(d)][Account[d]] = d
    BY <2>1 DEF Register, LiveIsRegistered
  <2>3. d # None /\ Side(d) \in Sides /\ Account[d] \in Ids
    BY SideFacts, ConnsAssumption
  <2>4. Side(d) # Side(c) \/ Account[d] # Account[c]
    BY <2>1, <2>2, <2>3 DEF Register
  <2>q. QED BY <1>1, <2>2, <2>3, <2>4 DEF Register
<1>q. QED BY <1>2, <1>3, <1>4, <1>5

LEMMA UnregisterKeepsIInv ==
  ASSUME IInv, TypeOK', NEW c \in Conns, Unregister(c) PROVE IInv'
<1> USE DEF IInv, TypeOK
<1>1. Side(c) \in Sides /\ Account[c] \in Ids
  BY SideFacts, ConnsAssumption
<1>2. ReaderInv' /\ WriterInv'
  BY UnlockKeepsReaders DEF Unregister
<1>3. \A e \in Conns : c \notin todo[e]
  BY WritersKeepOut DEF Unregister
<1>4. TodoInv'
  BY <1>3 DEF Unregister, Goes, TodoInv
<1>5. NoDanglingConn'
  <2>1. ASSUME NEW s \in Sides, NEW i \in Ids, connections'[s][i] # None
        PROVE  connections'[s][i] = connections[s][i] /\ connections[s][i] # c
    BY <1>1, <2>1 DEF Unregister
  <2>q. QED BY <2>1 DEF Unregister, Goes, NoDanglingConn
<1>6. LiveIsRegistered'
  <2>1. SUFFICES ASSUME NEW d \in Conns, d # c, pc[d] \in Live,
                        <<Side(d), Account[d]>> \notin overlapped
                 PROVE  connections'[Side(d)][Account[d]] = d
    BY DEF Unregister, Goes, LiveIsRegistered, Live
  <2>2. connections[Side(d)][Account[d]] = d
    BY <2>1 DEF LiveIsRegistered
  <2>3. Side(d) \in Sides /\ Account[d] \in Ids
    BY SideFacts, ConnsAssumption
  <2>4. Side(d) # Side(c) \/ Account[d] # Account[c]
    <3>1. SUFFICES ASSUME Side(d) = Side(c), Account[d] = Account[c] PROVE FALSE
      OBVIOUS
    <3>2. connections[Side(c)][Account[c]] = c
      BY <2>1, <3>1 DEF Unregister, LiveIsRegistered, Live
    <3>q. QED BY <2>1, <2>2, <3>1, <3>2
  <2>q. QED BY <1>1, <2>2, <2>3, <2>4 DEF Unregister
<1>q. QED BY <1>2, <1>4, <1>5, <1>6

LEMMA BeginSendKeepsIInv ==
  ASSUME IInv, TypeOK', NEW c \in Conns, BeginSend(c) PROVE IInv'
<1> USE DEF IInv, TypeOK, locks
<1>1. ReaderInv' /\ WriterInv'
  BY SideFacts DEF BeginSend, Goes, ReaderInv, WriterInv
<1>2. PICK ds \in Targets(c) : todo' = [todo EXCEPT ![c] = ds]
  BY DEF BeginSend
<1>3. \A d \in ds : Side(d) = Other(Side(c)) /\ pc[d] \in Live
  <2>1. SUFFICES ASSUME NEW d \in ds
                 PROVE  Side(d) = Other(Side(c)) /\ pc[d] \in Live
    OBVIOUS
  <2>2. /\ d \in Conns
        /\ Side(d) = Other(Side(c))
        /\ connections[Other(Side(c))][Account[d]] = d
    BY <2>1, TargetsAreRegistered
  <2>q. QED BY <2>2, SideFacts, ConnsAssumption DEF NoDanglingConn
<1>4. TodoInv'
  BY <1>2, <1>3 DEF BeginSend, Goes, TodoInv, Live
<1>5. NoDanglingConn' /\ LiveIsRegistered'
  BY DEF BeginSend, Goes, NoDanglingConn, LiveIsRegistered, Live
<1>q. QED BY <1>1, <1>4, <1>5

LEMMA StepKeepsIInv ==
  ASSUME IInv, TypeOK', NEW c \in Conns,
         \/ Refuse(c) \/ Connect(c) \/ ReadMessage(c) \/ ReadError(c)
         \/ Disconnect(c) \/ Collide(c) \/ Step(c)
  PROVE  IInv'
<1> USE DEF IInv, TypeOK, locks
<1>1. CASE Refuse(c)
  <2>1. ReaderInv' /\ WriterInv' /\ TodoInv'
    BY <1>1 DEF Refuse, Goes, ReaderInv, WriterInv, TodoInv, Live
  <2>2. NoDanglingConn' /\ LiveIsRegistered'
    BY <1>1 DEF Refuse, Goes, NoDanglingConn, LiveIsRegistered, Live
  <2>q. QED BY <2>1, <2>2
<1>2. CASE Connect(c)
  <2>1. ReaderInv' /\ WriterInv' /\ TodoInv'
    BY <1>2 DEF Connect, Goes, ReaderInv, WriterInv, TodoInv, Live
  <2>2. NoDanglingConn' /\ LiveIsRegistered'
    BY <1>2 DEF Connect, Goes, NoDanglingConn, LiveIsRegistered, Live
  <2>q. QED BY <2>1, <2>2
<1>3. CASE LockMap(c)
  <2>1. WriterInv'
    BY <1>3, SideFacts, ConnsAssumption DEF LockMap, Announce, Goes, WriterInv
  <2>2. ReaderInv' /\ TodoInv'
    BY <1>3 DEF LockMap, Announce, Goes, ReaderInv, TodoInv, Live
  <2>3. NoDanglingConn' /\ LiveIsRegistered'
    BY <1>3 DEF LockMap, Goes, NoDanglingConn, LiveIsRegistered, Live
  <2>q. QED BY <2>1, <2>2, <2>3
<1>4. CASE Register(c)
  BY <1>4, RegisterKeepsIInv
<1>5. CASE ReadMessage(c)
  <2>1. ReaderInv'
    BY <1>5, SideFacts DEF ReadMessage, Goes, ReaderInv
  <2>2. WriterInv' /\ TodoInv'
    BY <1>5 DEF ReadMessage, Goes, WriterInv, TodoInv, Live
  <2>3. NoDanglingConn' /\ LiveIsRegistered'
    BY <1>5 DEF ReadMessage, Goes, NoDanglingConn, LiveIsRegistered, Live
  <2>q. QED BY <2>1, <2>2, <2>3
<1>6. CASE BeginSend(c)
  BY <1>6, BeginSendKeepsIInv
<1>7. ASSUME NEW d \in Conns, Write(c, d) PROVE IInv'
  BY <1>7 DEF Write, ReaderInv, WriterInv, TodoInv, NoDanglingConn,
              LiveIsRegistered
<1>8. CASE EndSend(c)
  <2>1. ReaderInv'
    BY <1>8, SideFacts DEF EndSend, RUnlock, Goes, ReaderInv
  <2>2. WriterInv' /\ TodoInv'
    BY <1>8 DEF EndSend, RUnlock, Goes, WriterInv, TodoInv, Live
  <2>3. NoDanglingConn' /\ LiveIsRegistered'
    BY <1>8 DEF EndSend, Goes, NoDanglingConn, LiveIsRegistered, Live
  <2>q. QED BY <2>1, <2>2, <2>3
<1>9. CASE ReadError(c)
  <2>1. ReaderInv' /\ WriterInv' /\ TodoInv'
    BY <1>9 DEF ReadError, Goes, ReaderInv, WriterInv, TodoInv, Live
  <2>2. NoDanglingConn' /\ LiveIsRegistered'
    BY <1>9 DEF ReadError, Goes, NoDanglingConn, LiveIsRegistered, Live
  <2>q. QED BY <2>1, <2>2
<1>10. CASE Unregister(c)
  BY <1>10, UnregisterKeepsIInv
<1>11. CASE Disconnect(c)
  BY <1>11 DEF Disconnect, ReaderInv, WriterInv, TodoInv, NoDanglingConn,
               LiveIsRegistered
<1>12. CASE Collide(c)
  <2>1. pc[c] = "send"
    BY <1>12 DEF Collide, TodoInv
  <2>2. ReaderInv' /\ WriterInv' /\ TodoInv'
    BY <1>12, <2>1 DEF Collide, Goes, ReaderInv, WriterInv, TodoInv, Live
  <2>3. NoDanglingConn' /\ LiveIsRegistered'
    BY <1>12, <2>1 DEF Collide, Goes, NoDanglingConn, LiveIsRegistered, Live
  <2>q. QED BY <2>2, <2>3
<1>q. QED BY <1>1, <1>2, <1>3, <1>4, <1>5, <1>6, <1>7, <1>8, <1>9, <1>10,
             <1>11, <1>12 DEF Step, Send

LEMMA Inductive == Spec => []IInv
<1>1. Init /\ TypeOK => IInv
  BY SideFacts, ConnsAssumption
     DEF Init, IInv, ReaderInv, WriterInv, TodoInv, NoDanglingConn,
         LiveIsRegistered, Live
<1>2. IInv /\ TypeOK' /\ [Next]_vars => IInv'
  <2> SUFFICES ASSUME IInv, TypeOK', [Next]_vars PROVE IInv'
    OBVIOUS
  <2>1. CASE UNCHANGED vars
    BY <2>1 DEF vars, IInv, TypeOK, ReaderInv, WriterInv, TodoInv,
                NoDanglingConn, LiveIsRegistered
  <2>q. QED BY <2>1, StepKeepsIInv DEF Next
<1>q. QED BY <1>1, <1>2, TypeCorrect, PTL DEF Spec

-----------------------------------------------------------------------------
(* What follows from it.                                                   *)

(* A registered connection is not closed (chatMessage.go:36-44, 78-86).    *)
THEOREM NoDanglingConns == Spec => []NoDanglingConn
<1>1. IInv => NoDanglingConn
  BY DEF IInv
<1>q. QED BY <1>1, Inductive, PTL

(* A connection is not closed while another goroutine has it to write to   *)
(* (chatMessage.go:56-61, 104-112).                                        *)
THEOREM WritesGoToLive == Spec => []WritesToLive
<1>1. IInv => WritesToLive
  BY DEF IInv, TodoInv, WritesToLive
<1>q. QED BY <1>1, Inductive, PTL

(* An account that never had two connections at once is found as long as   *)
(* it is connected.                                                        *)
THEOREM OnlineAreRegistered == Spec => []OnlineIsRegistered
<1>1. IInv => OnlineIsRegistered
  BY DEF IInv, LiveIsRegistered, OnlineIsRegistered, Online, Live
<1>q. QED BY <1>1, Inductive, PTL

(* The maps change only in exclusive sections, which no iteration          *)
(* overlaps.                                                               *)
THEOREM MapsStillWhileRead == Spec => MapStillWhileRead
<1> DEFINE Still == \A s \in Sides : connections'[s] # connections[s] =>
                      \A c \in Conns : Side(c) = Other(s) => pc[c] # "send"
<1>1. IInv /\ [Next]_vars => [Still]_vars
  <2> SUFFICES ASSUME IInv, Next PROVE Still
    OBVIOUS
  <2>1. ASSUME NEW c \in Conns, Register(c) \/ Unregister(c) PROVE Still
    <3>1. \A e \in Conns : Side(c) = Other(Side(e)) => pc[e] # "send"
      BY <2>1, WritersKeepOut DEF Register, Unregister
    <3>2. \A s \in Sides : s # Side(c) => connections'[s] = connections[s]
      BY <2>1 DEF Register, Unregister, IInv, TypeOK
    <3>q. QED BY <3>1, <3>2, SideFacts
  <2>2. CASE UNCHANGED connections
    BY <2>2
  <2>q. QED
    BY <2>1, <2>2 DEF Next, Collide, Step, Send, Refuse, Connect, ReadMessage, ReadError,
                      Disconnect, LockMap, BeginSend, Write, EndSend
<1>q. QED BY <1>1, Inductive, PTL DEF Spec, MapStillWhileRead

-----------------------------------------------------------------------------
(* Deadlock.                                                               *)

(* A goroutine waits for RLock only behind a writer, for Unlock lets in    *)
(* all that wait; and writers are of the mutex' own side.                  *)
WaiterInv ==
    /\ \A c \in Conns :
           pc[c] = "rlock" /\ c \notin readers[Other(Side(c))]
               => writer[Other(Side(c))] # None
    /\ \A s \in Sides : writer[s] # None => Side(writer[s]) = s

LEMMA StepKeepsWaiters ==
  ASSUME IInv, WaiterInv, NEW c \in Conns,
         \/ Refuse(c) \/ Connect(c) \/ ReadMessage(c) \/ ReadError(c)
         \/ Disconnect(c) \/ Collide(c) \/ Step(c)
  PROVE  WaiterInv'
<1> USE DEF IInv, TypeOK, locks
<1>w. \A s \in Sides : writer'[s] # None => Side(writer'[s]) = s
  <2>1. \/ writer' = writer
        \/ writer' = [writer EXCEPT ![Side(c)] = c]
        \/ writer' = [writer EXCEPT ![Side(c)] = None]
    BY DEF Step, Send, Collide, Refuse, Connect, ReadMessage, ReadError, Disconnect, LockMap, Announce,
           Register, Unregister, Unlock, BeginSend, Write, EndSend, RUnlock
  <2>q. QED BY <2>1 DEF WaiterInv
<1> SUFFICES ASSUME NEW e \in Conns, pc'[e] = "rlock", e \notin readers'[Other(Side(e))]
             PROVE  writer'[Other(Side(e))] # None
  BY <1>w DEF WaiterInv
<1>0. Side(c) \in Sides /\ Other(Side(e)) \in Sides
  BY SideFacts
<1>1. CASE ReadMessage(c)
  <2>1. CASE e = c
    BY <1>0, <1>1, <2>1, SideFacts DEF ReadMessage
  <2>2. CASE e # c
    BY <1>0, <1>1, <2>2, SideFacts DEF ReadMessage, Goes, WaiterInv
  <2>q. QED BY <2>1, <2>2
<1>2. CASE LockMap(c)
  <2>1. c # None /\ pc[e] = "rlock" /\ readers' = readers
    BY <1>2, ConnsAssumption DEF LockMap, Announce, Goes
  <2>2. writer' = [writer EXCEPT ![Side(c)] = c]
    BY <1>2 DEF LockMap, Announce
  <2>q. QED BY <1>0, <2>1, <2>2 DEF WaiterInv
<1>3. CASE Register(c) \/ Unregister(c)
  <2>1. PICK stage \in {"read", "closed"} : Unlock(c) /\ Goes(c, stage)
    BY <1>3 DEF Register, Unregister
  <2>2. pc[e] = "rlock"
    BY <2>1 DEF Goes
  <2>3. CASE Other(Side(e)) = Side(c)
    BY <1>0, <2>1, <2>2, <2>3 DEF Unlock, Waiting
  <2>4. CASE Other(Side(e)) # Side(c)
    BY <1>0, <2>1, <2>2, <2>4 DEF Unlock, WaiterInv
  <2>q. QED BY <2>3, <2>4
<1>4. CASE EndSend(c)
  <2>1. e # c /\ pc[e] = "rlock" /\ writer' = writer
    BY <1>4 DEF EndSend, RUnlock, Goes
  <2>2. e \notin readers[Other(Side(e))]
    BY <1>0, <1>4, <2>1 DEF EndSend, RUnlock
  <2>q. QED BY <2>1, <2>2 DEF WaiterInv
<1>5. CASE \/ Refuse(c) \/ Connect(c) \/ ReadError(c) \/ Disconnect(c) \/ BeginSend(c)
           \/ Collide(c) \/ \E d \in Conns : Write(c, d)
  <2>1. writer' = writer /\ readers' = readers
    BY <1>5 DEF Collide, Refuse, Connect, ReadError, Disconnect, BeginSend, Write
  <2>2. pc[e] = "rlock"
    BY <1>5 DEF Collide, Refuse, Connect, ReadError, Disconnect, BeginSend, Write, Goes
  <2>q. QED BY <2>1, <2>2 DEF WaiterInv
<1>q. QED BY <1>1, <1>2, <1>3, <1>4, <1>5 DEF Step, Send

LEMMA WaitersHold == Spec => []WaiterInv
<1>1. Init => WaiterInv
  BY DEF Init, WaiterInv
<1>2. IInv /\ WaiterInv /\ [Next]_vars => WaiterInv'
  <2> SUFFICES ASSUME IInv, WaiterInv, [Next]_vars PROVE WaiterInv'
    OBVIOUS
  <2>1. CASE UNCHANGED vars
    BY <2>1 DEF vars, WaiterInv
  <2>q. QED BY <2>1, StepKeepsWaiters DEF Next
<1>q. QED BY <1>1, <1>2, Inductive, PTL DEF Spec

(* Who holds a mutex, and did not panic, waits for neither.                *)
LEMMA ReaderProceeds ==
  ASSUME IInv, NEW s \in Sides, ~Leaked(s), NEW d \in readers[s]
  PROVE  d \in Conns /\ \A t \in Sides : ~WaitsFor(d, t)
<1>1. d \in Conns
  BY DEF IInv, TypeOK
<1>2. s = Other(Side(d)) /\ pc[d] \in {"rlock", "send"}
  BY <1>1 DEF IInv, ReaderInv, Leaked
<1>q. QED BY <1>1, <1>2 DEF WaitsFor

(* Nor does who is next, once the readers are out.                         *)
LEMMA WriterProceeds ==
  ASSUME IInv, WaiterInv, NEW s \in Sides, writer[s] # None, readers[s] = {}
  PROVE  writer[s] \in Conns /\ \A t \in Sides : ~WaitsFor(writer[s], t)
<1>1. writer[s] \in Conns
  BY DEF IInv, TypeOK
<1>2. Side(writer[s]) = s /\ pc[writer[s]] \in {"locked", "leaving"}
  BY <1>1 DEF IInv, WriterInv, WaiterInv
<1>q. QED BY <1>1, <1>2 DEF WaitsFor, Exclusive

(* For any number of connections on both sides: whoever waits for a mutex  *)
(* that no panic has left read-locked (chatMessage.go:56-61, 104-112) is   *)
(* behind a goroutine that waits for nothing.  Across the two mutexes too: *)
(* what GoneIsClosed needs of the locks.                                   *)
THEOREM NoDeadlock == Spec => []SomeoneProceeds
<1>1. IInv /\ WaiterInv => SomeoneProceeds
  <2> SUFFICES ASSUME IInv, WaiterInv, NEW s \in Sides, ~Leaked(s),
                      NEW c \in Conns, WaitsFor(c, s)
               PROVE  \E d \in Conns : /\ d = writer[s] \/ d \in readers[s]
                                       /\ \A t \in Sides : ~WaitsFor(d, t)
    BY DEF SomeoneProceeds
  <2>1. writer[s] # None
    <3>1. CASE s = Side(c) /\ pc[c] \in {"locked", "leaving"}
      BY <3>1, ConnsAssumption DEF IInv, WriterInv
    <3>2. CASE s = Other(Side(c)) /\ pc[c] = "rlock" /\ c \notin readers[s]
      BY <3>2 DEF WaiterInv
    <3>q. QED BY <3>1, <3>2 DEF WaitsFor
  <2>2. CASE readers[s] = {}
    BY <2>1, <2>2, WriterProceeds
  <2>3. CASE readers[s] # {}
    BY <2>3, ReaderProceeds
  <2>q. QED BY <2>2, <2>3
<1>q. QED BY <1>1, Inductive, WaitersHold, PTL

-----------------------------------------------------------------------------
(* Mails.                                                                  *)

(* A request in flight has a task of its own, which nobody else has seen.  *)
RequestInv ==
    /\ \A r \in Requests : at[r] # "idle" =>
        /\ on[r] \in 1..(nextTask - 1) /\ task[on[r]] = "none"
        /\ at[r] = "enqueue" => token[on[r]] # "none"
        /\ \A q \in Requests \ {r} : at[q] # "idle" => on[q] # on[r]
    /\ \A t \in Tasks : t >= nextTask => task[t] = "none"

(* A task that is queued was told a token, and none that was promised is   *)
(* forgotten.                                                              *)
QueueInv ==
    \A t \in Tasks :
        /\ task[t] # "none" => token[t] # "none"
        /\ t \in promised => task[t] # "none"
        /\ task[t] = "none" => mails[t] = 0

MailInv ==
    /\ MailTypeOK /\ RequestInv /\ QueueInv
    /\ TwiceOnlyIfLost /\ OneMailPerTry

LEMMA InitMailInv == MailInit => MailInv
BY MailBounds DEF MailInit, MailInv, MailTypeOK, RequestInv, QueueInv, TwiceOnlyIfLost,
                  OneMailPerTry, Tasks

-----------------------------------------------------------------------------

LEMMA RequestKeepsMailInv ==
  ASSUME MailInv, NEW r \in Requests, Request(r)
  PROVE  MailInv'
<1> USE MailBounds DEF Tasks, requests, queue, worker, post
<1>0. MailTypeOK /\ RequestInv /\ QueueInv /\ TwiceOnlyIfLost /\ OneMailPerTry
  BY DEF MailInv
<1>1. CASE HandleForgotPassword(r) \/ HandleContact(r)
  <2>1. PICK stage \in {"set", "enqueue"} :
          /\ Begin(r, stage)
          /\ token' \in [Tasks -> {"none", "live", "gone", "unstored", "contact"}]
          /\ \A t \in Tasks : token[t] # "none" => token'[t] # "none"
          /\ stage = "enqueue" => token'[nextTask] # "none"
    BY <1>0, <1>1 DEF HandleForgotPassword, HandleContact, FirstStep, Begin, MailTypeOK
  <2>2. UNCHANGED <<task, retried, up, running, mails, lost, promised>>
    BY <1>1 DEF HandleForgotPassword, HandleContact
  <2>3. nextTask \in Tasks /\ nextTask' = nextTask + 1 /\ at[r] = "idle"
        /\ at' = [at EXCEPT ![r] = stage] /\ on' = [on EXCEPT ![r] = nextTask]
    BY <2>1 DEF Begin
  <2>4. MailTypeOK'
    BY <1>0, <2>1, <2>2, <2>3 DEF MailTypeOK
  <2>5. RequestInv'
    <3>1. /\ at'[r] = stage /\ on'[r] = nextTask
          /\ \A q \in Requests \ {r} : at'[q] = at[q] /\ on'[q] = on[q]
          /\ nextTask \in Nat
      BY <1>0, <2>3 DEF MailTypeOK
    <3>2. task[nextTask] = "none"
      BY <1>0, <2>3, <3>1 DEF RequestInv
    <3>3. \A q \in Requests : at[q] # "idle" => on[q] \in 1..(nextTask - 1) /\ task[on[q]] = "none"
      BY <1>0 DEF RequestInv
    <3>4. \A q \in Requests : at'[q] # "idle" => on'[q] \in 1..(nextTask' - 1) /\ task'[on'[q]] = "none"
      BY <2>2, <2>3, <3>1, <3>2, <3>3
    <3>5. ASSUME NEW q \in Requests, at'[q] = "enqueue" PROVE token'[on'[q]] # "none"
      <4>1. CASE q = r
        BY <2>1, <3>1, <3>5, <4>1
      <4>2. CASE q # r
        <5>1. token[on[q]] # "none" /\ on[q] \in 1..(nextTask - 1)
          BY <1>0, <3>1, <3>5, <4>2 DEF RequestInv
        <5>2. on[q] \in Tasks
          BY <2>3, <5>1, <3>1
        <5>q. QED BY <2>1, <3>1, <4>2, <5>1, <5>2
      <4>q. QED BY <4>1, <4>2
    <3>6. ASSUME NEW q \in Requests, NEW p \in Requests \ {q}, at'[q] # "idle", at'[p] # "idle"
          PROVE  on'[p] # on'[q]
      <4>1. CASE q # r /\ p # r
        <5>1. at[q] # "idle" /\ at[p] # "idle" /\ on'[p] = on[p] /\ on'[q] = on[q]
          BY <3>1, <3>6, <4>1
        <5>q. QED BY <1>0, <5>1 DEF RequestInv
      <4>2. CASE q = r
        BY <3>1, <3>3, <3>6, <4>2
      <4>3. CASE p = r
        BY <3>1, <3>3, <3>6, <4>3
      <4>q. QED BY <4>1, <4>2, <4>3
    <3>7. \A t \in Tasks : t >= nextTask' => task'[t] = "none"
      BY <1>0, <2>2, <2>3, <3>1 DEF RequestInv
    <3>q. QED BY <3>4, <3>5, <3>6, <3>7 DEF RequestInv
  <2>6. QueueInv'
    BY <1>0, <2>1, <2>2 DEF QueueInv
  <2>7. TwiceOnlyIfLost' /\ OneMailPerTry'
    BY <1>0, <2>2 DEF TwiceOnlyIfLost, OneMailPerTry
  <2>q. QED BY <2>4, <2>5, <2>6, <2>7 DEF MailInv
<1>2. CASE SetToken(r)
  <2>1. /\ at[r] = "set" /\ on[r] \in Tasks /\ at' = [at EXCEPT ![r] = "enqueue"]
        /\ \E outcome \in {"live", "unstored"} : token' = [token EXCEPT ![on[r]] = outcome]
        /\ UNCHANGED <<nextTask, on, promised, task, retried, up, running, mails, lost>>
    <3>1. at[r] = "set" /\ nextTask \in 1..(MaxTasks + 1)
      BY <1>0, <1>2 DEF SetToken, MailTypeOK
    <3>2. on[r] \in 1..(nextTask - 1)
      BY <1>0, <3>1 DEF RequestInv
    <3>3. on[r] \in Tasks
      BY <3>1, <3>2
    <3>q. QED BY <1>2, <3>1, <3>3 DEF SetToken
  <2>2. /\ token' \in [Tasks -> {"none", "live", "gone", "unstored", "contact"}]
        /\ \A t \in Tasks : token[t] # "none" => token'[t] # "none"
        /\ token'[on[r]] # "none"
    BY <1>0, <2>1 DEF MailTypeOK
  <2>4. MailTypeOK'
    BY <1>0, <2>1, <2>2 DEF MailTypeOK
  <2>5. RequestInv'
    <3>1. /\ at'[r] = "enqueue" /\ on' = on /\ nextTask' = nextTask /\ task' = task
          /\ \A q \in Requests \ {r} : at'[q] = at[q]
      BY <1>0, <2>1 DEF MailTypeOK
    <3>2. \A q \in Requests : at'[q] # "idle" => at[q] # "idle"
      BY <2>1, <3>1
    <3>3. ASSUME NEW q \in Requests, at'[q] = "enqueue" PROVE token'[on[q]] # "none"
      <4>1. CASE q = r
        BY <2>2, <4>1
      <4>2. CASE q # r
        <5>1. token[on[q]] # "none" /\ on[q] \in 1..(nextTask - 1)
          BY <1>0, <3>1, <3>3, <4>2 DEF RequestInv
        <5>2. on[q] \in Tasks
          BY <1>0, <5>1 DEF MailTypeOK
        <5>q. QED BY <2>2, <5>1, <5>2
      <4>q. QED BY <4>1, <4>2
    <3>q. QED BY <1>0, <3>1, <3>2, <3>3 DEF RequestInv
  <2>6. QueueInv'
    BY <1>0, <2>1, <2>2 DEF QueueInv
  <2>7. TwiceOnlyIfLost' /\ OneMailPerTry'
    BY <1>0, <2>1 DEF TwiceOnlyIfLost, OneMailPerTry
  <2>q. QED BY <2>4, <2>5, <2>6, <2>7 DEF MailInv
<1>3. CASE Enqueue(r) \/ EnqueueFails(r)
  <2>1. /\ at[r] = "enqueue" /\ on[r] \in Tasks /\ on[r] < nextTask /\ nextTask \in Nat
        /\ task[on[r]] = "none" /\ token[on[r]] # "none"
        /\ at' = [at EXCEPT ![r] = "idle"] /\ on' = [on EXCEPT ![r] = 0]
        /\ UNCHANGED <<nextTask, token, retried, up, running, mails, lost>>
    <3>1. /\ at[r] = "enqueue" /\ Finish(r)
          /\ UNCHANGED <<nextTask, token, retried, up, running, mails, lost>>
      BY <1>3 DEF Enqueue, EnqueueFails
    <3>2. /\ on[r] \in 1..(nextTask - 1) /\ task[on[r]] = "none" /\ token[on[r]] # "none"
          /\ nextTask \in 1..(MaxTasks + 1)
      BY <1>0, <3>1 DEF RequestInv, MailTypeOK
    <3>3. on[r] \in Tasks /\ on[r] < nextTask /\ nextTask \in Nat
      BY <3>2
    <3>q. QED BY <3>1, <3>2, <3>3 DEF Finish
  <2>2. PICK where \in {"none", "pending"} :
          /\ task' = [task EXCEPT ![on[r]] = where]
          /\ promised' \subseteq promised \cup {on[r]}
          /\ promised' # promised => where = "pending"
    BY <1>3 DEF Enqueue, EnqueueFails
  <2>3. running[on[r]] = "no"
    BY <1>0, <2>1 DEF MailTypeOK
  <2>4. MailTypeOK'
    BY <1>0, <2>1, <2>2, <2>3 DEF MailTypeOK
  <2>5. RequestInv'
    <3>1. /\ at'[r] = "idle"
          /\ \A q \in Requests \ {r} : at'[q] = at[q] /\ on'[q] = on[q]
          /\ \A t \in Tasks \ {on[r]} : task'[t] = task[t]
      BY <1>0, <2>1, <2>2 DEF MailTypeOK
    <3>2. ASSUME NEW q \in Requests, at'[q] # "idle"
          PROVE  /\ at[q] = at'[q] /\ on'[q] = on[q] /\ on[q] \in 1..(nextTask - 1)
                 /\ task'[on[q]] = "none"
                 /\ at[q] = "enqueue" => token[on[q]] # "none"
      <4>1. q # r /\ at[q] # "idle" /\ at[r] # "idle"
        BY <2>1, <3>1, <3>2
      <4>2. on[q] \in 1..(nextTask - 1) /\ task[on[q]] = "none" /\ on[q] # on[r]
        BY <1>0, <4>1 DEF RequestInv
      <4>3. on[q] \in Tasks
        BY <1>0, <4>2 DEF MailTypeOK
      <4>q. QED BY <1>0, <3>1, <3>2, <4>1, <4>2, <4>3 DEF RequestInv
    <3>3. ASSUME NEW q \in Requests, NEW p \in Requests \ {q}, at'[q] # "idle", at'[p] # "idle"
          PROVE  on'[p] # on'[q]
      BY <1>0, <3>2, <3>3 DEF RequestInv
    <3>4. \A t \in Tasks : t >= nextTask' => task'[t] = "none"
      BY <1>0, <2>1, <3>1 DEF RequestInv
    <3>q. QED BY <2>1, <3>2, <3>3, <3>4 DEF RequestInv
  <2>6. QueueInv'
    BY <1>0, <2>1, <2>2 DEF MailTypeOK, QueueInv
  <2>7. TwiceOnlyIfLost'
    BY <1>0, <2>1, <2>2, <2>3 DEF MailTypeOK, TwiceOnlyIfLost
  <2>8. OneMailPerTry'
    BY <1>0, <2>1, <2>2, <2>3 DEF MailTypeOK, OneMailPerTry
  <2>q. QED BY <2>4, <2>5, <2>6, <2>7, <2>8 DEF MailInv
<1>q. QED BY <1>1, <1>2, <1>3 DEF Request

(* What the worker does to a task, none of which concerns a request.       *)
LEMMA WorkKeepsRequests ==
  ASSUME MailInv, NEW t \in Tasks, task[t] # "none", task'[t] # "none",
         \A u \in Tasks \ {t} : task'[u] = task[u],
         UNCHANGED requests
  PROVE  RequestInv'
BY DEF MailInv, MailTypeOK, RequestInv, requests, Tasks

LEMMA TryAgainFacts ==
  ASSUME MailTypeOK, NEW t \in Tasks, TryAgain(t)
  PROVE  /\ task' \in [Tasks -> {"none", "pending", "active", "retry", "archived", "done"}]
         /\ retried' \in [Tasks -> 0..MaxRetry]
         /\ \A u \in Tasks \ {t} : task'[u] = task[u] /\ retried'[u] = retried[u]
         /\ \/ task'[t] = "retry" /\ retried'[t] = retried[t] + 1
            \/ task'[t] = "archived" /\ retried'[t] = retried[t]
BY MailBounds DEF TryAgain, MailTypeOK

(* The two properties about mails, of one task.                            *)
TwiceOf(t) ==
    mails[t] = lost[t] + (IF running[t] = "sent" \/ task[t] = "done" THEN 1 ELSE 0)

OneMailOf(t) ==
    mails[t] <= IF running[t] = "send" \/ task[t] \in {"none", "pending", "retry"}
                THEN retried[t] ELSE retried[t] + 1

LEMMA PerTask ==
  ASSUME TwiceOnlyIfLost, OneMailPerTry, NEW t \in Tasks
  PROVE  OneMailOf(t) /\ TwiceOf(t)
BY DEF TwiceOnlyIfLost, OneMailPerTry, TwiceOf, OneMailOf

LEMMA WorkKeepsMailInv ==
  ASSUME MailInv, NEW t \in Tasks, Work(t)
  PROVE  MailInv'
<1> USE MailBounds DEF Tasks, queue, worker, post
<1>0. MailTypeOK /\ RequestInv /\ QueueInv /\ TwiceOnlyIfLost /\ OneMailPerTry
  BY DEF MailInv
<1>1. CASE Dequeue(t) \/ Forward(t)
  <2>1. UNCHANGED <<retried, up, mails, lost>> /\ UNCHANGED requests
    BY <1>1 DEF Dequeue, Forward
  <2>2. /\ task' \in [Tasks -> {"none", "pending", "active", "retry", "archived", "done"}]
        /\ running' \in [Tasks -> {"no", "send", "sent"}]
        /\ \A u \in Tasks \ {t} : task'[u] = task[u] /\ running'[u] = running[u]
        /\ up /\ running[t] = "no"
        /\ \/ task[t] = "pending" /\ task'[t] = "active" /\ running'[t] = "send"
           \/ task[t] = "retry" /\ task'[t] = "pending" /\ running'[t] = "no"
    <3>1. /\ task \in [Tasks -> {"none", "pending", "active", "retry", "archived", "done"}]
          /\ running \in [Tasks -> {"no", "send", "sent"}]
          /\ running[t] # "no" => task[t] = "active"
      BY <1>0 DEF MailTypeOK
    <3>2. CASE Dequeue(t)
      BY <3>1, <3>2 DEF Dequeue
    <3>3. CASE Forward(t)
      BY <3>1, <3>3 DEF Forward
    <3>q. QED BY <1>1, <3>2, <3>3
  <2>3. MailTypeOK'
    BY <1>0, <2>1, <2>2 DEF MailTypeOK, requests
  <2>4. RequestInv'
    BY <2>1, <2>2, WorkKeepsRequests
  <2>5. QueueInv'
    BY <1>0, <2>1, <2>2 DEF QueueInv, requests
  <2>6. TwiceOnlyIfLost'
    BY <1>0, <2>1, <2>2 DEF TwiceOnlyIfLost
  <2>7. OneMailPerTry'
    <3>1. SUFFICES ASSUME NEW u \in Tasks PROVE OneMailOf(u)'
      BY DEF OneMailPerTry, OneMailOf
    <3>2. OneMailOf(u)
      BY <1>0, PerTask
    <3>q. QED BY <2>1, <2>2, <3>2 DEF OneMailOf
  <2>q. QED BY <2>3, <2>4, <2>5, <2>6, <2>7 DEF MailInv
<1>2. CASE SendMail(t)
  <2>1. UNCHANGED <<task, retried, up, lost>> /\ UNCHANGED requests
    BY <1>2 DEF SendMail
  <2>2. /\ running[t] = "send" /\ running' = [running EXCEPT ![t] = "sent"]
        /\ mails' = [mails EXCEPT ![t] = @ + 1]
    BY <1>2 DEF SendMail
  <2>3. task[t] = "active" /\ up /\ mails[t] \in Nat
    BY <1>0, <2>2 DEF MailTypeOK
  <2>4. /\ running' \in [Tasks -> {"no", "send", "sent"}] /\ mails' \in [Tasks -> Nat]
        /\ running'[t] = "sent" /\ mails'[t] = mails[t] + 1
        /\ \A u \in Tasks \ {t} : running'[u] = running[u] /\ mails'[u] = mails[u]
    <3>1. /\ running' \in [Tasks -> {"no", "send", "sent"}] /\ running'[t] = "sent"
          /\ \A u \in Tasks \ {t} : running'[u] = running[u]
      BY <1>0, <2>2 DEF MailTypeOK
    <3>2. /\ mails' \in [Tasks -> Nat] /\ mails'[t] = mails[t] + 1
          /\ \A u \in Tasks \ {t} : mails'[u] = mails[u]
      <4>1. mails \in [Tasks -> Nat]
        BY <1>0 DEF MailTypeOK
      <4>q. QED BY <2>2, <4>1
    <3>q. QED BY <3>1, <3>2
  <2>5. MailTypeOK'
    BY <1>0, <2>1, <2>3, <2>4 DEF MailTypeOK, requests
  <2>6. RequestInv'
    BY <2>1, <2>3, WorkKeepsRequests
  <2>7. QueueInv'
    BY <1>0, <2>1, <2>3, <2>4 DEF QueueInv, requests
  <2>8. ASSUME NEW u \in Tasks PROVE OneMailOf(u)' /\ TwiceOf(u)'
    <3>1. OneMailOf(u) /\ TwiceOf(u)
      BY <1>0, PerTask
    <3>2. retried[u] \in Nat /\ lost[u] \in Nat
      BY <1>0 DEF MailTypeOK
    <3>3. CASE u = t
      BY <2>1, <2>2, <2>3, <2>4, <3>1, <3>2, <3>3 DEF OneMailOf, TwiceOf
    <3>4. CASE u # t
      BY <2>1, <2>4, <3>1, <3>4 DEF OneMailOf, TwiceOf
    <3>q. QED BY <3>3, <3>4
  <2>q. QED BY <2>5, <2>6, <2>7, <2>8 DEF MailInv, OneMailOf, TwiceOf, OneMailPerTry, TwiceOnlyIfLost
<1>3. CASE Complete(t)
  <2>1. UNCHANGED <<mails, retried, up, lost>> /\ UNCHANGED requests
    BY <1>3 DEF Complete
  <2>2. /\ running[t] = "sent" /\ running' = [running EXCEPT ![t] = "no"]
        /\ task' = [task EXCEPT ![t] = "done"]
    BY <1>3 DEF Complete
  <2>3. task[t] = "active" /\ up
    BY <1>0, <2>2 DEF MailTypeOK
  <2>4. /\ running' \in [Tasks -> {"no", "send", "sent"}]
        /\ task' \in [Tasks -> {"none", "pending", "active", "retry", "archived", "done"}]
        /\ running'[t] = "no" /\ task'[t] = "done"
        /\ \A u \in Tasks \ {t} : running'[u] = running[u] /\ task'[u] = task[u]
    BY <1>0, <2>2 DEF MailTypeOK
  <2>5. MailTypeOK'
    BY <1>0, <2>1, <2>4 DEF MailTypeOK, requests
  <2>6. RequestInv'
    BY <2>1, <2>3, <2>4, WorkKeepsRequests
  <2>7. QueueInv'
    BY <1>0, <2>1, <2>3, <2>4 DEF QueueInv, requests
  <2>8. ASSUME NEW u \in Tasks PROVE OneMailOf(u)' /\ TwiceOf(u)'
    <3>1. OneMailOf(u) /\ TwiceOf(u)
      BY <1>0, PerTask
    <3>2. retried[u] \in Nat /\ lost[u] \in Nat /\ mails[u] \in Nat
      BY <1>0 DEF MailTypeOK
    <3>3. CASE u = t
      BY <2>1, <2>2, <2>3, <2>4, <3>1, <3>2, <3>3 DEF OneMailOf, TwiceOf
    <3>4. CASE u # t
      BY <2>1, <2>4, <3>1, <3>4 DEF OneMailOf, TwiceOf
    <3>q. QED BY <3>3, <3>4
  <2>q. QED BY <2>5, <2>6, <2>7, <2>8 DEF MailInv, OneMailOf, TwiceOf, OneMailPerTry, TwiceOnlyIfLost
<1>4. CASE MailFails(t) \/ Recover(t)
  <2>1. UNCHANGED up /\ UNCHANGED requests /\ TryAgain(t)
    BY <1>4 DEF MailFails, Recover
  <2>2. /\ mails[t] \in Nat /\ lost[t] \in Nat /\ running[t] # "sent"
        /\ running[t] # "no" => up /\ task[t] = "active"
    BY <1>0, <1>4 DEF MailFails, Recover, MailTypeOK
  <2>3. /\ task[t] = "active" /\ up
        /\ \/ running' = running /\ running[t] = "no"
           \/ running' = [running EXCEPT ![t] = "no"] /\ running[t] = "send"
        /\ \/ mails' = mails /\ lost' = lost
           \/ /\ mails' = [mails EXCEPT ![t] = @ + 1] /\ lost' = [lost EXCEPT ![t] = @ + 1]
              /\ running[t] = "send"
    BY <1>4, <2>2 DEF MailFails, Recover
  <2>4. /\ running' \in [Tasks -> {"no", "send", "sent"}] /\ running'[t] = "no"
        /\ \A u \in Tasks \ {t} : running'[u] = running[u]
    BY <1>0, <2>3 DEF MailTypeOK
  <2>5. /\ mails' \in [Tasks -> Nat] /\ lost' \in [Tasks -> Nat]
        /\ \A u \in Tasks \ {t} : mails'[u] = mails[u] /\ lost'[u] = lost[u]
        /\ \/ mails'[t] = mails[t] /\ lost'[t] = lost[t]
           \/ mails'[t] = mails[t] + 1 /\ lost'[t] = lost[t] + 1 /\ running[t] = "send"
    <3>1. CASE mails' = mails /\ lost' = lost
      BY <1>0, <3>1 DEF MailTypeOK
    <3>2. CASE /\ mails' = [mails EXCEPT ![t] = @ + 1] /\ lost' = [lost EXCEPT ![t] = @ + 1]
               /\ running[t] = "send"
      <4>1. mails \in [Tasks -> Nat] /\ lost \in [Tasks -> Nat]
        BY <1>0 DEF MailTypeOK
      <4>2. /\ mails' \in [Tasks -> Nat] /\ mails'[t] = mails[t] + 1
            /\ \A u \in Tasks \ {t} : mails'[u] = mails[u]
        BY <3>2, <4>1
      <4>3. /\ lost' \in [Tasks -> Nat] /\ lost'[t] = lost[t] + 1
            /\ \A u \in Tasks \ {t} : lost'[u] = lost[u]
        BY <3>2, <4>1
      <4>q. QED BY <3>2, <4>2, <4>3
    <3>q. QED BY <2>3, <3>1, <3>2
  <2>6. /\ task' \in [Tasks -> {"none", "pending", "active", "retry", "archived", "done"}]
        /\ retried' \in [Tasks -> 0..MaxRetry]
        /\ \A u \in Tasks \ {t} : task'[u] = task[u] /\ retried'[u] = retried[u]
        /\ \/ task'[t] = "retry" /\ retried'[t] = retried[t] + 1
           \/ task'[t] = "archived" /\ retried'[t] = retried[t]
    BY <1>0, <2>1, TryAgainFacts
  <2>7. MailTypeOK'
    <3>1. \A u \in Tasks : running'[u] # "no" => up' /\ task'[u] = "active"
      <4>1. \A u \in Tasks : running[u] # "no" => up /\ task[u] = "active"
        BY <1>0 DEF MailTypeOK
      <4>q. QED BY <2>1, <2>4, <2>6, <4>1
    <3>q. QED BY <1>0, <2>1, <2>4, <2>5, <2>6, <3>1 DEF MailTypeOK, requests
  <2>8. RequestInv'
    BY <2>1, <2>3, <2>6, WorkKeepsRequests
  <2>9. QueueInv'
    BY <1>0, <2>1, <2>3, <2>5, <2>6 DEF QueueInv, requests
  <2>10. ASSUME NEW u \in Tasks PROVE OneMailOf(u)' /\ TwiceOf(u)'
    <3>1. OneMailOf(u) /\ TwiceOf(u)
      BY <1>0, PerTask
    <3>2. retried[u] \in Nat /\ lost[u] \in Nat /\ mails[u] \in Nat
      BY <1>0 DEF MailTypeOK
    <3>3. CASE u = t
      <4>1. mails[t] = lost[t] /\ mails[t] <= retried[t] + 1
            /\ (running[t] = "send" => mails[t] <= retried[t])
        BY <2>2, <2>3, <3>1, <3>2, <3>3 DEF OneMailOf, TwiceOf
      <4>2. mails'[t] = lost'[t] /\ mails'[t] <= retried[t] + 1
        BY <2>5, <3>2, <3>3, <4>1
      <4>3. TwiceOf(t)'
        BY <2>4, <2>6, <3>2, <3>3, <2>5, <4>2 DEF TwiceOf
      <4>4. OneMailOf(t)'
        BY <2>4, <2>6, <3>2, <3>3, <2>5, <4>2 DEF OneMailOf
      <4>q. QED BY <3>3, <4>3, <4>4
    <3>4. CASE u # t
      BY <2>4, <2>5, <2>6, <3>1, <3>4 DEF OneMailOf, TwiceOf
    <3>q. QED BY <3>3, <3>4
  <2>q. QED BY <2>7, <2>8, <2>9, <2>10 DEF MailInv, OneMailOf, TwiceOf, OneMailPerTry, TwiceOnlyIfLost
<1>q. QED BY <1>1, <1>2, <1>3, <1>4 DEF Work, Run

LEMMA OthersKeepMailInv ==
  ASSUME MailInv,
         (\E t \in Tasks : TokenGoes(t)) \/ Crash \/ Restart \/ UNCHANGED mailVars
  PROVE  MailInv'
<1> USE MailBounds DEF queue, worker, post, requests
<1>0. MailTypeOK /\ RequestInv /\ QueueInv /\ TwiceOnlyIfLost /\ OneMailPerTry
  BY DEF MailInv
<1>1. ASSUME NEW t \in Tasks, TokenGoes(t)
      PROVE  MailInv'
  <2>1. UNCHANGED <<nextTask, at, on, promised, task, retried, up, running, mails, lost>>
    BY <1>1 DEF TokenGoes
  <2>2. /\ token' \in [Tasks -> {"none", "live", "gone", "unstored", "contact"}]
        /\ \A u \in Tasks : token[u] # "none" => token'[u] # "none"
    BY <1>0, <1>1 DEF TokenGoes, MailTypeOK
  <2>3. MailTypeOK'
    BY <1>0, <2>1, <2>2 DEF MailTypeOK
  <2>4. RequestInv'
    BY <1>0, <2>1, <2>2 DEF RequestInv, MailTypeOK, Tasks
  <2>5. QueueInv' /\ TwiceOnlyIfLost' /\ OneMailPerTry'
    BY <1>0, <2>1, <2>2 DEF QueueInv, TwiceOnlyIfLost, OneMailPerTry
  <2>q. QED BY <2>3, <2>4, <2>5 DEF MailInv
<1>2. CASE Crash
  <2>1. /\ UNCHANGED <<nextTask, at, on, token, promised, task, retried, mails>>
        /\ ~up' /\ up' \in BOOLEAN
        /\ running' = [t \in Tasks |-> "no"]
        /\ lost' = [t \in Tasks |-> IF running[t] = "sent" THEN lost[t] + 1 ELSE lost[t]]
    BY <1>2 DEF Crash
  <2>2. MailTypeOK'
    BY <1>0, <2>1 DEF MailTypeOK
  <2>3. RequestInv' /\ QueueInv'
    BY <1>0, <2>1 DEF RequestInv, QueueInv
  <2>4. TwiceOnlyIfLost'
    BY <1>0, <2>1 DEF TwiceOnlyIfLost, MailTypeOK
  <2>5. OneMailPerTry'
    BY <1>0, <2>1 DEF OneMailPerTry, MailTypeOK
  <2>q. QED BY <2>2, <2>3, <2>4, <2>5 DEF MailInv
<1>3. CASE Restart \/ UNCHANGED mailVars
  <2>1. /\ UNCHANGED <<nextTask, at, on, token, promised, task, retried, running, mails, lost>>
        /\ up' \in BOOLEAN /\ (up => up')
    BY <1>0, <1>3 DEF Restart, mailVars, MailTypeOK
  <2>2. MailTypeOK'
    BY <1>0, <2>1 DEF MailTypeOK
  <2>3. RequestInv' /\ QueueInv' /\ TwiceOnlyIfLost' /\ OneMailPerTry'
    BY <1>0, <2>1 DEF RequestInv, QueueInv, TwiceOnlyIfLost, OneMailPerTry
  <2>q. QED BY <2>2, <2>3 DEF MailInv
<1>q. QED BY <1>1, <1>2, <1>3

LEMMA MailInvHolds == MailSpec => []MailInv
<1>1. MailInv /\ [MailNext]_mailVars => MailInv'
  BY RequestKeepsMailInv, WorkKeepsMailInv, OthersKeepMailInv DEF MailNext
<1>q. QED BY InitMailInv, <1>1, PTL DEF MailSpec

(* Every variable keeps its type, and the worker runs only leased tasks.   *)
THEOREM MailTypes == MailSpec => []MailTypeOK
<1>1. MailInv => MailTypeOK
  BY DEF MailInv
<1>q. QED BY <1>1, MailInvHolds, PTL

(* Mails and the notes of them agree, whatever dies or fails in between.   *)
THEOREM RepeatedOnlyIfLost == MailSpec => []TwiceOnlyIfLost
<1>1. MailInv => TwiceOnlyIfLost
  BY DEF MailInv
<1>q. QED BY <1>1, MailInvHolds, PTL

(* A task sends no more mails than it was tried.                           *)
THEOREM EachTryMailsOnce == MailSpec => []OneMailPerTry
<1>1. MailInv => OneMailPerTry
  BY DEF MailInv
<1>q. QED BY <1>1, MailInvHolds, PTL

(* A link goes out after the attempt to store its token.                   *)
THEOREM TokensPrecedeMails == MailSpec => []TokenBeforeMail
<1>1. MailInv => TokenBeforeMail
  BY DEF MailInv, QueueInv, TokenBeforeMail, MailTypeOK
<1>q. QED BY <1>1, MailInvHolds, PTL

(* What a request was promised is in the queue, or left it for an end: the *)
(* part of PromiseIsSettled that needs no fairness.                        *)
THEOREM PromisesAreQueued == MailSpec => [](\A t \in promised : task[t] # "none")
<1>1. MailInv => \A t \in promised : task[t] # "none"
  BY DEF MailInv, QueueInv, MailTypeOK
<1>q. QED BY <1>1, MailInvHolds, PTL

=============================================================================
