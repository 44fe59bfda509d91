--------------------------- MODULE AccountsProofs ---------------------------
(***************************************************************************)
(* Theorems about Accounts, for any number of requests and accounts and    *)
(* any sets of names, emails and passwords.                                *)
(***************************************************************************)
EXTENDS Accounts, TLAPS

Updates == {"update", "password", "admin"}

(* What a request of each kind does and holds at each stage.               *)
Shape(r) ==
    /\ at[r] = "idle" => kind[r] = "none"
    /\ at[r] = "email" => kind[r] \in {"register", "update"}
    /\ at[r] = "name" => kind[r] \in {"register", "create"}
    /\ at[r] \in {"owner", "link"} => kind[r] = "oauth"
    /\ at[r] = "insert" => kind[r] \in {"register", "create", "oauth"}
    /\ at[r] = "write" => kind[r] \in Updates
    /\ kind[r] \in Updates => at[r] \in {"email", "write"}
    /\ at[r] # "idle" => copy[r] \in Rows
    /\ kind[r] = "oauth" => copy[r].name \in Subs

(* A copy keeps the name, which no request changes, and is the row with    *)
(* one column set as long as nobody wrote the row.                         *)
CopyOf(r) ==
    kind[r] \in Updates =>
        /\ on[r] \in ids /\ copy[r].name = row[on[r]].name
        /\ r \notin stale => copy[r] = SetColumn(r, row[on[r]])

(* A request that is about to insert a name it checked, and nobody         *)
(* inserted since, finds it free.                                          *)
NameOf(r) ==
    at[r] = "insert" /\ kind[r] # "oauth" /\ r \notin unsure => ~NameTaken(copy[r].name)

RequestOf(r) == Shape(r) /\ CopyOf(r) /\ NameOf(r)

Inv ==
    /\ TypeOK
    /\ \A r \in Requests : RequestOf(r)
    /\ ColumnsAsMeant /\ NamesDistinct

-----------------------------------------------------------------------------

Same(s) == at'[s] = at[s] /\ kind'[s] = kind[s] /\ on'[s] = on[s] /\ copy'[s] = copy[s]

(* A step of another request that touches neither the tables nor what is   *)
(* known about s keeps what holds of s.                                    *)
LEMMA TablesStill ==
  ASSUME NEW s \in Requests, RequestOf(s), Same(s), UNCHANGED <<ids, row>>,
         s \in stale => s \in stale', s \in unsure => s \in unsure'
  PROVE  RequestOf(s)'
BY DEF RequestOf, Same, Shape, CopyOf, NameOf, SetColumn, NameTaken

LEMMA Still ==
  ASSUME Inv, NEW r \in Requests, TypeOK', RequestOf(r)',
         \A s \in Requests \ {r} : Same(s), UNCHANGED <<ids, row, meant, twins>>,
         \A s \in Requests \ {r} : (s \in stale => s \in stale') /\ (s \in unsure => s \in unsure')
  PROVE  Inv'
<1>1. \A s \in Requests \ {r} : RequestOf(s)'
  BY TablesStill DEF Inv
<1>q. QED BY <1>1 DEF Inv, ColumnsAsMeant, NamesDistinct

LEMMA InitInv == Init => Inv
<1> SUFFICES ASSUME Init PROVE Inv
  OBVIOUS
<1>1. TypeOK
  BY AccountBounds DEF Init, TypeOK, EmailsDistinct, Kinds, Stages
<1>2. \A r \in Requests : RequestOf(r)
  BY DEF Init, RequestOf, Shape, CopyOf, NameOf, Updates
<1>q. QED BY <1>1, <1>2 DEF Init, Inv, ColumnsAsMeant, NamesDistinct

LEMMA BeginKeeps ==
  ASSUME Inv, NEW r \in Requests, NEW what \in Kinds, NEW stage \in Stages,
         NEW id \in {0} \cup Ids, NEW c \in Rows, Begin(r, what, stage, id, c),
         stage \in {"email", "name", "owner", "write"},
         stage = "email" => what \in {"register", "update"},
         stage = "name" => what = "create",
         stage = "owner" => what = "oauth",
         stage = "write" => what \in Updates,
         what \in Updates => stage \in {"email", "write"},
         what = "oauth" => c.name \in Subs,
         what \in Updates => id \in ids /\ c.name = row[id].name,
         what = "update" => c = [row[id] EXCEPT !.email = c.email],
         what = "password" => c = [row[id] EXCEPT !.pass = c.pass],
         what = "admin" => c = [row[id] EXCEPT !.status = c.status]
  PROVE  Inv'
<1> USE DEF table, history
<1>1. TypeOK'
  BY DEF Inv, TypeOK, Begin, EmailsDistinct
<1>2. \A s \in Requests \ {r} : Same(s)
  BY DEF Inv, TypeOK, Begin, Same
<1>3. at'[r] = stage /\ kind'[r] = what /\ on'[r] = id /\ copy'[r] = c
  BY DEF Inv, TypeOK, Begin
<1>4. Shape(r)' /\ NameOf(r)'
  BY <1>3 DEF Shape, NameOf, Updates, Stages, Kinds
<1>5. CopyOf(r)'
  BY <1>3 DEF CopyOf, SetColumn, Begin, Updates
<1>q. QED BY <1>1, <1>2, <1>4, <1>5, Still DEF Begin, RequestOf, Inv

LEMMA GoesKeeps ==
  ASSUME Inv, NEW r \in Requests, NEW stage \in Stages, Goes(r, stage), at[r] # "idle",
         UNCHANGED <<table, link, meant, stale, twins>>,
         unsure' \in {unsure, unsure \cup {r}},
         stage = "name" => kind[r] = "register",
         stage = "insert" => \/ at[r] = "name" /\ (r \in unsure' \/ ~NameTaken(copy[r].name))
                             \/ at[r] = "owner",
         stage = "write" => kind[r] = "update",
         stage \in {"name", "insert", "write"},
         at[r] = "email" => stage \in {"name", "write"},
         at[r] \in {"email", "name", "owner"}
  PROVE  Inv'
<1> USE DEF table, memory
<1>1. TypeOK'
  BY DEF Inv, TypeOK, Goes, EmailsDistinct
<1>2. \A s \in Requests \ {r} : Same(s)
  BY DEF Inv, TypeOK, Goes, Same
<1>3. at'[r] = stage /\ kind'[r] = kind[r] /\ on'[r] = on[r] /\ copy'[r] = copy[r]
  BY DEF Inv, TypeOK, Goes
<1>0. RequestOf(r)
  BY DEF Inv
<1>4. Shape(r)'
  BY <1>0, <1>3 DEF RequestOf, Shape, Updates
<1>5. CopyOf(r)'
  BY <1>0, <1>3 DEF RequestOf, CopyOf, SetColumn, Updates
<1>6. NameOf(r)'
  BY <1>0, <1>3 DEF RequestOf, Shape, NameOf, NameTaken
<1>q. QED BY <1>1, <1>2, <1>4, <1>5, <1>6, Still DEF RequestOf, Inv

(* A request that is over holds nothing.                                   *)
LEMMA IdleRequest ==
  ASSUME NEW r \in Requests, at'[r] = "idle", kind'[r] = "none"
  PROVE  RequestOf(r)'
BY DEF RequestOf, Shape, CopyOf, NameOf, Updates

LEMMA ForgetLeaves ==
  ASSUME Inv, NEW r \in Requests, Forget(r)
  PROVE  /\ kind' \in [Requests -> Kinds] /\ at' \in [Requests -> Stages]
         /\ on' \in [Requests -> {0} \cup Ids] /\ copy' \in [Requests -> Rows \cup {NoRow}]
         /\ at'[r] = "idle" /\ kind'[r] = "none"
         /\ \A s \in Requests \ {r} : Same(s)
BY DEF Inv, TypeOK, Forget, Same, Kinds, Stages

LEMMA FinishKeeps ==
  ASSUME Inv, NEW r \in Requests, Finish(r)
  PROVE  Inv'
<1> USE DEF table
<1>1. TypeOK'
  BY ForgetLeaves DEF Inv, TypeOK, Finish, EmailsDistinct
<1>q. QED BY <1>1, ForgetLeaves, IdleRequest, Still DEF Finish, Inv

-----------------------------------------------------------------------------
LEMMA CreateKeeps ==
  ASSUME Inv, NEW r \in Requests, Create(r)
  PROVE  Inv'
<1>1. CASE Register(r)
  <2>1. PICK n \in Logins, e \in Emails, p \in Passwords :
          Begin(r, "register", "email", 0, [name |-> n, email |-> e, pass |-> p, status |-> TRUE])
    BY <1>1 DEF Register
  <2>q. QED BY <2>1, BeginKeeps DEF Rows, Kinds, Stages, Updates
<1>2. CASE AdminUserCreate(r)
  <2>1. PICK n \in Logins, e \in Emails, s \in BOOLEAN :
          Begin(r, "create", "name", 0, [name |-> n, email |-> e, pass |-> "raw", status |-> s])
    BY <1>2 DEF AdminUserCreate
  <2>q. QED BY <2>1, BeginKeeps DEF Rows, Kinds, Stages, Updates
<1>3. CASE OAuthLogin(r)
  <2>1. PICK s \in Subs, e \in Emails :
          Begin(r, "oauth", "owner", 0, [name |-> s, email |-> e, pass |-> s, status |-> TRUE])
    BY <1>3 DEF OAuthLogin
  <2>q. QED BY <2>1, BeginKeeps DEF Rows, Logins, Kinds, Stages, Updates
<1>4. CASE Refuse(r)
  <2>1. UNCHANGED <<table, link, at, memory, history>>
    BY <1>4 DEF Refuse, vars
  <2>2. RequestOf(r)'
    BY <2>1, TablesStill DEF Inv, Same, table, memory, history
  <2>3. TypeOK'
    BY <2>1 DEF Inv, TypeOK, EmailsDistinct, table, memory, history
  <2>q. QED BY <2>1, <2>2, <2>3, Still DEF Same, table, memory, history
<1>q. QED BY <1>1, <1>2, <1>3, <1>4 DEF Create

LEMMA ChangeKeeps ==
  ASSUME Inv, NEW r \in Requests, Change(r)
  PROVE  Inv'
<1>t. \A id \in ids : row[id] \in Rows /\ id \in Ids
  BY DEF Inv, TypeOK
<1>1. CASE HandleUpdateAccount(r)
  <2>1. PICK id \in ids, e \in Emails :
          Begin(r, "update", IF e = row[id].email THEN "write" ELSE "email", id,
                [row[id] EXCEPT !.email = e])
    BY <1>1 DEF HandleUpdateAccount
  <2> DEFINE c == [row[id] EXCEPT !.email = e]
  <2>2. c \in Rows /\ c.name = row[id].name /\ c.email = e
    BY <1>t DEF Rows
  <2>3. c = [row[id] EXCEPT !.email = c.email]
    BY <2>2
  <2>h. HIDE DEF c
  <2>4. CASE e = row[id].email
    <3>1. Begin(r, "update", "write", id, c)
      BY <2>1, <2>4 DEF c
    <3>q. QED BY <3>1, <2>2, <2>3, <1>t, BeginKeeps DEF Kinds, Stages, Updates
  <2>5. CASE e # row[id].email
    <3>1. Begin(r, "update", "email", id, c)
      BY <2>1, <2>5 DEF c
    <3>q. QED BY <3>1, <2>2, <2>3, <1>t, BeginKeeps DEF Kinds, Stages, Updates
  <2>q. QED BY <2>4, <2>5
<1>2. ASSUME NEW id \in ids, NEW p \in Passwords,
             Begin(r, "password", "write", id, [row[id] EXCEPT !.pass = p])
      PROVE  Inv'
  <2> DEFINE c == [row[id] EXCEPT !.pass = p]
  <2>2. c \in Rows /\ c.name = row[id].name /\ c.pass = p
    BY <1>t DEF Rows
  <2>3. c = [row[id] EXCEPT !.pass = c.pass]
    BY <2>2
  <2>4. Begin(r, "password", "write", id, c)
    BY <1>2
  <2>h. HIDE DEF c
  <2>q. QED BY <2>2, <2>3, <2>4, <1>t, BeginKeeps DEF Kinds, Stages, Updates
<1>3. CASE ChangePassword(r) \/ HandleResetPassword(r)
  BY <1>2, <1>3 DEF ChangePassword, HandleResetPassword
<1>4. CASE AdminUserUpdate(r)
  <2>1. PICK id \in ids, s \in BOOLEAN :
          Begin(r, "admin", "write", id, [row[id] EXCEPT !.status = s])
    BY <1>4 DEF AdminUserUpdate
  <2> DEFINE c == [row[id] EXCEPT !.status = s]
  <2>2. c \in Rows /\ c.name = row[id].name /\ c.status = s
    BY <1>t DEF Rows
  <2>3. c = [row[id] EXCEPT !.status = c.status]
    BY <2>2
  <2>4. Begin(r, "admin", "write", id, c)
    BY <2>1
  <2>h. HIDE DEF c
  <2>q. QED BY <2>2, <2>3, <2>4, <1>t, BeginKeeps DEF Kinds, Stages, Updates
<1>q. QED BY <1>1, <1>3, <1>4 DEF Change

LEMMA CheckKeeps ==
  ASSUME Inv, NEW r \in Requests, Check(r)
  PROVE  Inv'
<1> USE DEF history
<1>0. Shape(r)
  BY DEF Inv, RequestOf
<1>1. CASE CheckEmail(r)
  <2>1. CASE Finish(r)
    BY <2>1, FinishKeeps
  <2>2. CASE /\ Goes(r, IF kind[r] = "register" THEN "name" ELSE "write")
             /\ UNCHANGED <<table, link, history>>
    <3>1. at[r] = "email" /\ kind[r] \in {"register", "update"}
      BY <1>0, <1>1 DEF CheckEmail, Shape
    <3>2. CASE kind[r] = "register"
      <4>1. Goes(r, "name")
        BY <2>2, <3>2
      <4>q. QED BY <4>1, <2>2, <3>1, <3>2, GoesKeeps DEF Stages
    <3>3. CASE kind[r] = "update"
      <4>1. Goes(r, "write")
        BY <2>2, <3>3
      <4>q. QED BY <4>1, <2>2, <3>1, <3>3, GoesKeeps DEF Stages
    <3>q. QED BY <3>1, <3>2, <3>3
  <2>q. QED BY <1>1, <2>1, <2>2 DEF CheckEmail
<1>2. CASE CheckName(r)
  <2>1. CASE Finish(r)
    BY <2>1, FinishKeeps
  <2>2. CASE Goes(r, "insert") /\ ~NameTaken(copy[r].name) /\ UNCHANGED <<table, link, history>>
    BY <2>2, <1>2, GoesKeeps DEF CheckName, Stages
  <2>3. CASE /\ Goes(r, "insert") /\ unsure' = unsure \cup {r}
             /\ UNCHANGED <<table, link, meant, stale, twins>>
    BY <2>3, <1>2, GoesKeeps DEF CheckName, Stages
  <2>q. QED BY <1>2, <2>1, <2>2, <2>3 DEF CheckName
<1>3. CASE FindOwner(r)
  BY <1>3, GoesKeeps DEF FindOwner, Stages
<1>4. CASE Crash(r)
  <2>1. \A s \in Requests : RequestOf(s)'
    BY <1>4, IdleRequest DEF Crash
  <2>2. TypeOK'
    BY <1>4 DEF Crash, Inv, TypeOK, EmailsDistinct, table, Kinds, Stages
  <2>3. UNCHANGED <<ids, row, link, meant, twins>>
    BY <1>4 DEF Crash, table
  <2>q. QED BY <2>1, <2>2, <2>3 DEF Inv, ColumnsAsMeant, NamesDistinct
<1>q. QED BY <1>1, <1>2, <1>3, <1>4 DEF Check

LEMMA InsertKeeps ==
  ASSUME Inv, NEW r \in Requests, Insert(r)
  PROVE  Inv'
<1>i. PICK id \in Ids \ ids : InsertAs(r, id)
  BY DEF Insert
<1>0. /\ RequestOf(r) /\ at[r] = "insert" /\ copy[r] \in Rows
      /\ ~EmailTaken(copy[r].email)
      /\ ids \subseteq Ids
  BY <1>i DEF Inv, RequestOf, Shape, InsertAs, TypeOK
<1>1. /\ ids' = ids \cup {id}
      /\ row' = [row EXCEPT ![id] = copy[r]] /\ meant' = [meant EXCEPT ![id] = copy[r]]
      /\ unsure' = (unsure \cup {q \in Requests : at[q] = "insert" /\ copy[q].name = copy[r].name}) \ {r}
      /\ twins' = IF r \in unsure \/ kind[r] = "oauth" THEN twins \cup {copy[r].name} ELSE twins
      /\ UNCHANGED <<link, stale>>
  BY <1>i DEF InsertAs
<1>2. /\ row \in [Ids -> Rows \cup {NoRow}] /\ meant \in [Ids -> Rows \cup {NoRow}]
      /\ \A i \in ids : row'[i] = row[i] /\ meant'[i] = meant[i]
      /\ row'[id] = copy[r] /\ meant'[id] = copy[r]
  BY <1>0, <1>1 DEF Inv, TypeOK
<1>3. /\ \A s \in Requests \ {r} : Same(s)
      /\ kind' \in [Requests -> Kinds] /\ at' \in [Requests -> Stages]
      /\ on' \in [Requests -> {0} \cup Ids] /\ copy' \in [Requests -> Rows \cup {NoRow}]
      /\ \/ at'[r] = "idle" /\ kind'[r] = "none"
         \/ /\ kind[r] = "oauth" /\ kind'[r] = "oauth" /\ at'[r] = "link" /\ on'[r] = id
            /\ copy'[r] = copy[r]
  <2>1. CASE kind[r] = "oauth"
    BY <2>1, <1>i, <1>0 DEF InsertAs, Inv, TypeOK, Same, Stages
  <2>2. CASE kind[r] # "oauth"
    BY <2>2, <1>i, ForgetLeaves DEF InsertAs
  <2>q. QED BY <2>1, <2>2
<1>4. EmailsDistinct'
  BY <1>0, <1>1, <1>2 DEF Inv, TypeOK, EmailsDistinct, EmailTaken
<1>5. TypeOK'
  <2>1. ids' \subseteq Ids
    BY <1>0, <1>1
  <2>2. row' \in [Ids -> Rows \cup {NoRow}] /\ meant' \in [Ids -> Rows \cup {NoRow}]
    BY <1>0, <1>1, <1>2
  <2>3. \A i \in ids' : row'[i] \in Rows
    BY <1>0, <1>1, <1>2 DEF Inv, TypeOK
  <2>4. twins' \subseteq Logins /\ unsure' \subseteq Requests
    BY <1>0, <1>1 DEF Inv, TypeOK, Rows
  <2>q. QED BY <1>1, <1>3, <1>4, <2>1, <2>2, <2>3, <2>4 DEF Inv, TypeOK
<1>6. RequestOf(r)'
  <2>1. CASE at'[r] = "idle" /\ kind'[r] = "none"
    BY <2>1, IdleRequest
  <2>2. CASE kind'[r] = "oauth" /\ at'[r] = "link"
    BY <2>2, <1>0, <1>3 DEF RequestOf, Shape, CopyOf, NameOf, Updates
  <2>q. QED BY <1>3, <2>1, <2>2
<1>7. ASSUME NEW s \in Requests \ {r} PROVE RequestOf(s)'
  <2>1. RequestOf(s) /\ Same(s)
    BY <1>3 DEF Inv
  <2>2. Shape(s)'
    BY <2>1 DEF RequestOf, Shape, Same
  <2>3. CopyOf(s)'
    BY <2>1, <1>1, <1>2 DEF RequestOf, CopyOf, Same, SetColumn
  <2>4. NameOf(s)'
    BY <2>1, <1>0, <1>1, <1>2 DEF RequestOf, NameOf, NameTaken, Same
  <2>q. QED BY <2>2, <2>3, <2>4 DEF RequestOf
<1>8. ColumnsAsMeant'
  BY <1>0, <1>1, <1>2 DEF Inv, ColumnsAsMeant
<1>9. NamesDistinct'
  <2>1. NameTaken(copy[r].name) => copy[r].name \in twins'
    BY <1>0, <1>1 DEF RequestOf, NameOf
  <2>q. QED BY <2>1, <1>0, <1>1, <1>2 DEF Inv, NamesDistinct, NameTaken
<1>q. QED BY <1>5, <1>6, <1>7, <1>8, <1>9 DEF Inv

LEMMA LinkKeeps ==
  ASSUME Inv, NEW r \in Requests, Link(r)
  PROVE  Inv'
<1> USE DEF table
<1>1. TypeOK'
  BY ForgetLeaves DEF Inv, TypeOK, Link, EmailsDistinct
<1>q. QED BY <1>1, ForgetLeaves, IdleRequest, Still DEF Link

LEMMA WriteKeeps ==
  ASSUME Inv, NEW r \in Requests, Write(r)
  PROVE  Inv'
<1> DEFINE id == on[r]
<1>0. /\ RequestOf(r) /\ at[r] = "write" /\ kind[r] \in Updates /\ copy[r] \in Rows
      /\ id \in ids /\ id \in Ids /\ copy[r].name = row[id].name
      /\ r \notin stale => copy[r] = SetColumn(r, row[id])
  BY DEF Inv, RequestOf, Shape, CopyOf, Write, TypeOK
<1>1. /\ row \in [Ids -> Rows \cup {NoRow}] /\ meant \in [Ids -> Rows \cup {NoRow}]
      /\ row' = [row EXCEPT ![id] = copy[r]]
      /\ UNCHANGED <<ids, link, twins>>
      /\ \A i \in Ids : row'[i] = IF i = id THEN copy[r] ELSE row[i]
      /\ \A i \in ids : row'[i].name = row[i].name
      /\ ids \subseteq Ids
  BY <1>0 DEF Inv, TypeOK, Write
<1>2. meant' = [meant EXCEPT ![id] = copy[r]]
  BY <1>0, <1>1 DEF Write, Inv, ColumnsAsMeant
<1>3. /\ stale' = (stale \cup Holders(id)) \ {r} /\ unsure' = unsure \ {r}
      /\ EmailFree(id, copy[r].email)
  BY DEF Write
<1>5. EmailsDistinct'
  BY <1>0, <1>1, <1>3 DEF EmailsDistinct, EmailFree, Inv, TypeOK
<1>6. TypeOK'
  <2>1. row' \in [Ids -> Rows \cup {NoRow}] /\ meant' \in [Ids -> Rows \cup {NoRow}]
    BY <1>0, <1>1, <1>2
  <2>2. \A i \in ids' : row'[i] \in Rows
    BY <1>0, <1>1 DEF Inv, TypeOK
  <2>3. stale' \subseteq Requests /\ unsure' \subseteq Requests
    BY <1>3 DEF Inv, TypeOK, Holders
  <2>4. Forget(r)
    BY DEF Write
  <2>q. QED BY <1>1, <1>5, <2>1, <2>2, <2>3, <2>4, ForgetLeaves DEF Inv, TypeOK
<1>7. RequestOf(r)' /\ \A s \in Requests \ {r} : Same(s)
  BY ForgetLeaves, IdleRequest DEF Write
<1>8. ASSUME NEW s \in Requests \ {r} PROVE RequestOf(s)'
  <2>1. RequestOf(s) /\ Same(s)
    BY <1>7 DEF Inv
  <2>2. Shape(s)'
    BY <2>1 DEF RequestOf, Shape, Same
  <2>3. CopyOf(s)'
    <3>1. CASE kind[s] \notin Updates
      BY <3>1, <2>1 DEF CopyOf, Same
    <3>2. CASE kind[s] \in Updates /\ on[s] = id
      BY <3>2, <2>1, <1>0, <1>1, <1>3 DEF RequestOf, CopyOf, Shape, Same, Holders
    <3>3. CASE kind[s] \in Updates /\ on[s] # id
      BY <3>3, <2>1, <1>1, <1>3 DEF RequestOf, CopyOf, Same, SetColumn
    <3>q. QED BY <3>1, <3>2, <3>3
  <2>4. NameOf(s)'
    BY <2>1, <1>1, <1>3 DEF RequestOf, NameOf, NameTaken, Same
  <2>q. QED BY <2>2, <2>3, <2>4 DEF RequestOf
<1>9. ColumnsAsMeant' /\ NamesDistinct'
  <2>1. ColumnsAsMeant'
    BY <1>0, <1>1, <1>2 DEF Inv, ColumnsAsMeant
  <2>2. NamesDistinct'
    BY <1>1 DEF Inv, NamesDistinct
  <2>q. QED BY <2>1, <2>2
<1>q. QED BY <1>6, <1>7, <1>8, <1>9 DEF Inv

LEMMA NextKeeps == Inv /\ [Next]_vars => Inv'
<1> SUFFICES ASSUME Inv, [Next]_vars PROVE Inv'
  OBVIOUS
<1>1. ASSUME NEW r \in Requests,
             \/ Create(r) \/ Check(r) \/ Insert(r) \/ Link(r) \/ Change(r) \/ Write(r) \/ Fail(r)
      PROVE  Inv'
  BY <1>1, CreateKeeps, CheckKeeps, InsertKeeps, LinkKeeps, ChangeKeeps, WriteKeeps, FinishKeeps DEF Fail
<1>2. CASE UNCHANGED vars
  <2>1. TypeOK'
    BY <1>2 DEF vars, table, memory, history, Inv, TypeOK, EmailsDistinct
  <2>2. \A s \in Requests : RequestOf(s)'
    BY <1>2, TablesStill DEF vars, table, memory, history, Inv, Same
  <2>q. QED
    BY <1>2, <2>1, <2>2
    DEF vars, table, memory, history, Inv, ColumnsAsMeant, NamesDistinct
<1>q. QED BY <1>1, <1>2 DEF Next

LEMMA InvHolds == Spec => []Inv
BY InitInv, NextKeeps, PTL DEF Spec

(* Every variable keeps its type, and no two accounts share an email.      *)
THEOREM TypeCorrect == Spec => []TypeOK
<1>1. Inv => TypeOK
  BY DEF Inv
<1>q. QED BY <1>1, InvHolds, PTL

(* What was set in an account is undone only by a request that had read    *)
(* the row before.                                                         *)
THEOREM ColumnsStayAsMeant == Spec => []ColumnsAsMeant
<1>1. Inv => ColumnsAsMeant
  BY DEF Inv
<1>q. QED BY <1>1, InvHolds, PTL

(* Without a race, a failed check or an OAuth login, usernames are unique. *)
THEOREM NamesStayDistinct == Spec => []NamesDistinct
<1>1. Inv => NamesDistinct
  BY DEF Inv
<1>q. QED BY <1>1, InvHolds, PTL

=============================================================================
