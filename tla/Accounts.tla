------------------------------ MODULE Accounts ------------------------------
(***************************************************************************)
(* The tables account and oauth_account.  Registration, the first login    *)
(* with Google or Facebook, and the updates by the user and by an admin    *)
(* are concurrent requests.  Nothing runs in a transaction: what is        *)
(* checked may change before it is used, and Update writes every column of *)
(* the row that was read.  The email is unique in the table, and so is the *)
(* phone number, which goes its way and is left out with the full name and *)
(* the avatar; the username is checked by the program.  Left out are also  *)
(* the tokens of password resets: HandleResetPassword deletes but does not *)
(* read them, MailJobs has how they are made.                              *)
(***************************************************************************)
CONSTANTS
    Requests,      \* slots for requests in flight
    Names,         \* usernames that users choose
    Subs,          \* ids that users have at the OAuth provider
    Emails,
    Passwords,     \* passwords that are stored as a hash
    Ids            \* bound: the accountIDs in use

ASSUME AccountBounds ==
    0 \notin Ids /\ "raw" \notin Passwords

VARIABLES
    ids, row,      \* the rows of account
    link,          \* oauth_account: the account of a provider id, or 0
    kind, at,      \* what a request does, and its next step
    on,            \* the account it works on, or 0
    copy,          \* the row it is going to write
    meant,         \* history: what requests meant the columns to hold
    stale,         \* history: requests whose row was written after they read it
    unsure,        \* history: requests whose username may be taken by now
    twins          \* history: usernames that an unsure request inserted

table   == <<ids, row>>
memory  == <<kind, on, copy>>
history == <<meant, stale, unsure, twins>>
vars    == <<table, link, at, memory, history>>

Logins == Names \cup Subs
Rows   == [name : Logins, email : Emails, pass : Passwords \cup Subs \cup {"raw"}, status : BOOLEAN]
NoRow  == [name |-> "", email |-> "", pass |-> "", status |-> FALSE]
Kinds  == {"none", "register", "create", "oauth", "update", "password", "admin"}
Stages == {"idle", "email", "name", "owner", "insert", "link", "write"}

EmailsDistinct == \A i, j \in ids : row[i].email = row[j].email => i = j

TypeOK ==
    /\ ids \subseteq Ids
    /\ row \in [Ids -> Rows \cup {NoRow}] /\ \A i \in ids : row[i] \in Rows
    /\ EmailsDistinct
    /\ link \in [Subs -> {0} \cup Ids]
    /\ kind \in [Requests -> Kinds] /\ at \in [Requests -> Stages]
    /\ on \in [Requests -> {0} \cup Ids]
    /\ copy \in [Requests -> Rows \cup {NoRow}]
    /\ meant \in [Ids -> Rows \cup {NoRow}]
    /\ stale \subseteq Requests /\ unsure \subseteq Requests
    /\ twins \subseteq Logins

Init ==
    /\ ids = {}
    /\ row = [i \in Ids |-> NoRow]
    /\ link = [s \in Subs |-> 0]
    /\ kind = [r \in Requests |-> "none"] /\ at = [r \in Requests |-> "idle"]
    /\ on = [r \in Requests |-> 0]
    /\ copy = [r \in Requests |-> NoRow]
    /\ meant = [i \in Ids |-> NoRow]
    /\ stale = {} /\ unsure = {} /\ twins = {}

Goes(r, stage) == at' = [at EXCEPT ![r] = stage] /\ UNCHANGED memory

Begin(r, what, stage, id, c) ==
    /\ at[r] = "idle"
    /\ kind' = [kind EXCEPT ![r] = what]
    /\ at' = [at EXCEPT ![r] = stage]
    /\ on' = [on EXCEPT ![r] = id]
    /\ copy' = [copy EXCEPT ![r] = c]
    /\ UNCHANGED <<table, link, history>>

Forget(r) ==
    /\ kind' = [kind EXCEPT ![r] = "none"]
    /\ at' = [at EXCEPT ![r] = "idle"]
    /\ on' = [on EXCEPT ![r] = 0]
    /\ copy' = [copy EXCEPT ![r] = NoRow]

(* The answer of r, with an error unless everything went well.             *)
Finish(r) ==
    /\ Forget(r)
    /\ stale' = stale \ {r} /\ unsure' = unsure \ {r}
    /\ UNCHANGED <<table, link, meant, twins>>

EmailTaken(e) == \E i \in ids : row[i].email = e
NameTaken(n)  == \E i \in ids : row[i].name = n

-----------------------------------------------------------------------------
(* New accounts.                                                           *)

Register(r) ==
    \E n \in Logins, e \in Emails, p \in Passwords :
        Begin(r, "register", "email", 0, [name |-> n, email |-> e, pass |-> p, status |-> TRUE])

(* AdminUserCreate validates only the name and stores the password as it   *)
(* was typed, which no later comparison of hashes matches.                 *)
AdminUserCreate(r) ==
    \E n \in Logins, e \in Emails, s \in BOOLEAN :
        Begin(r, "create", "name", 0, [name |-> n, email |-> e, pass |-> "raw", status |-> s])

(* HandleOAuthLogin goes on for a provider id that is not linked, and for  *)
(* any when the query for it fails.                                        *)
OAuthLogin(r) ==
    \E s \in Subs, e \in Emails :
        Begin(r, "oauth", "owner", 0, [name |-> s, email |-> e, pass |-> s, status |-> TRUE])

(* A login, by password or with a provider id that is linked, and a        *)
(* request that is refused at once: nothing changes but the session.       *)
Refuse(r) == at[r] = "idle" /\ UNCHANGED vars

(* validationUser.  A query that fails counts as an email that is free.    *)
CheckEmail(r) ==
    /\ at[r] = "email"
    /\ \/ /\ Goes(r, IF kind[r] = "register" THEN "name" ELSE "write")
          /\ UNCHANGED <<table, link, history>>
       \/ EmailTaken(copy[r].email) /\ Finish(r)

\* Slip: the username is not validated.
CheckNothing(r) ==
    /\ at[r] = "name"
    /\ Goes(r, "insert") /\ UNCHANGED <<table, link, history>>

CheckName(r) ==
    /\ at[r] = "name"
    /\ \/ /\ ~NameTaken(copy[r].name)
          /\ Goes(r, "insert") /\ UNCHANGED <<table, link, history>>
       \/ NameTaken(copy[r].name) /\ Finish(r)
       \/ /\ Goes(r, "insert")    \* the query fails
          /\ unsure' = unsure \cup {r}
          /\ UNCHANGED <<table, link, meant, stale, twins>>

(* The condition of user_helper.go:32 is inverted: the account of a known  *)
(* email is not linked but created again.                                  *)
FindOwner(r) ==
    /\ at[r] = "owner"
    /\ EmailTaken(copy[r].email)
    /\ Goes(r, "insert")
    /\ UNCHANGED <<table, link, history>>

(* For an unknown email, or when the query fails, it dereferences nil, and *)
(* nothing recovers: all requests in flight are lost.                      *)
Crash(r) ==
    /\ at[r] = "owner"
    /\ kind' = [q \in Requests |-> "none"] /\ at' = [q \in Requests |-> "idle"]
    /\ on' = [q \in Requests |-> 0] /\ copy' = [q \in Requests |-> NoRow]
    /\ stale' = {} /\ unsure' = {}
    /\ UNCHANGED <<table, link, meant, twins>>

(* The accountID is the next of the sequence, or the one that the body of  *)
(* Register or AdminUserCreate brings: the identity is BY DEFAULT.  One    *)
(* that is taken, by either, fails.  An OAuth login goes on with the id    *)
(* that the insert returned.                                               *)
InsertAs(r, id) ==
    /\ at[r] = "insert" /\ ~EmailTaken(copy[r].email)
    /\ ids' = ids \cup {id}
    /\ row' = [row EXCEPT ![id] = copy[r]]
    /\ meant' = [meant EXCEPT ![id] = copy[r]]
    /\ IF kind[r] = "oauth"
       THEN /\ at' = [at EXCEPT ![r] = "link"]
            /\ on' = [on EXCEPT ![r] = id]
            /\ UNCHANGED <<kind, copy>>
       ELSE Forget(r)
    /\ unsure' = (unsure \cup {q \in Requests : at[q] = "insert" /\ copy[q].name = copy[r].name}) \ {r}
    /\ twins' = IF r \in unsure \/ kind[r] = "oauth" THEN twins \cup {copy[r].name} ELSE twins
    /\ UNCHANGED <<link, stale>>

Insert(r) == \E id \in Ids \ ids : InsertAs(r, id)

(* The provider and its id are unique in oauth_account.                    *)
Link(r) ==
    /\ at[r] = "link"
    /\ link[copy[r].name] = 0
    /\ link' = [link EXCEPT ![copy[r].name] = on[r]]
    /\ Forget(r)
    /\ stale' = stale \ {r} /\ unsure' = unsure \ {r}
    /\ UNCHANGED <<table, meant, twins>>

-----------------------------------------------------------------------------
(* Updates: the row is read, a column is set, the row is written.          *)

\* Slip: the columns of the body that are absent are taken over.
UpdateWithBody(r) ==
    \E id \in ids, e \in Emails :
        Begin(r, "update", IF e = row[id].email THEN "write" ELSE "email", id,
              [row[id] EXCEPT !.email = e, !.status = FALSE])

HandleUpdateAccount(r) ==
    \E id \in ids, e \in Emails :
        Begin(r, "update", IF e = row[id].email THEN "write" ELSE "email", id,
              [row[id] EXCEPT !.email = e])

(* The old password must match the hash, the new one must not.             *)
ChangePassword(r) ==
    \E id \in ids, p \in Passwords :
        /\ row[id].pass \notin {"raw", p}
        /\ Begin(r, "password", "write", id, [row[id] EXCEPT !.pass = p])

HandleResetPassword(r) ==
    \E id \in ids, p \in Passwords :
        Begin(r, "password", "write", id, [row[id] EXCEPT !.pass = p])

AdminUserUpdate(r) ==
    \E id \in ids, s \in BOOLEAN :
        Begin(r, "admin", "write", id, [row[id] EXCEPT !.status = s])

(* The column that r is meant to set.                                      *)
SetColumn(r, c) ==
    CASE kind[r] = "update"   -> [c EXCEPT !.email = copy[r].email]
      [] kind[r] = "password" -> [c EXCEPT !.pass = copy[r].pass]
      [] OTHER                -> [c EXCEPT !.status = copy[r].status]

EmailFree(id, e) == \A i \in ids \ {id} : row[i].email # e

Holders(id) == {q \in Requests : on[q] = id /\ at[q] \in {"email", "write"}}

(* The whole row is written, with what other requests wrote since it was   *)
(* read undone.                                                            *)
Write(r) ==
    /\ at[r] = "write"
    /\ EmailFree(on[r], copy[r].email)
    /\ row' = [row EXCEPT ![on[r]] = copy[r]]
    /\ meant' = [meant EXCEPT ![on[r]] = IF r \in stale THEN copy[r] ELSE SetColumn(r, @)]
    /\ stale' = (stale \cup Holders(on[r])) \ {r}
    /\ Forget(r)
    /\ unsure' = unsure \ {r}
    /\ UNCHANGED <<ids, link, twins>>

(* A query fails or a constraint refuses the row.                          *)
Fail(r) == at[r] # "idle" /\ Finish(r)

Create(r) == Register(r) \/ AdminUserCreate(r) \/ OAuthLogin(r) \/ Refuse(r)
Check(r)  == CheckEmail(r) \/ CheckName(r) \/ FindOwner(r) \/ Crash(r)
Change(r) == \/ HandleUpdateAccount(r) \/ ChangePassword(r) \/ HandleResetPassword(r)
             \/ AdminUserUpdate(r)

Next ==
    \E r \in Requests :
        \/ Create(r) \/ Check(r) \/ Insert(r) \/ Link(r)
        \/ Change(r) \/ Write(r) \/ Fail(r)

Spec == Init /\ [][Next]_vars

-----------------------------------------------------------------------------

(* A request that writes the row as it last was changes its own column and *)
(* no other: a password, a status or an email that was set is undone only  *)
(* by a request that read the row before and writes it after.              *)
ColumnsAsMeant == \A i \in ids : row[i] = meant[i]

(* Two accounts have one username only if a request inserted it after the  *)
(* check failed, after another one took it, or without a check (OAuth).    *)
NamesDistinct ==
    \A i, j \in ids : row[i].name = row[j].name => i = j \/ row[i].name \in twins

(* HandleOAuthLogin "checks if OAuth account exists, links account if      *)
(* needed, or creates new account": it goes on to create one only if no    *)
(* account has the email of the provider.                                  *)
CreatedOtherwise ==
    [][\A r \in Requests :
        at[r] = "owner" /\ at'[r] = "insert" => ~EmailTaken(copy[r].email)]_vars

=============================================================================
