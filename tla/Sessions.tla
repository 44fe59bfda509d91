------------------------------ MODULE Sessions ------------------------------
(***************************************************************************)
(* The refresh tokens of one user (auth/auth.go).  Redis keeps a record    *)
(* refresh:{jti} for seven days and a set user_refresh:{username} of the   *)
(* jtis that is kept for eight days after it was last renewed.  Login,     *)
(* rotation and logout are concurrent requests; every Redis command is a   *)
(* step and may fail, and most of its errors are dropped.                  *)
(* RevokeAllUserRefreshTokens is left out: it runs when a signed token     *)
(* differs from the one saved under its own, unique jti.                   *)
(***************************************************************************)
EXTENDS Naturals

CONSTANTS
    Requests,    \* slots for requests in flight
    MaxTokens    \* bound: tokens that are created

ASSUME MaxTokensAssumption == MaxTokens \in Nat

VARIABLES
    nextJti,     \* the next jti; uuids never repeat
    record,      \* jtis with a record in Redis
    index,       \* the user's set
    covered,     \* records whose save ended by renewing the TTL of the set
    at,          \* the next step of each request
    old,         \* the token it revokes, or 0
    new,         \* the token it creates, or 0
    issued,      \* tokens clients were given
    login,       \* history: the first token of the chain of rotations
    fate,        \* history: why a token may have no record
    raced,       \* history: tokens that two requests rotated at once
    undeleted    \* history: tokens whose revocation did not end

redis   == <<record, index, covered>>
request == <<at, old, new>>
history == <<login, fate, raced, undeleted>>
vars    == <<nextJti, redis, request, issued, history>>

Jtis   == 1..MaxTokens
Stages == {"idle", "set", "sadd", "undo", "expire", "get", "srem", "del", "respond"}
Fates  == {"none", "unsaved", "expired", "revoked"}

TypeOK ==
    /\ nextJti \in 1..(MaxTokens + 1)
    /\ record \subseteq Jtis /\ index \subseteq Jtis /\ covered \subseteq Jtis
    /\ at \in [Requests -> Stages]
    /\ old \in [Requests -> {0} \cup Jtis]
    /\ new \in [Requests -> {0} \cup Jtis]
    /\ issued \subseteq Jtis
    /\ login \in [Jtis -> {0} \cup Jtis]
    /\ fate \in [Jtis -> Fates]
    /\ raced \subseteq Jtis /\ undeleted \subseteq Jtis

Init ==
    /\ nextJti = 1
    /\ record = {} /\ index = {} /\ covered = {}
    /\ at = [r \in Requests |-> "idle"]
    /\ old = [r \in Requests |-> 0]
    /\ new = [r \in Requests |-> 0]
    /\ issued = {}
    /\ login = [j \in Jtis |-> 0]
    /\ fate = [j \in Jtis |-> "none"]
    /\ raced = {} /\ undeleted = {}

Goes(r, stage) == at' = [at EXCEPT ![r] = stage] /\ UNCHANGED <<old, new>>

Enter(r, stage, o, n) ==
    /\ at' = [at EXCEPT ![r] = stage]
    /\ old' = [old EXCEPT ![r] = o]
    /\ new' = [new EXCEPT ![r] = n]

Finish(r) == Enter(r, "idle", 0, 0)

Drop(j) ==
    /\ record' = record \ {j}
    /\ covered' = covered \ {j}

-----------------------------------------------------------------------------
(* CreateToken.                                                            *)

\* Slip: a rotated token keeps its jti.
JtiKept(j) == IF j = 0 THEN nextJti ELSE j

Jti(j) == nextJti

CreateToken(r, j, first) ==
    /\ at[r] = "idle"
    /\ nextJti \in Jtis
    /\ nextJti' = nextJti + 1
    /\ Enter(r, "set", j, Jti(j))
    /\ login' = [login EXCEPT ![nextJti] = first]
    /\ UNCHANGED <<redis, issued, fate, undeleted>>

(* LoginWithAccount, after the password or the provider was checked.       *)
Login(r) == CreateToken(r, 0, nextJti) /\ UNCHANGED raced

(* A refresh without a cookie, with a token that does not verify or has no *)
(* record, or when Redis does not answer.                                  *)
Refuse(r) == at[r] = "idle" /\ UNCHANGED vars

(* ValidateRefreshAndRotate up to the new token.                           *)
Refresh(r, j) ==
    /\ j \in issued \cap record
    /\ CreateToken(r, j, login[j])
    /\ raced' = IF \E s \in Requests : old[s] = j /\ new[s] # 0
                THEN raced \cup {j} ELSE raced

(* HandleLogout; a token that does not verify is not revoked.              *)
Logout(r, j) ==
    /\ at[r] = "idle"
    /\ j \in issued
    /\ Enter(r, "get", j, 0)
    /\ UNCHANGED <<nextJti, redis, issued, history>>

-----------------------------------------------------------------------------
(* SaveRefreshToken.  Its callers drop the error.                          *)

\* Slip: the old token is not revoked.
SavedNotRevoked(r) == Goes(r, "respond")

Saved(r) == Goes(r, IF old[r] = 0 THEN "respond" ELSE "get")

Unsaved(r) == fate' = [fate EXCEPT ![new[r]] = "unsaved"]

Set(r) ==
    /\ at[r] = "set"
    /\ record' = record \cup {new[r]}
    /\ Goes(r, "sadd")
    /\ UNCHANGED <<nextJti, index, covered, issued, history>>

SetFails(r) ==
    /\ at[r] = "set"
    /\ Unsaved(r)
    /\ Saved(r)
    /\ UNCHANGED <<nextJti, redis, issued, login, raced, undeleted>>

SAdd(r) ==
    /\ at[r] = "sadd"
    /\ index' = index \cup {new[r]}
    /\ Goes(r, "expire")
    /\ UNCHANGED <<nextJti, record, covered, issued, history>>

SAddFails(r) ==
    /\ at[r] = "sadd"
    /\ Unsaved(r)
    /\ Goes(r, "undo")
    /\ UNCHANGED <<nextJti, redis, issued, login, raced, undeleted>>

(* Best effort: DEL of the record, or not even that.                       *)
Undo(r) ==
    /\ at[r] = "undo"
    /\ Drop(new[r]) \/ UNCHANGED <<record, covered>>
    /\ Saved(r)
    /\ UNCHANGED <<nextJti, index, issued, history>>

(* EXPIRE of the set, which may be gone: it outlives the record from here. *)
Expire(r) ==
    /\ at[r] = "expire"
    /\ covered' = covered \cup ({new[r]} \cap record \cap index)
    /\ Saved(r)
    /\ UNCHANGED <<nextJti, record, index, issued, history>>

ExpireFails(r) ==
    /\ at[r] = "expire"
    /\ Saved(r)
    /\ UNCHANGED <<nextJti, redis, issued, history>>

-----------------------------------------------------------------------------
(* RevokeRefreshToken.                                                     *)

(* GET of the record; "del" when there is none or Redis does not answer.   *)
Get(r) ==
    /\ at[r] = "get"
    /\ \/ old[r] \in record /\ Goes(r, "srem")
       \/ Goes(r, "del")
    /\ UNCHANGED <<nextJti, redis, issued, history>>

\* Slip: the new jti is removed from the set.
SRemNew(r) ==
    /\ at[r] = "srem"
    /\ index' = index \ {new[r]}
    /\ Goes(r, "del")
    /\ UNCHANGED <<nextJti, record, covered, issued, history>>

SRem(r) ==
    /\ at[r] = "srem"
    /\ index' \in {index \ {old[r]}, index}
    /\ Goes(r, "del")
    /\ UNCHANGED <<nextJti, record, covered, issued, history>>

Revoked(r) == IF new[r] = 0 THEN Finish(r) ELSE Goes(r, "respond")

\* Slip: the new token is revoked.
DelNew(r) ==
    /\ at[r] = "del"
    /\ Drop(new[r])
    /\ fate' = [fate EXCEPT ![old[r]] = "revoked"]
    /\ Revoked(r)
    /\ UNCHANGED <<nextJti, index, issued, login, raced, undeleted>>

Del(r) ==
    /\ at[r] = "del"
    /\ Drop(old[r])
    /\ fate' = [fate EXCEPT ![old[r]] = "revoked"]
    /\ Revoked(r)
    /\ UNCHANGED <<nextJti, index, issued, login, raced, undeleted>>

DelFails(r) ==
    /\ at[r] = "del"
    /\ undeleted' = undeleted \cup {old[r]}
    /\ Revoked(r)
    /\ UNCHANGED <<nextJti, redis, issued, login, fate, raced>>

(* SaveCookie: the client has the new token.                               *)
Respond(r) ==
    /\ at[r] = "respond"
    /\ issued' = issued \cup {new[r]}
    /\ Finish(r)
    /\ UNCHANGED <<nextJti, redis, history>>

-----------------------------------------------------------------------------
(* The process dies, or the answer is lost.                                *)
Die(r) ==
    /\ at[r] # "idle"
    /\ undeleted' = IF at[r] = "del" THEN undeleted \cup {old[r]} ELSE undeleted
    /\ Finish(r)
    /\ UNCHANGED <<nextJti, redis, issued, login, fate, raced>>

(* Seven days have passed.                                                 *)
RecordExpires(j) ==
    /\ j \in record
    /\ Drop(j)
    /\ fate' = [fate EXCEPT ![j] = "expired"]
    /\ UNCHANGED <<nextJti, index, request, issued, login, raced, undeleted>>

(* Eight days have passed since the set was renewed.                       *)
IndexExpires ==
    /\ covered = {}
    /\ index # {}
    /\ index' = {}
    /\ UNCHANGED <<nextJti, record, covered, request, issued, history>>

Save(r) == \/ Set(r) \/ SetFails(r) \/ SAdd(r) \/ SAddFails(r) \/ Undo(r)
           \/ Expire(r) \/ ExpireFails(r)

Revoke(r) == Get(r) \/ SRem(r) \/ Del(r) \/ DelFails(r)

Next ==
    \/ \E r \in Requests :
         \/ Login(r) \/ Refuse(r) \/ \E j \in Jtis : Refresh(r, j) \/ Logout(r, j)
         \/ Save(r) \/ Revoke(r) \/ Respond(r) \/ Die(r)
    \/ \E j \in Jtis : RecordExpires(j)
    \/ IndexExpires

Spec == Init /\ [][Next]_vars

-----------------------------------------------------------------------------

(* A revoked token never gets its record back: no rotation or login that   *)
(* is still in flight saves it again.                                      *)
RevokedStaysRevoked == \A j \in Jtis : fate[j] = "revoked" => j \notin record

(* A client whose token is refused was logged out or rotated, waited too   *)
(* long, or was given a token that Redis had not saved (auth.go:195 drops  *)
(* the error): no other request took the record away.                      *)
EndsForAReason == \A j \in issued \ record : fate[j] # "none"

(* One login leaves at most one token that works, however often it is      *)
(* rotated, unless two requests rotated one token at the same time or a    *)
(* revocation did not end.                                                 *)
Clean(first) == \A j \in raced \cup undeleted : login[j] # first

OneTokenPerLogin ==
    \A i, j \in issued \cap record :
        login[i] = login[j] /\ Clean(login[i]) => i = j

(* A live token that was saved without an error is in the user's set until *)
(* it is revoked: the set, which has one TTL for all, outlives the records.*)
Leaving(j) ==
    \/ \E r \in Requests : at[r] = "del" /\ old[r] = j
    \/ j \in undeleted

ListedOnceSaved == \A j \in covered : j \in index \/ Leaving(j)

=============================================================================
