--------------------------- MODULE SessionsProofs ---------------------------
(***************************************************************************)
(* Theorems about Sessions, for any number of requests and tokens.         *)
(***************************************************************************)
EXTENDS Sessions, TLAPS

(* What a request in flight works on: old was given to a client, new not   *)
(* yet, and no two requests create the same token.                         *)
OldInv ==
    \A r \in Requests :
        /\ old[r] # 0 => old[r] \in issued
        /\ at[r] \in {"get", "srem", "del"} => old[r] # 0
        /\ at[r] = "idle" => old[r] = 0

NewInv ==
    /\ \A r \in Requests :
        /\ at[r] \in {"set", "sadd", "undo", "expire", "respond"} => new[r] # 0
        /\ at[r] = "idle" => new[r] = 0
        /\ new[r] # 0 => new[r] < nextJti /\ new[r] \notin issued
    /\ \A r, s \in Requests : new[r] # 0 /\ new[r] = new[s] => r = s

(* Jtis that were not handed out by the sequence appear nowhere.           *)
FreshInv ==
    /\ \A j \in issued : j < nextJti
    /\ \A j \in record : j < nextJti
    /\ raced \subseteq issued
    /\ undeleted \subseteq issued
    /\ covered \subseteq record
    /\ \A j \in Jtis : j < nextJti => login[j] < nextJti

Base == TypeOK /\ OldInv /\ NewInv /\ FreshInv

-----------------------------------------------------------------------------

LEMMA CreateKeepsBase ==
  ASSUME Base, NEW r \in Requests, NEW j \in {0} \cup issued,
         NEW first \in 0..nextJti, CreateToken(r, j, first),
         raced' \in SUBSET issued
  PROVE  Base'
<1> USE MaxTokensAssumption
        DEF Base, CreateToken, Jti, Enter, redis, Jtis
<1>1. TypeOK'
  BY DEF TypeOK, FreshInv, Stages
<1>2. OldInv'
  BY DEF TypeOK, OldInv
<1>3. NewInv'
  BY DEF TypeOK, NewInv, FreshInv
<1>4. FreshInv'
  BY DEF TypeOK, FreshInv
<1>q. QED BY <1>1, <1>2, <1>3, <1>4

(* The steps that move a request from one Redis command to the next.       *)
LEMMA GoKeepsBase ==
  ASSUME Base, NEW r \in Requests, NEW stage \in Stages \ {"idle"},
         Goes(r, stage), UNCHANGED <<nextJti, issued, raced, login>>,
         at[r] # "idle",
         stage \in {"get", "srem", "del"} => old[r] # 0,
         stage \in {"set", "sadd", "undo", "expire", "respond"} => new[r] # 0,
         record' \subseteq record \cup {new[r]}, new[r] = 0 => record' \subseteq record,
         covered' \subseteq record', index' \subseteq Jtis,
         fate' \in [Jtis -> Fates],
         undeleted' \subseteq undeleted \cup {old[r]}, old[r] = 0 => undeleted' = undeleted
  PROVE  Base'
<1> USE MaxTokensAssumption DEF Base, Goes, Jtis
<1>1. TypeOK'
  BY DEF TypeOK, OldInv, NewInv, FreshInv
<1>2. OldInv'
  BY DEF TypeOK, OldInv, Stages
<1>3. NewInv'
  BY DEF TypeOK, NewInv, Stages
<1>4. FreshInv'
  BY DEF TypeOK, FreshInv, NewInv, OldInv
<1>q. QED BY <1>1, <1>2, <1>3, <1>4

LEMMA FinishKeepsBase ==
  ASSUME Base, NEW r \in Requests, Finish(r), UNCHANGED <<nextJti, raced, login>>,
         issued' \subseteq issued \cup {new[r]}, issued \subseteq issued',
         new[r] = 0 => issued' = issued,
         record' \subseteq record, covered' \subseteq record', index' \subseteq Jtis,
         fate' \in [Jtis -> Fates],
         undeleted' \subseteq undeleted \cup {old[r]}, old[r] = 0 => undeleted' = undeleted
  PROVE  Base'
<1> USE MaxTokensAssumption DEF Base, Finish, Enter, Jtis
<1>1. TypeOK'
  BY DEF TypeOK, OldInv, NewInv, FreshInv, Stages
<1>2. OldInv'
  BY DEF TypeOK, OldInv
<1>3. NewInv'
  BY DEF TypeOK, NewInv
<1>4. FreshInv'
  BY DEF TypeOK, FreshInv, NewInv, OldInv
<1>q. QED BY <1>1, <1>2, <1>3, <1>4

LEMMA SaveKeepsBase ==
  ASSUME Base, NEW r \in Requests, Save(r) PROVE Base'
<1> USE DEF redis, request, history
<1>n. at[r] \in {"set", "sadd", "undo", "expire"} /\ new[r] # 0
  BY DEF Base, NewInv, Save, Set, SetFails, SAdd, SAddFails, Undo, Expire, ExpireFails
<1>t. /\ new[r] \in Jtis
      /\ index \subseteq Jtis
      /\ fate \in [Jtis -> Fates]
      /\ [fate EXCEPT ![new[r]] = "unsaved"] \in [Jtis -> Fates]
      /\ covered \subseteq record
  BY <1>n DEF Base, TypeOK, FreshInv, Fates
<1>g. Stages \ {"idle"} = {"set", "sadd", "undo", "expire", "get", "srem", "del", "respond"}
  BY DEF Stages
<1>s. ASSUME Saved(r)
      PROVE  \E stage \in {"respond", "get"} :
                 Goes(r, stage) /\ (stage = "get" => old[r] # 0)
  BY <1>s DEF Saved
<1>1. CASE Set(r)
  BY <1>1, <1>n, <1>t, <1>g, GoKeepsBase DEF Set
<1>2. CASE SetFails(r)
  BY <1>2, <1>n, <1>t, <1>g, <1>s, GoKeepsBase DEF SetFails, Unsaved
<1>3. CASE SAdd(r)
  BY <1>3, <1>n, <1>t, <1>g, GoKeepsBase DEF SAdd
<1>4. CASE SAddFails(r)
  BY <1>4, <1>n, <1>t, <1>g, GoKeepsBase DEF SAddFails, Unsaved
<1>5. CASE Undo(r)
  BY <1>5, <1>n, <1>t, <1>g, <1>s, GoKeepsBase DEF Undo, Drop
<1>6. CASE Expire(r)
  BY <1>6, <1>n, <1>t, <1>g, <1>s, GoKeepsBase DEF Expire
<1>7. CASE ExpireFails(r)
  BY <1>7, <1>n, <1>t, <1>g, <1>s, GoKeepsBase DEF ExpireFails
<1>q. QED BY <1>1, <1>2, <1>3, <1>4, <1>5, <1>6, <1>7 DEF Save

LEMMA RevokeKeepsBase ==
  ASSUME Base, NEW r \in Requests, Revoke(r) PROVE Base'
<1> USE DEF redis, request, history
<1>n. at[r] \in {"get", "srem", "del"} /\ old[r] # 0
  BY DEF Base, OldInv, Revoke, Get, SRem, Del, DelFails
<1>t. /\ old[r] \in Jtis
      /\ index \subseteq Jtis
      /\ fate \in [Jtis -> Fates]
      /\ [fate EXCEPT ![old[r]] = "revoked"] \in [Jtis -> Fates]
      /\ covered \subseteq record
  BY <1>n DEF Base, TypeOK, FreshInv, Fates
<1>g. Stages \ {"idle"} = {"set", "sadd", "undo", "expire", "get", "srem", "del", "respond"}
  BY DEF Stages
<1>1. CASE Get(r)
  <2>1. PICK stage \in {"srem", "del"} : Goes(r, stage)
    BY <1>1 DEF Get
  <2>q. QED BY <1>1, <2>1, <1>n, <1>t, <1>g, GoKeepsBase DEF Get
<1>2. CASE SRem(r)
  BY <1>2, <1>n, <1>t, <1>g, GoKeepsBase DEF SRem
<1>3. CASE Del(r)
  <2>1. CASE new[r] = 0
    BY <1>3, <2>1, <1>n, <1>t, FinishKeepsBase DEF Del, Drop, Revoked
  <2>2. CASE new[r] # 0
    BY <1>3, <2>2, <1>n, <1>t, <1>g, GoKeepsBase DEF Del, Drop, Revoked
  <2>q. QED BY <2>1, <2>2
<1>4. CASE DelFails(r)
  <2>1. CASE new[r] = 0
    BY <1>4, <2>1, <1>n, <1>t, FinishKeepsBase DEF DelFails, Revoked
  <2>2. CASE new[r] # 0
    BY <1>4, <2>2, <1>n, <1>t, <1>g, GoKeepsBase DEF DelFails, Revoked
  <2>q. QED BY <2>1, <2>2
<1>q. QED BY <1>1, <1>2, <1>3, <1>4 DEF Revoke

LEMMA BaseHolds == Spec => []Base
<1>1. Init => Base
  BY MaxTokensAssumption
     DEF Init, Base, TypeOK, OldInv, NewInv, FreshInv, Jtis, Stages, Fates
<1>2. Base /\ [Next]_vars => Base'
  <2> SUFFICES ASSUME Base, [Next]_vars PROVE Base'
    OBVIOUS
  <2> USE DEF redis, request, history
  <2>t. /\ index \subseteq Jtis
        /\ fate \in [Jtis -> Fates]
        /\ covered \subseteq record
        /\ nextJti \in Nat
    BY MaxTokensAssumption DEF Base, TypeOK, FreshInv
  <2>1. ASSUME NEW r \in Requests, Login(r) PROVE Base'
    <3>1. nextJti \in 0..nextJti
      BY MaxTokensAssumption DEF Base, TypeOK
    <3>2. raced' \in SUBSET issued
      BY <2>1 DEF Login, Base, FreshInv
    <3>q. QED BY <2>1, <3>1, <3>2, CreateKeepsBase DEF Login
  <2>2. ASSUME NEW r \in Requests, NEW j \in Jtis, Refresh(r, j) PROVE Base'
    <3>1. login[j] \in 0..nextJti /\ raced' \in SUBSET issued
      BY <2>2, MaxTokensAssumption DEF Refresh, Base, FreshInv, TypeOK, Jtis
    <3>q. QED BY <2>2, <3>1, CreateKeepsBase DEF Refresh
  <2>3. ASSUME NEW r \in Requests, NEW j \in Jtis, Logout(r, j) PROVE Base'
    <3> USE <2>3, MaxTokensAssumption DEF Logout, Enter, Base, Jtis
    <3>1. TypeOK'
      BY DEF TypeOK, Stages
    <3>2. OldInv'
      BY DEF TypeOK, OldInv
    <3>3. NewInv'
      BY DEF TypeOK, NewInv
    <3>4. FreshInv'
      BY DEF FreshInv
    <3>q. QED BY <3>1, <3>2, <3>3, <3>4
  <2>4. ASSUME NEW r \in Requests, Respond(r) PROVE Base'
    BY <2>4, <2>t, FinishKeepsBase DEF Respond, Base, NewInv
  <2>5. ASSUME NEW r \in Requests, Die(r) PROVE Base'
    <3>1. at[r] = "del" => old[r] # 0
      BY DEF Base, OldInv
    <3>q. QED BY <2>5, <2>t, <3>1, FinishKeepsBase DEF Die
  <2>6. ASSUME NEW j \in Jtis, RecordExpires(j) PROVE Base'
    BY <2>6 DEF RecordExpires, Drop, Base, TypeOK, OldInv, NewInv, FreshInv, Fates
  <2>7. CASE IndexExpires
    BY <2>7 DEF IndexExpires, Base, TypeOK, OldInv, NewInv, FreshInv
  <2>8. CASE UNCHANGED vars
    BY <2>8 DEF vars, Base, TypeOK, OldInv, NewInv, FreshInv
  <2>q. QED
    BY <2>1, <2>2, <2>3, <2>4, <2>5, <2>6, <2>7, <2>8, SaveKeepsBase,
       RevokeKeepsBase DEF Next, Refuse
<1>q. QED BY <1>1, <1>2, PTL DEF Spec

(* Every variable keeps its type: in particular only tokens are given to   *)
(* clients.                                                                *)
THEOREM TypeCorrect == Spec => []TypeOK
<1>1. Base => TypeOK
  BY DEF Base
<1>q. QED BY <1>1, BaseHolds, PTL

-----------------------------------------------------------------------------
(* A revoked token was given to a client before, so it is not one that a   *)
(* request in flight is about to save.                                     *)
RevokedInv == \A j \in Jtis : fate[j] = "revoked" => j \in issued /\ j \notin record

(* Every revoked token stays without a record, for any number of           *)
(* concurrent rotations, logins and logouts.                               *)
THEOREM RevokedTokensStayRevoked == Spec => []RevokedStaysRevoked
<1>1. Init => RevokedInv
  BY DEF Init, RevokedInv
<1>2. Base /\ RevokedInv /\ [Next]_vars => RevokedInv'
  <2> SUFFICES ASSUME Base, RevokedInv, [Next]_vars PROVE RevokedInv'
    OBVIOUS
  <2> USE DEF RevokedInv, Jtis, redis, request, history
  <2>t. fate \in [Jtis -> Fates]
    BY DEF Base, TypeOK
  <2>1. ASSUME NEW r \in Requests, Login(r) \/ Respond(r) \/ Die(r)
        PROVE  RevokedInv'
    BY <2>1 DEF Login, CreateToken, Respond, Die
  <2>2. ASSUME NEW r \in Requests, NEW j \in Jtis, Refresh(r, j) \/ Logout(r, j)
        PROVE  RevokedInv'
    BY <2>2 DEF Refresh, CreateToken, Logout
  <2>3. ASSUME NEW r \in Requests, Save(r) PROVE RevokedInv'
    <3>n. new[r] \notin issued
      BY <2>3 DEF Base, NewInv, Save, Set, SetFails, SAdd, SAddFails, Undo, Expire, ExpireFails
    <3>1. CASE Set(r)
      BY <3>1, <3>n DEF Set
    <3>2. CASE SetFails(r) \/ SAddFails(r)
      BY <3>2, <3>n, <2>t DEF SetFails, SAddFails, Unsaved
    <3>3. CASE SAdd(r) \/ Undo(r) \/ Expire(r) \/ ExpireFails(r)
      BY <3>3 DEF SAdd, Undo, Drop, Expire, ExpireFails
    <3>q. QED BY <2>3, <3>1, <3>2, <3>3 DEF Save
  <2>4. ASSUME NEW r \in Requests, Revoke(r) PROVE RevokedInv'
    <3>1. CASE Get(r) \/ SRem(r) \/ DelFails(r)
      BY <3>1 DEF Get, SRem, DelFails
    <3>2. CASE Del(r)
      <4>1. old[r] \in issued
        BY <3>2 DEF Del, Base, OldInv
      <4>q. QED BY <3>2, <4>1, <2>t DEF Del, Drop
    <3>q. QED BY <2>4, <3>1, <3>2 DEF Revoke
  <2>5. ASSUME NEW j \in Jtis, RecordExpires(j) PROVE RevokedInv'
    BY <2>5, <2>t DEF RecordExpires, Drop
  <2>6. CASE IndexExpires \/ UNCHANGED vars
    BY <2>6 DEF IndexExpires, vars
  <2>q. QED BY <2>1, <2>2, <2>3, <2>4, <2>5, <2>6 DEF Next, Refuse
<1>3. RevokedInv => RevokedStaysRevoked
  BY DEF RevokedInv, RevokedStaysRevoked
<1>q. QED BY <1>1, <1>2, <1>3, BaseHolds, PTL DEF Spec

-----------------------------------------------------------------------------
(* The token a request is about to hand out is saved or has a reason too.  *)
ReasonInv ==
    /\ EndsForAReason
    /\ \A r \in Requests : new[r] # 0 /\ at[r] # "set" =>
           new[r] \in record \/ fate[new[r]] # "none"
    /\ \A r \in Requests : at[r] = "undo" => fate[new[r]] # "none"

(* What keeps ReasonInv: a record is removed with a reason, and a request  *)
(* leaves "set" only with its token saved or with a reason.                *)
LEMMA ReasonKept ==
  ASSUME Base, ReasonInv, fate' \in [Jtis -> Fates],
         \A j \in Jtis : fate[j] # "none" => fate'[j] # "none",
         \A j \in Jtis : j \in record => j \in record' \/ fate'[j] # "none",
         \A j \in issued' : j \in issued \/ \E r \in Requests : j = new[r] /\ j # 0 /\ at[r] # "set",
         \A r \in Requests : new'[r] = new[r] \/ new'[r] = 0 \/ at'[r] = "set",
         \A r \in Requests : at'[r] # "set" /\ at[r] = "set" /\ new'[r] # 0 =>
             new[r] \in record' \/ fate'[new[r]] # "none",
         \A r \in Requests : at'[r] = "undo" => (at[r] = "undo" /\ new'[r] = new[r]) \/ fate'[new'[r]] # "none"
  PROVE  ReasonInv'
<1> USE DEF Base
<1>t. /\ \A r \in Requests : new[r] \in {0} \cup Jtis
      /\ issued \subseteq Jtis
      /\ \A r \in Requests : at[r] = "undo" => new[r] # 0
  BY DEF TypeOK, NewInv
<1>1. EndsForAReason'
  BY <1>t DEF ReasonInv, EndsForAReason
<1>2. ASSUME NEW r \in Requests, new'[r] # 0, at'[r] # "set"
      PROVE  new'[r] \in record' \/ fate'[new'[r]] # "none"
  BY <1>2, <1>t DEF ReasonInv
<1>3. ASSUME NEW r \in Requests, at'[r] = "undo"
      PROVE  fate'[new'[r]] # "none"
  BY <1>3, <1>t DEF ReasonInv
<1>q. QED BY <1>1, <1>2, <1>3 DEF ReasonInv

(* Any client whose token no longer works was logged out, rotated, waited  *)
(* too long or was answered although Redis had failed to save the token.   *)
THEOREM EveryEndHasAReason == Spec => []EndsForAReason
<1>1. Init => ReasonInv
  BY DEF Init, ReasonInv, EndsForAReason
<1>2. Base /\ ReasonInv /\ [Next]_vars => ReasonInv'
  <2> SUFFICES ASSUME Base, ReasonInv, [Next]_vars PROVE ReasonInv'
    OBVIOUS
  <2> USE DEF redis, request, history
  <2>t. /\ fate \in [Jtis -> Fates]
        /\ at \in [Requests -> Stages] /\ old \in [Requests -> {0} \cup Jtis]
        /\ new \in [Requests -> {0} \cup Jtis]
        /\ \A r \in Requests : at[r] = "undo" => fate[new[r]] # "none"
    BY DEF Base, TypeOK, ReasonInv
  <2>f. \A j, why : why \in Fates \ {"none"} =>
            /\ [fate EXCEPT ![j] = why] \in [Jtis -> Fates]
            /\ \A i \in Jtis : fate[i] # "none" => [fate EXCEPT ![j] = why][i] # "none"
            /\ j \in Jtis => [fate EXCEPT ![j] = why][j] # "none"
    BY <2>t
  <2>1. ASSUME NEW r \in Requests, NEW j \in {0} \cup Jtis, NEW first,
               CreateToken(r, j, first)
        PROVE  ReasonInv'
    BY <2>1, <2>t, ReasonKept DEF CreateToken, Enter
  <2>2. ASSUME NEW r \in Requests, NEW j \in Jtis, Logout(r, j) PROVE ReasonInv'
    BY <2>2, <2>t, ReasonKept DEF Logout, Enter
  <2>3. ASSUME NEW r \in Requests, Save(r) PROVE ReasonInv'
    <3>n. new[r] \in Jtis
      BY <2>3, <2>t DEF Base, NewInv, Save, Set, SetFails, SAdd, SAddFails, Undo, Expire, ExpireFails
    <3>u. /\ [fate EXCEPT ![new[r]] = "unsaved"] \in [Jtis -> Fates]
          /\ [fate EXCEPT ![new[r]] = "unsaved"][new[r]] # "none"
          /\ \A i \in Jtis : fate[i] # "none" => [fate EXCEPT ![new[r]] = "unsaved"][i] # "none"
      BY <2>f, <3>n DEF Fates
    <3>1. CASE Set(r)
      BY <3>1, <3>n, <2>t, ReasonKept DEF Set, Goes
    <3>2. CASE SetFails(r)
      BY <3>2, <3>n, <3>u, <2>t, ReasonKept DEF SetFails, Unsaved, Saved, Goes
    <3>3. CASE SAdd(r)
      BY <3>3, <2>t, ReasonKept DEF SAdd, Goes
    <3>4. CASE SAddFails(r)
      BY <3>4, <3>n, <3>u, <2>t, ReasonKept DEF SAddFails, Unsaved, Goes
    <3>5. CASE Undo(r)
      BY <3>5, <2>t, ReasonKept DEF Undo, Drop, Saved, Goes
    <3>6. CASE Expire(r) \/ ExpireFails(r)
      BY <3>6, <2>t, ReasonKept DEF Expire, ExpireFails, Saved, Goes
    <3>q. QED BY <2>3, <3>1, <3>2, <3>3, <3>4, <3>5, <3>6 DEF Save
  <2>4. ASSUME NEW r \in Requests, Revoke(r) PROVE ReasonInv'
    <3>1. CASE Get(r)
      BY <3>1, <2>t, ReasonKept DEF Get, Goes
    <3>2. CASE SRem(r)
      BY <3>2, <2>t, ReasonKept DEF SRem, Goes
    <3>3. CASE Del(r)
      <4>1. old[r] \in Jtis
        BY <3>3, <2>t DEF Del, Base, OldInv
      <4>2. /\ [fate EXCEPT ![old[r]] = "revoked"] \in [Jtis -> Fates]
            /\ [fate EXCEPT ![old[r]] = "revoked"][old[r]] # "none"
            /\ \A i \in Jtis : fate[i] # "none" => [fate EXCEPT ![old[r]] = "revoked"][i] # "none"
        BY <2>f, <4>1 DEF Fates
      <4>q. QED BY <3>3, <4>1, <4>2, <2>t, ReasonKept DEF Del, Drop, Revoked, Goes, Finish, Enter
    <3>4. CASE DelFails(r)
      BY <3>4, <2>t, ReasonKept DEF DelFails, Revoked, Goes, Finish, Enter
    <3>q. QED BY <2>4, <3>1, <3>2, <3>3, <3>4 DEF Revoke
  <2>5. ASSUME NEW r \in Requests, Respond(r) PROVE ReasonInv'
    BY <2>5, <2>t, ReasonKept DEF Respond, Finish, Enter, Base, NewInv
  <2>6. ASSUME NEW r \in Requests, Die(r) PROVE ReasonInv'
    BY <2>6, <2>t, ReasonKept DEF Die, Finish, Enter
  <2>7. ASSUME NEW j \in Jtis, RecordExpires(j) PROVE ReasonInv'
    <3>1. /\ [fate EXCEPT ![j] = "expired"] \in [Jtis -> Fates]
          /\ [fate EXCEPT ![j] = "expired"][j] # "none"
          /\ \A i \in Jtis : fate[i] # "none" => [fate EXCEPT ![j] = "expired"][i] # "none"
      BY <2>f, <2>7 DEF Fates
    <3>q. QED BY <2>7, <3>1, <2>t, ReasonKept DEF RecordExpires, Drop, Base, TypeOK
  <2>8. CASE IndexExpires \/ UNCHANGED vars
    BY <2>8, <2>t, ReasonKept DEF IndexExpires, vars
  <2>q. QED
    BY <2>1, <2>2, <2>3, <2>4, <2>5, <2>6, <2>7, <2>8 DEF Next, Login, Refresh, Refuse
<1>3. ReasonInv => EndsForAReason
  BY DEF ReasonInv
<1>q. QED BY <1>1, <1>2, <1>3, BaseHolds, PTL DEF Spec

-----------------------------------------------------------------------------
(* The set of a user lists every live token that was saved without an      *)
(* error, until the last step of its revocation.                           *)
THEOREM SavedTokensAreListed == Spec => []ListedOnceSaved
<1>1. Init => ListedOnceSaved
  BY DEF Init, ListedOnceSaved
<1>2. Base /\ ListedOnceSaved /\ [Next]_vars => ListedOnceSaved'
  <2> SUFFICES ASSUME Base, ListedOnceSaved, [Next]_vars PROVE ListedOnceSaved'
    OBVIOUS
  <2> USE DEF ListedOnceSaved, Leaving, redis, request, history
  <2>t. at \in [Requests -> Stages] /\ old \in [Requests -> {0} \cup Jtis]
    BY DEF Base, TypeOK
  <2>1. ASSUME NEW r \in Requests, Login(r) \/ \E j \in Jtis : Refresh(r, j) \/ Logout(r, j)
        PROVE  ListedOnceSaved'
    BY <2>1, <2>t DEF Login, Refresh, CreateToken, Logout, Enter
  <2>2. ASSUME NEW r \in Requests, Save(r) PROVE ListedOnceSaved'
    BY <2>2, <2>t DEF Save, Set, SetFails, SAdd, SAddFails, Undo, Drop, Expire, ExpireFails,
                      Saved, Goes
  <2>3. ASSUME NEW r \in Requests, Revoke(r) PROVE ListedOnceSaved'
    <3>1. CASE Get(r) \/ SRem(r)
      BY <3>1, <2>t DEF Get, SRem, Goes
    <3>2. CASE Del(r)
      BY <3>2, <2>t DEF Del, Drop, Revoked, Goes, Finish, Enter
    <3>3. CASE DelFails(r)
      BY <3>3, <2>t DEF DelFails, Revoked, Goes, Finish, Enter
    <3>q. QED BY <2>3, <3>1, <3>2, <3>3 DEF Revoke
  <2>4. ASSUME NEW r \in Requests, Respond(r) \/ Die(r) PROVE ListedOnceSaved'
    BY <2>4, <2>t DEF Respond, Die, Finish, Enter
  <2>5. ASSUME NEW j \in Jtis, RecordExpires(j) PROVE ListedOnceSaved'
    BY <2>5 DEF RecordExpires, Drop
  <2>6. CASE IndexExpires \/ UNCHANGED vars
    BY <2>6 DEF IndexExpires, vars
  <2>q. QED BY <2>1, <2>2, <2>3, <2>4, <2>5, <2>6 DEF Next, Refuse
<1>q. QED BY <1>1, <1>2, BaseHolds, PTL DEF Spec

-----------------------------------------------------------------------------
(* The chains of rotations.  A login starts a chain of its own; a rotation *)
(* continues that of the token it revokes.                                 *)
Rotates(r) == new[r] # 0 /\ old[r] # 0

LoginInv ==
    /\ \A r \in Requests : new[r] # 0 /\ old[r] = 0 =>
           /\ login[new[r]] = new[r]
           /\ \A j \in issued : login[j] # new[r]
    /\ \A r \in Requests : Rotates(r) => login[new[r]] = login[old[r]]

(* A rotation of a clean chain is the only one, and its old token the only *)
(* one that works until it is revoked.                                     *)
RotationInv ==
    /\ \A r \in Requests : Rotates(r) /\ Clean(login[old[r]]) =>
           \A j \in issued \cap record : login[j] = login[old[r]] =>
               j = old[r] /\ at[r] # "respond"
    /\ \A r, s \in Requests :
           Rotates(r) /\ Rotates(s) /\ login[old[r]] = login[old[s]] /\ Clean(login[old[r]])
           => r = s

ChainInv == LoginInv /\ RotationInv /\ OneTokenPerLogin

(* Steps that create and hand out no token: no record is added to a token  *)
(* clients have, and a rotation gets as far as its answer only with the    *)
(* old token gone or its revocation not ended.                             *)
LEMMA ChainKept ==
  ASSUME Base, ChainInv,
         UNCHANGED <<issued, login, raced>>, undeleted \subseteq undeleted',
         undeleted' \subseteq issued,
         record' \cap issued \subseteq record,
         \A r \in Requests : new'[r] # 0 => new'[r] = new[r] /\ old'[r] = old[r],
         \A r \in Requests : Rotates(r) /\ at'[r] = "respond" /\ new'[r] # 0 =>
             at[r] = "respond" \/ old[r] \notin record' \/ old[r] \in undeleted'
  PROVE  ChainInv'
<1> USE DEF ChainInv
<1>c. \A first : Clean(first)' => Clean(first)
  BY DEF Clean
<1>o. \A r \in Requests : old[r] # 0 => old[r] \in issued
  BY DEF Base, OldInv
<1>1. LoginInv'
  BY DEF LoginInv, Rotates
<1>2. OneTokenPerLogin'
  BY <1>c DEF OneTokenPerLogin
<1>3. ASSUME NEW r \in Requests, Rotates(r)', Clean(login[old[r]])',
             NEW j \in (issued \cap record)', login'[j] = login'[old'[r]]
      PROVE  j = old'[r] /\ at'[r] # "respond"
  <2>1. Rotates(r) /\ old'[r] = old[r] /\ new'[r] = new[r] /\ Clean(login[old[r]])
    BY <1>3, <1>c DEF Rotates
  <2>2. j = old[r] /\ at[r] # "respond"
    BY <2>1, <1>3 DEF RotationInv
  <2>3. old[r] \notin undeleted'
    BY <2>1, <1>3 DEF Clean
  <2>q. QED BY <2>1, <2>2, <2>3, <1>3 DEF Rotates
<1>4. ASSUME NEW r \in Requests, NEW s \in Requests, Rotates(r)', Rotates(s)',
             login'[old'[r]] = login'[old'[s]], Clean(login[old[r]])'
      PROVE  r = s
  BY <1>4, <1>c DEF Rotates, RotationInv
<1>q. QED BY <1>1, <1>2, <1>3, <1>4 DEF RotationInv

LEMMA CreateKeepsChain ==
  ASSUME Base, Base', ChainInv, NEW r \in Requests, NEW j \in {0} \cup (issued \cap record),
         CreateToken(r, j, IF j = 0 THEN nextJti ELSE login[j]),
         raced \subseteq raced',
         j # 0 /\ (\E s \in Requests : old[s] = j /\ new[s] # 0) => j \in raced'
  PROVE  ChainInv'
<1> USE DEF ChainInv, CreateToken, Jti, Enter, redis
<1>t. /\ nextJti \in Jtis /\ nextJti # 0 /\ login \in [Jtis -> {0} \cup Jtis]
      /\ issued \subseteq Jtis /\ 0 \notin Jtis
      /\ at \in [Requests -> Stages] /\ old \in [Requests -> {0} \cup Jtis]
      /\ new \in [Requests -> {0} \cup Jtis]
      /\ raced \subseteq issued /\ raced' \subseteq issued /\ undeleted \subseteq issued
  BY MaxTokensAssumption DEF Base, TypeOK, FreshInv, Jtis
<1>f. /\ nextJti \notin issued
      /\ \A i \in issued : login[i] # nextJti
      /\ \A s \in Requests : new[s] # nextJti
      /\ \A s \in Requests : old[s] # 0 => old[s] \in issued
  BY <1>t, MaxTokensAssumption DEF Base, FreshInv, NewInv, OldInv, TypeOK, Jtis
<1>l. /\ \A i \in Jtis : i # nextJti => login'[i] = login[i]
      /\ login'[nextJti] = IF j = 0 THEN nextJti ELSE login[j]
  BY <1>t
<1>s. /\ \A s \in Requests : s # r => at'[s] = at[s] /\ old'[s] = old[s] /\ new'[s] = new[s]
      /\ at'[r] = "set" /\ old'[r] = j /\ new'[r] = nextJti
  BY <1>t
<1>c. \A first : Clean(first)' => Clean(first)
  BY <1>t, <1>f, <1>l DEF Clean
<1>1. LoginInv'
  BY <1>t, <1>f, <1>l, <1>s DEF LoginInv, Rotates
<1>2. OneTokenPerLogin'
  BY <1>t, <1>f, <1>l, <1>c DEF OneTokenPerLogin
<1>3. ASSUME NEW s \in Requests, Rotates(s)', Clean(login[old[s]])',
             NEW i \in (issued \cap record)', login'[i] = login'[old'[s]]
      PROVE  i = old'[s] /\ at'[s] # "respond"
  <2>0. i \in issued \cap record /\ login'[i] = login[i]
    BY <1>3, <1>t, <1>f, <1>l
  <2>1. CASE s = r
    <3>1. j \in issued \cap record /\ login'[j] = login[j] /\ Clean(login[j])
      BY <2>1, <1>3, <1>s, <1>t, <1>f, <1>l, <1>c DEF Rotates
    <3>2. i = j
      BY <3>1, <2>0, <2>1, <1>3, <1>s DEF OneTokenPerLogin
    <3>q. QED BY <3>2, <2>1, <1>s
  <2>2. CASE s # r
    <3>1. /\ Rotates(s) /\ old[s] \in issued /\ login'[old[s]] = login[old[s]]
          /\ Clean(login[old[s]])
      BY <2>2, <1>3, <1>s, <1>t, <1>f, <1>l, <1>c DEF Rotates
    <3>2. at'[s] = at[s] /\ old'[s] = old[s] /\ login[i] = login[old[s]]
      BY <3>1, <2>0, <2>2, <1>3, <1>s
    <3>q. QED BY <3>1, <3>2, <2>0 DEF RotationInv
  <2>q. QED BY <2>1, <2>2
<1>4. ASSUME NEW s \in Requests, s # r, Rotates(s)', Rotates(r)',
             login'[old'[s]] = login'[old'[r]], Clean(login[old[r]])'
      PROVE  FALSE
  <2>1. /\ j \in issued \cap record /\ login'[j] = login[j]
        /\ Rotates(s) /\ old[s] \in issued /\ login'[old[s]] = login[old[s]]
        /\ Clean(login[j])
    BY <1>4, <1>s, <1>t, <1>f, <1>l, <1>c DEF Rotates
  <2>2. login[j] = login[old[s]] /\ Clean(login[old[s]])
    BY <2>1, <1>4, <1>s
  <2>3. j = old[s]
    BY <2>1, <2>2 DEF RotationInv
  <2>4. j \in raced'
    BY <2>1, <2>3, <1>t DEF Rotates
  <2>q. QED BY <2>1, <2>4, <1>4, <1>s DEF Clean
<1>5. ASSUME NEW s \in Requests, NEW u \in Requests, s # r, u # r, Rotates(s)', Rotates(u)',
             login'[old'[s]] = login'[old'[u]], Clean(login[old[s]])'
      PROVE  s = u
  <2>1. /\ Rotates(s) /\ old[s] \in issued /\ login'[old[s]] = login[old[s]]
        /\ Rotates(u) /\ old[u] \in issued /\ login'[old[u]] = login[old[u]]
        /\ Clean(login[old[s]])
    BY <1>5, <1>s, <1>t, <1>f, <1>l, <1>c DEF Rotates
  <2>q. QED BY <2>1, <1>5, <1>s DEF RotationInv
<1>6. RotationInv'
  BY <1>3, <1>4, <1>5 DEF RotationInv
<1>q. QED BY <1>1, <1>2, <1>6

(* A token that is handed out starts a chain, or nothing else of its chain *)
(* works any more.                                                         *)
LEMMA RespondKeepsChain ==
  ASSUME Base, ChainInv, NEW r \in Requests, Respond(r)
  PROVE  ChainInv'
<1> USE DEF ChainInv, Respond, Finish, Enter, redis, history
<1>t. /\ at \in [Requests -> Stages] /\ old \in [Requests -> {0} \cup Jtis]
      /\ new \in [Requests -> {0} \cup Jtis]
      /\ new[r] # 0 /\ new[r] \notin issued
      /\ \A s \in Requests : s # r /\ new[s] # 0 => new[s] # new[r]
      /\ \A s \in Requests : old[s] # 0 => old[s] \in issued
  BY DEF Base, TypeOK, NewInv, OldInv
<1>s. /\ \A s \in Requests : s # r => at'[s] = at[s] /\ old'[s] = old[s] /\ new'[s] = new[s]
      /\ new'[r] = 0 /\ issued' = issued \cup {new[r]}
  BY <1>t
<1>c. \A first : Clean(first)' <=> Clean(first)
  BY DEF Clean
<1>n. ASSUME NEW i \in issued \cap record, login[i] = login[new[r]], Clean(login[i])
      PROVE  FALSE
  <2>1. CASE old[r] = 0
    BY <2>1, <1>n, <1>t DEF LoginInv
  <2>2. CASE old[r] # 0
    BY <2>2, <1>n, <1>t DEF LoginInv, RotationInv, Rotates
  <2>q. QED BY <2>1, <2>2
<1>m. ASSUME NEW s \in Requests, s # r, Rotates(s), Clean(login[old[s]])
      PROVE  login[new[r]] # login[old[s]]
  <2>1. CASE old[r] = 0
    BY <2>1, <1>m, <1>t DEF LoginInv, Rotates
  <2>2. CASE old[r] # 0
    BY <2>2, <1>m, <1>t DEF LoginInv, RotationInv, Rotates
  <2>q. QED BY <2>1, <2>2
<1>1. LoginInv'
  <2>1. ASSUME NEW s \in Requests, new'[s] # 0, old'[s] = 0
        PROVE  login[new[r]] # new[s]
    <3>1. s # r /\ new[s] # 0 /\ old[s] = 0
      BY <2>1, <1>s
    <3>q. QED BY <3>1, <1>t DEF LoginInv, Rotates
  <2>q. QED BY <2>1, <1>s DEF LoginInv, Rotates
<1>2. OneTokenPerLogin'
  BY <1>n, <1>s, <1>c DEF OneTokenPerLogin
<1>3. RotationInv'
  BY <1>m, <1>s, <1>c DEF RotationInv, Rotates
<1>q. QED BY <1>1, <1>2, <1>3

(* For any number of requests, a login leaves at most one token that       *)
(* works, unless a token was rotated twice at once or a DEL failed.        *)
THEOREM OneTokenPerLoginHolds == Spec => []OneTokenPerLogin
<1>1. Init => ChainInv
  BY DEF Init, ChainInv, LoginInv, RotationInv, OneTokenPerLogin, Rotates
<1>2. Base /\ Base' /\ ChainInv /\ [Next]_vars => ChainInv'
  <2> SUFFICES ASSUME Base, Base', ChainInv, [Next]_vars PROVE ChainInv'
    OBVIOUS
  <2> USE DEF redis, request, history
  <2>t. /\ at \in [Requests -> Stages] /\ old \in [Requests -> {0} \cup Jtis]
        /\ new \in [Requests -> {0} \cup Jtis]
        /\ undeleted \subseteq issued /\ undeleted' \subseteq issued'
    BY DEF Base, TypeOK, FreshInv
  <2>1. ASSUME NEW r \in Requests, Login(r) PROVE ChainInv'
    BY <2>1, CreateKeepsChain DEF Login
  <2>2. ASSUME NEW r \in Requests, NEW j \in Jtis, Refresh(r, j) PROVE ChainInv'
    <3>1. j # 0
      BY MaxTokensAssumption DEF Jtis
    <3>q. QED BY <2>2, <3>1, CreateKeepsChain DEF Refresh
  <2>3. ASSUME NEW r \in Requests, NEW j \in Jtis, Logout(r, j) PROVE ChainInv'
    BY <2>3, <2>t, ChainKept DEF Logout, Enter
  <2>4. ASSUME NEW r \in Requests, Save(r) PROVE ChainInv'
    <3>n. new[r] \notin issued
      BY <2>4 DEF Base, NewInv, Save, Set, SetFails, SAdd, SAddFails, Undo, Expire, ExpireFails
    <3>1. CASE Set(r)
      BY <3>1, <3>n, <2>t, ChainKept DEF Set, Goes
    <3>2. CASE SetFails(r)
      BY <3>2, <2>t, ChainKept DEF SetFails, Saved, Goes, Rotates
    <3>3. CASE SAdd(r) \/ SAddFails(r)
      BY <3>3, <2>t, ChainKept DEF SAdd, SAddFails, Goes
    <3>4. CASE Undo(r)
      BY <3>4, <2>t, ChainKept DEF Undo, Drop, Saved, Goes, Rotates
    <3>5. CASE Expire(r) \/ ExpireFails(r)
      BY <3>5, <2>t, ChainKept DEF Expire, ExpireFails, Saved, Goes, Rotates
    <3>q. QED BY <2>4, <3>1, <3>2, <3>3, <3>4, <3>5 DEF Save
  <2>5. ASSUME NEW r \in Requests, Revoke(r) PROVE ChainInv'
    <3>1. CASE Get(r) \/ SRem(r)
      BY <3>1, <2>t, ChainKept DEF Get, SRem, Goes
    <3>2. CASE Del(r)
      BY <3>2, <2>t, ChainKept DEF Del, Drop, Revoked, Goes, Finish, Enter, Rotates
    <3>3. CASE DelFails(r)
      BY <3>3, <2>t, ChainKept DEF DelFails, Revoked, Goes, Finish, Enter, Rotates
    <3>q. QED BY <2>5, <3>1, <3>2, <3>3 DEF Revoke
  <2>6. ASSUME NEW r \in Requests, Respond(r) PROVE ChainInv'
    BY <2>6, RespondKeepsChain
  <2>7. ASSUME NEW r \in Requests, Die(r) PROVE ChainInv'
    BY <2>7, <2>t, ChainKept DEF Die, Finish, Enter
  <2>8. ASSUME NEW j \in Jtis, RecordExpires(j) PROVE ChainInv'
    BY <2>8, <2>t, ChainKept DEF RecordExpires, Drop
  <2>9. CASE IndexExpires \/ UNCHANGED vars
    BY <2>9, <2>t, ChainKept DEF IndexExpires, vars
  <2>q. QED
    BY <2>1, <2>2, <2>3, <2>4, <2>5, <2>6, <2>7, <2>8, <2>9 DEF Next, Refuse
<1>3. ChainInv => OneTokenPerLogin
  BY DEF ChainInv
<1>q. QED BY <1>1, <1>2, <1>3, BaseHolds, PTL DEF Spec

=============================================================================
