-------------------------- MODULE CatalogueProofs ---------------------------
(***************************************************************************)
(* Theorems about Catalogue, for any requests, products, types and images, *)
(* and about PageCaches, for any requests and any number of writes.  A     *)
(* write of a product is one of those that PageCaches knows; nothing else  *)
(* is shared.                                                              *)
(***************************************************************************)
EXTENDS Catalogue, PageCaches, SequenceTheorems, FiniteSetTheorems, TLAPS

(* What a request holds at each stage.                                     *)
StageOf(r) ==
    /\ at[r] \in {"insert", "row", "olds", "replace", "commit"} => copy[r] \in Row
    /\ at[r] \in {"row", "olds", "replace", "commit"} => on[r] \in Ids
    /\ at[r] \in {"typeInsert", "typeFind", "typeWrite"} => copy[r] \in TypeRow
    /\ at[r] \in {"typeFind", "typeWrite"} => on[r] \in Types
    /\ at[r] \in {"insert", "olds", "replace"} => brings[r]
    /\ at[r] \notin {"replace", "commit"} => olds[r] = {}
    /\ r \in matched =>
        at[r] \in {"olds", "replace", "commit"} /\ typeName[copy[r].type] # ""
    /\ r \in matched /\ ~Exists(on[r]) => at[r] = "commit" /\ brings[r] /\ olds[r] = {}
    /\ r \notin matched /\ at[r] = "commit" /\ brings[r] => Exists(on[r])

(* A row is locked by one request.                                         *)
OneLocks == \A q, r \in matched : on[q] = on[r] => q = r

(* Images belong to one product, which is there, and so do those a request *)
(* has read.                                                               *)
ImagesApart ==
    /\ \A p, q \in Ids : p # q => images[p] \cap images[q] = {}
    /\ \A p \in Ids : ~Exists(p) => images[p] = {}
    /\ \A r \in Requests, p \in Ids : p # on[r] => olds[r] \cap images[p] = {}

(* Whoever has the lock has read the current images.                       *)
OldsCurrent ==
    \A r \in matched :
        at[r] \in {"replace", "commit"} /\ brings[r] /\ Exists(on[r]) /\ on[r] \notin strays
            => olds[r] = images[on[r]]

Base ==
    /\ TypeOK
    /\ \A r \in Requests : StageOf(r)
    /\ OneLocks /\ ImagesApart /\ OldsCurrent
    /\ ImagesOfOneUpdate

-----------------------------------------------------------------------------

LEMMA RowFacts ==
  /\ \A row \in Row : row # NoRow
  /\ \A row \in TypeRow : row.name \in Names /\ row.name # ""
<1>1. ASSUME NEW row \in Row PROVE row # NoRow
  <2>1. DOMAIN row = {"cover", "type"} /\ DOMAIN NoRow = {"name"}
    BY DEF Row, NoRow
  <2>q. QED BY <2>1
<1>q. QED BY <1>1, CatalogueBounds DEF TypeRow

LEMMA InitBase == Init => Base
<1> SUFFICES ASSUME Init PROVE Base
  OBVIOUS
<1>1. \A p \in Ids : ~Exists(p) /\ images[p] = {}
  BY DEF Init, Exists
<1>2. TypeOK
  BY <1>1 DEF Init, TypeOK, Stages
<1>3. \A r \in Requests : StageOf(r)
  BY DEF Init, StageOf
<1>q. QED BY <1>1, <1>2, <1>3
          DEF Init, Base, OneLocks, ImagesApart, OldsCurrent, ImagesOfOneUpdate

(* A step of r that changes no product and no image.                       *)
LEMMA OwnStepKeepsBase ==
  ASSUME Base, TypeOK', NEW r \in Requests,
         UNCHANGED <<product, images, latest, strays>>,
         \A t \in Types : typeName[t] # "" => typeName'[t] # "",
         \A s \in Requests : s # r =>
            /\ at'[s] = at[s] /\ on'[s] = on[s] /\ copy'[s] = copy[s]
            /\ brings'[s] = brings[s] /\ olds'[s] = olds[s]
            /\ s \in matched' <=> s \in matched,
         StageOf(r)',
         r \in matched' => \A s \in matched : s # r => on[s] # on'[r],
         \A p \in Ids : p # on'[r] => olds'[r] \cap images[p] = {},
         r \in matched' /\ at'[r] \in {"replace", "commit"} /\ brings'[r]
            /\ Exists(on'[r]) /\ on'[r] \notin strays => olds'[r] = images[on'[r]]
  PROVE  Base'
<1>1. ASSUME NEW s \in Requests PROVE StageOf(s)'
  <2>1. CASE s = r
    BY <2>1
  <2>2. CASE s # r
    <3>1. StageOf(s) /\ (s \in matched => copy[s] \in Row)
      BY DEF Base, StageOf
    <3>2. s \in matched => copy[s].type \in Types
      BY <3>1 DEF Row
    <3>q. QED BY <2>2, <3>1, <3>2 DEF StageOf, Exists
  <2>q. QED BY <2>1, <2>2
<1>2. matched \subseteq Requests /\ matched' \subseteq Requests
  BY DEF Base, TypeOK
<1>3. OneLocks'
  <2>1. \A s \in matched' : s # r => s \in matched /\ on'[s] = on[s]
    BY <1>2
  <2>2. SUFFICES ASSUME NEW s \in matched', NEW t \in matched', on'[s] = on'[t]
                 PROVE  s = t
    BY DEF OneLocks
  <2>3. CASE s # r /\ t # r
    <3>1. s \in matched /\ t \in matched /\ on[s] = on[t]
      BY <2>1, <2>2, <2>3
    <3>2. OneLocks
      BY DEF Base
    <3>q. QED BY <3>1, <3>2 DEF OneLocks
  <2>4. CASE s = r \/ t = r
    BY <2>1, <2>2, <2>4
  <2>q. QED BY <2>3, <2>4
<1>4. ImagesApart'
  <2>1. \A s \in Requests, p \in Ids : p # on'[s] => olds'[s] \cap images[p] = {}
    BY DEF Base, ImagesApart
  <2>q. QED BY <2>1 DEF Base, ImagesApart, Exists
<1>5. OldsCurrent'
  <2>1. SUFFICES ASSUME NEW s \in matched', at'[s] \in {"replace", "commit"}, brings'[s],
                        product[on'[s]] # NoRow, on'[s] \notin strays
                 PROVE  olds'[s] = images[on'[s]]
    BY DEF OldsCurrent, Exists
  <2>2. CASE s = r
    BY <2>1, <2>2 DEF Exists
  <2>3. CASE s # r
    <3>1. s \in matched /\ at[s] \in {"replace", "commit"} /\ brings[s]
      BY <1>2, <2>1, <2>3
    <3>2. product[on[s]] # NoRow /\ on[s] \notin strays
      BY <1>2, <2>1, <2>3
    <3>3. OldsCurrent
      BY DEF Base
    <3>4. olds[s] = images[on[s]]
      BY <3>1, <3>2, <3>3 DEF OldsCurrent, Exists
    <3>q. QED BY <1>2, <2>3, <3>4
  <2>q. QED BY <2>2, <2>3
<1>6. ImagesOfOneUpdate'
  BY DEF Base, ImagesOfOneUpdate, Exists
<1>q. QED BY <1>1, <1>3, <1>4, <1>5, <1>6 DEF Base

LEMMA EmptyOlds ==
  ASSUME Base, TypeOK', NEW r \in Requests,
         UNCHANGED <<product, images, latest, strays>>,
         \A t \in Types : typeName[t] # "" => typeName'[t] # "",
         \A s \in Requests : s # r =>
            /\ at'[s] = at[s] /\ on'[s] = on[s] /\ copy'[s] = copy[s]
            /\ brings'[s] = brings[s] /\ olds'[s] = olds[s]
            /\ s \in matched' <=> s \in matched,
         StageOf(r)', r \notin matched', olds'[r] = {}
  PROVE  Base'
BY OwnStepKeepsBase

(* Forget and Finish, at the end of a request.                             *)
LEMMA IdleStage ==
  ASSUME TypeOK, NEW r \in Requests, Forget(r),
         at' = [at EXCEPT ![r] = "idle"], on' = [on EXCEPT ![r] = 0]
  PROVE  /\ StageOf(r)' /\ r \notin matched' /\ olds'[r] = {}
         /\ \A s \in Requests : s # r =>
            /\ at'[s] = at[s] /\ on'[s] = on[s] /\ copy'[s] = copy[s]
            /\ brings'[s] = brings[s] /\ olds'[s] = olds[s]
            /\ s \in matched' <=> s \in matched
         /\ at' \in [Requests -> Stages]
         /\ on' \in [Requests -> {0} \cup Ids \cup Types]
         /\ copy' \in [Requests -> Row \cup TypeRow \cup {NoRow}]
         /\ brings' \in [Requests -> BOOLEAN]
         /\ olds' \in [Requests -> SUBSET Sets]
         /\ matched' \subseteq Requests
BY DEF TypeOK, Forget, StageOf, Stages

-----------------------------------------------------------------------------
(* The steps that change no product and no image.                          *)

LEMMA BeginKeepsBase ==
  ASSUME Base, NEW r \in Requests,
         NEW stage \in {"insert", "row", "typeInsert", "typeFind"},
         NEW i \in {0} \cup Ids \cup Types, NEW row \in Row \cup TypeRow, NEW with \in BOOLEAN,
         Begin(r, stage, i, row, with), stale' \subseteq Requests,
         UNCHANGED <<latest, strays>>,
         stage \in {"insert", "row"} => row \in Row,
         stage = "row" => i \in Ids,
         stage \in {"typeInsert", "typeFind"} => row \in TypeRow,
         stage = "typeFind" => i \in Types,
         stage = "insert" => with
  PROVE  Base'
<1>1. StageOf(r) /\ TypeOK
  BY DEF Base
<1>2. r \notin matched /\ olds[r] = {}
  BY <1>1 DEF StageOf, Begin
<1>3. TypeOK'
  BY <1>1 DEF Begin, TypeOK, Stages, tables, Exists
<1>4. /\ at'[r] = stage /\ on'[r] = i /\ copy'[r] = row /\ brings'[r] = with
      /\ olds'[r] = {} /\ r \notin matched'
  BY <1>1, <1>2 DEF Begin, TypeOK
<1>5. StageOf(r)'
  BY <1>4 DEF StageOf
<1>6. \A s \in Requests : s # r =>
        /\ at'[s] = at[s] /\ on'[s] = on[s] /\ copy'[s] = copy[s]
        /\ brings'[s] = brings[s] /\ olds'[s] = olds[s]
        /\ s \in matched' <=> s \in matched
  BY <1>1 DEF Begin, TypeOK
<1>q. QED BY <1>3, <1>4, <1>5, <1>6, EmptyOlds DEF Begin, tables

LEMMA InsertKeepsBase ==
  ASSUME Base, NEW r \in Requests, InsertProduct(r) PROVE Base'
<1>1. StageOf(r) /\ TypeOK
  BY DEF Base
<1>2. copy[r] \in Row /\ brings[r] /\ olds[r] = {} /\ r \notin matched
  BY <1>1 DEF StageOf, InsertProduct
<1>3. PICK p \in Ids : /\ ~Exists(p) /\ \A q \in matched : on[q] # p
                       /\ on' = [on EXCEPT ![r] = p]
  BY DEF InsertProduct
<1>4. TypeOK'
  BY <1>1, <1>3 DEF InsertProduct, TypeOK, Stages, tables, history, Exists
<1>5. /\ at'[r] = "commit" /\ on'[r] = p /\ copy'[r] = copy[r] /\ brings'[r] = brings[r]
      /\ olds'[r] = {} /\ UNCHANGED <<product, images, typeName, latest, strays>>
  BY <1>1, <1>2, <1>3 DEF InsertProduct, TypeOK, tables, history
<1>6. StageOf(r)'
  BY <1>2, <1>3, <1>5 DEF InsertProduct, StageOf, TypeExists
<1>7. \A s \in Requests : s # r =>
        /\ at'[s] = at[s] /\ on'[s] = on[s] /\ copy'[s] = copy[s]
        /\ brings'[s] = brings[s] /\ olds'[s] = olds[s]
        /\ s \in matched' <=> s \in matched
  BY <1>1, <1>3 DEF InsertProduct, TypeOK
<1>8. ~Exists(on'[r])
  BY <1>3, <1>5
<1>q. QED BY <1>3, <1>4, <1>5, <1>6, <1>7, <1>8, OwnStepKeepsBase

LEMMA UpdateRowKeepsBase ==
  ASSUME Base, NEW r \in Requests, UpdateRow(r) PROVE Base'
<1>1. StageOf(r) /\ TypeOK
  BY DEF Base
<1>2. copy[r] \in Row /\ on[r] \in Ids /\ olds[r] = {} /\ r \notin matched
  BY <1>1 DEF StageOf, UpdateRow
<1>3. /\ UNCHANGED <<tables, on, copy, brings, olds, history>>
      /\ at' = [at EXCEPT ![r] = IF brings[r] THEN "olds" ELSE "commit"]
      /\ matched' \in {matched, matched \cup {r}}
      /\ r \in matched' => Exists(on[r]) /\ ~Locked(on[r]) /\ TypeExists(copy[r].type)
  BY <1>2 DEF UpdateRow, Goes
<1>4. TypeOK'
  BY <1>1, <1>3 DEF TypeOK, Stages, tables, history, Exists
<1>5. at'[r] = (IF brings[r] THEN "olds" ELSE "commit")
  BY <1>1, <1>3 DEF TypeOK
<1>6. StageOf(r)'
  <2>1. /\ product' = product /\ typeName' = typeName /\ on' = on /\ copy' = copy
        /\ brings' = brings /\ olds' = olds
    BY <1>3 DEF tables
  <2>2. r \in matched' => product[on[r]] # NoRow /\ typeName[copy[r].type] # ""
    BY <1>3 DEF TypeExists, Exists
  <2>3. CASE brings[r]
    BY <1>2, <1>5, <2>1, <2>2, <2>3 DEF StageOf, Exists
  <2>4. CASE ~brings[r]
    BY <1>2, <1>5, <2>1, <2>2, <2>4 DEF StageOf, Exists
  <2>q. QED BY <2>3, <2>4
<1>7. \A s \in Requests : s # r => at'[s] = at[s] /\ (s \in matched' <=> s \in matched)
  <2>1. ASSUME NEW s \in Requests, s # r PROVE at'[s] = at[s]
    BY <1>1, <1>3, <2>1 DEF TypeOK
  <2>2. ASSUME NEW s \in Requests, s # r PROVE s \in matched' <=> s \in matched
    BY <1>3, <2>2
  <2>q. QED BY <2>1, <2>2
<1>8. r \in matched' => \A s \in matched : s # r => on[s] # on'[r]
  BY <1>3 DEF Locked
<1>9. at'[r] \in {"replace", "commit"} => ~brings'[r]
  BY <1>3, <1>5
<1>q. QED BY <1>2, <1>3, <1>4, <1>6, <1>7, <1>8, <1>9, OwnStepKeepsBase DEF tables, history

LEMMA FetchKeepsBase ==
  ASSUME Base, NEW r \in Requests, FetchOldImages(r) PROVE Base'
<1>1. StageOf(r) /\ TypeOK
  BY DEF Base
<1>2. copy[r] \in Row /\ on[r] \in Ids /\ brings[r]
  BY <1>1 DEF StageOf, FetchOldImages
<1>3. /\ UNCHANGED <<tables, on, copy, brings, matched, history>>
      /\ at'[r] = "replace" /\ olds'[r] = images[on[r]]
      /\ \A s \in Requests : s # r => at'[s] = at[s] /\ olds'[s] = olds[s]
  BY <1>1 DEF FetchOldImages, Goes, TypeOK, OldImages
<1>4. TypeOK'
  BY <1>1, <1>2 DEF FetchOldImages, Goes, TypeOK, Stages, tables, history, Exists, OldImages
<1>5. StageOf(r)'
  BY <1>1, <1>2, <1>3 DEF StageOf, tables, Exists, FetchOldImages
<1>6. r \in matched' => \A s \in matched : s # r => on[s] # on'[r]
  BY <1>3 DEF Base, OneLocks
<1>7. \A p \in Ids : p # on'[r] => olds'[r] \cap images[p] = {}
  BY <1>2, <1>3 DEF Base, ImagesApart
<1>q. QED BY <1>3, <1>4, <1>5, <1>6, <1>7, OwnStepKeepsBase DEF tables, history

LEMMA ReplaceKeepsBase ==
  ASSUME Base, NEW r \in Requests, ReplaceImages(r) PROVE Base'
<1>1. StageOf(r) /\ TypeOK
  BY DEF Base
<1>2. UNCHANGED <<tables, on, memory, history>>
  BY DEF ReplaceImages, Goes
<1>3. at'[r] = "commit" /\ at[r] = "replace" /\ \A s \in Requests : s # r => at'[s] = at[s]
  BY <1>1 DEF ReplaceImages, Goes, TypeOK
<1>4. TypeOK'
  BY <1>1, <1>2 DEF ReplaceImages, Goes, TypeOK, Stages, tables, memory, history, Exists
<1>5. StageOf(r)'
  BY <1>1, <1>2, <1>3 DEF StageOf, tables, memory, Exists, ReplaceImages
<1>6. /\ r \in matched' => \A s \in matched : s # r => on[s] # on'[r]
      /\ \A p \in Ids : p # on'[r] => olds'[r] \cap images[p] = {}
  BY <1>2 DEF Base, OneLocks, ImagesApart, memory
<1>7. r \in matched' /\ at'[r] \in {"replace", "commit"} /\ brings'[r]
         /\ Exists(on'[r]) /\ on'[r] \notin strays => olds'[r] = images[on'[r]]
  BY <1>2, <1>3 DEF Base, OldsCurrent, memory
<1>q. QED BY <1>2, <1>3, <1>4, <1>5, <1>6, <1>7, OwnStepKeepsBase DEF tables, memory, history

LEMMA TypeStepKeepsBase ==
  ASSUME Base, NEW r \in Requests, FindProductType(r) \/ WriteType(r) \/ Fail(r) PROVE Base'
<1>1. StageOf(r) /\ TypeOK
  BY DEF Base
<1>2. CASE FindProductType(r)
  <2>1. UNCHANGED <<tables, on, memory, history>>
    BY <1>2 DEF FindProductType, Goes
  <2>2. at'[r] = "typeWrite" /\ at[r] = "typeFind"
        /\ \A s \in Requests : s # r => at'[s] = at[s]
    BY <1>1, <1>2 DEF FindProductType, Goes, TypeOK
  <2>3. TypeOK'
    BY <1>1, <1>2, <2>1
       DEF FindProductType, Goes, TypeOK, Stages, tables, memory, history, Exists
  <2>4. StageOf(r)' /\ r \notin matched' /\ olds'[r] = {}
    BY <1>1, <2>1, <2>2 DEF StageOf, tables, memory, Exists
  <2>q. QED BY <2>1, <2>2, <2>3, <2>4, EmptyOlds DEF tables, memory, history
<1>3. CASE WriteType(r)
  <2>1. copy[r] \in TypeRow /\ copy[r].name \in Names /\ copy[r].name # ""
    BY <1>1, <1>3, RowFacts DEF WriteType, StageOf
  <2>2. PICK t \in Types : /\ NameFree(t, copy[r].name)
                           /\ typeName' = [typeName EXCEPT ![t] = copy[r].name]
    BY <1>3 DEF WriteType
  <2>3. \A u \in Types : typeName'[u] = IF u = t THEN copy[r].name ELSE typeName[u]
    BY <1>1, <2>2 DEF TypeOK
  <2>4. \A u \in Types : typeName[u] # "" => typeName'[u] # ""
    BY <2>1, <2>3
  <2>5. \A u, v \in Types : typeName'[u] = typeName'[v] /\ typeName'[u] # "" => u = v
    BY <1>1, <2>2, <2>3 DEF TypeOK, NameFree, NameTaken
  <2>6. UNCHANGED <<product, images, latest, strays>> /\ stale' \subseteq Requests
    BY <1>1, <1>3 DEF WriteType, TypeOK
  <2>7. \A p \in Ids : product'[p] # NoRow => typeName'[product'[p].type] # ""
    <3>1. \A p \in Ids : product[p] # NoRow =>
            product[p].type \in Types /\ typeName[product[p].type] # ""
      <4>1. ASSUME NEW p \in Ids, product[p] # NoRow PROVE product[p].type \in Types
        BY <1>1, <4>1 DEF TypeOK, Row
      <4>2. \A p \in Ids : product[p] # NoRow => typeName[product[p].type] # ""
        BY <1>1 DEF TypeOK, Exists
      <4>q. QED BY <4>1, <4>2
    <3>2. ASSUME NEW p \in Ids, product'[p] # NoRow PROVE typeName'[product'[p].type] # ""
      <4>1. product'[p] = product[p]
        BY <2>6
      <4>2. product[p].type \in Types /\ typeName[product[p].type] # ""
        BY <3>1, <3>2, <4>1
      <4>q. QED BY <2>4, <4>1, <4>2
    <3>q. QED BY <3>2
  <2>8. TypeOK'
    <3>1. typeName' \in [Types -> Names \cup {""}]
      BY <1>1, <2>1, <2>2 DEF TypeOK
    <3>2. /\ at' \in [Requests -> Stages]
          /\ on' \in [Requests -> {0} \cup Ids \cup Types]
          /\ copy' \in [Requests -> Row \cup TypeRow \cup {NoRow}]
          /\ brings' \in [Requests -> BOOLEAN]
          /\ olds' \in [Requests -> SUBSET Sets]
          /\ matched' \subseteq Requests
      BY <1>1, <1>3, IdleStage DEF WriteType
    <3>3. /\ product \in [Ids -> Row \cup {NoRow}]
          /\ images \in [Ids -> SUBSET Sets]
          /\ latest \in [Ids -> Sets \cup {"none"}] /\ strays \subseteq Ids
      BY <1>1 DEF TypeOK
    <3>q. QED BY <2>5, <2>6, <2>7, <3>1, <3>2, <3>3 DEF TypeOK, Exists
  <2>q. QED BY <1>1, <1>3, <2>4, <2>6, <2>8, IdleStage, EmptyOlds DEF WriteType
<1>4. CASE Fail(r)
  <2>1. TypeOK'
    BY <1>1, <1>4, IdleStage DEF Fail, Finish, TypeOK, tables, Exists
  <2>q. QED BY <1>1, <1>4, <2>1, IdleStage, EmptyOlds DEF Fail, Finish, tables
<1>q. QED BY <1>2, <1>3, <1>4

-----------------------------------------------------------------------------
(* Commit.                                                                 *)

(* What is new in a commit is an image that was in no product and that no  *)
(* request has read; what goes are those the request has read.             *)
LEMMA CommitEffects ==
  ASSUME Base, NEW r \in Requests, Commit(r)
  PROVE  /\ at[r] = "commit" /\ copy[r] \in Row /\ on[r] \in Ids /\ UNCHANGED typeName
         /\ \A p \in Ids : product'[p] =
              IF r \in matched /\ p = on[r] THEN copy[r] ELSE product[p]
         /\ ~brings[r] => UNCHANGED <<images, latest, strays>>
         /\ brings[r] => \E new \in Sets :
              /\ \A p \in Ids : new \notin images[p] /\ new # latest[p]
              /\ \A q \in Requests : new \notin olds[q]
              /\ \A p \in Ids : images'[p] =
                   (images[p] \ olds[r]) \cup (IF p = on[r] THEN {new} ELSE {})
              /\ latest' = [latest EXCEPT ![on[r]] = new]
              /\ strays' = IF r \in matched THEN strays ELSE strays \cup {on[r]}
<1>1. StageOf(r) /\ TypeOK
  BY DEF Base
<1>2. at[r] = "commit" /\ copy[r] \in Row /\ on[r] \in Ids /\ UNCHANGED typeName
  BY <1>1 DEF Commit, StageOf
<1>3. \A p \in Ids : product'[p] =
        IF r \in matched /\ p = on[r] THEN copy[r] ELSE product[p]
  BY <1>1, <1>2 DEF Commit, CommitRow, TypeOK
<1>4. ~brings[r] => UNCHANGED <<images, latest, strays>>
  BY DEF Commit, CommitImages
<1>5. ASSUME brings[r]
      PROVE  \E new \in Sets :
              /\ \A p \in Ids : new \notin images[p] /\ new # latest[p]
              /\ \A q \in Requests : new \notin olds[q]
              /\ \A p \in Ids : images'[p] =
                   (images[p] \ olds[r]) \cup (IF p = on[r] THEN {new} ELSE {})
              /\ latest' = [latest EXCEPT ![on[r]] = new]
              /\ strays' = IF r \in matched THEN strays ELSE strays \cup {on[r]}
  <2>1. PICK new \in Sets \ InUse :
          /\ images' = Replaced(r, new)
          /\ latest' = [latest EXCEPT ![on[r]] = new]
          /\ strays' = IF r \in matched THEN strays ELSE strays \cup {on[r]}
    BY <1>5 DEF Commit, CommitImages
  <2>2. /\ \A p \in Ids : new \notin images[p] /\ new # latest[p]
        /\ \A q \in Requests : new \notin olds[q]
    <3>1. ASSUME NEW p \in Ids PROVE new \notin images[p] /\ new # latest[p]
      <4>1. images[p] \cup {latest[p]} \subseteq InUse
        <5>1. images[p] \cup {latest[p]} \in {images[q] \cup {latest[q]} : q \in Ids}
          OBVIOUS
        <5>q. QED BY <5>1 DEF InUse
      <4>q. QED BY <2>1, <4>1
    <3>2. ASSUME NEW q \in Requests PROVE new \notin olds[q]
      <4>1. olds[q] \subseteq InUse
        <5>1. olds[q] \in {olds[s] : s \in Requests}
          OBVIOUS
        <5>q. QED BY <5>1 DEF InUse
      <4>q. QED BY <2>1, <4>1
    <3>q. QED BY <3>1, <3>2
  <2>3. \A p \in Ids : images'[p] =
          (images[p] \ olds[r]) \cup (IF p = on[r] THEN {new} ELSE {})
    BY <2>1 DEF Replaced
  <2>4. /\ new \in Sets
        /\ latest' = [latest EXCEPT ![on[r]] = new]
        /\ strays' = IF r \in matched THEN strays ELSE strays \cup {on[r]}
    BY <2>1
  <2>q. QED BY <2>2, <2>3, <2>4
<1>q. QED BY <1>2, <1>3, <1>4, <1>5

LEMMA CommitKeepsBase ==
  ASSUME Base, NEW r \in Requests, Commit(r) PROVE Base'
<1>1. /\ TypeOK /\ StageOf(r) /\ OneLocks /\ ImagesApart /\ OldsCurrent
      /\ ImagesOfOneUpdate
  BY DEF Base
<1>2. /\ StageOf(r)' /\ r \notin matched' /\ olds'[r] = {}
      /\ \A s \in Requests : s # r =>
         /\ at'[s] = at[s] /\ on'[s] = on[s] /\ copy'[s] = copy[s]
         /\ brings'[s] = brings[s] /\ olds'[s] = olds[s]
         /\ s \in matched' <=> s \in matched
      /\ at' \in [Requests -> Stages]
      /\ on' \in [Requests -> {0} \cup Ids \cup Types]
      /\ copy' \in [Requests -> Row \cup TypeRow \cup {NoRow}]
      /\ brings' \in [Requests -> BOOLEAN]
      /\ olds' \in [Requests -> SUBSET Sets]
      /\ matched' \subseteq Requests
  BY <1>1, IdleStage DEF Commit
<1>3. /\ at[r] = "commit" /\ copy[r] \in Row /\ on[r] \in Ids /\ UNCHANGED typeName
      /\ \A p \in Ids : product'[p] =
           IF r \in matched /\ p = on[r] THEN copy[r] ELSE product[p]
      /\ ~brings[r] => UNCHANGED <<images, latest, strays>>
  BY CommitEffects
<1>4. \A p \in Ids : product[p] # NoRow => product'[p] # NoRow
  BY <1>3, RowFacts
<1>5. matched \subseteq Requests
  BY <1>1 DEF TypeOK, Exists
<1>6. r \in matched => \A s \in matched : s # r => on[s] # on[r]
  BY <1>1 DEF OneLocks, Exists
<1>7. TypeOK'
  <2>1. /\ product' \in [Ids -> Row \cup {NoRow}]
        /\ \A p \in Ids : product'[p] # NoRow => typeName'[product'[p].type] # ""
    <3>1. product' \in [Ids -> Row \cup {NoRow}]
      BY <1>1, <1>3 DEF Commit, CommitRow, TypeOK, Exists
    <3>2. r \in matched => typeName[copy[r].type] # ""
      BY <1>1 DEF StageOf, Exists
    <3>3. \A p \in Ids : product[p] # NoRow => typeName[product[p].type] # ""
      BY <1>1 DEF TypeOK, Exists
    <3>q. QED BY <1>3, <3>1, <3>2, <3>3
  <2>2. /\ images' \in [Ids -> SUBSET Sets]
        /\ latest' \in [Ids -> Sets \cup {"none"}] /\ strays' \subseteq Ids
    <3>1. CASE ~brings[r]
      BY <1>1, <1>3, <3>1 DEF TypeOK, Exists
    <3>2. CASE brings[r]
      <4>1. PICK new \in Sets :
              /\ images' = Replaced(r, new)
              /\ latest' = [latest EXCEPT ![on[r]] = new]
              /\ strays' = IF r \in matched THEN strays ELSE strays \cup {on[r]}
        BY <3>2 DEF Commit, CommitImages
      <4>2. /\ images \in [Ids -> SUBSET Sets]
            /\ latest \in [Ids -> Sets \cup {"none"}] /\ strays \subseteq Ids
        BY <1>1 DEF TypeOK
      <4>3. images' \in [Ids -> SUBSET Sets]
        BY <4>1, <4>2 DEF Replaced
      <4>q. QED BY <1>3, <4>1, <4>2, <4>3
    <3>q. QED BY <3>1, <3>2
  <2>3. stale' \subseteq Requests
    BY <1>1 DEF Commit, TypeOK, Waiting, Exists
  <2>4. typeName \in [Types -> Names \cup {""}]
        /\ \A t, u \in Types : typeName[t] = typeName[u] /\ typeName[t] # "" => t = u
    BY <1>1 DEF TypeOK, Exists
  <2>q. QED BY <1>2, <1>3, <2>1, <2>2, <2>3, <2>4 DEF TypeOK, Exists
<1>8. ASSUME NEW s \in Requests PROVE StageOf(s)'
  <2>1. CASE s = r
    BY <1>2, <2>1
  <2>2. CASE s # r
    <3>1. StageOf(s)
      BY DEF Base
    <3>2. s \in matched => on[s] \in Ids
      BY <3>1 DEF StageOf, Exists
    <3>3. s \in matched /\ product'[on[s]] = NoRow => product[on[s]] = NoRow
      BY <1>4, <3>2
    <3>4. s \notin matched /\ at[s] = "commit" /\ brings[s] => product'[on[s]] # NoRow
      BY <1>4, <3>1 DEF StageOf, Exists
    <3>q. QED BY <1>2, <1>3, <2>2, <3>1, <3>3, <3>4 DEF StageOf, Exists
  <2>q. QED BY <2>1, <2>2
<1>9. OneLocks'
  <2>1. SUFFICES ASSUME NEW s \in matched', NEW t \in matched', on'[s] = on'[t]
                 PROVE  s = t
    BY DEF OneLocks, Exists
  <2>2. s \in matched /\ t \in matched /\ on[s] = on[t]
    BY <1>2, <2>1
  <2>q. QED BY <1>1, <2>2 DEF OneLocks, Exists
<1>10. CASE ~brings[r]
  <2>1. r \in matched => product[on[r]] # NoRow
    BY <1>1, <1>10 DEF StageOf, Exists
  <2>2. \A p \in Ids : product'[p] # NoRow <=> product[p] # NoRow
    BY <1>3, <1>4, <2>1 DEF Exists
  <2>3. ImagesApart'
    <3>1. \A s \in Requests, p \in Ids : p # on'[s] => olds'[s] \cap images[p] = {}
      BY <1>1, <1>2 DEF ImagesApart, Exists
    <3>q. QED BY <1>1, <1>3, <1>10, <2>2, <3>1 DEF ImagesApart, Exists
  <2>4. ImagesOfOneUpdate'
    BY <1>1, <1>3, <1>10, <2>2 DEF ImagesOfOneUpdate, Exists
  <2>5. OldsCurrent'
    <3>1. SUFFICES ASSUME NEW s \in matched', at'[s] \in {"replace", "commit"},
                          brings'[s], product'[on'[s]] # NoRow, on'[s] \notin strays'
                   PROVE  olds'[s] = images'[on'[s]]
      BY DEF OldsCurrent, Exists
    <3>2. s # r /\ s \in Requests /\ s \in matched
      BY <1>2, <3>1
    <3>3. on'[s] = on[s] /\ on[s] \in Ids
      <4>1. StageOf(s)
        BY <3>2 DEF Base
      <4>q. QED BY <1>2, <3>2, <4>1 DEF StageOf, Exists
    <3>4. product[on[s]] # NoRow
      BY <2>2, <3>1, <3>3 DEF Exists
    <3>q. QED BY <1>1, <1>2, <1>3, <1>10, <3>1, <3>2, <3>3, <3>4 DEF OldsCurrent, Exists
  <2>q. QED BY <1>7, <1>8, <1>9, <2>3, <2>4, <2>5 DEF Base
<1>11. CASE brings[r]
  <2>1. PICK new \in Sets :
          /\ \A p \in Ids : new \notin images[p] /\ new # latest[p]
          /\ \A q \in Requests : new \notin olds[q]
          /\ \A p \in Ids : images'[p] =
               (images[p] \ olds[r]) \cup (IF p = on[r] THEN {new} ELSE {})
          /\ latest' = [latest EXCEPT ![on[r]] = new]
          /\ strays' = IF r \in matched THEN strays ELSE strays \cup {on[r]}
    BY <1>11, CommitEffects
  <2>2. product'[on[r]] # NoRow
    <3>1. r \notin matched => product[on[r]] # NoRow
      BY <1>1, <1>3, <1>11 DEF StageOf, Exists
    <3>q. QED BY <1>3, <1>4, <3>1, RowFacts
  <2>3. \A p \in Ids : p # on[r] => images'[p] = images[p] /\ latest'[p] = latest[p]
    <3>1. \A p \in Ids : p # on[r] => olds[r] \cap images[p] = {}
      BY <1>1 DEF ImagesApart, Exists
    <3>2. latest \in [Ids -> Sets \cup {"none"}]
      BY <1>1 DEF TypeOK, Exists
    <3>q. QED BY <2>1, <3>1, <3>2
  <2>4. /\ images'[on[r]] = (images[on[r]] \ olds[r]) \cup {new}
        /\ latest'[on[r]] = new
    BY <1>1, <1>3, <2>1 DEF TypeOK, Exists
  <2>5. \A p \in Ids : p # on[r] => (product'[p] # NoRow <=> product[p] # NoRow)
    BY <1>3 DEF Exists
  <2>6. ImagesApart'
    <3>1. \A p, q \in Ids : p # q => images'[p] \cap images'[q] = {}
      <4>1. \A p, q \in Ids : p # q => images[p] \cap images[q] = {}
        BY <1>1 DEF ImagesApart, Exists
      <4>q. QED BY <1>3, <2>1, <2>3, <2>4, <4>1
    <3>2. \A p \in Ids : product'[p] = NoRow => images'[p] = {}
      <4>1. \A p \in Ids : product[p] = NoRow => images[p] = {}
        BY <1>1 DEF ImagesApart, Exists
      <4>q. QED BY <2>2, <2>3, <2>5, <4>1
    <3>3. ASSUME NEW s \in Requests, NEW p \in Ids, p # on'[s]
          PROVE  olds'[s] \cap images'[p] = {}
      <4>1. CASE s = r
        BY <1>2, <4>1
      <4>2. CASE s # r
        <5>1. olds[s] \cap images[p] = {}
          BY <1>1, <1>2, <3>3, <4>2 DEF ImagesApart, Exists
        <5>2. images'[p] \subseteq images[p] \cup {new}
          BY <2>1
        <5>q. QED BY <1>2, <2>1, <4>2, <5>1, <5>2
      <4>q. QED BY <4>1, <4>2
    <3>q. QED BY <3>1, <3>2, <3>3 DEF ImagesApart, Exists
  <2>7. ImagesOfOneUpdate'
    <3>1. SUFFICES ASSUME NEW p \in Ids, product'[p] # NoRow, p \notin strays'
                   PROVE  images'[p] = {latest'[p]}
      BY DEF ImagesOfOneUpdate, Exists
    <3>2. CASE p # on[r]
      <4>1. p \notin strays /\ product[p] # NoRow
        BY <2>1, <2>5, <3>1, <3>2
      <4>q. QED BY <1>1, <2>3, <3>2, <4>1 DEF ImagesOfOneUpdate, Exists
    <3>3. CASE p = on[r]
      <4>1. r \in matched /\ p \notin strays
        BY <2>1, <3>1, <3>3
      <4>2. product[p] # NoRow => images[p] = olds[r]
        BY <1>1, <1>3, <1>11, <3>3, <4>1 DEF OldsCurrent, Exists
      <4>3. product[p] = NoRow => images[p] = {}
        BY <1>1 DEF ImagesApart, Exists
      <4>q. QED BY <2>4, <3>3, <4>2, <4>3
    <3>q. QED BY <3>2, <3>3
  <2>8. OldsCurrent'
    <3>1. SUFFICES ASSUME NEW s \in matched', at'[s] \in {"replace", "commit"},
                          brings'[s], product'[on'[s]] # NoRow, on'[s] \notin strays'
                   PROVE  olds'[s] = images'[on'[s]]
      BY DEF OldsCurrent, Exists
    <3>2. s # r /\ s \in Requests /\ s \in matched
      BY <1>2, <3>1
    <3>3. on'[s] = on[s] /\ on[s] \in Ids
      <4>1. StageOf(s)
        BY <3>2 DEF Base
      <4>q. QED BY <1>2, <3>2, <4>1 DEF StageOf, Exists
    <3>4. on[s] # on[r]
      <4>1. CASE r \in matched
        BY <1>6, <3>2, <4>1
      <4>2. CASE r \notin matched
        BY <2>1, <3>1, <3>3, <4>2
      <4>q. QED BY <4>1, <4>2
    <3>5. product[on[s]] # NoRow /\ on[s] \notin strays
      BY <2>1, <2>5, <3>1, <3>3, <3>4 DEF Exists
    <3>6. olds[s] = images[on[s]]
      BY <1>1, <1>2, <3>1, <3>2, <3>5 DEF OldsCurrent, Exists
    <3>q. QED BY <1>2, <2>3, <3>2, <3>3, <3>4, <3>6
  <2>q. QED BY <1>7, <1>8, <1>9, <2>6, <2>7, <2>8 DEF Base
<1>q. QED BY <1>10, <1>11

-----------------------------------------------------------------------------

LEMMA StepKeepsBase ==
  ASSUME Base, [Next]_vars PROVE Base'
<1>1. ASSUME NEW r \in Requests, Save(r) PROVE Base'
  <2>1. CASE AdminProductCreate(r)
    <3>1. PICK row \in Row : Begin(r, "insert", 0, row, TRUE)
      BY <2>1 DEF AdminProductCreate
    <3>2. stale' \subseteq Requests /\ UNCHANGED <<latest, strays>>
      BY <2>1 DEF AdminProductCreate, history, Base, TypeOK
    <3>q. QED BY <3>1, <3>2, BeginKeepsBase
  <2>2. CASE AdminProductUpdate(r)
    <3>1. PICK q \in Ids, p \in Ids, row \in Row, with \in BOOLEAN :
            /\ Exists(q)
            /\ Begin(r, "row", p, KeepCover(q, row), with)
            /\ stale' = IF q = p THEN stale ELSE stale \cup {r}
            /\ UNCHANGED <<latest, strays>>
      BY <2>2 DEF AdminProductUpdate
    <3>2. stale' \subseteq Requests
      BY <3>1 DEF Base, TypeOK
    <3>3. KeepCover(q, row) \in Row
      <4>1. product[q] \in Row
        BY <3>1 DEF Base, TypeOK, Exists
      <4>q. QED BY <4>1 DEF KeepCover, Row
    <3>q. QED BY <3>1, <3>2, <3>3, BeginKeepsBase
  <2>q. QED BY <1>1, <2>1, <2>2, InsertKeepsBase, UpdateRowKeepsBase, FetchKeepsBase,
               ReplaceKeepsBase, CommitKeepsBase DEF Save
<1>2. ASSUME NEW r \in Requests, SaveType(r) PROVE Base'
  <2>1. ASSUME NEW n \in Names, NEW stage \in {"typeInsert", "typeFind"},
               NEW i \in {0} \cup Types, stage = "typeFind" => i \in Types,
               Begin(r, stage, i, [name |-> n], FALSE), UNCHANGED history
        PROVE  Base'
    <3>1. [name |-> n] \in TypeRow
      BY DEF TypeRow
    <3>2. stale' \subseteq Requests /\ UNCHANGED <<latest, strays>>
      BY <2>1 DEF history, Base, TypeOK
    <3>q. QED BY <2>1, <3>1, <3>2, BeginKeepsBase
  <2>2. CASE AdminProductTypeCreate(r) \/ AdminProductTypeUpdate(r)
    BY <2>1, <2>2 DEF AdminProductTypeCreate, AdminProductTypeUpdate
  <2>q. QED BY <1>2, <2>2, TypeStepKeepsBase DEF SaveType
<1>3. CASE UNCHANGED vars
  <2>1. /\ TypeOK' /\ (\A r \in Requests : StageOf(r)')
        /\ OneLocks' /\ ImagesApart' /\ OldsCurrent' /\ ImagesOfOneUpdate'
    BY <1>3 DEF vars, tables, memory, history, Base, TypeOK, StageOf, OneLocks,
                ImagesApart, OldsCurrent, ImagesOfOneUpdate, Exists
  <2>q. QED BY <2>1 DEF Base
<1>q. QED BY <1>1, <1>2, <1>3, TypeStepKeepsBase DEF Next

LEMMA BaseHolds == Spec => []Base
BY InitBase, StepKeepsBase, PTL DEF Spec

(* Every variable keeps its type; a product has a type that is there, and  *)
(* no two types have one name.                                             *)
THEOREM TypeCorrect == Spec => []TypeOK
<1>1. Base => TypeOK
  BY DEF Base
<1>q. QED BY <1>1, BaseHolds, PTL

(* The images of a product are those of the last update that brought any,  *)
(* although the old ones are read outside of the transaction               *)
(* (admin_products.go:177-202).                                            *)
THEOREM NoMixture == Spec => []ImagesOfOneUpdate
<1>1. Base => ImagesOfOneUpdate
  BY DEF Base
<1>q. QED BY <1>1, BaseHolds, PTL

-----------------------------------------------------------------------------
(* Whoever is going to write a row has its cover, if it is not stale.      *)

CoverOf(r) ==
    /\ r \notin stale /\ (at[r] = "row" \/ r \in matched)
    /\ product[on[r]] # NoRow /\ product[on[r]].cover # ""
    => copy[r].cover = product[on[r]].cover

HaveCover == \A r \in Requests : CoverOf(r)

(* A step of r that commits nothing.                                       *)
LEMMA OwnStepKeepsCover ==
  ASSUME HaveCover, NEW r \in Requests, UNCHANGED product,
         \A s \in Requests : s # r =>
            /\ at'[s] = at[s] /\ on'[s] = on[s] /\ copy'[s] = copy[s]
            /\ s \in matched' <=> s \in matched
            /\ s \in stale' <=> s \in stale,
         CoverOf(r)'
  PROVE  HaveCover'
<1>1. ASSUME NEW s \in Requests, s # r PROVE CoverOf(s)'
  <2>1. CoverOf(s)
    BY DEF HaveCover
  <2>q. QED BY <1>1, <2>1 DEF CoverOf
<1>q. QED BY <1>1 DEF HaveCover

LEMMA SameRowKeepsCover ==
  ASSUME TypeOK, HaveCover, NEW r \in Requests, UNCHANGED <<product, on, copy, stale>>,
         \A s \in Requests : s # r => at'[s] = at[s],
         matched' \in {matched, matched \cup {r}},
         r \in matched' \ matched => at[r] = "row",
         at'[r] # "row"
  PROVE  HaveCover'
<1>1. ASSUME NEW s \in Requests PROVE CoverOf(s)'
  <2>1. CoverOf(s)
    BY DEF HaveCover
  <2>2. CASE s = r
    BY <2>1, <2>2 DEF CoverOf
  <2>3. CASE s # r
    <3>1. at'[s] = at[s] /\ (s \in matched' => s \in matched)
      BY <2>3
    <3>q. QED BY <2>1, <3>1 DEF CoverOf
  <2>q. QED BY <2>2, <2>3
<1>q. QED BY <1>1 DEF HaveCover

LEMMA StepKeepsCover ==
  ASSUME Base, HaveCover, [Next]_vars PROVE HaveCover'
<1>1. TypeOK /\ \A r \in Requests : StageOf(r)
  BY DEF Base
<1>2. ASSUME NEW r \in Requests, Save(r) PROVE HaveCover'
  <2>1. CASE AdminProductCreate(r)
    <3>1. /\ at'[r] = "insert" /\ r \notin matched' /\ UNCHANGED <<product, matched, stale>>
          /\ \A s \in Requests : s # r =>
               at'[s] = at[s] /\ on'[s] = on[s] /\ copy'[s] = copy[s]
      BY <1>1, <2>1 DEF AdminProductCreate, Begin, TypeOK, StageOf, tables, history
    <3>q. QED BY <3>1, OwnStepKeepsCover DEF CoverOf
  <2>2. CASE InsertProduct(r)
    <3>1. PICK p \in Ids : product[p] = NoRow /\ on' = [on EXCEPT ![r] = p]
      BY <2>2 DEF InsertProduct, Exists
    <3>2. /\ on'[r] = p /\ UNCHANGED <<product, copy, stale>>
          /\ \A s \in Requests : s # r =>
               at'[s] = at[s] /\ on'[s] = on[s] /\ (s \in matched' <=> s \in matched)
      BY <1>1, <2>2, <3>1 DEF InsertProduct, TypeOK, tables, history
    <3>q. QED BY <3>1, <3>2, OwnStepKeepsCover DEF CoverOf
  <2>3. CASE AdminProductUpdate(r)
    <3>1. PICK q \in Ids, p \in Ids, row \in Row, with \in BOOLEAN :
            /\ Begin(r, "row", p, KeepCover(q, row), with)
            /\ stale' = IF q = p THEN stale ELSE stale \cup {r}
      BY <2>3 DEF AdminProductUpdate
    <3>2. /\ on'[r] = p /\ copy'[r] = KeepCover(q, row) /\ UNCHANGED <<product, matched>>
          /\ \A s \in Requests : s # r =>
               at'[s] = at[s] /\ on'[s] = on[s] /\ copy'[s] = copy[s]
      BY <1>1, <3>1 DEF Begin, TypeOK, tables
    <3>3. r \notin stale' /\ product[p].cover # "" => copy'[r].cover = product[p].cover
      BY <3>1, <3>2 DEF KeepCover, Row
    <3>4. \A s \in Requests : s # r => (s \in stale' <=> s \in stale)
      BY <3>1
    <3>q. QED BY <3>2, <3>3, <3>4, OwnStepKeepsCover DEF CoverOf
  <2>4. CASE UpdateRow(r)
    <3>1. at'[r] # "row" /\ \A s \in Requests : s # r => at'[s] = at[s]
      BY <1>1, <2>4 DEF UpdateRow, Goes, TypeOK
    <3>2. matched' \in {matched, matched \cup {r}}
      BY <2>4 DEF UpdateRow
    <3>q. QED BY <1>1, <2>4, <3>1, <3>2, SameRowKeepsCover
              DEF UpdateRow, Goes, tables, history
  <2>5. CASE FetchOldImages(r) \/ ReplaceImages(r)
    <3>1. at'[r] # "row" /\ \A s \in Requests : s # r => at'[s] = at[s]
      BY <1>1, <2>5 DEF FetchOldImages, ReplaceImages, Goes, TypeOK
    <3>2. UNCHANGED <<product, on, copy, stale, matched>>
      BY <2>5 DEF FetchOldImages, ReplaceImages, Goes, tables, memory, history
    <3>q. QED BY <1>1, <3>1, <3>2, SameRowKeepsCover
  <2>6. CASE Commit(r)
    <3>1. /\ at'[r] = "idle" /\ r \notin matched'
          /\ \A s \in Requests : s # r =>
               /\ at'[s] = at[s] /\ on'[s] = on[s] /\ copy'[s] = copy[s]
               /\ s \in matched' <=> s \in matched
      BY <1>1, <2>6 DEF Commit, Forget, TypeOK
    <3>2. ASSUME NEW s \in Requests, s # r,
                 s \notin stale', at[s] = "row" \/ s \in matched,
                 product'[on[s]] # NoRow, product'[on[s]].cover # ""
          PROVE  copy[s].cover = product'[on[s]].cover
      <4>1. on[s] \in Ids
        BY <1>1, <3>2 DEF StageOf
      <4>2. ~(r \in matched /\ on[s] = on[r])
        <5>1. CASE at[s] = "row"
          BY <2>6, <3>2, <5>1 DEF Commit, Waiting
        <5>2. CASE s \in matched
          BY <3>2, <5>2 DEF Base, OneLocks
        <5>q. QED BY <3>2, <5>1, <5>2
      <4>3. product'[on[s]] = product[on[s]]
        BY <2>6, <4>1, <4>2, CommitEffects
      <4>4. s \notin stale
        BY <2>6, <3>2 DEF Commit
      <4>q. QED BY <3>2, <4>3, <4>4 DEF HaveCover, CoverOf
    <3>q. QED BY <3>1, <3>2 DEF HaveCover, CoverOf
  <2>q. QED BY <1>2, <2>1, <2>2, <2>3, <2>4, <2>5, <2>6 DEF Save
<1>3. ASSUME NEW r \in Requests, SaveType(r) \/ Fail(r) PROVE HaveCover'
  <2>1. CASE AdminProductTypeCreate(r) \/ AdminProductTypeUpdate(r)
    <3>1. /\ at'[r] # "row" /\ r \notin matched' /\ UNCHANGED <<product, matched, stale>>
          /\ \A s \in Requests : s # r =>
               at'[s] = at[s] /\ on'[s] = on[s] /\ copy'[s] = copy[s]
      <4>1. at[r] = "idle" /\ UNCHANGED <<product, matched, stale>> /\ r \notin matched
        BY <1>1, <2>1 DEF AdminProductTypeCreate, AdminProductTypeUpdate, Begin, TypeOK,
                          StageOf, tables, history
      <4>2. PICK stage \in {"typeInsert", "typeFind"}, i \in {0} \cup Types, row \in TypeRow :
               Begin(r, stage, i, row, FALSE)
        BY <2>1 DEF AdminProductTypeCreate, AdminProductTypeUpdate, TypeRow
      <4>3. at'[r] # "row"
        BY <1>1, <4>2 DEF Begin, TypeOK
      <4>4. \A s \in Requests : s # r =>
              at'[s] = at[s] /\ on'[s] = on[s] /\ copy'[s] = copy[s]
        BY <1>1, <4>2 DEF Begin, TypeOK
      <4>q. QED BY <4>1, <4>3, <4>4
    <3>q. QED BY <3>1, OwnStepKeepsCover DEF CoverOf
  <2>2. CASE FindProductType(r)
    <3>1. at'[r] # "row" /\ \A s \in Requests : s # r => at'[s] = at[s]
      BY <1>1, <2>2 DEF FindProductType, Goes, TypeOK
    <3>2. UNCHANGED <<product, on, copy, stale, matched>>
      BY <2>2 DEF FindProductType, Goes, tables, memory, history
    <3>q. QED BY <1>1, <3>1, <3>2, SameRowKeepsCover
  <2>3. CASE WriteType(r) \/ Fail(r)
    <3>1. /\ at'[r] = "idle" /\ r \notin matched' /\ UNCHANGED product
          /\ \A s \in Requests : s # r =>
               /\ at'[s] = at[s] /\ on'[s] = on[s] /\ copy'[s] = copy[s]
               /\ s \in matched' <=> s \in matched
               /\ s \in stale' <=> s \in stale
      BY <1>1, <2>3 DEF WriteType, Fail, Finish, Forget, TypeOK, tables
    <3>q. QED BY <3>1, OwnStepKeepsCover DEF CoverOf
  <2>q. QED BY <1>3, <2>1, <2>2, <2>3 DEF SaveType
<1>4. CASE UNCHANGED vars
  BY <1>4 DEF vars, tables, memory, history, HaveCover, CoverOf
<1>q. QED BY <1>2, <1>3, <1>4 DEF Next

(* A cover that is set is replaced or lost only if two updates of the      *)
(* product overlapped, or the cover was looked up for another product      *)
(* (admin_products.go:167-174).                                            *)
THEOREM CoverStays == Spec => CoverKept
<1>1. Init => HaveCover
  BY DEF Init, HaveCover, CoverOf
<1>2. ASSUME Base, HaveCover, [Next]_vars
      PROVE  [\A p \in Ids :
                Exists(p) /\ product[p].cover # "" /\ product'[p].cover # product[p].cover
                    => \E r \in stale : at[r] = "commit" /\ on[r] = p]_vars
  <2>1. ASSUME NEW p \in Ids, Exists(p), product[p].cover # "",
               product'[p].cover # product[p].cover
        PROVE  \E r \in stale : at[r] = "commit" /\ on[r] = p
    <3>1. PICK r \in Requests : Commit(r)
      <4>1. ASSUME NEW r \in Requests, Save(r) \/ SaveType(r) \/ Fail(r), ~Commit(r)
            PROVE  UNCHANGED product
        BY <4>1 DEF Save, SaveType, AdminProductCreate, InsertProduct, AdminProductUpdate,
                    UpdateRow, FetchOldImages, ReplaceImages, AdminProductTypeCreate,
                    AdminProductTypeUpdate, FindProductType, WriteType, Fail, Begin, tables
      <4>2. CASE UNCHANGED vars
        BY <2>1, <4>2 DEF vars, tables
      <4>q. QED BY <1>2, <2>1, <4>1, <4>2 DEF Next
    <3>2. r \in matched /\ p = on[r] /\ product'[p] = copy[r] /\ at[r] = "commit"
      <4>1. at[r] = "commit" /\ \A q \in Ids :
               product'[q] = IF r \in matched /\ q = on[r] THEN copy[r] ELSE product[q]
        BY <1>2, <3>1, CommitEffects
      <4>2. product'[p] = IF r \in matched /\ p = on[r] THEN copy[r] ELSE product[p]
        BY <2>1, <4>1
      <4>q. QED BY <2>1, <4>1, <4>2
    <3>3. r \in stale
      BY <1>2, <2>1, <3>2 DEF HaveCover, CoverOf, Exists
    <3>q. QED BY <3>2, <3>3
  <2>q. QED BY <2>1
<1>q. QED BY <1>1, <1>2, BaseHolds, StepKeepsCover, PTL DEF Spec, CoverKept

-----------------------------------------------------------------------------
(* Pages.                                                                  *)

(* What a reader has seen is still so, unless a write overtook it.         *)
SeenIsCurrent ==
    \A r \in Calls \ late : \A i \in DOMAIN Queries :
        draft[r][i] # NotAsked => draft[r][i] = written[Queries[i]]

(* The stages within a ClearCache, which is done only at their end.        *)
Clearing == {"smembers", "delMembers"}

ClearsSomething == \A r \in Calls : step[r] \in Clearing => todo[r] # <<>>

PageInv == PageTypeOK /\ PageIsOfOneMoment /\ SeenIsCurrent /\ ClearsSomething

-----------------------------------------------------------------------------
(* The queries of a page and the work of a handler.                        *)

LEMMA QueriesFacts ==
  /\ Queries \in Seq(Tables)
  /\ Len(Queries) \in Nat /\ Len(Queries) >= 1 /\ DOMAIN Queries = 1..Len(Queries)
  /\ \A i \in DOMAIN Queries : Queries[i] \in Tables
<1>1. /\ GetProductsUtil \in Seq(Tables) /\ Len(GetProductsUtil) >= 1
      /\ GetOrderHistory \in Seq(Tables) /\ Len(GetOrderHistory) >= 1
      /\ FetchReviewData \in Seq(Tables) /\ Len(FetchReviewData) >= 1
      /\ <<"review">> \in Seq(Tables) /\ Len(<<"review">>) >= 1
  BY DEF GetProductsUtil, GetOrderHistory, FetchReviewData, Tables
<1>2. BuildProductDetail \in Seq(Tables) /\ Len(BuildProductDetail) >= 1
  <2> DEFINE first == <<"product", "product_images">>
  <2>1. reviewDisplay \in Seq(Tables) /\ Len(reviewDisplay) = 6
    BY DEF reviewDisplay, Tables
  <2>2. countStars \in Seq(Tables) /\ Len(countStars) = 2
    BY DEF countStars, Tables
  <2>3. first \in Seq(Tables) /\ Len(first) = 2
    BY DEF Tables
  <2>4. BuildProductDetail = (first \o reviewDisplay) \o countStars
    BY DEF BuildProductDetail
  <2> HIDE DEF first
  <2>5. \A s, t \in Seq(Tables) : s \o t \in Seq(Tables) /\ Len(s \o t) = Len(s) + Len(t)
    BY ConcatProperties
  <2>6. first \o reviewDisplay \in Seq(Tables) /\ Len(first \o reviewDisplay) = Len(first) + Len(reviewDisplay)
    BY <2>1, <2>3, <2>5
  <2>7. BuildProductDetail \in Seq(Tables)
    BY <2>2, <2>4, <2>5, <2>6
  <2>8. Len(BuildProductDetail) = Len(first \o reviewDisplay) + Len(countStars)
    BY <2>2, <2>4, <2>5, <2>6
  <2>q. QED BY <2>1, <2>2, <2>3, <2>6, <2>7, <2>8
<1>3. Queries \in Seq(Tables) /\ Len(Queries) >= 1
  BY <1>1, <1>2 DEF Queries
<1>q. QED BY <1>3, LenProperties

Ops == [op : {"write", "clear"}, tables : SUBSET Tables, name : {"", "set", "other"}]

LEMMA HandlersFacts ==
  /\ \A h \in Handlers : h \in Seq(Ops)
  /\ Handlers # {}
<1>1. /\ \A ts \in SUBSET Tables : Write(ts) \in Ops
      /\ \A n \in {"set", "other"} : Clear(n) \in Ops
  BY DEF Write, Clear, Ops
<1>2. /\ Write({"product", "product_images"}) \in Ops /\ Write({"product_type"}) \in Ops
      /\ Write({"review"}) \in Ops /\ Write({"review_images"}) \in Ops
      /\ Write({"reply"}) \in Ops /\ Write({"account"}) \in Ops /\ Write({"invoice"}) \in Ops
  BY <1>1 DEF Tables
<1>3. Clear("set") \in Ops /\ Clear("other") \in Ops
  BY <1>1
<1>4. SaveProduct \in Seq(Ops) /\ SaveProductType \in Seq(Ops) /\ HandleSubmitReview \in Seq(Ops)
  BY <1>2, <1>3 DEF SaveProduct, SaveProductType, HandleSubmitReview
<1>5. UpdateText \in Seq(Ops) /\ UpdateImages \in Seq(Ops) /\ SaveReply \in Seq(Ops)
  BY <1>2, <1>3 DEF UpdateText, UpdateImages, SaveReply
<1>6. HandleUpdateAccount \in Seq(Ops) /\ SaveInvoice \in Seq(Ops) /\ CancelOrder \in Seq(Ops)
  BY <1>2, <1>3 DEF HandleUpdateAccount, SaveInvoice, CancelOrder
<1>q. QED BY <1>4, <1>5, <1>6 DEF Handlers

(* What is left of the work of a handler.                                  *)
Rests == UNION {Suffixes(h) : h \in Handlers}

LEMMA RestsFacts ==
  /\ <<>> \in Rests
  /\ \A h \in Handlers : h \in Rests
  /\ \A s \in Rests : s # <<>> => Tail(s) \in Rests /\ Head(s) \in Ops
<1>1. ASSUME NEW h \in Handlers
      PROVE  h \in Suffixes(h) /\ <<>> \in Suffixes(h)
  <2>1. h \in Seq(Ops) /\ Len(h) \in Nat
    BY HandlersFacts, LenProperties
  <2>2. SubSeq(h, 1, Len(h)) = h
    BY <2>1, SubSeqFull
  <2>3. SubSeq(h, Len(h) + 1, Len(h)) = <<>>
    BY <2>1, SubSeqEmpty
  <2>q. QED BY <2>1, <2>2, <2>3 DEF Suffixes
<1>2. ASSUME NEW h \in Handlers, NEW s \in Suffixes(h), s # <<>>
      PROVE  Tail(s) \in Suffixes(h) /\ Head(s) \in Ops
  <2>1. h \in Seq(Ops) /\ Len(h) \in Nat
    BY HandlersFacts, LenProperties
  <2>2. PICK i \in 1..(Len(h) + 1) : s = SubSeq(h, i, Len(h))
    BY DEF Suffixes
  <2>3. i # Len(h) + 1
    BY <1>2, <2>1, <2>2, SubSeqEmpty
  <2>4. i \in 1..Len(h) /\ Len(h) \in i..Len(h)
    BY <2>1, <2>3
  <2>5. Head(s) = h[i] /\ Tail(s) = SubSeq(h, i + 1, Len(h))
    BY <2>1, <2>2, <2>4, HeadTailOfSubSeq
  <2>6. h[i] \in Ops /\ i + 1 \in 1..(Len(h) + 1)
    BY <2>1, <2>4, LenProperties
  <2>q. QED BY <2>5, <2>6 DEF Suffixes
<1>q. QED BY <1>1, <1>2, HandlersFacts DEF Rests

(* A write of tables is within the bound for each of them.                 *)
LEMMA WritesFacts ==
  ASSUME written \in [Tables -> 0..MaxWrites], NEW ts \in SUBSET Tables,
         Writes + Cardinality(ts) <= MaxWrites, NEW t \in ts
  PROVE  written[t] + 1 \in 0..MaxWrites
<1> DEFINE Of(u) == {u} \X (1..written[u])
           All == UNION {Of(u) : u \in Tables}
<1>1. IsFiniteSet(Tables)
  <2>1. \A S, x : IsFiniteSet(S) => IsFiniteSet(S \cup {x})
    BY FS_AddElement
  <2>2. IsFiniteSet({"product"})
    BY FS_Singleton
  <2>3. IsFiniteSet({"product"} \cup {"product_images"} \cup {"product_type"})
    BY <2>1, <2>2
  <2>4. IsFiniteSet({"product"} \cup {"product_images"} \cup {"product_type"}
                    \cup {"review"} \cup {"review_images"} \cup {"reply"})
    BY <2>1, <2>3
  <2>5. IsFiniteSet({"product"} \cup {"product_images"} \cup {"product_type"}
                    \cup {"review"} \cup {"review_images"} \cup {"reply"}
                    \cup {"account"} \cup {"invoice"})
    BY <2>1, <2>4
  <2>6. Tables = {"product"} \cup {"product_images"} \cup {"product_type"}
                    \cup {"review"} \cup {"review_images"} \cup {"reply"}
                    \cup {"account"} \cup {"invoice"}
    BY DEF Tables
  <2>q. QED BY <2>5, <2>6
<1>2. ASSUME NEW u \in Tables
      PROVE  IsFiniteSet(Of(u)) /\ Cardinality(Of(u)) = written[u]
  <2>1. IsFiniteSet({u}) /\ Cardinality({u}) = 1
    BY FS_Singleton
  <2>2. written[u] \in Nat /\ 1 * written[u] = written[u]
    BY MaxWritesAssumption
  <2>3. IsFiniteSet(1..written[u]) /\ Cardinality(1..written[u]) = written[u]
    BY <2>2, FS_Interval
  <2>4. /\ IsFiniteSet(Of(u))
        /\ Cardinality(Of(u)) = Cardinality({u}) * Cardinality(1..written[u])
    BY <2>1, <2>3, FS_Product
  <2>q. QED BY <2>1, <2>2, <2>3, <2>4
<1>3. IsFiniteSet({Of(u) : u \in Tables})
  <2> HIDE DEF Of
  <2>1. [u \in Tables |-> Of(u)] \in Surjection(Tables, {Of(u) : u \in Tables})
    BY DEF Surjection
  <2>q. QED BY <1>1, <2>1, FS_Surjection
<1>4. IsFiniteSet(All)
  BY <1>2, <1>3, FS_UNION
<1>5. t \in Tables /\ Of(t) \in SUBSET All
  OBVIOUS
<1>6. written[t] <= Cardinality(All) /\ Cardinality(All) \in Nat
  <2>1. Cardinality(Of(t)) <= Cardinality(All)
    BY <1>4, <1>5, FS_Subset
  <2>2. Cardinality(Of(t)) = written[t]
    BY <1>2, <1>5
  <2>3. Cardinality(All) \in Nat
    BY <1>4, FS_CardinalityType
  <2>q. QED BY <2>1, <2>2, <2>3
<1>7. Cardinality(ts) \in Nat /\ Cardinality(ts) >= 1
  BY <1>1, FS_Subset, FS_CardinalityType, FS_EmptySet
<1>8. Writes = Cardinality(All)
  BY DEF Writes
<1>q. QED BY <1>5, <1>6, <1>7, <1>8, MaxWritesAssumption

-----------------------------------------------------------------------------
(* Steps.                                                                  *)

(* What depends on the page alone is not changed by any step.              *)
LEMMA PageIsKept ==
  ASSUME page' = page
  PROVE  /\ Queries' = Queries /\ Blank' = Blank /\ Shown' = Shown
         /\ \A n : IsSet(n)' <=> IsSet(n)
         /\ SetIsKey' <=> SetIsKey
         /\ NotAsked' = NotAsked /\ Members' = Members
<1>1. Queries' = Queries
  BY DEF Queries
<1>q. QED BY <1>1 DEF Blank, Shown, IsSet, SetIsKey, NotAsked, Members

LEMMA InitPageInv == PageInit => PageInv
<1> SUFFICES ASSUME PageInit PROVE PageInv
  OBVIOUS
<1> USE MaxWritesAssumption
<1>1. Blank \in [1..Len(Queries) -> 0..NotAsked]
  BY DEF Blank, NotAsked
<1>2. PageTypeOK
  <2>1. todo \in [Calls -> Rests]
    BY RestsFacts DEF PageInit
  <2>2. value = NoPage /\ NoPage # Members
    BY DEF PageInit, NoPage, Members
  <2>3. draft \in [Calls -> [1..Len(Queries) -> 0..NotAsked]]
    BY <1>1 DEF PageInit
  <2>4. written \in [Tables -> 0..MaxWrites] /\ step \in [Calls -> PageStages]
    BY DEF PageInit, PageStages
  <2>5. /\ page \in Kinds /\ listed \in BOOLEAN /\ behind \in BOOLEAN
        /\ late \subseteq Calls
    BY DEF PageInit
  <2>q. QED BY <2>1, <2>2, <2>3, <2>4, <2>5 DEF PageTypeOK, Rests
<1>3. PageIsOfOneMoment
  BY DEF PageInit, PageIsOfOneMoment, IsPage
<1>4. SeenIsCurrent
  BY QueriesFacts DEF PageInit, SeenIsCurrent, Blank
<1>5. ClearsSomething
  BY DEF PageInit, ClearsSomething, Clearing
<1>q. QED BY <1>2, <1>3, <1>4, <1>5 DEF PageInv

(* The end of a request.                                                   *)
LEMMA EndFacts ==
  ASSUME PageTypeOK, SeenIsCurrent, ClearsSomething, NEW r \in Calls, EndRequest(r),
         page' = page, written' = written
  PROVE  /\ step' \in [Calls -> PageStages] /\ todo' \in [Calls -> Rests]
         /\ draft' \in [Calls -> [1..Len(Queries) -> 0..NotAsked]]
         /\ late' \subseteq Calls
         /\ SeenIsCurrent'
         /\ step'[r] = "idle"
         /\ \A q \in Calls \ {r} : step'[q] = step[q] /\ todo'[q] = todo[q]
<1>1. /\ step \in [Calls -> PageStages] /\ todo \in [Calls -> Rests]
      /\ draft \in [Calls -> [1..Len(Queries) -> 0..NotAsked]] /\ late \subseteq Calls
  BY DEF PageTypeOK, Rests
<1>2. /\ step' = [step EXCEPT ![r] = "idle"] /\ todo' = [todo EXCEPT ![r] = <<>>]
      /\ draft' = [draft EXCEPT ![r] = Blank] /\ late' = late \ {r}
  BY DEF EndRequest, MovesTo
<1>3. Blank \in [1..Len(Queries) -> 0..NotAsked] /\ \A i \in DOMAIN Queries : Blank[i] = NotAsked
  BY QueriesFacts, MaxWritesAssumption DEF Blank, NotAsked
<1>4. SeenIsCurrent'
  <2> SUFFICES ASSUME NEW q \in Calls \ late', NEW i \in DOMAIN Queries, draft'[q][i] # NotAsked
               PROVE  draft'[q][i] = written[Queries[i]]
    BY PageIsKept DEF SeenIsCurrent
  <2>1. q # r
    BY <1>1, <1>2, <1>3
  <2>2. draft'[q] = draft[q] /\ q \notin late
    BY <1>1, <1>2, <2>1
  <2>q. QED BY <2>2 DEF SeenIsCurrent
<1>5. step' \in [Calls -> PageStages] /\ step'[r] = "idle"
      /\ \A q \in Calls \ {r} : step'[q] = step[q]
  BY <1>1, <1>2 DEF PageStages
<1>6. todo' \in [Calls -> Rests] /\ \A q \in Calls \ {r} : todo'[q] = todo[q]
  BY <1>1, <1>2, RestsFacts
<1>q. QED BY <1>1, <1>2, <1>3, <1>4, <1>5, <1>6

(* A step that neither writes a table nor stores a page.                   *)
LEMMA SameMoment ==
  ASSUME PageIsOfOneMoment, page' = page, written' = written,
         ~IsPage' \/ (value' = value /\ behind' = behind)
  PROVE  PageIsOfOneMoment'
<1>1. Queries' = Queries /\ Members' = Members
  BY PageIsKept
<1>q. QED BY <1>1 DEF PageIsOfOneMoment, IsPage, Now, NoPage

LEMMA SameSeen ==
  ASSUME SeenIsCurrent, page' = page, written' = written, draft' = draft, late' = late
  PROVE  SeenIsCurrent'
BY PageIsKept DEF SeenIsCurrent

(* A step of one request that does not end within a ClearCache.            *)
LEMMA SameClears ==
  ASSUME ClearsSomething, NEW r \in Calls, step'[r] \notin Clearing,
         \A q \in Calls \ {r} : step'[q] = step[q] /\ todo'[q] = todo[q]
  PROVE  ClearsSomething'
<1> SUFFICES ASSUME NEW q \in Calls, step'[q] \in Clearing
             PROVE  todo'[q] # <<>>
  BY DEF ClearsSomething, Clearing
<1>q. QED BY DEF ClearsSomething

-----------------------------------------------------------------------------

LEMMA ReadKeepsPageInv ==
  ASSUME PageInv, NEW r \in Calls, Miss(r) \/ Query(r)
  PROVE  PageInv'
<1> USE MaxWritesAssumption
<1>0. PageTypeOK /\ PageIsOfOneMoment /\ SeenIsCurrent /\ ClearsSomething
  BY DEF PageInv
<1>1. /\ UNCHANGED <<page, written, value, listed, todo, late, behind>>
      /\ step[r] \notin Clearing
  BY DEF Miss, Query, Clearing
<1>2. step' \in [Calls -> PageStages] /\ step'[r] \notin Clearing
      /\ \A q \in Calls \ {r} : step'[q] = step[q]
  <2>1. CASE Miss(r)
    BY <1>0, <2>1 DEF Miss, MovesTo, PageTypeOK, PageStages, Clearing
  <2>2. CASE Query(r)
    BY <1>0, <2>2 DEF Query, PageTypeOK, Clearing
  <2>q. QED BY <2>1, <2>2
<1>3. /\ draft' \in [Calls -> [1..Len(Queries) -> 0..NotAsked]]
      /\ SeenIsCurrent'
  <2>1. CASE Miss(r)
    <3>1. draft' = draft
      BY <2>1 DEF Miss
    <3>q. QED BY <1>0, <1>1, <3>1, SameSeen DEF PageTypeOK
  <2>2. CASE Query(r)
    <3>1. PICK i \in DOMAIN Queries : draft' = [draft EXCEPT ![r][i] = written[Queries[i]]]
      BY <2>2 DEF Query
    <3>2. written[Queries[i]] \in 0..MaxWrites /\ i \in 1..Len(Queries)
      BY <1>0, <3>1, QueriesFacts DEF PageTypeOK
    <3>3. draft \in [Calls -> [1..Len(Queries) -> 0..NotAsked]]
      BY <1>0 DEF PageTypeOK
    <3>4. /\ draft' \in [Calls -> [1..Len(Queries) -> 0..NotAsked]]
          /\ draft'[r][i] = written[Queries[i]]
          /\ \A j \in 1..Len(Queries) : j # i => draft'[r][j] = draft[r][j]
          /\ \A q \in Calls : q # r => draft'[q] = draft[q]
      BY <3>1, <3>2, <3>3 DEF NotAsked
    <3>5. SeenIsCurrent'
      <4> SUFFICES ASSUME NEW q \in Calls \ late, NEW j \in DOMAIN Queries, draft'[q][j] # NotAsked
                   PROVE  draft'[q][j] = written[Queries[j]]
        BY <1>1, PageIsKept DEF SeenIsCurrent
      <4>1. CASE q = r /\ j = i
        BY <3>4, <4>1
      <4>2. CASE q # r \/ j # i
        <5>1. draft'[q][j] = draft[q][j]
          BY <3>4, <4>2, QueriesFacts
        <5>q. QED BY <1>0, <5>1 DEF SeenIsCurrent
      <4>q. QED BY <4>1, <4>2
    <3>q. QED BY <3>4, <3>5
  <2>q. QED BY <2>1, <2>2
<1>4. PageTypeOK'
  <2>1. Queries' = Queries /\ Members' = Members /\ NotAsked' = NotAsked /\ (SetIsKey' <=> SetIsKey)
    BY <1>1, PageIsKept
  <2>q. QED BY <1>0, <1>1, <1>2, <1>3, <2>1 DEF PageTypeOK, NoPage
<1>5. PageIsOfOneMoment'
  BY <1>0, <1>1, SameMoment
<1>6. ClearsSomething'
  BY <1>0, <1>1, <1>2, SameClears
<1>q. QED BY <1>3, <1>4, <1>5, <1>6 DEF PageInv

(* What a reader stores was true of all tables at one moment.              *)
LEMMA SetKeepsPageInv ==
  ASSUME PageInv, NEW r \in Calls, Set(r)
  PROVE  PageInv'
<1> USE MaxWritesAssumption
<1>0. PageTypeOK /\ PageIsOfOneMoment /\ SeenIsCurrent /\ ClearsSomething
  BY DEF PageInv
<1>1. /\ UNCHANGED <<page, written, listed, todo, draft, late>>
      /\ Answered(r) /\ step' = [step EXCEPT ![r] = "sadd"]
      /\ \/ value' = draft[r] /\ behind' = (r \in late)
         \/ value' = value /\ behind' = behind
  BY DEF Set, MovesTo
<1>2. step' \in [Calls -> PageStages] /\ step'[r] \notin Clearing
      /\ \A q \in Calls \ {r} : step'[q] = step[q]
  BY <1>0, <1>1 DEF PageTypeOK, PageStages, Clearing
<1>3. Queries' = Queries /\ Members' = Members /\ NotAsked' = NotAsked /\ (SetIsKey' <=> SetIsKey)
  BY <1>1, PageIsKept
<1>4. /\ draft[r] \in [1..Len(Queries) -> 0..MaxWrites]
      /\ draft[r] # Members /\ draft[r] # NoPage
  <2>1. draft[r] \in [1..Len(Queries) -> 0..NotAsked]
    BY <1>0 DEF PageTypeOK
  <2>2. \A i \in 1..Len(Queries) : draft[r][i] # NotAsked
    BY <1>1, QueriesFacts DEF Answered
  <2>3. draft[r] \in [1..Len(Queries) -> 0..MaxWrites]
    BY <2>1, <2>2 DEF NotAsked
  <2>4. 1 \in 1..Len(Queries)
    BY QueriesFacts
  <2>5. draft[r] # Members
    BY <2>2, <2>4 DEF Members
  <2>6. draft[r] # NoPage
    <3>1. DOMAIN draft[r] = 1..Len(Queries) /\ DOMAIN NoPage = {}
      BY <2>1 DEF NoPage
    <3>q. QED BY <2>4, <3>1
  <2>q. QED BY <2>3, <2>5, <2>6
<1>5. PageTypeOK'
  <2>1. /\ value' \in {NoPage, Members} \cup [1..Len(Queries) -> 0..MaxWrites]
        /\ value' = Members => SetIsKey
        /\ behind' \in BOOLEAN
    <3>1. CASE value' = value /\ behind' = behind
      BY <1>0, <3>1 DEF PageTypeOK
    <3>2. CASE value' = draft[r] /\ behind' = (r \in late)
      BY <1>4, <3>2
    <3>q. QED BY <1>1, <3>1, <3>2
  <2>q. QED BY <1>0, <1>1, <1>2, <1>3, <2>1 DEF PageTypeOK, NoPage
<1>6. PageIsOfOneMoment'
  <2>1. CASE value' = value /\ behind' = behind
    BY <1>0, <1>1, <2>1, SameMoment
  <2>2. CASE value' = draft[r] /\ behind' = (r \in late)
    <3>1. SUFFICES ASSUME r \notin late PROVE draft[r] = Now'
      BY <2>2 DEF PageIsOfOneMoment
    <3>2. \A i \in 1..Len(Queries) : draft[r][i] = written[Queries[i]]
      BY <1>0, <1>1, <3>1, QueriesFacts DEF SeenIsCurrent, Answered
    <3>3. draft[r] = [i \in 1..Len(Queries) |-> written[Queries[i]]]
      BY <1>4, <3>2
    <3>q. QED BY <1>1, <1>3, <3>3 DEF Now
  <2>q. QED BY <1>1, <2>1, <2>2
<1>7. SeenIsCurrent'
  BY <1>0, <1>1, SameSeen
<1>8. ClearsSomething'
  BY <1>0, <1>1, <1>2, SameClears
<1>q. QED BY <1>5, <1>6, <1>7, <1>8 DEF PageInv

(* SADD makes a set of a key that is gone, and no page of it.              *)
LEMMA SAddKeepsPageInv ==
  ASSUME PageInv, NEW r \in Calls, SAdd(r)
  PROVE  PageInv'
<1>0. PageTypeOK /\ PageIsOfOneMoment /\ SeenIsCurrent /\ ClearsSomething
  BY DEF PageInv
<1>1. /\ EndRequest(r) /\ UNCHANGED <<page, written, behind>> /\ step[r] = "sadd"
      /\ \/ /\ SetIsKey /\ value' = IF value = NoPage THEN Members ELSE value
            /\ listed' = listed
         \/ listed' = TRUE /\ value' = value
         \/ value' = value /\ listed' = listed
  BY DEF SAdd
<1>2. /\ step' \in [Calls -> PageStages] /\ todo' \in [Calls -> Rests]
      /\ draft' \in [Calls -> [1..Len(Queries) -> 0..NotAsked]]
      /\ late' \subseteq Calls /\ SeenIsCurrent'
      /\ step'[r] = "idle"
      /\ \A q \in Calls \ {r} : step'[q] = step[q] /\ todo'[q] = todo[q]
  BY <1>0, <1>1, EndFacts
<1>3. Queries' = Queries /\ Members' = Members /\ NotAsked' = NotAsked /\ (SetIsKey' <=> SetIsKey)
  BY <1>1, PageIsKept
<1>4. Members # NoPage
  BY DEF Members, NoPage
<1>5. PageTypeOK'
  <2>1. /\ value' \in {NoPage, Members} \cup [1..Len(Queries) -> 0..MaxWrites]
        /\ value' = Members => SetIsKey
    BY <1>0, <1>1 DEF PageTypeOK
  <2>2. listed' \in BOOLEAN
    BY <1>0, <1>1 DEF PageTypeOK
  <2>q. QED BY <1>0, <1>1, <1>2, <1>3, <2>1, <2>2 DEF PageTypeOK, Rests, NoPage
<1>6. PageIsOfOneMoment'
  <2>1. ~IsPage' \/ value' = value
    BY <1>1, <1>3 DEF IsPage
  <2>q. QED BY <1>0, <1>1, <2>1, SameMoment
<1>7. ClearsSomething'
  BY <1>0, <1>2, SameClears DEF Clearing
<1>q. QED BY <1>2, <1>5, <1>6, <1>7 DEF PageInv

(* The end of a request, whatever it has done.                             *)
LEMMA EndKeepsPageInv ==
  ASSUME PageInv, NEW r \in Calls, EndRequest(r),
         UNCHANGED <<page, written, value, listed, behind>>
  PROVE  PageInv'
<1>0. PageTypeOK /\ PageIsOfOneMoment /\ SeenIsCurrent /\ ClearsSomething
  BY DEF PageInv
<1>2. /\ step' \in [Calls -> PageStages] /\ todo' \in [Calls -> Rests]
      /\ draft' \in [Calls -> [1..Len(Queries) -> 0..NotAsked]]
      /\ late' \subseteq Calls /\ SeenIsCurrent'
      /\ step'[r] = "idle"
      /\ \A q \in Calls \ {r} : step'[q] = step[q] /\ todo'[q] = todo[q]
  BY <1>0, EndFacts
<1>3. Queries' = Queries /\ Members' = Members /\ NotAsked' = NotAsked /\ (SetIsKey' <=> SetIsKey)
  BY PageIsKept
<1>4. PageTypeOK'
  BY <1>0, <1>2, <1>3 DEF PageTypeOK, Rests, NoPage
<1>5. PageIsOfOneMoment'
  BY <1>0, SameMoment
<1>6. ClearsSomething'
  BY <1>0, <1>2, SameClears DEF Clearing
<1>q. QED BY <1>2, <1>4, <1>5, <1>6 DEF PageInv

LEMMA MutateKeepsPageInv ==
  ASSUME PageInv, NEW r \in Calls, Mutate(r)
  PROVE  PageInv'
<1>0. PageTypeOK /\ PageIsOfOneMoment /\ SeenIsCurrent /\ ClearsSomething
  BY DEF PageInv
<1>1. /\ UNCHANGED <<page, written, value, listed, draft, late, behind>>
      /\ step' = [step EXCEPT ![r] = "do"]
  BY DEF Mutate, MovesTo
<1>2. PICK h \in Handlers : todo' = [todo EXCEPT ![r] = h]
  BY DEF Mutate
<1>3. /\ step' \in [Calls -> PageStages] /\ step'[r] \notin Clearing
      /\ \A q \in Calls \ {r} : step'[q] = step[q]
  BY <1>0, <1>1 DEF PageTypeOK, PageStages, Clearing
<1>4. todo' \in [Calls -> Rests] /\ \A q \in Calls \ {r} : todo'[q] = todo[q]
  BY <1>0, <1>2, RestsFacts DEF PageTypeOK, Rests
<1>5. Queries' = Queries /\ Members' = Members /\ NotAsked' = NotAsked /\ (SetIsKey' <=> SetIsKey)
  BY <1>1, PageIsKept
<1>6. PageTypeOK'
  BY <1>0, <1>1, <1>3, <1>4, <1>5 DEF PageTypeOK, Rests, NoPage
<1>7. PageIsOfOneMoment'
  BY <1>0, <1>1, SameMoment
<1>8. SeenIsCurrent'
  BY <1>0, <1>1, SameSeen
<1>9. ClearsSomething'
  BY <1>0, <1>1, <1>3, <1>4, SameClears
<1>q. QED BY <1>6, <1>7, <1>8, <1>9 DEF PageInv

(* What is left of the work of a handler after one of its operations.      *)
LEMMA DoneFacts ==
  ASSUME PageTypeOK, NEW r \in Calls, todo[r] # <<>>
  PROVE  /\ ToDo(r) \in Ops
         /\ Done(r) => /\ todo' \in [Calls -> Rests]
                       /\ \A q \in Calls \ {r} : todo'[q] = todo[q]
<1>1. todo \in [Calls -> Rests] /\ todo[r] \in Rests
  BY DEF PageTypeOK, Rests
<1>2. Head(todo[r]) \in Ops /\ Tail(todo[r]) \in Rests
  BY <1>1, RestsFacts
<1>3. ASSUME Done(r)
      PROVE  todo' \in [Calls -> Rests] /\ \A q \in Calls \ {r} : todo'[q] = todo[q]
  BY <1>1, <1>2, <1>3 DEF Done
<1>q. QED BY <1>2, <1>3 DEF ToDo

(* A commit marks the readers it overtakes, and the page.                  *)
LEMMA CommitKeepsPageInv ==
  ASSUME PageInv, NEW r \in Calls, CommitWrite(r)
  PROVE  PageInv'
<1> DEFINE ts == ToDo(r).tables
<1>0. PageTypeOK /\ PageIsOfOneMoment /\ SeenIsCurrent /\ ClearsSomething
  BY DEF PageInv
<1>1. /\ step[r] = "do" /\ todo[r] # <<>> /\ Done(r)
      /\ Writes + Cardinality(ts) <= MaxWrites
      /\ written' = [t \in Tables |-> IF t \in ts THEN written[t] + 1 ELSE written[t]]
      /\ late' = late \cup {q \in Calls : HasSeen(q, ts)}
      /\ behind' = (behind \/ (IsPage /\ Shown \cap ts # {}))
      /\ UNCHANGED <<page, value, listed, step, draft>>
  BY DEF CommitWrite
<1>2. ts \in SUBSET Tables
  BY <1>0, <1>1, DoneFacts DEF Ops
<1>3. todo' \in [Calls -> Rests] /\ \A q \in Calls \ {r} : todo'[q] = todo[q]
  BY <1>0, <1>1, DoneFacts
<1> HIDE DEF ts
<1>4. Queries' = Queries /\ Members' = Members /\ NotAsked' = NotAsked /\ (SetIsKey' <=> SetIsKey)
  BY <1>1, PageIsKept
<1>5. PageTypeOK'
  <2>1. written \in [Tables -> 0..MaxWrites]
    BY <1>0 DEF PageTypeOK
  <2>2. \A t \in ts : written[t] + 1 \in 0..MaxWrites
    BY <1>1, <1>2, <2>1, WritesFacts
  <2>3. written' \in [Tables -> 0..MaxWrites]
    BY <1>1, <2>1, <2>2
  <2>4. late' \subseteq Calls /\ behind' \in BOOLEAN
    BY <1>0, <1>1 DEF PageTypeOK
  <2>q. QED BY <1>0, <1>1, <1>3, <1>4, <2>3, <2>4 DEF PageTypeOK, Rests, NoPage
<1>6. PageIsOfOneMoment'
  <2> SUFFICES ASSUME IsPage', ~behind' PROVE value' = Now'
    BY DEF PageIsOfOneMoment
  <2>1. IsPage /\ ~behind /\ Shown \cap ts = {}
    BY <1>1, <1>4 DEF IsPage, NoPage
  <2>2. \A i \in 1..Len(Queries) : Queries[i] \in Tables /\ Queries[i] \notin ts
    BY <2>1, QueriesFacts DEF Shown
  <2>3. \A i \in 1..Len(Queries) : written'[Queries[i]] = written[Queries[i]]
    BY <1>1, <2>2
  <2>4. Now' = Now
    BY <1>4, <2>3 DEF Now
  <2>q. QED BY <1>0, <1>1, <2>1, <2>4 DEF PageIsOfOneMoment
<1>7. SeenIsCurrent'
  <2> SUFFICES ASSUME NEW q \in Calls \ late', NEW i \in DOMAIN Queries, draft[q][i] # NotAsked
               PROVE  draft[q][i] = written'[Queries[i]]
    BY <1>1, <1>4 DEF SeenIsCurrent
  <2>1. q \notin late /\ ~HasSeen(q, ts)
    BY <1>1
  <2>2. Queries[i] \notin ts /\ Queries[i] \in Tables
    BY <2>1, QueriesFacts DEF HasSeen
  <2>3. draft[q][i] = written[Queries[i]]
    BY <1>0, <2>1 DEF SeenIsCurrent
  <2>q. QED BY <1>1, <2>2, <2>3
<1>8. ClearsSomething'
  BY <1>0, <1>1, <1>3, SameClears DEF Clearing
<1>q. QED BY <1>5, <1>6, <1>7, <1>8 DEF PageInv

(* DEL and SMEMBERS leave every page as it is.                             *)
LEMMA DelKeepsPageInv ==
  ASSUME PageInv, NEW r \in Calls, Del(r)
  PROVE  PageInv'
<1>0. PageTypeOK /\ PageIsOfOneMoment /\ SeenIsCurrent /\ ClearsSomething
  BY DEF PageInv
<1>1. /\ todo[r] # <<>> /\ step' = [step EXCEPT ![r] = "smembers"]
      /\ listed' = (listed /\ ~IsSet(ToDo(r).name)) \/ listed' = listed
      /\ UNCHANGED <<page, written, value, todo, draft, late, behind>>
  BY DEF Del, DelSet, MovesTo
<1>2. /\ step' \in [Calls -> PageStages]
      /\ \A q \in Calls \ {r} : step'[q] = step[q]
  BY <1>0, <1>1 DEF PageTypeOK, PageStages
<1>3. Queries' = Queries /\ Members' = Members /\ NotAsked' = NotAsked /\ (SetIsKey' <=> SetIsKey)
  BY <1>1, PageIsKept
<1>4. PageTypeOK'
  <2>1. listed' \in BOOLEAN
    BY <1>0, <1>1 DEF PageTypeOK
  <2>q. QED BY <1>0, <1>1, <1>2, <1>3, <2>1 DEF PageTypeOK, NoPage
<1>5. PageIsOfOneMoment'
  BY <1>0, <1>1, SameMoment
<1>6. SeenIsCurrent'
  BY <1>0, <1>1, SameSeen
<1>7. ClearsSomething'
  BY <1>0, <1>1, <1>2 DEF ClearsSomething
<1>q. QED BY <1>4, <1>5, <1>6, <1>7 DEF PageInv

LEMMA SMembersKeepsPageInv ==
  ASSUME PageInv, NEW r \in Calls, SMembers(r)
  PROVE  PageInv'
<1>0. PageTypeOK /\ PageIsOfOneMoment /\ SeenIsCurrent /\ ClearsSomething
  BY DEF PageInv
<1>1. /\ step[r] = "smembers" /\ todo[r] # <<>>
      /\ \/ step' = [step EXCEPT ![r] = "delMembers"] /\ todo' = todo
         \/ step' = [step EXCEPT ![r] = "do"] /\ Done(r)
      /\ UNCHANGED <<page, written, value, listed, draft, late, behind>>
  BY <1>0 DEF SMembers, MovesTo, ClearsSomething, Clearing
<1>2. /\ step' \in [Calls -> PageStages]
      /\ \A q \in Calls \ {r} : step'[q] = step[q]
  BY <1>0, <1>1 DEF PageTypeOK, PageStages
<1>3. todo' \in [Calls -> Rests] /\ \A q \in Calls \ {r} : todo'[q] = todo[q]
  <2>1. CASE todo' = todo
    BY <1>0, <2>1 DEF PageTypeOK, Rests
  <2>2. CASE Done(r)
    BY <1>0, <1>1, <2>2, DoneFacts
  <2>q. QED BY <1>1, <2>1, <2>2
<1>4. Queries' = Queries /\ Members' = Members /\ NotAsked' = NotAsked /\ (SetIsKey' <=> SetIsKey)
  BY <1>1, PageIsKept
<1>5. PageTypeOK'
  BY <1>0, <1>1, <1>2, <1>3, <1>4 DEF PageTypeOK, Rests, NoPage
<1>6. PageIsOfOneMoment'
  BY <1>0, <1>1, SameMoment
<1>7. SeenIsCurrent'
  BY <1>0, <1>1, SameSeen
<1>8. ClearsSomething'
  <2>1. CASE todo' = todo
    BY <1>0, <1>1, <1>2, <2>1 DEF ClearsSomething
  <2>2. CASE step' = [step EXCEPT ![r] = "do"]
    <3>1. step'[r] = "do"
      BY <1>0, <2>2 DEF PageTypeOK
    <3>q. QED BY <1>0, <1>2, <1>3, <3>1, SameClears DEF Clearing
  <2>q. QED BY <1>1, <2>1, <2>2
<1>q. QED BY <1>5, <1>6, <1>7, <1>8 DEF PageInv

(* DEL of the members takes the whole page.                                *)
LEMMA DelMembersKeepsPageInv ==
  ASSUME PageInv, NEW r \in Calls, DelMembers(r)
  PROVE  PageInv'
<1>0. PageTypeOK /\ PageIsOfOneMoment /\ SeenIsCurrent /\ ClearsSomething
  BY DEF PageInv
<1>1. /\ todo[r] # <<>> /\ step' = [step EXCEPT ![r] = "do"] /\ Done(r)
      /\ \/ value' = NoPage /\ behind' = FALSE
         \/ value' = value /\ behind' = behind
      /\ UNCHANGED <<page, written, listed, draft, late>>
  BY <1>0 DEF DelMembers, MovesTo, ClearsSomething, Clearing
<1>2. /\ step' \in [Calls -> PageStages] /\ step'[r] \notin Clearing
      /\ \A q \in Calls \ {r} : step'[q] = step[q]
  BY <1>0, <1>1 DEF PageTypeOK, PageStages, Clearing
<1>3. todo' \in [Calls -> Rests] /\ \A q \in Calls \ {r} : todo'[q] = todo[q]
  BY <1>0, <1>1, DoneFacts
<1>4. Queries' = Queries /\ Members' = Members /\ NotAsked' = NotAsked /\ (SetIsKey' <=> SetIsKey)
  BY <1>1, PageIsKept
<1>5. PageTypeOK'
  <2>1. /\ value' \in {NoPage, Members} \cup [1..Len(Queries) -> 0..MaxWrites]
        /\ value' = Members => SetIsKey
        /\ behind' \in BOOLEAN
    <3>1. Members # NoPage
      BY DEF Members, NoPage
    <3>2. CASE value' = NoPage /\ behind' = FALSE
      BY <3>1, <3>2
    <3>3. CASE value' = value /\ behind' = behind
      BY <1>0, <3>3 DEF PageTypeOK
    <3>q. QED BY <1>1, <3>2, <3>3
  <2>q. QED BY <1>0, <1>1, <1>2, <1>3, <1>4, <2>1 DEF PageTypeOK, Rests, NoPage
<1>6. PageIsOfOneMoment'
  <2>1. ~IsPage' \/ (value' = value /\ behind' = behind)
    <3>1. value' = NoPage => ~IsPage'
      BY DEF IsPage, NoPage
    <3>q. QED BY <1>1, <3>1
  <2>q. QED BY <1>0, <1>1, <2>1, SameMoment
<1>7. SeenIsCurrent'
  BY <1>0, <1>1, SameSeen
<1>8. ClearsSomething'
  BY <1>0, <1>2, <1>3, SameClears
<1>q. QED BY <1>5, <1>6, <1>7, <1>8 DEF PageInv

LEMMA ExpireKeepsPageInv ==
  ASSUME PageInv, Expire \/ UNCHANGED pageVars
  PROVE  PageInv'
<1>0. PageTypeOK /\ PageIsOfOneMoment /\ SeenIsCurrent /\ ClearsSomething
  BY DEF PageInv
<1>1. /\ UNCHANGED <<page, written, listed, step, todo, draft, late>>
      /\ \/ value' = NoPage /\ behind' = FALSE
         \/ value' = value /\ behind' = behind
  BY DEF Expire, pageVars
<1>2. Queries' = Queries /\ Members' = Members /\ NotAsked' = NotAsked /\ (SetIsKey' <=> SetIsKey)
  BY <1>1, PageIsKept
<1>3. PageTypeOK'
  <2>1. /\ value' \in {NoPage, Members} \cup [1..Len(Queries) -> 0..MaxWrites]
        /\ value' = Members => SetIsKey
        /\ behind' \in BOOLEAN
    <3>1. Members # NoPage
      BY DEF Members, NoPage
    <3>2. CASE value' = NoPage /\ behind' = FALSE
      BY <3>1, <3>2
    <3>3. CASE value' = value /\ behind' = behind
      BY <1>0, <3>3 DEF PageTypeOK
    <3>q. QED BY <1>1, <3>2, <3>3
  <2>q. QED BY <1>0, <1>1, <1>2, <2>1 DEF PageTypeOK, NoPage
<1>4. PageIsOfOneMoment'
  <2>1. ~IsPage' \/ (value' = value /\ behind' = behind)
    <3>1. value' = NoPage => ~IsPage'
      BY DEF IsPage, NoPage
    <3>q. QED BY <1>1, <3>1
  <2>q. QED BY <1>0, <1>1, <2>1, SameMoment
<1>5. SeenIsCurrent'
  BY <1>0, <1>1, SameSeen
<1>6. ClearsSomething'
  BY <1>0, <1>1 DEF ClearsSomething
<1>q. QED BY <1>3, <1>4, <1>5, <1>6 DEF PageInv

LEMMA PageStep ==
  ASSUME PageInv, [PageNext]_pageVars
  PROVE  PageInv'
<1>1. CASE Expire \/ UNCHANGED pageVars
  BY <1>1, ExpireKeepsPageInv
<1>2. ASSUME NEW r \in Calls, Read(r) \/ Change(r) \/ GiveUp(r)
      PROVE  PageInv'
  <2>1. CASE Read(r)
    BY <2>1, ReadKeepsPageInv, SetKeepsPageInv, SAddKeepsPageInv DEF Read
  <2>2. CASE Change(r) /\ ~Answer(r)
    BY <2>2, MutateKeepsPageInv, CommitKeepsPageInv, DelKeepsPageInv, SMembersKeepsPageInv,
       DelMembersKeepsPageInv DEF Change
  <2>3. CASE Answer(r) \/ GiveUp(r)
    <3>1. EndRequest(r) /\ UNCHANGED <<page, written, value, listed, behind>>
      BY <2>3 DEF Answer, GiveUp
    <3>q. QED BY <3>1, EndKeepsPageInv
  <2>q. QED BY <1>2, <2>1, <2>2, <2>3
<1>q. QED BY <1>1, <1>2 DEF PageNext

LEMMA PageInvHolds == PageSpec => []PageInv
BY InitPageInv, PageStep, PTL DEF PageSpec

(* Every variable keeps its type, whichever page is looked at: a page in   *)
(* Redis has an answer to each of its queries.                             *)
THEOREM PageTypes == PageSpec => []PageTypeOK
<1>1. PageInv => PageTypeOK
  BY DEF PageInv
<1>q. QED BY <1>1, PageInvHolds, PTL

(* A page that no write overtook is of one moment, for any readers and     *)
(* handlers at once.                                                       *)
THEOREM PagesAreOfOneMoment == PageSpec => []PageIsOfOneMoment
<1>1. PageInv => PageIsOfOneMoment
  BY DEF PageInv
<1>q. QED BY <1>1, PageInvHolds, PTL

=============================================================================
