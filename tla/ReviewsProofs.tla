--------------------------- MODULE ReviewsProofs ----------------------------
(***************************************************************************)
(* Theorems about Reviews, for any number of requests, images and objects. *)
(***************************************************************************)
EXTENDS Reviews, TLAPS

(* What a request of each kind does and holds at each stage.               *)
StageOf(r) ==
    /\ at[r] = "idle" => kind[r] = "none"
    /\ at[r] = "insert" => kind[r] = "submit"
    /\ at[r] \in {"save", "fetch", "delfile", "delrow"} => kind[r] = "update"
    /\ at[r] \in {"clear", "upload", "rows"} => kind[r] \in {"submit", "update"}
    /\ kind[r] = "none" => up[r] = {} /\ olds[r] = {} /\ body[r] = {}
    /\ kind[r] = "submit" => olds[r] = {}
    /\ kind[r] = "submit" /\ at[r] \in {"insert", "clear"} => up[r] = {}
    /\ at[r] \in {"upload", "save", "fetch"} => olds[r] = {}
    /\ at[r] \in {"fetch", "delfile", "delrow"} => up[r] # {} /\ posted
    /\ at[r] \in {"delfile", "delrow"} => todo[r] \subseteq olds[r]
    /\ at[r] = "rows" => todo[r] \subseteq up[r] \cup body[r] /\ posted
    /\ kind[r] = "submit" /\ at[r] # "insert" => posted
    /\ kind[r] = "update" /\ up[r] = {} => olds[r] = {}

StageInv == \A r \in Requests : StageOf(r)

Base == TypeOK /\ StageInv

Known == 1..(nextFile - 1)

-----------------------------------------------------------------------------

Same(s) ==
    /\ at'[s] = at[s] /\ kind'[s] = kind[s] /\ body'[s] = body[s]
    /\ up'[s] = up[s] /\ olds'[s] = olds[s] /\ todo'[s] = todo[s]

(* A step of r leaves the stage of any other request as it is.             *)
LEMMA OneKeepsStages ==
  ASSUME StageInv, NEW r \in Requests, posted => posted',
         \A s \in Requests \ {r} : Same(s), StageOf(r)'
  PROVE  StageInv'
<1> SUFFICES ASSUME NEW s \in Requests, s # r PROVE StageOf(s)'
  BY DEF StageInv
<1>1. StageOf(s) /\ Same(s)
  BY DEF StageInv
<1>q. QED BY <1>1 DEF StageOf, Same

LEMMA FinishKeepsStages ==
  ASSUME Base, NEW r \in Requests, Finish(r), posted' = posted
  PROVE  StageInv'
<1>1. \A s \in Requests \ {r} : Same(s)
  BY DEF Base, TypeOK, Finish, Goes, Same
<1>2. StageOf(r)'
  BY DEF Base, TypeOK, Finish, Goes, StageOf
<1>q. QED BY <1>1, <1>2, OneKeepsStages DEF Base

LEMMA BaseInit == Init => Base
<1> SUFFICES ASSUME Init PROVE Base
  OBVIOUS
<1>1. TypeOK
  <2>1. nextFile \in 1..(MaxFiles + 1) /\ left \in [Requests -> 0..MaxImages]
    BY ReviewBounds DEF Init
  <2>4. files \subseteq 1..(nextFile - 1) /\ loose \subseteq 1..(nextFile - 1)
    BY DEF Init
  <2>2. kind \in [Requests -> Kinds] /\ at \in [Requests -> Stages]
    BY DEF Init, Kinds, Stages
  <2>3. \A f \in {body, up, olds, todo} : f \in [Requests -> SUBSET (1..(nextFile - 1))]
    BY DEF Init
  <2>q. QED BY <2>1, <2>2, <2>3, <2>4 DEF Init, TypeOK
<1>2. StageInv
  BY DEF Init, StageInv, StageOf
<1>q. QED BY <1>1, <1>2 DEF Base

LEMMA BaseStep == Base /\ [Next]_vars => Base'
<1> SUFFICES ASSUME Base, [Next]_vars PROVE Base'
  OBVIOUS
<1> USE ReviewBounds DEF Base, tables, bucket, memory, history
<1>t. /\ kind \in [Requests -> Kinds] /\ at \in [Requests -> Stages]
      /\ left \in [Requests -> 0..MaxImages] /\ nextFile \in 1..(MaxFiles + 1)
      /\ body \in [Requests -> SUBSET Known] /\ up \in [Requests -> SUBSET Known]
      /\ olds \in [Requests -> SUBSET Known] /\ todo \in [Requests -> SUBSET Known]
      /\ rows \subseteq Known /\ files \subseteq Known /\ loose \subseteq Known
      /\ relisted \subseteq Known /\ spaced \subseteq Known /\ met \subseteq Requests
  BY DEF TypeOK, Known
<1>f. ASSUME NEW r \in Requests, Finish(r),
             UNCHANGED <<tables, bucket>>,
             loose' \subseteq Known, relisted' = relisted
      PROVE  Base'
  <2>1. TypeOK'
    BY <1>f DEF TypeOK, Known, Finish, Goes, Kinds, Stages
  <2>q. QED BY <2>1, <1>f, FinishKeepsStages
<1>1. ASSUME NEW r \in Requests, NEW what \in Kinds, NEW stage \in Stages, NEW n \in 0..MaxImages,
             NEW images \in SUBSET Known, Start(r, what, stage, n, images),
             what = "submit" => stage = "insert",
             what = "update" => stage = "upload",
             what # "none"
      PROVE  Base'
  <2>1. TypeOK'
    BY <1>1 DEF TypeOK, Start, Goes, Writers, Known
  <2>2. StageInv'
    <3>1. \A s \in Requests \ {r} : Same(s)
      BY <1>1, <1>t DEF Same, Start, Goes, Kinds
    <3>2. StageOf(r)'
      BY <1>1, <1>t DEF StageInv, StageOf, Start, Goes, Kinds
    <3>q. QED BY <1>1, <1>t, <3>1, <3>2, OneKeepsStages DEF Start, Goes, Kinds
  <2>q. QED BY <2>1, <2>2
<1>2. ASSUME NEW r \in Requests, Begin(r) PROVE Base'
  <2>1. CASE Submit(r)
    BY <2>1, <1>t, <1>1 DEF Submit, Kinds, Stages
  <2>2. CASE Update(r)
    <3>1. PICK n \in 0..MaxImages, images \in SUBSET rows :
                 Start(r, "update", "upload", n, IF n = 0 THEN {} ELSE images)
      BY <2>2 DEF Update
    <3>2. (IF n = 0 THEN {} ELSE images) \in SUBSET Known
      BY <1>t
    <3>q. QED BY <3>1, <3>2, <1>1 DEF Kinds, Stages
  <2>4. CASE Refuse(r)
    BY <2>4 DEF Refuse, vars, TypeOK, StageInv, StageOf
  <2>q. QED BY <1>2, <2>1, <2>2, <2>4 DEF Begin
<1>3. ASSUME NEW r \in Requests, Insert(r) PROVE Base'
  <2>1. TypeOK'
    BY <1>3 DEF TypeOK, Insert, Goes, Stages
  <2>2. StageInv'
    <3>1. \A s \in Requests \ {r} : Same(s)
      BY <1>3, <1>t DEF Same, Insert, Goes
    <3>2. StageOf(r)'
      BY <1>3, <1>t DEF StageInv, StageOf, Insert, Goes
    <3>q. QED BY <1>3, <1>t, <3>1, <3>2, OneKeepsStages DEF Insert, Goes
  <2>q. QED BY <2>1, <2>2
<1>4. ASSUME NEW r \in Requests, Save(r) PROVE Base'
  <2>1. TypeOK'
    BY <1>4 DEF TypeOK, Save, Goes, Stages
  <2>2. StageInv'
    <3>1. \A s \in Requests \ {r} : Same(s)
      BY <1>4, <1>t DEF Same, Save, Goes
    <3>2. StageOf(r)'
      BY <1>4, <1>t DEF StageInv, StageOf, Save, Goes
    <3>q. QED BY <1>4, <1>t, <3>1, <3>2, OneKeepsStages DEF Save, Goes
  <2>q. QED BY <2>1, <2>2
<1>5. ASSUME NEW r \in Requests, Clear(r) PROVE Base'
  <2>1. CASE kind[r] = "submit"
    <3>1. TypeOK'
      BY <1>5, <2>1 DEF TypeOK, Clear, Goes, Stages
    <3>2. StageInv'
      <4>1. \A s \in Requests \ {r} : Same(s)
        BY <1>5, <2>1, <1>t DEF Same, Clear, Goes
      <4>2. StageOf(r)'
        BY <1>5, <2>1, <1>t DEF StageInv, StageOf, Clear, Goes
      <4>q. QED BY <1>5, <2>1, <1>t, <4>1, <4>2, OneKeepsStages DEF Clear, Goes
    <3>q. QED BY <3>1, <3>2
  <2>2. CASE kind[r] # "submit"
    BY <1>5, <2>2, <1>t, <1>f DEF Clear, TypeOK
  <2>q. QED BY <2>1, <2>2
<1>6. ASSUME NEW r \in Requests, Images(r) PROVE Base'
  <2>1. CASE Upload(r)
    <3>1. TypeOK'
      BY <2>1 DEF TypeOK, Upload, Files
    <3>2. StageInv'
      <4>1. \A s \in Requests \ {r} : Same(s)
        BY <2>1, <1>t DEF Same, Upload
      <4>2. StageOf(r)'
        BY <2>1, <1>t DEF StageInv, StageOf, Upload
      <4>q. QED BY <2>1, <1>t, <4>1, <4>2, OneKeepsStages DEF Upload
    <3>q. QED BY <3>1, <3>2
  <2>2. CASE Uploaded(r)
    <3>1. TypeOK'
      BY <2>2 DEF TypeOK, Uploaded, Loop, Goes, Stages
    <3>2. StageInv'
      <4>1. \A s \in Requests \ {r} : Same(s)
        BY <2>2, <1>t DEF Same, Uploaded, Loop, Goes
      <4>2. StageOf(r)'
        BY <2>2, <1>t DEF StageInv, StageOf, Uploaded, Loop, Goes
      <4>q. QED BY <2>2, <1>t, <4>1, <4>2, OneKeepsStages DEF Uploaded, Loop, Goes
    <3>q. QED BY <3>1, <3>2
  <2>3. CASE Fetch(r)
    <3>1. TypeOK'
      BY <2>3 DEF TypeOK, Fetch, Loop, Goes, Stages
    <3>2. StageInv'
      <4>1. \A s \in Requests \ {r} : Same(s)
        BY <2>3, <1>t DEF Same, Fetch, Loop, Goes
      <4>2. StageOf(r)'
        BY <2>3, <1>t DEF StageInv, StageOf, Fetch, Loop, Goes
      <4>q. QED BY <2>3, <1>t, <4>1, <4>2, OneKeepsStages DEF Fetch, Loop, Goes
    <3>q. QED BY <3>1, <3>2
  <2>4. CASE DelFile(r) \/ DelRow(r)
    <3>1. TypeOK'
      <4>1. CASE DelFile(r)
        BY <4>1 DEF TypeOK, DelFile, ForEach
      <4>2. CASE DelRow(r)
        BY <4>2 DEF TypeOK, DelRow, ForEach
      <4>q. QED BY <2>4, <4>1, <4>2
    <3>2. StageInv'
      <4>1. \A s \in Requests \ {r} : Same(s)
        BY <2>4, <1>t DEF Same, DelFile, DelRow, ForEach
      <4>2. StageOf(r)'
        BY <2>4, <1>t DEF StageInv, StageOf, DelFile, DelRow, ForEach
      <4>q. QED BY <2>4, <1>t, <4>1, <4>2, OneKeepsStages DEF DelFile, DelRow, ForEach
    <3>q. QED BY <3>1, <3>2
  <2>5. CASE InsertRow(r)
    <3>1. TypeOK'
      <4>1. posted
        BY <2>5 DEF InsertRow, StageInv, StageOf
      <4>2. rows' \subseteq Known /\ relisted' \subseteq Known /\ UNCHANGED Known
        BY <2>5, <1>t DEF InsertRow, Known
      <4>q. QED BY <2>5, <4>1, <4>2 DEF TypeOK, InsertRow, Known
    <3>2. StageInv'
      <4>1. \A s \in Requests \ {r} : Same(s)
        BY <2>5, <1>t DEF Same, InsertRow
      <4>2. StageOf(r)'
        BY <2>5, <1>t DEF StageInv, StageOf, InsertRow
      <4>q. QED BY <2>5, <1>t, <4>1, <4>2, OneKeepsStages DEF InsertRow
    <3>q. QED BY <3>1, <3>2
  <2>6. CASE LoopEnds(r)
    <3>1. TypeOK'
      BY <2>6 DEF TypeOK, LoopEnds, Loop, Goes, Stages
    <3>2. StageInv'
      <4>1. \A s \in Requests \ {r} : Same(s)
        BY <2>6, <1>t DEF Same, LoopEnds, Loop, Goes
      <4>2. StageOf(r)'
        <5>1. CASE at[r] = "delfile"
          BY <5>1, <2>6, <1>t DEF StageInv, StageOf, LoopEnds, Loop, Goes
        <5>2. CASE at[r] = "delrow"
          BY <5>2, <2>6, <1>t DEF StageInv, StageOf, LoopEnds, Loop, Goes
        <5>3. CASE at[r] = "rows"
          BY <5>3, <2>6, <1>t DEF StageInv, StageOf, LoopEnds, Loop, Goes
        <5>q. QED BY <5>1, <5>2, <5>3, <2>6 DEF LoopEnds
      <4>q. QED BY <2>6, <1>t, <4>1, <4>2, OneKeepsStages DEF LoopEnds, Loop, Goes
    <3>q. QED BY <3>1, <3>2
  <2>q. QED BY <1>6, <2>1, <2>2, <2>3, <2>4, <2>5, <2>6 DEF Images
<1>7. ASSUME NEW r \in Requests, Submitted(r) PROVE Base'
  BY <1>7, <1>t, <1>f DEF Submitted, TypeOK
<1>9. ASSUME NEW r \in Requests, Fail(r) PROVE Base'
  BY <1>9, <1>t, <1>f DEF Fail, Working, TypeOK
<1>11. CASE UNCHANGED vars
  BY <1>11 DEF vars, TypeOK, StageInv, StageOf
<1>q. QED BY <1>2, <1>3, <1>4, <1>5, <1>6, <1>7, <1>9, <1>11 DEF Next

LEMMA BaseHolds == Spec => []Base
BY BaseInit, BaseStep, PTL DEF Spec

(* Every variable keeps its type, and image rows belong to a posted review *)
(* and name objects that were created.                                     *)
THEOREM TypeCorrect == Spec => []TypeOK
<1>1. Base => TypeOK
  BY DEF Base
<1>q. QED BY <1>1, BaseHolds, PTL

-----------------------------------------------------------------------------
(* The objects a request uploaded whose rows it has not inserted yet.      *)
Pending(r) ==
    CASE at[r] \in {"upload", "save", "fetch", "delfile", "delrow"} -> up[r]
      [] at[r] = "rows" -> up[r] \cap todo[r]
      [] OTHER -> {}

(* Nobody else has come across them, and nobody can list them.             *)
PendingInv ==
    \A r \in Requests : \A f \in Pending(r) :
        /\ f \in files \ (rows \cup loose)
        /\ \A s \in Requests : f \notin olds[s] \cup body[s]

UpsApart == \A r, s \in Requests : r # s => up[r] \cap up[s] = {}

(* How far an update has come with the old images.                         *)
OldsInv ==
    \A r \in Requests : \A f \in olds[r] :
        /\ at[r] = "delfile" => f \in todo[r] \/ f \notin files
        /\ at[r] # "delfile" => f \notin files
        /\ at[r] \notin {"delfile", "delrow"} => f \notin rows \/ f \in relisted
        /\ at[r] = "delrow" => f \in todo[r] \/ f \notin rows \/ f \in relisted

OutOfStep == (files \ rows) \cup (rows \ files)

(* An object whose row was inserted gets out of step through another one.  *)
UpsInv ==
    \A r \in Requests : \A f \in (up[r] \ Pending(r)) \cap OutOfStep :
        f \in loose \cup relisted \/ \E s \in Requests \ {r} : f \in olds[s]

AloneInv == \A r \in Writers \ met : Writers = {r}

(* The rows, when no other request was at work on them.                    *)
RowsOf(r) ==
    /\ at[r] = "delfile" => rows \subseteq olds[r]
    /\ at[r] = "delrow" => rows \subseteq todo[r]
    /\ at[r] = "rows" => rows = (up[r] \cup body[r]) \ todo[r]
    /\ at[r] = "clear" /\ up[r] # {} => rows = up[r] \cup body[r]

RowsInv == \A r \in Requests : kind[r] = "update" /\ r \notin met => RowsOf(r)

RequestStep(r) ==
    \/ Begin(r) \/ Insert(r) \/ Save(r) \/ Clear(r) \/ Images(r) \/ Submitted(r)
    \/ Fail(r)

(* All that the invariants need to know of a step of r.                    *)
Effects(r) ==
    /\ \A s \in Requests \ {r} : Same(s)
    /\ loose \subseteq loose' /\ relisted \subseteq relisted'
    /\ \A f \in files \ files' : at[r] = "delfile" /\ f \in todo[r] /\ f \in olds'[r]
    /\ \A f \in files' \ files : f = nextFile /\ f \in Pending(r)'
    /\ \A f \in rows \ rows' : at[r] = "delrow" /\ f \in todo[r] /\ f \in olds'[r]
    /\ \A f \in rows' \ rows :
          /\ at[r] = "rows" /\ f \in todo[r] /\ f \notin Pending(r)'
          /\ up'[r] = up[r]
          /\ f \in body[r] => f \in relisted'
    /\ \A f \in Pending(r)' \ Pending(r) : f = nextFile /\ f \in files'
    /\ \A f \in Pending(r) \ Pending(r)' : f \in loose' \/ (f \in rows' /\ files' = files)
    /\ \A f \in up'[r] \ up[r] : f = nextFile /\ f \in Pending(r)'
    /\ \A f \in up[r] \ up'[r] : f \in loose' \/ (Pending(r) = {} /\ UNCHANGED <<files, rows>>)
    /\ olds'[r] \subseteq olds[r] \cup rows
    /\ body'[r] \subseteq body[r] \cup rows \cup loose
    /\ loose' # loose => loose' = loose \cup up[r] \cup olds[r] /\ Pending(r)' = {}
    /\ \A f \in olds[r] \ olds'[r] :
          f \in loose' \/ (at[r] = "clear" /\ UNCHANGED <<files, rows>>)

LEMMA StepHasEffects ==
  ASSUME Base, Base', NEW r \in Requests, RequestStep(r)
  PROVE  Effects(r)
<1> USE DEF tables, bucket, memory, history
<1>t. /\ kind \in [Requests -> Kinds] /\ at \in [Requests -> Stages]
      /\ body \in [Requests -> SUBSET Known] /\ up \in [Requests -> SUBSET Known]
      /\ olds \in [Requests -> SUBSET Known] /\ todo \in [Requests -> SUBSET Known]
      /\ rows \subseteq Known /\ files \subseteq Known
      /\ StageOf(r) /\ nextFile \notin Known
  BY DEF Base, TypeOK, StageInv, Known
<1>p. Pending(r) \subseteq up[r]
  BY DEF Pending
<1>f. ASSUME Finish(r), UNCHANGED <<files, rows, relisted>>,
             \/ loose' = loose \cup Working(r)
             \/ /\ loose' = loose /\ Pending(r) = {}
                /\ at[r] = "clear" \/ olds[r] = {}
      PROVE  Effects(r)
  <2>1. \A s \in Requests \ {r} : Same(s)
    BY <1>f, <1>t DEF Same, Finish, Goes
  <2>2. at'[r] = "idle" /\ up'[r] = {} /\ olds'[r] = {} /\ body'[r] = {}
    BY <1>f, <1>t DEF Finish, Goes
  <2>3. Pending(r)' = {}
    BY <2>2 DEF Pending
  <2>q. QED BY <1>f, <1>p, <2>1, <2>2, <2>3 DEF Effects, Working
<1>g. ASSUME \A s \in Requests \ {r} : Same(s),
             UNCHANGED <<files, rows, loose, relisted, up[r], olds[r]>>,
             body'[r] \subseteq body[r] \cup rows \cup loose,
             Pending(r)' = Pending(r)
      PROVE  Effects(r)
  BY <1>g DEF Effects
<1>1. CASE Begin(r)
  <2>1. ASSUME NEW what, NEW stage \in {"insert", "upload"}, NEW n,
               NEW images \in SUBSET (rows \cup loose),
               Start(r, what, stage, n, images)
        PROVE  Effects(r)
    <3>1. \A s \in Requests \ {r} : Same(s)
      BY <2>1, <1>t DEF Same, Start, Goes
    <3>2. at[r] = "idle" /\ up[r] = {} /\ up' = up /\ body'[r] = images
      BY <2>1, <1>t DEF Start, StageOf
    <3>3. Pending(r)' = Pending(r)
      BY <3>2, <2>1, <1>t DEF Pending, Start, Goes
    <3>q. QED BY <2>1, <3>1, <3>2, <3>3, <1>g DEF Start
  <2>2. CASE Submit(r)
    <3>1. PICK n \in 0..MaxImages, images \in SUBSET (files \cap loose) :
                 Start(r, "submit", "insert", n, images)
      BY <2>2 DEF Submit
    <3>q. QED BY <3>1, <2>1
  <2>3. CASE Update(r)
    <3>1. PICK n \in 0..MaxImages, images \in SUBSET rows :
                 Start(r, "update", "upload", n, IF n = 0 THEN {} ELSE images)
      BY <2>3 DEF Update
    <3>2. (IF n = 0 THEN {} ELSE images) \in SUBSET (rows \cup loose)
      OBVIOUS
    <3>q. QED BY <3>1, <3>2, <2>1
  <2>4. CASE Refuse(r)
    BY <2>4, <1>g DEF Refuse, vars, Same, Pending
  <2>q. QED BY <1>1, <2>2, <2>3, <2>4 DEF Begin
<1>2. CASE Insert(r) \/ (Clear(r) /\ kind[r] = "submit")
  <2>1. \A s \in Requests \ {r} : Same(s)
    BY <1>2, <1>t DEF Same, Insert, Clear, Goes
  <2>2. Pending(r)' = Pending(r)
    BY <1>2, <1>t DEF Pending, Insert, Clear, Goes, StageOf
  <2>3. UNCHANGED <<files, rows, loose, relisted, up, olds, body>>
    BY <1>2 DEF Insert, Clear
  <2>q. QED BY <2>1, <2>2, <2>3, <1>g
<1>3. CASE Clear(r) /\ kind[r] # "submit"
  BY <1>3, <1>f DEF Clear, Pending
<1>4. CASE Upload(r)
  <2>1. /\ \A s \in Requests \ {r} : Same(s)
        /\ up'[r] = up[r] \cup {nextFile} /\ files' = files \cup {nextFile}
        /\ UNCHANGED <<rows, loose, relisted, olds, body>>
    BY <1>4, <1>t DEF Same, Upload
  <2>2. Pending(r) = up[r] /\ Pending(r)' = up'[r]
    BY <1>4 DEF Upload, Pending
  <2>q. QED BY <2>1, <2>2 DEF Effects
<1>5. CASE Uploaded(r) \/ Save(r) \/ LoopEnds(r)
  <2>1. \A s \in Requests \ {r} : Same(s)
    BY <1>5, <1>t DEF Same, Uploaded, Save, LoopEnds, Loop, Goes
  <2>2. UNCHANGED <<files, rows, loose, relisted, up, olds, body>>
    BY <1>5 DEF Uploaded, Save, LoopEnds
  <2>3. Pending(r)' = Pending(r)
    <3>1. CASE Uploaded(r)
      BY <3>1, <2>2, <1>t DEF Pending, Uploaded, Loop, Goes
    <3>2. CASE Save(r)
      BY <3>2, <2>2, <1>t DEF Pending, Save, Goes
    <3>3. CASE LoopEnds(r)
      <4>1. CASE at[r] = "delfile"
        BY <4>1, <3>3, <2>2, <1>t DEF Pending, LoopEnds, Loop, Goes
      <4>2. CASE at[r] = "delrow"
        BY <4>2, <3>3, <2>2, <1>t DEF Pending, LoopEnds, Loop, Goes
      <4>3. CASE at[r] = "rows"
        BY <4>3, <3>3, <2>2, <1>t DEF Pending, LoopEnds, Loop, Goes
      <4>q. QED BY <3>3, <4>1, <4>2, <4>3 DEF LoopEnds
    <3>q. QED BY <1>5, <3>1, <3>2, <3>3
  <2>q. QED BY <2>1, <2>2, <2>3, <1>g
<1>6. CASE Fetch(r)
  <2>1. /\ \A s \in Requests \ {r} : Same(s)
        /\ olds[r] = {} /\ olds'[r] = rows
        /\ UNCHANGED <<files, rows, loose, relisted, up, body>>
    BY <1>6, <1>t DEF Same, Fetch, Loop, Goes, StageOf
  <2>2. Pending(r)' = Pending(r)
    BY <1>6, <1>t DEF Pending, Fetch, Loop, Goes
  <2>q. QED BY <2>1, <2>2 DEF Effects
<1>7. CASE DelFile(r)
  <2>1. PICK f \in files \ spaced : ForEach(r, "delfile", f) /\ files' = files \ {f}
    BY <1>7 DEF DelFile
  <2>2. /\ \A s \in Requests \ {r} : Same(s)
        /\ UNCHANGED <<rows, loose, relisted, up, olds, body, at>>
    BY <1>7, <2>1, <1>t DEF Same, DelFile, ForEach
  <2>3. Pending(r)' = Pending(r) /\ at[r] = "delfile" /\ f \in olds[r] /\ f \in todo[r]
    BY <2>1, <2>2, <1>t DEF Pending, ForEach, StageOf
  <2>q. QED BY <2>1, <2>2, <2>3 DEF Effects
<1>8. CASE DelRow(r)
  <2>1. PICK f \in Files : ForEach(r, "delrow", f) /\ rows' = rows \ {f}
    BY <1>8 DEF DelRow
  <2>2. /\ \A s \in Requests \ {r} : Same(s)
        /\ UNCHANGED <<files, loose, relisted, up, olds, body, at>>
    BY <1>8, <2>1, <1>t DEF Same, DelRow, ForEach
  <2>3. Pending(r)' = Pending(r) /\ at[r] = "delrow" /\ f \in olds[r] /\ f \in todo[r]
    BY <2>1, <2>2, <1>t DEF Pending, ForEach, StageOf
  <2>q. QED BY <2>1, <2>2, <2>3 DEF Effects
<1>9. CASE InsertRow(r)
  <2>1. PICK f \in todo[r] : /\ rows' = rows \cup {f}
                             /\ relisted' = relisted \cup ({f} \cap body[r])
                             /\ todo' = [todo EXCEPT ![r] = @ \ {f}]
    BY <1>9 DEF InsertRow
  <2>2. /\ at[r] = "rows" /\ UNCHANGED <<files, loose, up, olds, body, at, kind>>
    BY <1>9 DEF InsertRow
  <2>3. \A s \in Requests \ {r} : Same(s)
    BY <2>1, <2>2, <1>t DEF Same
  <2>4. Pending(r) = up[r] \cap todo[r] /\ Pending(r)' = up[r] \cap (todo[r] \ {f})
    BY <2>1, <2>2, <1>t DEF Pending
  <2>q. QED BY <2>1, <2>2, <2>3, <2>4 DEF Effects
<1>10. CASE Submitted(r)
  BY <1>10, <1>f, <1>t DEF Submitted, Pending, StageOf
<1>12. CASE Fail(r)
  BY <1>12, <1>f DEF Fail
<1>q. QED
  BY <1>1, <1>2, <1>3, <1>4, <1>5, <1>6, <1>7, <1>8, <1>9, <1>10, <1>12
  DEF RequestStep, Images

-----------------------------------------------------------------------------
Tracked == Base /\ PendingInv /\ UpsApart /\ OldsInv /\ UpsInv /\ FilesMatchRows

LEMMA QuietKeepsTracked ==
  ASSUME Tracked, Base', UNCHANGED vars
  PROVE  Tracked'
<1>1. UNCHANGED <<tables, bucket, at, memory, history>>
  BY DEF vars
<1>q. QED
  BY <1>1 DEF Tracked, tables, bucket, memory, history, PendingInv, Pending, UpsApart, OldsInv,
              UpsInv, OutOfStep, FilesMatchRows, Working

(* What the effects of a step of r mean for the others.                    *)
LEMMA OtherPending ==
  ASSUME NEW s, Same(s)
  PROVE  Pending(s)' = Pending(s)
BY DEF Same, Pending

LEMMA AllKnown ==
  ASSUME Base
  PROVE  /\ rows \subseteq Known /\ files \subseteq Known /\ nextFile \notin Known
         /\ loose \subseteq Known
         /\ \A s \in Requests : /\ up[s] \subseteq Known /\ olds[s] \subseteq Known
                                /\ body[s] \subseteq Known /\ Pending(s) \subseteq up[s]
BY DEF Base, TypeOK, Known, Pending

(* An inserted row is of an object that the request uploaded and nobody    *)
(* has come across, or of one that its body lists.                         *)
LEMMA InsertedRow ==
  ASSUME Base, NEW r \in Requests, Effects(r), NEW f \in rows' \ rows
  PROVE  /\ at[r] = "rows" /\ f \in todo[r]
         /\ f \in Pending(r) \/ (f \in body[r] /\ f \in relisted')
<1>1. at[r] = "rows" /\ f \in todo[r] /\ (f \in body[r] => f \in relisted')
  BY DEF Effects
<1>2. f \in up[r] \cup body[r]
  BY <1>1 DEF Base, StageInv, StageOf
<1>3. Pending(r) = up[r] \cap todo[r]
  BY <1>1 DEF Pending
<1>q. QED BY <1>1, <1>2, <1>3

LEMMA PendingStep ==
  ASSUME Tracked, Base', NEW r \in Requests, Effects(r)
  PROVE  PendingInv' /\ UpsApart'
<1>0. Base
  BY DEF Tracked
<1>k. /\ rows \subseteq Known /\ files \subseteq Known /\ nextFile \notin Known
      /\ loose \subseteq Known
      /\ \A s \in Requests : /\ up[s] \subseteq Known /\ olds[s] \subseteq Known
                             /\ body[s] \subseteq Known /\ Pending(s) \subseteq up[s]
  BY <1>0, AllKnown
<1>1. SUFFICES ASSUME NEW q \in Requests, NEW f \in Pending(q)'
               PROVE  /\ f \in files' \ (rows' \cup loose')
                      /\ \A s \in Requests : f \notin olds'[s] \cup body'[s]
  <2>1. UpsApart'
    BY <1>k DEF Tracked, UpsApart, Effects, Same
  <2>q. QED BY <2>1 DEF PendingInv
<1>2. CASE f \in Pending(q)
  <2>1. /\ f \in files \ (rows \cup loose)
        /\ \A s \in Requests : f \notin olds[s] \cup body[s]
    BY <1>2 DEF Tracked, PendingInv
  <2>2. f \in files'
    BY <2>1, <1>0 DEF Effects, Base, StageInv, StageOf
  <2>3. ASSUME f \in rows' PROVE FALSE
    <3>1. f \in Pending(r) /\ f \notin Pending(r)'
      BY <2>1, <2>3, <1>0, InsertedRow DEF Effects
    <3>2. q # r
      BY <3>1, <1>1
    <3>q. QED BY <3>1, <3>2, <1>2, <1>k DEF Tracked, UpsApart
  <2>4. \A s \in Requests : f \notin olds'[s] \cup body'[s]
    BY <2>1 DEF Effects, Same
  <2>5. f \notin loose'
    BY <2>1, <1>1, <1>2, <1>k DEF Effects, Tracked, UpsApart
  <2>q. QED BY <2>2, <2>3, <2>4, <2>5
<1>3. CASE f \notin Pending(q)
  <2>1. q = r /\ f = nextFile /\ f \in files'
    <3>1. q = r
      BY <1>1, <1>3, OtherPending DEF Effects
    <3>q. QED BY <3>1, <1>1, <1>3 DEF Effects
  <2>2. f \notin rows'
    BY <2>1, <1>k, <1>0, InsertedRow
  <2>3. \A s \in Requests : f \notin olds'[s] \cup body'[s]
    BY <2>1, <1>k DEF Effects, Same
  <2>4. f \notin loose'
    BY <2>1, <1>1, <1>k DEF Effects
  <2>q. QED BY <2>1, <2>2, <2>3, <2>4
<1>q. QED BY <1>2, <1>3

(* How far r has come with f, at the stage it has reached.                 *)
OldOf(r, f) ==
    /\ at[r] = "delfile" => f \in todo[r] \/ f \notin files
    /\ at[r] # "delfile" => f \notin files
    /\ at[r] \notin {"delfile", "delrow"} => f \notin rows \/ f \in relisted
    /\ at[r] = "delrow" => f \in todo[r] \/ f \notin rows \/ f \in relisted

LEMMA OldsStep ==
  ASSUME Tracked, Base', NEW r \in Requests, RequestStep(r), Effects(r)
  PROVE  OldsInv'
<1> USE DEF tables, bucket, memory, history
<1>0. Base
  BY DEF Tracked
<1>k. /\ rows \subseteq Known /\ files \subseteq Known /\ nextFile \notin Known
      /\ loose \subseteq Known
      /\ \A s \in Requests : /\ up[s] \subseteq Known /\ olds[s] \subseteq Known
                             /\ body[s] \subseteq Known /\ Pending(s) \subseteq up[s]
  BY <1>0, AllKnown
<1>t. /\ kind \in [Requests -> Kinds] /\ at \in [Requests -> Stages]
      /\ olds \in [Requests -> SUBSET Known] /\ todo \in [Requests -> SUBSET Known]
      /\ StageOf(r) /\ relisted \subseteq relisted'
  BY <1>0 DEF Base, TypeOK, StageInv, Known, Effects
<1>1. SUFFICES ASSUME NEW q \in Requests, NEW f \in olds'[q]
               PROVE  OldOf(q, f)'
  BY DEF OldsInv, OldOf
<1>2. ASSUME f \in olds[q], f \notin files
      PROVE  f \notin files' /\ (f \in rows' \ rows => f \in relisted')
  <2>1. f \notin files'
    BY <1>2, <1>k DEF Effects
  <2>2. f \notin Pending(r)
    BY <1>2 DEF Tracked, PendingInv
  <2>q. QED BY <2>1, <2>2, <1>0, InsertedRow
<1>3. CASE q # r
  <2>1. Same(q) /\ f \in olds[q]
    BY <1>3, <1>1 DEF Effects, Same
  <2>2. OldOf(q, f)
    BY <2>1 DEF Tracked, OldsInv, OldOf
  <2>3. at[q] = "delfile" => f \in todo[q] \/ f \notin files'
    BY <2>1, <2>2, <1>2 DEF OldOf
  <2>q. QED BY <2>1, <2>2, <2>3, <1>2, <1>t DEF OldOf, Same
<1>4. CASE q = r
  <2>1. CASE olds'[r] = {}
    BY <2>1, <1>1, <1>4
  <2>2. CASE Insert(r) \/ (Clear(r) /\ kind[r] = "submit")
    <3>1. at'[r] \notin {"delfile", "delrow"} /\ at[r] \notin {"delfile", "delrow"}
      BY <2>2, <1>t DEF Clear, Insert, Goes
    <3>2. UNCHANGED <<olds, files, rows, relisted>>
      BY <2>2 DEF Clear, Insert
    <3>3. OldOf(r, f)
      BY <1>1, <1>4, <3>2 DEF Tracked, OldsInv, OldOf
    <3>q. QED BY <3>1, <3>2, <3>3, <1>4 DEF OldOf
  <2>3. CASE Fetch(r)
    BY <2>3, <1>t, <1>1, <1>4 DEF Fetch, Loop, Goes, OldOf
  <2>4. CASE DelFile(r)
    <3>1. PICK g \in files \ spaced : ForEach(r, "delfile", g) /\ files' = files \ {g}
      BY <2>4 DEF DelFile
    <3>2. OldOf(r, f)
      BY <3>1, <1>1, <1>4 DEF Tracked, OldsInv, OldOf, ForEach
    <3>q. QED BY <3>1, <3>2, <1>4, <1>t DEF OldOf, ForEach
  <2>5. CASE DelRow(r)
    <3>1. PICK g \in Files : ForEach(r, "delrow", g) /\ rows' = rows \ {g}
                             /\ UNCHANGED <<files, relisted>>
      BY <2>5 DEF DelRow, ForEach
    <3>2. OldOf(r, f)
      BY <3>1, <1>1, <1>4 DEF Tracked, OldsInv, OldOf, ForEach
    <3>q. QED BY <3>1, <3>2, <1>4, <1>t DEF OldOf, ForEach
  <2>6. CASE InsertRow(r)
    <3>1. UNCHANGED <<olds, at, files>> /\ at[r] = "rows"
      BY <2>6 DEF InsertRow
    <3>2. OldOf(r, f)
      BY <3>1, <1>1, <1>4 DEF Tracked, OldsInv, OldOf
    <3>q. QED BY <3>1, <3>2, <1>1, <1>2, <1>4, <1>t DEF OldOf
  <2>7. CASE LoopEnds(r)
    <3>1. UNCHANGED <<olds, files, rows, relisted>> /\ todo[r] = {}
      BY <2>7 DEF LoopEnds
    <3>2. OldOf(r, f)
      BY <3>1, <1>1, <1>4 DEF Tracked, OldsInv, OldOf
    <3>3. CASE at[r] = "delfile"
      BY <3>1, <3>2, <3>3, <2>7, <1>1, <1>4, <1>t DEF OldOf, LoopEnds, Loop, Goes
    <3>4. CASE at[r] = "delrow"
      BY <3>1, <3>2, <3>4, <2>7, <1>1, <1>4, <1>t DEF OldOf, LoopEnds, Loop, Goes
    <3>5. CASE at[r] = "rows"
      BY <3>1, <3>2, <3>5, <2>7, <1>1, <1>4, <1>t DEF OldOf, LoopEnds, Loop, Goes
    <3>q. QED BY <3>3, <3>4, <3>5, <2>7 DEF LoopEnds
  <2>8. CASE Begin(r)
    <3>1. olds' = olds /\ at[r] = "idle"
      BY <2>8 DEF Begin, Submit, Update, Start, Refuse, vars
    <3>q. QED BY <3>1, <2>1, <1>t DEF StageOf
  <2>9. CASE Save(r) \/ Upload(r) \/ Uploaded(r)
    <3>1. olds' = olds /\ at[r] \in {"save", "upload"}
      BY <2>9 DEF Save, Upload, Uploaded
    <3>q. QED BY <3>1, <2>1, <1>t DEF StageOf
  <2>10. CASE Finish(r)
    BY <2>10, <2>1, <1>t DEF Finish
  <2>q. QED
    BY <2>2, <2>3, <2>4, <2>5, <2>6, <2>7, <2>8, <2>9, <2>10
    DEF RequestStep, Clear, Images, Submitted, Fail
<1>q. QED BY <1>3, <1>4

(* An object that leaves the hands of r by its answer is in step again.    *)
LEMMA LetGo ==
  ASSUME Tracked, NEW r \in Requests, Effects(r), NEW f \in olds[r] \ olds'[r]
  PROVE  f \in loose' \cup relisted' \/ (f \notin OutOfStep /\ UNCHANGED <<files, rows>>)
<1>1. f \in loose' \/ (at[r] = "clear" /\ UNCHANGED <<files, rows>>)
  BY DEF Effects
<1>2. at[r] = "clear" => f \notin files /\ (f \notin rows \/ f \in relisted')
  BY DEF Tracked, OldsInv, Effects
<1>q. QED BY <1>1, <1>2 DEF OutOfStep

(* An object gets out of step in the hands of r, or a body listed it.      *)
LEMMA GetsOut ==
  ASSUME Tracked, NEW r \in Requests, Effects(r), NEW f \in OutOfStep' \ OutOfStep
  PROVE  \/ f \in relisted'
         \/ f \in Pending(r)' \/ (f \in Pending(r) /\ up'[r] = up[r])
         \/ f \in olds'[r] /\ at[r] \in {"delfile", "delrow"}
<1>1. f \in (files' \ files) \cup (files \ files') \cup (rows' \ rows) \cup (rows \ rows')
  BY DEF OutOfStep
<1>2. CASE f \in rows' \ rows
  <2>1. f \in Pending(r) \/ f \in relisted'
    BY <1>2, InsertedRow DEF Tracked
  <2>q. QED BY <1>2, <2>1 DEF Effects
<1>q. QED BY <1>1, <1>2 DEF Effects

LEMMA UpsStep ==
  ASSUME Tracked, Base', NEW r \in Requests, Effects(r)
  PROVE  UpsInv'
<1>0. Base /\ loose \subseteq loose' /\ relisted \subseteq relisted'
  BY DEF Tracked, Effects
<1>k. /\ rows \subseteq Known /\ files \subseteq Known /\ nextFile \notin Known
      /\ loose \subseteq Known
      /\ \A s \in Requests : /\ up[s] \subseteq Known /\ olds[s] \subseteq Known
                             /\ body[s] \subseteq Known /\ Pending(s) \subseteq up[s]
  BY <1>0, AllKnown
<1>1. SUFFICES ASSUME NEW q \in Requests, NEW f \in (up'[q] \ Pending(q)') \cap OutOfStep'
               PROVE  f \in loose' \cup relisted' \/ \E s \in Requests \ {q} : f \in olds'[s]
  BY DEF UpsInv
<1>2. CASE q # r
  <2>1. f \in up[q] \ Pending(q)
    BY <1>1, <1>2, OtherPending DEF Effects, Same
  <2>2. CASE f \in OutOfStep
    <3>1. f \in loose \cup relisted \/ \E s \in Requests \ {q} : f \in olds[s]
      BY <2>1, <2>2 DEF Tracked, UpsInv
    <3>2. ASSUME NEW s \in Requests \ {q}, f \in olds[s] PROVE f \in olds'[s] \/ f \in loose' \cup relisted'
      <4>1. CASE s # r
        BY <3>2, <4>1 DEF Effects, Same
      <4>2. CASE s = r
        BY <3>2, <4>2, <2>2, <1>1, LetGo DEF OutOfStep
      <4>q. QED BY <4>1, <4>2
    <3>q. QED BY <3>1, <3>2, <1>0
  <2>3. CASE f \notin OutOfStep
    <3>1. f \notin up[r] /\ f # nextFile
      BY <2>1, <1>2, <1>k DEF Tracked, UpsApart
    <3>2. f \notin Pending(r) /\ f \notin Pending(r)'
      BY <3>1, <1>k DEF Effects
    <3>q. QED BY <3>2, <2>3, <1>1, <1>2, GetsOut
  <2>q. QED BY <2>2, <2>3
<1>3. CASE q = r
  <2>1. f \in up[r]
    BY <1>1, <1>3 DEF Effects
  <2>2. CASE f \in Pending(r)
    BY <2>2, <1>1, <1>3 DEF Effects, Tracked, PendingInv, OutOfStep
  <2>3. CASE f \notin Pending(r) /\ f \in OutOfStep
    <3>1. f \in loose \cup relisted \/ \E s \in Requests \ {r} : f \in olds[s]
      BY <2>1, <2>3 DEF Tracked, UpsInv
    <3>q. QED BY <3>1, <1>0, <1>3 DEF Effects, Same
  <2>4. CASE f \notin Pending(r) /\ f \notin OutOfStep
    <3>1. at[r] \notin {"delfile", "delrow"}
      BY <2>1, <2>4 DEF Pending
    <3>q. QED BY <3>1, <2>4, <1>1, <1>3, GetsOut
  <2>q. QED BY <2>2, <2>3, <2>4
<1>q. QED BY <1>2, <1>3

LEMMA MatchStep ==
  ASSUME Tracked, Base', NEW r \in Requests, Effects(r)
  PROVE  FilesMatchRows'
<1>0. Base /\ loose \subseteq loose' /\ relisted \subseteq relisted'
  BY DEF Tracked, Effects
<1>p. Pending(r) \subseteq up[r] /\ Pending(r)' \subseteq up'[r]
  BY DEF Pending
<1>1. SUFFICES ASSUME NEW f \in OutOfStep'
               PROVE  f \in loose' \cup relisted' \/ \E s \in Requests : f \in Working(s)'
  BY DEF FilesMatchRows, OutOfStep
<1>2. CASE f \notin OutOfStep
  BY <1>1, <1>2, <1>p, GetsOut DEF Working
<1>3. CASE f \in OutOfStep
  <2>1. \/ f \in loose' \cup relisted'
        \/ \E s \in Requests : f \in up[s] \cup olds[s]
    BY <1>0, <1>3 DEF Tracked, FilesMatchRows, OutOfStep, Working
  <2>2. ASSUME NEW s \in Requests \ {r}, f \in up[s] \cup olds[s] PROVE f \in Working(s)'
    BY <2>2 DEF Effects, Same, Working
  <2>3. ASSUME f \in olds[r] PROVE f \in Working(r)' \/ f \in loose' \cup relisted'
    BY <1>1, <1>3, <2>3, LetGo DEF Working, OutOfStep
  <2>4. ASSUME f \in up[r] PROVE f \in loose' \cup relisted' \/ \E s \in Requests : f \in Working(s)'
    <3>1. CASE f \in up'[r]
      BY <3>1 DEF Working
    <3>2. CASE f \in loose'
      BY <3>2
    <3>3. CASE Pending(r) = {}
      <4>1. f \in loose \cup relisted \/ \E s \in Requests \ {r} : f \in olds[s]
        BY <2>4, <3>3, <1>3 DEF Tracked, UpsInv
      <4>q. QED BY <4>1, <2>2, <1>0
    <3>q. QED BY <2>4, <3>1, <3>2, <3>3 DEF Effects
  <2>q. QED BY <2>1, <2>2, <2>3, <2>4
<1>q. QED BY <1>2, <1>3

LEMMA TrackedInit == Init => Tracked
<1> SUFFICES ASSUME Init PROVE Tracked
  OBVIOUS
<1>1. \A r \in Requests : up[r] = {} /\ olds[r] = {} /\ Pending(r) = {}
  BY DEF Init, Pending
<1>q. QED
  BY <1>1, BaseInit DEF Init, Tracked, PendingInv, UpsApart, OldsInv, UpsInv, OutOfStep, FilesMatchRows

LEMMA TrackedStep == Tracked /\ [Next]_vars => Tracked'
<1> SUFFICES ASSUME Tracked, [Next]_vars PROVE Tracked'
  OBVIOUS
<1>1. Base /\ Base'
  BY BaseStep DEF Tracked
<1>2. ASSUME NEW r \in Requests, RequestStep(r) PROVE Tracked'
  <2>1. Effects(r)
    BY <1>1, <1>2, StepHasEffects
  <2>q. QED BY <1>1, <1>2, <2>1, PendingStep, OldsStep, UpsStep, MatchStep DEF Tracked
<1>3. CASE UNCHANGED vars
  BY <1>1, <1>3, QuietKeepsTracked
<1>q. QED BY <1>2, <1>3 DEF Next, RequestStep

LEMMA TrackedHolds == Spec => []Tracked
BY TrackedInit, TrackedStep, PTL DEF Spec

(* Whatever requests overlap and fail, a row without an object and an      *)
(* object without a row are ones that a request is at work on, that a      *)
(* failed one left, or that a body listed.                                 *)
THEOREM NothingIsLost == Spec => []FilesMatchRows
<1>1. Tracked => FilesMatchRows
  BY DEF Tracked
<1>q. QED BY <1>1, TrackedHolds, PTL

(* No request gives a deleted object its row again, unless its body lists  *)
(* the object.                                                             *)
THEOREM RowsStayDeleted == Spec => NoRowRevived
<1>1. Tracked /\ [Next]_vars => [\A f \in rows' \ rows : f \in files \cup relisted']_vars
  <2> SUFFICES ASSUME Tracked, [Next]_vars, NEW f \in rows' \ rows
               PROVE  f \in files \cup relisted'
    OBVIOUS
  <2>1. Base /\ Base'
    BY BaseStep DEF Tracked
  <2>2. ASSUME NEW r \in Requests, RequestStep(r) PROVE f \in files \cup relisted'
    BY <2>1, <2>2, StepHasEffects, InsertedRow DEF Tracked, PendingInv
  <2>3. CASE UNCHANGED vars
    BY <2>3 DEF vars, tables
  <2>q. QED BY <2>2, <2>3 DEF Next, RequestStep
<1>q. QED BY <1>1, TrackedHolds, PTL DEF Spec, NoRowRevived

-----------------------------------------------------------------------------
Ordered == Tracked /\ AloneInv /\ RowsInv

(* What a step of r does to the requests that write.                       *)
Admits(r) ==
    /\ \A s \in Requests \ {r} : kind'[s] = kind[s]
    /\ met \ {r} \subseteq met' \ {r}
    /\ kind[r] # "none" /\ r \notin met' =>
          r \notin met \/ kind'[r] = "none"
    /\ r \in Writers' \ Writers => Writers = {} \/ Writers \cup {r} \subseteq met'

LEMMA StepAdmits ==
  ASSUME Base, NEW r \in Requests, RequestStep(r)
  PROVE  Admits(r)
<1> USE DEF memory, history
<1>t. kind \in [Requests -> Kinds] /\ StageOf(r) /\ met \subseteq Requests
  BY DEF Base, TypeOK, StageInv
<1>1. CASE kind' = kind /\ met' = met
  BY <1>1 DEF Admits, Writers
<1>2. CASE Finish(r)
  BY <1>2, <1>t DEF Admits, Finish, Writers
<1>3. ASSUME NEW what, NEW stage, NEW n, NEW images, Start(r, what, stage, n, images)
      PROVE  Admits(r)
  <2>1. kind[r] = "none" /\ kind' = [kind EXCEPT ![r] = what]
    BY <1>3, <1>t DEF Start, StageOf
  <2>2. met \subseteq met' /\ (Writers # {} => Writers \cup {r} \subseteq met')
    BY <1>3 DEF Start
  <2>q. QED BY <2>1, <2>2, <1>t DEF Admits, Writers
<1>4. CASE Begin(r)
  BY <1>4, <1>1, <1>3 DEF Begin, Submit, Update, Refuse, vars
<1>q. QED
  BY <1>1, <1>2, <1>4
  DEF RequestStep, Insert, Save, Clear, Images, Upload, Uploaded, Fetch, DelFile, DelRow,
      InsertRow, ForEach, LoopEnds, Submitted, Fail

LEMMA AloneStep ==
  ASSUME AloneInv, NEW r \in Requests, Admits(r)
  PROVE  AloneInv'
<1> SUFFICES ASSUME NEW q \in Writers' \ met' PROVE Writers' = {q}
  BY DEF AloneInv
<1>1. Writers' \subseteq Writers \cup {r} /\ \A s \in Requests \ {r} : s \in Writers' <=> s \in Writers
  BY DEF Admits, Writers
<1>2. CASE r \in Writers' \ Writers
  BY <1>1, <1>2 DEF Admits, AloneInv
<1>3. CASE r \notin Writers' \ Writers
  <2>1. q \in Writers \ met
    BY <1>1, <1>3 DEF Admits, Writers
  <2>q. QED BY <1>1, <1>3, <2>1 DEF AloneInv
<1>q. QED BY <1>2, <1>3

LEMMA RowsStep ==
  ASSUME Ordered, Base', AloneInv', NEW r \in Requests, RequestStep(r), Effects(r), Admits(r)
  PROVE  RowsInv'
<1> USE DEF tables, bucket, memory, history
<1>t. /\ kind \in [Requests -> Kinds] /\ at \in [Requests -> Stages]
      /\ body \in [Requests -> SUBSET Known] /\ up \in [Requests -> SUBSET Known]
      /\ olds \in [Requests -> SUBSET Known] /\ todo \in [Requests -> SUBSET Known]
      /\ StageOf(r)
  BY DEF Ordered, Tracked, Base, TypeOK, StageInv, Known
<1>1. SUFFICES ASSUME NEW q \in Requests, kind'[q] = "update", q \notin met'
               PROVE  RowsOf(q)'
  BY DEF RowsInv
<1>2. CASE q # r
  <2>1. Same(q) /\ kind[q] = "update" /\ q \notin met
    BY <1>1, <1>2 DEF Effects, Admits, Same
  <2>2. RowsOf(q) /\ kind[r] = "none"
    BY <2>1, <1>2 DEF Ordered, RowsInv, AloneInv, Writers
  <2>3. rows' = rows
    BY <2>2, <1>t DEF Effects, StageOf
  <2>q. QED BY <2>1, <2>2, <2>3 DEF RowsOf, Same
<1>3. CASE q = r
  <2> DEFINE Before == kind[r] = "update" /\ r \notin met => RowsOf(r)
  <2>0. Before
    BY DEF Ordered, RowsInv
  <2>1. CASE at'[r] \notin {"delfile", "delrow", "rows", "clear"}
    BY <2>1, <1>3 DEF RowsOf
  <2>2. CASE Save(r)
    <3>1. UNCHANGED <<rows, up, olds, body, todo, kind, met>>
      BY <2>2 DEF Save
    <3>q. QED BY <3>1, <2>2, <2>1, <1>3, <1>t DEF Save, Goes, RowsOf
  <2>3. CASE Insert(r)
    BY <2>3, <1>1, <1>3, <1>t DEF Insert, StageOf
  <2>4. CASE Clear(r) /\ kind[r] = "submit"
    BY <2>4, <1>1, <1>3 DEF Clear
  <2>5. CASE Upload(r)
    BY <2>5, <2>1 DEF Upload
  <2>6. CASE Uploaded(r)
    BY <2>6, <2>1, <1>1, <1>3, <1>t DEF Uploaded, Loop, Goes
  <2>7. CASE Fetch(r)
    BY <2>7, <1>3, <1>t DEF Fetch, Loop, Goes, RowsOf
  <2>8. CASE DelFile(r)
    <3>1. UNCHANGED <<rows, olds, at, kind, met>> /\ at[r] = "delfile"
      BY <2>8 DEF DelFile, ForEach
    <3>q. QED BY <3>1, <2>0, <1>1, <1>3 DEF RowsOf
  <2>9. CASE DelRow(r)
    <3>1. PICK f \in Files : ForEach(r, "delrow", f) /\ rows' = rows \ {f}
      BY <2>9 DEF DelRow
    <3>2. rows \subseteq todo[r] /\ at' = at /\ at[r] = "delrow"
      BY <3>1, <2>0, <1>1, <1>3 DEF RowsOf, ForEach
    <3>q. QED BY <3>1, <3>2, <1>3, <1>t DEF RowsOf, ForEach
  <2>10. CASE InsertRow(r)
    <3>1. PICK f \in todo[r] : /\ rows' = rows \cup {f}
                               /\ todo' = [todo EXCEPT ![r] = @ \ {f}]
                               /\ at[r] = "rows"
                               /\ UNCHANGED <<at, kind, body, up, met>>
      BY <2>10 DEF InsertRow
    <3>2. rows = (up[r] \cup body[r]) \ todo[r] /\ todo[r] \subseteq up[r] \cup body[r]
      BY <3>1, <2>0, <1>1, <1>3, <1>t DEF RowsOf, StageOf
    <3>q. QED BY <3>1, <3>2, <1>3, <1>t DEF RowsOf
  <2>11. CASE LoopEnds(r)
    <3>1. UNCHANGED <<rows, up, olds, body, kind, met>> /\ todo[r] = {}
      BY <2>11 DEF LoopEnds
    <3>2. RowsOf(r) /\ StageOf(r)
      BY <3>1, <2>0, <1>1, <1>3, <1>t
    <3>3. CASE at[r] = "delfile"
      BY <3>1, <3>2, <3>3, <2>11, <1>3, <1>t DEF RowsOf, LoopEnds, Loop, Goes
    <3>4. CASE at[r] = "delrow"
      BY <3>1, <3>2, <3>4, <2>11, <1>3, <1>t DEF RowsOf, LoopEnds, Loop, Goes
    <3>5. CASE at[r] = "rows"
      BY <3>1, <3>2, <3>5, <2>11, <1>3, <1>t DEF RowsOf, LoopEnds, Loop, Goes
    <3>q. QED BY <3>3, <3>4, <3>5, <2>11 DEF LoopEnds
  <2>12. CASE Finish(r)
    BY <2>12, <2>1, <1>t DEF Finish, Goes
  <2>14. CASE Begin(r)
    <3>1. at'[r] \in {"idle", "insert", "upload"}
      BY <2>14, <1>t DEF Begin, Submit, Update, Start, Goes, Refuse, vars
    <3>q. QED BY <3>1, <2>1
  <2>q. QED
    BY <2>2, <2>3, <2>4, <2>5, <2>6, <2>7, <2>8, <2>9, <2>10, <2>11, <2>12, <2>14
    DEF RequestStep, Clear, Images, Submitted, Fail
<1>q. QED BY <1>2, <1>3

LEMMA OrderedInit == Init => Ordered
BY TrackedInit DEF Init, Ordered, AloneInv, Writers, RowsInv

LEMMA OrderedStep == Ordered /\ [Next]_vars => Ordered'
<1> SUFFICES ASSUME Ordered, [Next]_vars PROVE Ordered'
  OBVIOUS
<1>1. Tracked' /\ Base /\ Base'
  BY TrackedStep DEF Ordered, Tracked
<1>2. ASSUME NEW r \in Requests, RequestStep(r) PROVE Ordered'
  <2>1. Effects(r) /\ Admits(r)
    BY <1>1, <1>2, StepHasEffects, StepAdmits
  <2>2. AloneInv'
    BY <2>1, AloneStep DEF Ordered
  <2>q. QED BY <1>1, <1>2, <2>1, <2>2, RowsStep DEF Ordered
<1>3. CASE UNCHANGED vars
  <2>1. UNCHANGED <<tables, at, memory, history>>
    BY <1>3 DEF vars
  <2>q. QED BY <2>1, <1>1 DEF Ordered, AloneInv, RowsInv, RowsOf, Writers, tables, memory, history
<1>q. QED BY <1>2, <1>3 DEF Next, RequestStep

(* An update with images that comes to its answer has deleted every old    *)
(* row that no body listed; alone, it leaves exactly its own images and    *)
(* those its body lists.                                                   *)
THEOREM UpdateReplaces == Spec => []ImagesReplaced
<1>1. Ordered => ImagesReplaced
  BY DEF Ordered, Tracked, OldsInv, RowsInv, RowsOf, ImagesReplaced
<1>q. QED BY <1>1, OrderedInit, OrderedStep, PTL DEF Spec

=============================================================================
