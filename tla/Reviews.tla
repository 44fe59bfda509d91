------------------------------ MODULE Reviews -------------------------------
(***************************************************************************)
(* One review of a product: its row, the rows of its images, and the       *)
(* objects in the Firebase bucket those rows name.  HandleSubmitReview and *)
(* HandleUpdateReview change them one call at a time, without a            *)
(* transaction; any call may fail.  The pages that show the review are in  *)
(* PageCaches.                                                             *)
(***************************************************************************)
EXTENDS Naturals

CONSTANTS
    Requests,    \* slots for requests in flight
    MaxImages,   \* bound on the images of a request
    MaxFiles,    \* bound on the objects there are in all
    MaxOthers    \* bound on those that other reviews had before

ASSUME ReviewBounds ==
    MaxImages \in Nat /\ MaxFiles \in Nat /\ MaxOthers \in 0..MaxFiles

VARIABLES
    posted,      \* whether the review row exists
    rows,        \* review_images: the objects its rows name
    files,       \* objects in the bucket
    nextFile,    \* the next object; uuids never repeat
    spaced,      \* objects whose name has a space
    kind, at,    \* what a request does, and its next step
    body,        \* the objects of the image rows that its body lists
    left,        \* images it still has to upload
    up,          \* objects it uploaded
    olds,        \* rows it is replacing
    todo,        \* what its loop has not come to
    loose,       \* history: objects of failed requests, or there before
    relisted,    \* history: rows that were inserted because a body lists them
    met          \* history: updates that overlapped another request's

tables  == <<posted, rows>>
bucket  == <<files, nextFile, spaced>>
memory  == <<kind, body, left, up, olds, todo>>
history == <<loose, relisted, met>>
vars    == <<tables, bucket, at, memory, history>>

Files   == 1..MaxFiles
Kinds   == {"none", "submit", "update"}
Stages  == {"idle", "insert", "clear", "upload", "save", "fetch", "delfile",
            "delrow", "rows"}

TypeOK ==
    /\ posted \in BOOLEAN
    /\ rows \subseteq 1..(nextFile - 1) /\ (~posted => rows = {})
    /\ nextFile \in 1..(MaxFiles + 1)
    /\ files \subseteq 1..(nextFile - 1) /\ spaced \subseteq 1..(nextFile - 1)
    /\ kind \in [Requests -> Kinds] /\ at \in [Requests -> Stages]
    /\ body \in [Requests -> SUBSET (1..(nextFile - 1))]
    /\ left \in [Requests -> 0..MaxImages]
    /\ up \in [Requests -> SUBSET (1..(nextFile - 1))]
    /\ olds \in [Requests -> SUBSET (1..(nextFile - 1))]
    /\ todo \in [Requests -> SUBSET (1..(nextFile - 1))]
    /\ loose \subseteq 1..(nextFile - 1) /\ relisted \subseteq 1..(nextFile - 1)
    /\ met \subseteq Requests

Init ==
    /\ posted = FALSE /\ rows = {}
    /\ nextFile \in 1..(MaxOthers + 1)
    /\ files = 1..(nextFile - 1) /\ spaced = {}
    /\ kind = [r \in Requests |-> "none"] /\ at = [r \in Requests |-> "idle"]
    /\ body = [r \in Requests |-> {}]
    /\ left = [r \in Requests |-> 0]
    /\ up = [r \in Requests |-> {}]
    /\ olds = [r \in Requests |-> {}]
    /\ todo = [r \in Requests |-> {}]
    /\ loose = files /\ relisted = {} /\ met = {}

Goes(r, stage) == at' = [at EXCEPT ![r] = stage]

Finish(r) ==
    /\ kind' = [kind EXCEPT ![r] = "none"] /\ Goes(r, "idle")
    /\ body' = [body EXCEPT ![r] = {}]
    /\ left' = [left EXCEPT ![r] = 0]
    /\ up' = [up EXCEPT ![r] = {}]
    /\ olds' = [olds EXCEPT ![r] = {}]
    /\ todo' = [todo EXCEPT ![r] = {}]
    /\ met' = met \ {r}

Writers == {r \in Requests : kind[r] # "none"}

Start(r, what, stage, n, images) ==
    /\ at[r] = "idle"
    /\ kind' = [kind EXCEPT ![r] = what] /\ Goes(r, stage)
    /\ body' = [body EXCEPT ![r] = images]
    /\ left' = [left EXCEPT ![r] = n]
    /\ met' = IF Writers # {} THEN met \cup Writers \cup {r} ELSE met
    /\ UNCHANGED <<tables, bucket, up, olds, todo, loose, relisted>>

(* The loop of r is over the elements of xs; ForEach takes one of them.    *)
Loop(r, stage, xs) == Goes(r, stage) /\ todo' = [todo EXCEPT ![r] = xs]

ForEach(r, stage, f) ==
    /\ at[r] = stage
    /\ f \in todo[r]
    /\ todo' = [todo EXCEPT ![r] = @ \ {f}]
    /\ UNCHANGED <<at, kind, body, left, up, olds, history>>

-----------------------------------------------------------------------------
(* Before a request changes anything: it is malformed, or the moderation   *)
(* service rejects it or does not answer.                                  *)
Refuse(r) == at[r] = "idle" /\ UNCHANGED vars

(* The first submission of this review: each later one is another review.  *)
(* Its body may list image rows too, of objects that others have left.     *)
Submit(r) ==
    /\ ~posted
    /\ \A s \in Requests : kind[s] # "submit"
    /\ \E n \in 0..MaxImages, images \in SUBSET (files \cap loose) :
           Start(r, "submit", "insert", n, images)

(* An update lists what an earlier answer showed.                          *)
Update(r) ==
    \E n \in 0..MaxImages, images \in SUBSET rows :
        Start(r, "update", "upload", n, IF n = 0 THEN {} ELSE images)

Insert(r) ==
    /\ at[r] = "insert"
    /\ posted' = TRUE
    /\ Goes(r, "clear")
    /\ UNCHANGED <<rows, bucket, memory, history>>

(* ClearCache, whose errors are dropped: a submission goes on, an update   *)
(* answers.                                                                *)
Clear(r) ==
    /\ at[r] = "clear"
    /\ IF kind[r] = "submit"
       THEN Goes(r, "upload") /\ UNCHANGED <<memory, met>>
       ELSE Finish(r)
    /\ UNCHANGED <<tables, bucket, loose, relisted>>

-----------------------------------------------------------------------------
(* UploadFirebaseImages: the bucket has the object before it is public.    *)
Upload(r) ==
    /\ at[r] = "upload"
    /\ left[r] > 0 /\ nextFile \in Files
    /\ files' = files \cup {nextFile}
    /\ spaced' \in {spaced, spaced \cup {nextFile}}
    /\ nextFile' = nextFile + 1
    /\ up' = [up EXCEPT ![r] = @ \cup {nextFile}]
    /\ left' = [left EXCEPT ![r] = @ - 1]
    /\ UNCHANGED <<tables, at, kind, body, olds, todo, history>>

Uploaded(r) ==
    /\ at[r] = "upload"
    /\ left[r] = 0
    /\ IF kind[r] = "submit" THEN Loop(r, "rows", body[r] \cup up[r])
                           ELSE Loop(r, "save", {})
    /\ UNCHANGED <<tables, bucket, kind, body, left, up, olds, history>>

(* The review is read and written; without images the rest is skipped.     *)
Save(r) ==
    /\ at[r] = "save"
    /\ posted
    /\ Goes(r, IF up[r] = {} THEN "clear" ELSE "fetch")
    /\ UNCHANGED <<tables, bucket, memory, history>>

\* Slip: the old images are taken from the body.
FetchBody(r) ==
    /\ at[r] = "fetch"
    /\ olds' = [olds EXCEPT ![r] = body[r]]
    /\ Loop(r, "delfile", body[r])
    /\ UNCHANGED <<tables, bucket, kind, body, left, up, history>>

Fetch(r) ==
    /\ at[r] = "fetch"
    /\ olds' = [olds EXCEPT ![r] = rows]
    /\ Loop(r, "delfile", rows)
    /\ UNCHANGED <<tables, bucket, kind, body, left, up, history>>

\* Slip: an object that cannot be deleted is skipped.
DelFileIgnored(r) ==
    \E f \in Files :
        /\ ForEach(r, "delfile", f)
        /\ files' = IF f \in spaced THEN files ELSE files \ {f}
        /\ UNCHANGED <<tables, nextFile, spaced>>

(* DeleteFirebaseImage takes the name from the URL.  QueryEscape wrote a   *)
(* space as "+" and PathUnescape leaves it: no object has that name, which *)
(* is an error, as for an object that is gone.                             *)
DelFile(r) ==
    \E f \in files \ spaced :
        /\ ForEach(r, "delfile", f)
        /\ files' = files \ {f}
        /\ UNCHANGED <<tables, nextFile, spaced>>

DelRow(r) ==
    \E f \in Files :
        /\ ForEach(r, "delrow", f)
        /\ rows' = rows \ {f}
        /\ UNCHANGED <<posted, bucket>>

InsertRow(r) ==
    \E f \in todo[r] :
        /\ at[r] = "rows"
        /\ rows' = rows \cup {f}
        /\ relisted' = relisted \cup ({f} \cap body[r])
        /\ todo' = [todo EXCEPT ![r] = @ \ {f}]
        /\ UNCHANGED <<posted, bucket, at, kind, body, left, up, olds, loose, met>>

\* Slip: the old images are inserted again.
LoopEndsKeepOld(r) ==
    /\ at[r] \in {"delfile", "delrow"} \/ (at[r] = "rows" /\ kind[r] = "update")
    /\ todo[r] = {}
    /\ \/ at[r] = "delfile" /\ Loop(r, "delrow", olds[r])
       \/ at[r] = "delrow" /\ Loop(r, "rows", olds[r] \cup up[r])
       \/ at[r] = "rows" /\ Loop(r, "clear", {})
    /\ UNCHANGED <<tables, bucket, kind, body, left, up, olds, history>>

(* A loop has come to its end.                                             *)
LoopEnds(r) ==
    /\ at[r] \in {"delfile", "delrow"} \/ (at[r] = "rows" /\ kind[r] = "update")
    /\ todo[r] = {}
    /\ \/ at[r] = "delfile" /\ Loop(r, "delrow", olds[r])
       \/ at[r] = "delrow" /\ Loop(r, "rows", body[r] \cup up[r])
       \/ at[r] = "rows" /\ Loop(r, "clear", {})
    /\ UNCHANGED <<tables, bucket, kind, body, left, up, olds, history>>

Submitted(r) ==
    /\ at[r] = "rows" /\ kind[r] = "submit"
    /\ todo[r] = {}
    /\ Finish(r)
    /\ UNCHANGED <<tables, bucket, loose, relisted>>

-----------------------------------------------------------------------------
(* A query or a call to Firebase fails, or the process dies: what was done *)
(* stays.                                                                  *)
Working(r) == up[r] \cup olds[r]

Fail(r) ==
    /\ at[r] # "idle"
    /\ loose' = loose \cup Working(r)
    /\ Finish(r)
    /\ UNCHANGED <<tables, bucket, relisted>>

Begin(r)  == Submit(r) \/ Update(r) \/ Refuse(r)
Images(r) == \/ Upload(r) \/ Uploaded(r) \/ Fetch(r) \/ DelFile(r) \/ DelRow(r)
             \/ InsertRow(r) \/ LoopEnds(r)

Next ==
    \E r \in Requests :
        \/ Begin(r) \/ Insert(r) \/ Save(r) \/ Clear(r) \/ Images(r) \/ Submitted(r)
        \/ Fail(r)

Spec == Init /\ [][Next]_vars

-----------------------------------------------------------------------------

(* A row names an object of the bucket and an object has a row, unless a   *)
(* request is at work on it, one failed while it was, or a body listed it. *)
FilesMatchRows ==
    \A f \in (files \ rows) \cup (rows \ files) :
        f \in loose \cup relisted \/ \E r \in Requests : f \in Working(r)

(* An update with images that is about to answer has replaced the images   *)
(* of the review: no old one is left that no body listed, and unless       *)
(* another request was at work its own are there and no others.            *)
ImagesReplaced ==
    \A r \in Requests :
        kind[r] = "update" /\ at[r] = "clear" /\ up[r] # {} =>
            /\ olds[r] \cap rows \subseteq relisted
            /\ r \notin met => rows = up[r] \cup body[r]

(* A deleted object gets a row again only from a body that lists it: of    *)
(* requests that overlap, one that fetched an old list does not bring back *)
(* what another one removed.                                               *)
NoRowRevived ==
    [][\A f \in rows' \ rows : f \in files \cup relisted']_vars

=============================================================================
