------------------------------ MODULE MailJobs ------------------------------
(***************************************************************************)
(* Mails that requests promise and a worker sends.  HandleForgotPassword   *)
(* stores a token in Redis and queues a mail with the link to it;          *)
(* HandleContact queues a mail with a message.  The queue is asynq: a task *)
(* is taken by the worker, run, and then deleted, or tried again later, or *)
(* archived after MaxRetry retries.  The worker may die at any moment, and *)
(* what it was doing is tried again when its lease has run out.            *)
(*                                                                         *)
(* Left out: ValidateResetToken, which changes nothing, and the password   *)
(* that HandleResetPassword writes (see Accounts).                         *)
(***************************************************************************)
EXTENDS Naturals, FiniteSets

CONSTANTS
    Requests,      \* slots for requests in flight
    MaxTasks,      \* bound: tasks that are created
    MaxRetry,      \* asynq's default, 25
    Concurrency    \* tasks that the worker runs at once; 5 in cmd/worker

ASSUME MailBounds ==
    MaxTasks \in Nat /\ MaxRetry \in Nat /\ Concurrency \in Nat \ {0}

VARIABLES
    nextTask,      \* the next task, and with it the next token
    task,          \* asynq: where each task is
    retried,       \* asynq: how often it was tried again
    token,         \* Redis: the key resetPass:token=..., with a TTL
    at, on,        \* the next step of a request, and its task
    up,            \* whether the worker runs
    running,       \* how far the worker is with a task
    mails,         \* SMTP: how often a mail went out
    promised,      \* history: tasks whose request was answered with success
    lost           \* history: how often a mail went out and nobody noted it

queue    == <<task, retried>>
requests == <<nextTask, at, on, token, promised>>
worker   == <<up, running>>
post     == <<mails, lost>>
mailVars == <<queue, requests, worker, post>>

Tasks == 1..MaxTasks

MailTypeOK ==
    /\ nextTask \in 1..(MaxTasks + 1)
    /\ task \in [Tasks -> {"none", "pending", "active", "retry", "archived", "done"}]
    /\ retried \in [Tasks -> 0..MaxRetry]
    /\ token \in [Tasks -> {"none", "live", "gone", "unstored", "contact"}]
    /\ at \in [Requests -> {"idle", "set", "enqueue"}]
    /\ on \in [Requests -> {0} \cup Tasks]
    /\ up \in BOOLEAN
    /\ running \in [Tasks -> {"no", "send", "sent"}]
    /\ \A t \in Tasks : running[t] # "no" => up /\ task[t] = "active"
    /\ mails \in [Tasks -> Nat] /\ lost \in [Tasks -> Nat]
    /\ promised \subseteq Tasks

MailInit ==
    /\ nextTask = 1
    /\ task = [t \in Tasks |-> "none"] /\ retried = [t \in Tasks |-> 0]
    /\ token = [t \in Tasks |-> "none"]
    /\ at = [r \in Requests |-> "idle"] /\ on = [r \in Requests |-> 0]
    /\ up = TRUE /\ running = [t \in Tasks |-> "no"]
    /\ mails = [t \in Tasks |-> 0] /\ lost = [t \in Tasks |-> 0]
    /\ promised = {}

-----------------------------------------------------------------------------
(* Requests.                                                               *)

Begin(r, stage) ==
    /\ at[r] = "idle" /\ nextTask \in Tasks
    /\ at' = [at EXCEPT ![r] = stage] /\ on' = [on EXCEPT ![r] = nextTask]
    /\ nextTask' = nextTask + 1

Finish(r) == at' = [at EXCEPT ![r] = "idle"] /\ on' = [on EXCEPT ![r] = 0]

\* Slip: the mail is queued before the token is stored.
QueueFirst == "enqueue"

FirstStep == "set"

(* The account is there; otherwise the answer is the same, and that is all.*)
HandleForgotPassword(r) ==
    /\ Begin(r, FirstStep)
    /\ UNCHANGED <<token, promised, queue, worker, post>>

(* SET with a TTL of 15 minutes.  SetCache drops the error.                *)
SetToken(r) ==
    /\ at[r] = "set"
    /\ \E outcome \in {"live", "unstored"} : token' = [token EXCEPT ![on[r]] = outcome]
    /\ at' = [at EXCEPT ![r] = "enqueue"]
    /\ UNCHANGED <<nextTask, on, promised, queue, worker, post>>

HandleContact(r) ==
    /\ Begin(r, "enqueue")
    /\ token' = [token EXCEPT ![nextTask] = "contact"]
    /\ UNCHANGED <<promised, queue, worker, post>>

Enqueue(r) ==
    /\ at[r] = "enqueue"
    /\ task' = [task EXCEPT ![on[r]] = "pending"]
    /\ promised' = promised \cup {on[r]}
    /\ Finish(r)
    /\ UNCHANGED <<nextTask, token, retried, worker, post>>

(* Redis does not take the task, or takes it and does not answer; or the   *)
(* server dies.  A token that is stored remains.                           *)
EnqueueFails(r) ==
    /\ at[r] = "enqueue"
    /\ \E where \in {"none", "pending"} : task' = [task EXCEPT ![on[r]] = where]
    /\ Finish(r)
    /\ UNCHANGED <<nextTask, token, promised, retried, worker, post>>

(* HandleResetPassword deletes the token, whichever it is, and does not    *)
(* look whether it was there; or the TTL has run out.                      *)
TokenGoes(t) ==
    /\ token[t] = "live"
    /\ token' = [token EXCEPT ![t] = "gone"]
    /\ UNCHANGED <<nextTask, at, on, promised, queue, worker, post>>

-----------------------------------------------------------------------------
(* The worker.                                                             *)

Slots == Cardinality({t \in Tasks : running[t] # "no"})

(* A task that is pending is leased by the worker and run.                 *)
Dequeue(t) ==
    /\ up /\ task[t] = "pending" /\ Slots < Concurrency
    /\ task' = [task EXCEPT ![t] = "active"]
    /\ running' = [running EXCEPT ![t] = "send"]
    /\ UNCHANGED <<up, retried, requests, post>>

(* HandleResetPasswordEmailTask, HandleContactCustomerSent: the mail.      *)
SendMail(t) ==
    /\ running[t] = "send"
    /\ mails' = [mails EXCEPT ![t] = @ + 1]
    /\ running' = [running EXCEPT ![t] = "sent"]
    /\ UNCHANGED <<up, lost, queue, requests>>

(* The handler returned nil.                                               *)
Complete(t) ==
    /\ running[t] = "sent"
    /\ task' = [task EXCEPT ![t] = "done"]
    /\ running' = [running EXCEPT ![t] = "no"]
    /\ UNCHANGED <<up, retried, requests, post>>

\* Slip: an error of the mail server is logged, and not returned.
LogError(t) ==
    task' = [task EXCEPT ![t] = "done"] /\ UNCHANGED retried

(* The handler returned an error, or its lease has run out.                *)
TryAgain(t) ==
    IF retried[t] < MaxRetry
    THEN /\ task' = [task EXCEPT ![t] = "retry"]
         /\ retried' = [retried EXCEPT ![t] = @ + 1]
    ELSE /\ task' = [task EXCEPT ![t] = "archived"]
         /\ UNCHANGED retried

(* The mail server refuses, or accepts the mail and does not answer.       *)
MailFails(t) ==
    /\ running[t] = "send"
    /\ \/ UNCHANGED post
       \/ /\ mails' = [mails EXCEPT ![t] = @ + 1]
          /\ lost' = [lost EXCEPT ![t] = @ + 1]
    /\ TryAgain(t)
    /\ running' = [running EXCEPT ![t] = "no"]
    /\ UNCHANGED <<up, requests>>

(* The time to wait before a retry is over.                                *)
Forward(t) ==
    /\ up /\ task[t] = "retry"
    /\ task' = [task EXCEPT ![t] = "pending"]
    /\ UNCHANGED <<retried, requests, worker, post>>

Crash ==
    /\ up /\ up' = FALSE
    /\ running' = [t \in Tasks |-> "no"]
    /\ lost' = [t \in Tasks |-> IF running[t] = "sent" THEN lost[t] + 1 ELSE lost[t]]
    /\ UNCHANGED <<mails, queue, requests>>

Restart == ~up /\ up' = TRUE /\ UNCHANGED <<running, queue, requests, post>>

\* Slip: what a worker was doing when it died is not counted as a try.
RecoverUncounted(t) ==
    /\ up /\ task[t] = "active" /\ running[t] = "no"
    /\ task' = [task EXCEPT ![t] = "pending"]
    /\ UNCHANGED <<retried, requests, worker, post>>

\* Slip: what a worker was doing when it died is forgotten.
RecoverNever(t) == FALSE /\ UNCHANGED mailVars

(* A lease that nobody renews has run out.                                 *)
Recover(t) ==
    /\ up /\ task[t] = "active" /\ running[t] = "no"
    /\ TryAgain(t)
    /\ UNCHANGED <<requests, worker, post>>

-----------------------------------------------------------------------------

Request(r) ==
    \/ HandleForgotPassword(r) \/ SetToken(r) \/ HandleContact(r)
    \/ Enqueue(r) \/ EnqueueFails(r)

Run(t) == SendMail(t) \/ Complete(t) \/ MailFails(t)

Work(t) == Dequeue(t) \/ Run(t) \/ Forward(t) \/ Recover(t)

MailNext ==
    \/ \E r \in Requests : Request(r)
    \/ \E t \in Tasks : TokenGoes(t) \/ Work(t)
    \/ Crash \/ Restart

(* A worker that dies is started again; one that is up time and again gets *)
(* to each task, and the mail server answers.                              *)
Fairness ==
    /\ WF_mailVars(Restart)
    /\ \A t \in Tasks :
        /\ SF_mailVars(Dequeue(t)) /\ SF_mailVars(Forward(t))
        /\ SF_mailVars(Recover(t))
        /\ WF_mailVars(Run(t))

MailSpec == MailInit /\ [][MailNext]_mailVars /\ Fairness

-----------------------------------------------------------------------------

(* A mail goes out again only if it went out before and nobody noted it:   *)
(* the worker died after it was sent, or the mail server did not answer.   *)
(* And no task is done whose mail did not go out, whatever failed.         *)
TwiceOnlyIfLost ==
    \A t \in Tasks :
        mails[t] = lost[t] + (IF running[t] = "sent" \/ task[t] = "done" THEN 1 ELSE 0)

(* However often the worker dies, a mail goes out at most once per try.    *)
OneMailPerTry ==
    \A t \in Tasks :
        mails[t] <= IF running[t] = "send" \/ task[t] \in {"none", "pending", "retry"}
                    THEN retried[t] ELSE retried[t] + 1

(* Nobody gets a link before its token was stored, or storing it failed.   *)
TokenBeforeMail ==
    \A t \in Tasks : mails[t] > 0 => token[t] # "none"

(* What a request was told would be mailed is mailed, or archived.         *)
PromiseIsSettled ==
    \A t \in Tasks : (t \in promised) ~> (task[t] \in {"done", "archived"})

=============================================================================
