-------------------------------- MODULE Jobs --------------------------------
(***************************************************************************)
(* Work done out of the requests: the two hourly jobs on team tasks        *)
(* (tasks-scheduler.service), the BullMQ queues `notifications' and        *)
(* `qr-code-scan' with their processors, and the requests that feed them.  *)
(*                                                                         *)
(* One company, which may be the one of the public demo, served by one API *)
(* process, as deploy/aws/docker-compose.yml runs it.  That process also   *)
(* holds the workers, one job at a time for each queue.  A crash stops     *)
(* both cron jobs where they are; BullMQ finds the jobs that were active   *)
(* stalled and gives them out again, once.                                 *)
(***************************************************************************)
EXTENDS Integers, FiniteSets

CONSTANTS Task, User, None,
          Window,        \* UPCOMING_DUE_WINDOW_HOURS, in ticks of the clock
          MaxAttempts,   \* attempts of QueueModule: 3 in the code
          \* Bounds of the model:
          MaxTime, MaxJobs, MaxRequests, MaxFaults

ASSUME BoundsAssumption ==
  /\ {Window, MaxAttempts, MaxTime, MaxJobs} \subseteq Nat \ {0}
  /\ {MaxRequests, MaxFaults} \subseteq Nat

TaskStatus == {"TODO", "IN_PROGRESS", "DONE", "LATE"}
Closed == {"DONE", "LATE"}
Time == 0..MaxTime
\* Due dates that a task can still meet and the clock can pass.
DueDate == 1..(MaxTime - 1)
\* assigneeIds of the dtos: not empty.
AssigneeIds == SUBSET User \ {{}}

TaskRow == [due : DueDate \cup {None}, status : TaskStatus, reminded : BOOLEAN,
            assignees : SUBSET User \ {{}}]
JobId == 1..MaxJobs
JobKind == {"create", "password", "scan"}
Cron == {"overdue", "upcoming"}
Idle == [pc |-> "idle"]

VARIABLES
  now,
  demo,       \* the company is the one of the public demo
  task,       \* the Task row of an identifier, or None
  cron,       \* where each hourly job is
  job,        \* the BullMQ jobs, by identifier; None before it is given
  row,        \* readStatus of the Notification row of a job, or None
  qr,         \* "none", "live" or "deleted"
  asked,      \* requests so far: bounds the model
  faults,     \* faults so far: bounds the model
  drawn,      \* the identifiers given to tasks so far
  reminders,  \* history: how often a task was recalled to a user (2: too often)
  effect      \* history: jobs that have done what they are for, to the last mail

jobs == <<job, row, qr, effect>>
told == <<drawn, reminders>>
bounds == <<asked, faults>>
vars == <<now, demo, task, cron, job, row, qr, asked, faults, drawn, reminders, effect>>

\* to: an account with a mailbox, an address of the demo, which has none, or an
\* account deleted since.  A scan is for nobody.
JobRow == [kind : JobKind, to : {"mailbox", "demo", "gone", None},
           st : {"wait", "stored", "done", "failed"},
           tries : 0..MaxAttempts, stalled : BOOLEAN]

ASSUME NoneAssumption == None \notin TaskRow \cup JobRow \cup {"UNREAD", "READ"}

TypeOK ==
  /\ now \in Time
  /\ demo \in BOOLEAN
  /\ task \in [Task -> TaskRow \cup {None}]
  /\ cron \in [Cron -> {Idle} \cup
                 [pc : {"found", "tell"}, tasks : SUBSET Task, left : SUBSET (Task \X User)]]
  /\ job \in [JobId -> JobRow \cup {None}]
  /\ row \in [JobId -> {None, "UNREAD", "READ"}]
  /\ qr \in {"none", "live", "deleted"}
  /\ asked \in 0..MaxRequests /\ faults \in 0..MaxFaults
  /\ drawn \subseteq Task
  /\ reminders \in [Task -> [User -> 0..2]]
  /\ effect \subseteq JobId

Init ==
  /\ now = 0
  /\ demo \in BOOLEAN
  /\ task = [t \in Task |-> None]
  /\ cron = [c \in Cron |-> Idle]
  /\ job = [j \in JobId |-> None]
  /\ row = [j \in JobId |-> None]
  /\ qr = "none"
  /\ asked = 0 /\ faults = 0
  /\ drawn = {}
  /\ reminders = [t \in Task |-> [u \in User |-> 0]]
  /\ effect = {}

-----------------------------------------------------------------------------
(* The queues.                                                             *)

\* The accounts of the demo have its addresses.  Elsewhere createSubAccount
\* accepts one too: that account never gets its password, nor acts; nobody is
\* supposed to assign it a task.
Addressees(kind) ==
  CASE kind = "scan" -> {None}
    [] kind = "create" -> IF demo THEN {"demo"} ELSE {"mailbox"}
    [] kind = "password" -> IF demo THEN {"demo"} ELSE {"mailbox", "demo"}

\* addJob: BullMQ numbers the jobs in order and never reuses a number.
AddJob(kind) ==
  \E j \in JobId, to \in Addressees(kind) :
    /\ job[j] = None
    /\ \A k \in 1..(j - 1) : job[k] # None
    /\ job' = [job EXCEPT ![j] = [kind |-> kind, to |-> to, st |-> "wait",
                                  tries |-> 0, stalled |-> FALSE]]

Ask == asked < MaxRequests /\ asked' = asked + 1
Fault == faults < MaxFaults /\ faults' = faults + 1

In(j, st) == job[j] # None /\ job[j].st = st
Queue(kind) == IF kind = "scan" THEN "qr-code-scan" ELSE "notifications"

\* A finished job keeps no count: it never runs again.
Finished(j, st) ==
  job' = [job EXCEPT ![j] = [@ EXCEPT !.st = st, !.tries = 0, !.stalled = FALSE]]

\* A worker of a queue has one job at a time.  Taking a job and its first write
\* are one step: nothing is read in between.
Takes(j) ==
  /\ In(j, "wait")
  /\ \A k \in JobId : In(k, "stored") => Queue(job[k].kind) # Queue(job[j].kind)

\* Slip: an update that writes the fields of the creation again.
UpsertRowOver(j) == row' = [row EXCEPT ![j] = "UNREAD"]

\* The upsert of the row, under the identifier of the job: a row written by
\* an earlier attempt is left alone.
UpsertRow(j) == row' = [row EXCEPT ![j] = IF @ = None THEN "UNREAD" ELSE @]

\* Without its recipient the upsert is refused (P2003) and the job dropped.
HandleCreate(j) ==
  /\ Takes(j) /\ job[j].kind = "create"
  /\ \/ /\ job[j].to # "gone"
        /\ UpsertRow(j)
        /\ job' = [job EXCEPT ![j].st = "stored"]
     \/ /\ job[j].to = "gone"
        /\ UNCHANGED row
        /\ Finished(j, "done")
  /\ UNCHANGED <<now, demo, task, cron, qr, bounds, told, effect>>

\* The e-mail of a stored notification: with none to send to an address of the
\* demo, the row was all there was to do.
HandleMail(j) ==
  /\ In(j, "stored") /\ job[j].kind = "create"
  /\ effect' = effect \cup {j}
  /\ Finished(j, "done")
  /\ UNCHANGED <<now, demo, task, cron, row, qr, bounds, told>>

\* handleSendTemporaryPassword: only a mail, and none to an address of the demo.
HandleSendTemporaryPassword(j) ==
  /\ Takes(j) /\ job[j].kind = "password"
  /\ effect' = IF job[j].to = "demo" THEN effect ELSE effect \cup {j}
  /\ Finished(j, "done")
  /\ UNCHANGED <<now, demo, task, cron, row, qr, bounds, told>>

\* QrCodeScanProcessor: a row, or the job is dropped if the code is gone.
RecordScan(j) ==
  /\ Takes(j) /\ job[j].kind = "scan"
  /\ \/ /\ qr = "live"
        /\ effect' = effect \cup {j}
        /\ job' = [job EXCEPT ![j].st = "stored"]
     \/ /\ qr # "live"
        /\ UNCHANGED effect
        /\ Finished(j, "done")
  /\ UNCHANGED <<now, demo, task, cron, row, qr, bounds, told>>

ScanDone(j) ==
  /\ In(j, "stored") /\ job[j].kind = "scan"
  /\ Finished(j, "done")
  /\ UNCHANGED <<now, demo, task, cron, row, qr, bounds, told, effect>>

\* Slip: every error is treated as a vanished recipient.
RethrowNothing(j) == Finished(j, "done")

\* An error that is not P2003 is thrown again; BullMQ retries, then gives up.
Rethrow(j) ==
  \/ /\ job[j].tries + 1 < MaxAttempts
     /\ job' = [job EXCEPT ![j].st = "wait", ![j].tries = @ + 1]
  \/ /\ job[j].tries + 1 >= MaxAttempts
     /\ Finished(j, "failed")

\* The database or the mail server fails during an attempt.
Throw(j) ==
  /\ \/ Takes(j) /\ (job[j].kind = "password" => job[j].to = "mailbox")
     \/ In(j, "stored") /\ job[j].kind = "create" /\ job[j].to = "mailbox"
  /\ Fault
  /\ Rethrow(j)
  /\ UNCHANGED <<now, demo, task, cron, row, qr, asked, told, effect>>

-----------------------------------------------------------------------------
(* The tasks.                                                              *)

Tick ==
  /\ now < MaxTime
  /\ now' = now + 1
  /\ UNCHANGED <<demo, task, cron, jobs, bounds, told>>

\* TasksService.create: the task and its assignees in one transaction.
Create(t) ==
  /\ t \notin drawn
  /\ Ask
  /\ \E d \in DueDate \cup {None}, A \in AssigneeIds :
       task' = [task EXCEPT ![t] = [due |-> d, status |-> "TODO",
                                    reminded |-> FALSE, assignees |-> A]]
  /\ drawn' = drawn \cup {t}
  /\ UNCHANGED <<now, demo, cron, jobs, faults, reminders>>

\* update: each field given is written, the others stay.  The due date may
\* change, which leaves status and reminderSentAt as they are.
Update(t) ==
  /\ task[t] # None
  /\ Ask
  /\ \E d \in DueDate \cup {task[t].due}, A \in AssigneeIds :
       task' = [task EXCEPT ![t].due = d, ![t].assignees = A]
  /\ UNCHANGED <<now, demo, cron, jobs, faults, told>>

\* updateStatus: any status to any other, written under the condition that the
\* caller is privileged or still assigned: a privileged caller always may.
UpdateStatus(t) ==
  /\ task[t] # None
  /\ Ask
  /\ \E s \in TaskStatus : task' = [task EXCEPT ![t].status = s]
  /\ UNCHANGED <<now, demo, cron, jobs, faults, told>>

Open(t) == task[t] # None /\ task[t].status \notin Closed
Dated(t) == task[t] # None /\ task[t].due # None

\* Slip: a task someone has begun is taken for a task in good hands.
IsOverdueTodo(t) == Dated(t) /\ task[t].status = "TODO" /\ task[t].due < now

\* The two `where' of the scheduler, with `now' of the read.
IsOverdue(t) == Dated(t) /\ Open(t) /\ task[t].due < now

IsUpcoming(t) ==
  /\ Dated(t) /\ Open(t)
  /\ task[t].due \in now..(now + Window)
  /\ ~task[t].reminded

\* The read of a cron job, with the assignees of that moment.  Nothing found:
\* it returns at once.
Find(c) ==
  LET found == {t \in Task : IF c = "overdue" THEN IsOverdue(t) ELSE IsUpcoming(t)}
  IN /\ cron[c] = Idle
     /\ found # {}
     /\ cron' = [cron EXCEPT ![c] =
          [pc |-> "found", tasks |-> found,
           left |-> {p \in Task \X User :
                       p[1] \in found /\ p[2] \in task[p[1]].assignees}]]
     /\ UNCHANGED <<now, demo, task, jobs, bounds, told>>

\* The updateMany of handleOverdueTasks, by identifier, whatever has changed.
MarkLate ==
  /\ cron["overdue"].pc = "found"
  /\ task' = [t \in Task |->
                IF t \in cron["overdue"].tasks /\ task[t] # None
                THEN [task[t] EXCEPT !.status = "LATE"] ELSE task[t]]
  /\ cron' = [cron EXCEPT !["overdue"].pc = "tell"]
  /\ UNCHANGED <<now, demo, jobs, bounds, told>>

\* Slip: the mark is left to the end of the loop, which a crash never reaches.
SetRemindedLater(T) == UNCHANGED task

\* The updateMany of handleUpcomingDueTasks.
SetReminded(T) ==
  task' = [t \in Task |->
             IF t \in T /\ task[t] # None
             THEN [task[t] EXCEPT !.reminded = TRUE] ELSE task[t]]

MarkReminded ==
  /\ cron["upcoming"].pc = "found"
  /\ SetReminded(cron["upcoming"].tasks)
  /\ cron' = [cron EXCEPT !["upcoming"].pc = "tell"]
  /\ UNCHANGED <<now, demo, jobs, bounds, told>>

\* One notification of the loop; after the last one the job is over.
Tell(c) ==
  /\ cron[c].pc = "tell"
  /\ \E p \in cron[c].left :
       /\ AddJob("create")
       /\ cron' = [cron EXCEPT ![c] =
            IF @.left = {p} THEN Idle ELSE [@ EXCEPT !.left = cron[c].left \ {p}]]
       /\ IF c = "upcoming"
          THEN reminders' = [reminders EXCEPT ![p[1]][p[2]] = IF @ < 2 THEN @ + 1 ELSE @]
          ELSE UNCHANGED reminders
  /\ UNCHANGED <<now, demo, task, row, qr, effect, bounds, drawn>>

\* The queue or the database refuses: the exception ends the loop.
CronFails(c) ==
  /\ cron[c] # Idle
  /\ Fault
  /\ cron' = [cron EXCEPT ![c] = Idle]
  /\ UNCHANGED <<now, demo, task, jobs, asked, told>>

-----------------------------------------------------------------------------
(* The requests that feed the queues, and the reader.                      *)

\* creer, for another component, and createSubAccount's temporary password.
Enqueue(kind) ==
  /\ Ask
  /\ AddJob(kind)
  /\ UNCHANGED <<now, demo, task, cron, row, qr, faults, told, effect>>

\* The recipient is deleted while its job waits: by hand, nothing in the code
\* deletes an account.  A notification it already has would forbid it.
DeleteRecipient(j) ==
  /\ In(j, "wait") /\ job[j].kind = "create" /\ job[j].to # "gone"
  /\ row[j] = None
  /\ Ask
  /\ job' = [job EXCEPT ![j].to = "gone"]
  /\ UNCHANGED <<now, demo, task, cron, row, qr, faults, told, effect>>

\* QrCodeService.create, with a code no other has.
CreateQr ==
  /\ qr = "none"
  /\ Ask
  /\ qr' = "live"
  /\ UNCHANGED <<now, demo, task, cron, job, row, faults, told, effect>>

\* resolveScan: the redirection follows once the job is queued.
ResolveScan ==
  /\ qr = "live"
  /\ Enqueue("scan")

\* markAsLue, idempotent.
MarkAsLue(j) ==
  /\ row[j] = "UNREAD"
  /\ Ask
  /\ row' = [row EXCEPT ![j] = "READ"]
  /\ UNCHANGED <<now, demo, task, cron, job, qr, faults, told, effect>>

\* The reset of the demo removes tasks, codes and notifications; what it seeds
\* again has new identifiers: Create never gives one out twice.
ResetDemo ==
  /\ demo
  /\ Ask
  /\ task' = [t \in Task |-> None]
  /\ row' = [j \in JobId |-> None]
  /\ qr' = IF qr = "live" THEN "deleted" ELSE qr
  /\ UNCHANGED <<now, demo, cron, job, faults, told, effect>>

\* The process stops and starts again.  Each queue may have had a job at work,
\* after its first write or before it: a job stalled a second time fails.
Crash ==
  /\ Fault
  /\ cron' = [c \in Cron |-> Idle]
  /\ \E S \in SUBSET {j \in JobId : Takes(j) \/ In(j, "stored")} :
       /\ \A j, k \in S : Queue(job[j].kind) = Queue(job[k].kind) => j = k
       /\ {j \in JobId : In(j, "stored")} \subseteq S
       /\ S # {} \/ \E c \in Cron : cron[c] # Idle
       /\ job' = [j \in JobId |->
            IF j \notin S THEN job[j]
            ELSE IF job[j].stalled
                 THEN [job[j] EXCEPT !.st = "failed", !.tries = 0, !.stalled = FALSE]
                 ELSE [job[j] EXCEPT !.st = "wait", !.stalled = TRUE]]
  /\ UNCHANGED <<now, demo, task, row, qr, asked, told, effect>>

Work(j) ==
  \/ HandleCreate(j) \/ HandleMail(j) \/ HandleSendTemporaryPassword(j)
  \/ RecordScan(j) \/ ScanDone(j)

Next ==
  \/ Tick \/ CreateQr \/ ResolveScan \/ ResetDemo \/ Crash
  \/ \E t \in Task : Create(t) \/ Update(t) \/ UpdateStatus(t)
  \/ \E c \in Cron : Find(c) \/ Tell(c) \/ CronFails(c)
  \/ MarkLate \/ MarkReminded
  \/ Enqueue("create") \/ Enqueue("password")
  \/ \E j \in JobId : Work(j) \/ Throw(j) \/ MarkAsLue(j) \/ DeleteRecipient(j)

\* The cron jobs fire every hour and the workers keep working; nobody has to
\* send a request, and the clock may stop at the bound.
Fairness ==
  /\ \A c \in Cron : WF_vars(Find(c)) /\ WF_vars(Tell(c))
  /\ WF_vars(MarkLate) /\ WF_vars(MarkReminded)
  /\ \A j \in JobId : WF_vars(Work(j))

Spec == Init /\ [][Next]_vars /\ Fairness

-----------------------------------------------------------------------------
(* Properties.                                                             *)

\* A task is recalled to one of its assignees at most once, across crashes and
\* repeated runs of the hourly job (« une seule relance par tâche »).
OneReminder == \A t \in Task, u \in User : reminders[t][u] <= 1

\* A notification the user has read is not shown as new again by a job that is
\* retried after its e-mail failed or its worker died (upsert with update: {}).
ReadStaysRead ==
  [][\A j \in JobId : row[j] = "READ" => row'[j] # "UNREAD"]_vars

\* A task past its due date does not stay open: the hourly job marks it LATE,
\* if nobody closes or postpones it first, whatever fails in the meantime.
IsPastDue(t) == Dated(t) /\ Open(t) /\ task[t].due < now
OverdueNoticed == \A t \in Task : IsPastDue(t) ~> ~IsPastDue(t)

\* What a job is for has gone, or has no mailbox.
NothingToDo(j) ==
  \/ job[j].kind = "scan" /\ qr = "deleted"
  \/ job[j].kind = "create" /\ job[j].to = "gone"
  \/ job[j].kind = "password" /\ job[j].to = "demo"

\* No error and no crash lets a job end as done half way: a notification has its
\* row and its e-mail, a password its e-mail, a scan its row.  The exceptions are
\* the three the processors make themselves: the recipient was deleted or the QR
\* code removed meanwhile, or the password goes to an address of the demo.
NothingSilentlyLost ==
  \A j \in JobId : In(j, "done") => j \in effect \/ NothingToDo(j)

=============================================================================
