-------------------------- MODULE BackgroundProofs --------------------------
(***************************************************************************)
(* The work of the background, for every set of tasks, users, campaigns of *)
(* Meta and requests and every value of the bounds.  Of Jobs: its types,   *)
(* that a task is recalled once, that no job ends as done without its      *)
(* effect, and that a read notification stays read.  Of AdResults: its     *)
(* types, that a problem has one open alert unless two evaluations meet,   *)
(* and that the results shown are those of the campaign that is linked.    *)
(***************************************************************************)
EXTENDS Background, TLAPS

-----------------------------------------------------------------------------
(* The tasks and the queues.                                               *)

CronRow == [pc : {"found", "tell"}, tasks : SUBSET Task, left : SUBSET (Task \X User)]

LEMMA Types ==
  ASSUME TypeOK
  PROVE  /\ now \in Nat /\ MaxTime \in Nat /\ MaxAttempts \in Nat \ {0} /\ Window \in Nat
         /\ MaxRequests \in Nat /\ MaxFaults \in Nat
         /\ asked \in Nat /\ faults \in Nat
         /\ \A t \in Task : task[t] # None => task[t] \in TaskRow
         /\ \A c \in Cron : cron[c] = Idle \/ cron[c] \in CronRow
         /\ \A j \in JobId : job[j] # None => job[j] \in JobRow
BY BoundsAssumption DEF TypeOK, Time, CronRow

LEMMA Counts ==
  ASSUME TypeOK
  PROVE  /\ Ask => asked' \in 0..MaxRequests
         /\ Fault => faults' \in 0..MaxFaults
<1>1. /\ asked \in Nat /\ faults \in Nat /\ MaxRequests \in Nat /\ MaxFaults \in Nat
  BY Types
<1> QED BY <1>1 DEF Ask, Fault

\* One job is replaced by another row.
LEMMA JobWritten ==
  ASSUME TypeOK, NEW j \in JobId, NEW x \in JobRow, job' = [job EXCEPT ![j] = x]
  PROVE  /\ job' \in [JobId -> JobRow \cup {None}]
         /\ job'[j] = x /\ \A k \in JobId \ {j} : job'[k] = job[k]
BY DEF TypeOK

LEMMA FinishedFields ==
  ASSUME TypeOK, NEW j \in JobId, job[j] # None, NEW st \in {"done", "failed"},
         Finished(j, st)
  PROVE  /\ job' \in [JobId -> JobRow \cup {None}]
         /\ job'[j] \in JobRow /\ job'[j].st = st
         /\ job'[j].kind = job[j].kind /\ job'[j].to = job[j].to
         /\ \A k \in JobId \ {j} : job'[k] = job[k]
<1> DEFINE x == [job[j] EXCEPT !.st = st, !.tries = 0, !.stalled = FALSE]
<1>1. job[j] \in JobRow
  BY Types
<1>2. 0 \in 0..MaxAttempts
  BY Types
<1>3. x \in JobRow /\ x.st = st /\ x.kind = job[j].kind /\ x.to = job[j].to
  BY <1>1, <1>2 DEF JobRow
<1>4. job' = [job EXCEPT ![j] = x]
  BY DEF Finished, TypeOK
<1> HIDE DEF x
<1> QED BY <1>3, <1>4, JobWritten

\* A job that has made its first write.
LEMMA StoredFields ==
  ASSUME TypeOK, NEW j \in JobId, job[j] # None, job' = [job EXCEPT ![j].st = "stored"]
  PROVE  /\ job' \in [JobId -> JobRow \cup {None}]
         /\ job'[j] \in JobRow /\ job'[j].st = "stored"
         /\ job'[j].kind = job[j].kind /\ job'[j].to = job[j].to
         /\ \A k \in JobId \ {j} : job'[k] = job[k]
<1> DEFINE x == [job[j] EXCEPT !.st = "stored"]
<1>1. x \in JobRow /\ x.st = "stored" /\ x.kind = job[j].kind /\ x.to = job[j].to
  BY Types DEF JobRow
<1>2. job' = [job EXCEPT ![j] = x]
  BY DEF TypeOK
<1> HIDE DEF x
<1> QED BY <1>1, <1>2, JobWritten

LEMMA AddFields ==
  ASSUME TypeOK, NEW kind \in JobKind, AddJob(kind)
  PROVE  \E j \in JobId :
           /\ job' \in [JobId -> JobRow \cup {None}]
           /\ job[j] = None
           /\ job'[j] \in JobRow /\ job'[j].st = "wait" /\ job'[j].kind = kind
           /\ \A k \in JobId \ {j} : job'[k] = job[k]
<1>1. PICK j \in JobId, to \in Addressees(kind) :
        /\ job[j] = None
        /\ job' = [job EXCEPT ![j] = [kind |-> kind, to |-> to, st |-> "wait",
                                      tries |-> 0, stalled |-> FALSE]]
  BY DEF AddJob
<1> DEFINE x == [kind |-> kind, to |-> to, st |-> "wait", tries |-> 0, stalled |-> FALSE]
<1>2. 0 \in 0..MaxAttempts
  BY Types
<1>3. to \in {"mailbox", "demo", "gone", None}
  BY DEF Addressees, JobKind
<1>4. x \in JobRow /\ x.st = "wait" /\ x.kind = kind
  BY <1>2, <1>3 DEF JobRow
<1>5. job' = [job EXCEPT ![j] = x]
  BY <1>1
<1> HIDE DEF x
<1>6. /\ job' \in [JobId -> JobRow \cup {None}]
      /\ job'[j] = x /\ \A k \in JobId \ {j} : job'[k] = job[k]
  BY <1>4, <1>5, JobWritten
<1> QED BY <1>1, <1>4, <1>6

LEMMA RethrowFields ==
  ASSUME TypeOK, NEW j \in JobId, job[j] # None, Rethrow(j)
  PROVE  /\ job' \in [JobId -> JobRow \cup {None}]
         /\ job'[j] \in JobRow /\ job'[j].st \in {"wait", "failed"}
         /\ job'[j].kind = job[j].kind
         /\ \A k \in JobId \ {j} : job'[k] = job[k]
<1>1. CASE job[j].tries + 1 < MaxAttempts
           /\ job' = [job EXCEPT ![j].st = "wait", ![j].tries = @ + 1]
  <2> DEFINE x == [job[j] EXCEPT !.st = "wait", !.tries = job[j].tries + 1]
  <2>1. job[j] \in JobRow /\ MaxAttempts \in Nat
    BY Types
  <2>2. job[j].tries + 1 \in 0..MaxAttempts
    BY <1>1, <2>1 DEF JobRow
  <2>3. x \in JobRow /\ x.st = "wait" /\ x.kind = job[j].kind
    BY <2>1, <2>2 DEF JobRow
  <2>4. job' = [job EXCEPT ![j] = x]
    BY <1>1 DEF TypeOK
  <2> HIDE DEF x
  <2> QED BY <2>3, <2>4, JobWritten
<1>2. CASE Finished(j, "failed")
  BY <1>2, FinishedFields
<1> QED BY <1>1, <1>2 DEF Rethrow

LEMMA GoneFields ==
  ASSUME TypeOK, NEW j \in JobId, DeleteRecipient(j)
  PROVE  /\ job' \in [JobId -> JobRow \cup {None}]
         /\ job'[j] \in JobRow /\ job'[j].st = "wait" /\ job'[j].kind = "create"
         /\ \A k \in JobId \ {j} : job'[k] = job[k]
<1> DEFINE x == [job[j] EXCEPT !.to = "gone"]
<1>1. x \in JobRow /\ x.st = "wait" /\ x.kind = "create"
  BY Types DEF DeleteRecipient, In, JobRow
<1>2. job' = [job EXCEPT ![j] = x]
  BY DEF DeleteRecipient, TypeOK
<1> HIDE DEF x
<1> QED BY <1>1, <1>2, JobWritten

\* What a crash makes of a job.
LEMMA CrashFields ==
  ASSUME TypeOK, Crash
  PROVE  /\ job' \in [JobId -> JobRow \cup {None}]
         /\ \A j \in JobId : \/ job'[j] = job[j]
                             \/ /\ job[j] # None /\ job'[j] \in JobRow
                                /\ job'[j].st \in {"wait", "failed"}
                                /\ job'[j].kind = job[j].kind
<1>1. PICK S \in SUBSET {j \in JobId : Takes(j) \/ In(j, "stored")} :
        job' = [j \in JobId |->
            IF j \notin S THEN job[j]
            ELSE IF job[j].stalled
                 THEN [job[j] EXCEPT !.st = "failed", !.tries = 0, !.stalled = FALSE]
                 ELSE [job[j] EXCEPT !.st = "wait", !.stalled = TRUE]]
  BY DEF Crash
<1>2. \A j \in S : j \in JobId /\ job[j] # None
  BY DEF Takes, In
<1>3. 0 \in 0..MaxAttempts
  BY Types
<1>4. ASSUME NEW j \in JobId
      PROVE  /\ job'[j] \in JobRow \cup {None}
             /\ \/ job'[j] = job[j]
                \/ /\ job[j] # None /\ job'[j] \in JobRow
                   /\ job'[j].st \in {"wait", "failed"} /\ job'[j].kind = job[j].kind
  <2>1. CASE j \notin S
    BY <1>1, <2>1 DEF TypeOK
  <2>2. CASE j \in S
    <3>1. job[j] \in JobRow /\ job[j] # None
      BY <1>2, <2>2, Types
    <3>2. CASE job[j].stalled
      <4>1. job'[j] = [job[j] EXCEPT !.st = "failed", !.tries = 0, !.stalled = FALSE]
        BY <1>1, <2>2, <3>2
      <4> QED BY <1>3, <3>1, <4>1 DEF JobRow
    <3>3. CASE ~job[j].stalled
      <4>1. job'[j] = [job[j] EXCEPT !.st = "wait", !.stalled = TRUE]
        BY <1>1, <2>2, <3>3
      <4> QED BY <3>1, <4>1 DEF JobRow
    <3> QED BY <3>2, <3>3
  <2> QED BY <2>1, <2>2
<1>5. job' = [j \in JobId |-> job'[j]]
  BY <1>1
<1>6. job' \in [JobId -> JobRow \cup {None}]
  BY <1>4, <1>5
<1> QED BY <1>4, <1>6

-----------------------------------------------------------------------------
(* Typing.                                                                 *)

\* What becomes of the tasks: a step writes the rows that are there, or one
\* more, and never the mark of a reminder but in MarkReminded.
LEMMA TaskFields ==
  ASSUME TypeOK, NEW t \in Task, task[t] # None, Update(t) \/ UpdateStatus(t)
  PROVE  /\ task' \in [Task -> TaskRow \cup {None}]
         /\ task'[t] # None /\ task'[t].reminded = task[t].reminded
         /\ \A v \in Task \ {t} : task'[v] = task[v]
<1>1. task[t] \in TaskRow
  BY Types
<1>2. ASSUME NEW x \in TaskRow, x.reminded = task[t].reminded, task' = [task EXCEPT ![t] = x]
      PROVE  /\ task' \in [Task -> TaskRow \cup {None}]
             /\ task'[t] # None /\ task'[t].reminded = task[t].reminded
             /\ \A v \in Task \ {t} : task'[v] = task[v]
  BY <1>2, NoneAssumption DEF TypeOK
<1>3. CASE Update(t)
  <2>1. PICK d \in DueDate \cup {task[t].due}, A \in AssigneeIds :
          task' = [task EXCEPT ![t].due = d, ![t].assignees = A]
    BY <1>3 DEF Update
  <2> DEFINE x == [task[t] EXCEPT !.due = d, !.assignees = A]
  <2>2. task' = [task EXCEPT ![t] = x]
    BY <2>1 DEF TypeOK
  <2>3. x \in TaskRow /\ x.reminded = task[t].reminded
    BY <1>1, <2>1 DEF TaskRow, AssigneeIds
  <2> HIDE DEF x
  <2> QED BY <1>2, <2>2, <2>3
<1>4. CASE UpdateStatus(t)
  <2>1. PICK st \in TaskStatus : task' = [task EXCEPT ![t].status = st]
    BY <1>4 DEF UpdateStatus
  <2> DEFINE x == [task[t] EXCEPT !.status = st]
  <2>2. task' = [task EXCEPT ![t] = x]
    BY <2>1 DEF TypeOK
  <2>3. x \in TaskRow /\ x.reminded = task[t].reminded
    BY <1>1, <2>1 DEF TaskRow
  <2> HIDE DEF x
  <2> QED BY <1>2, <2>2, <2>3
<1> QED BY <1>3, <1>4

LEMMA CreateFields ==
  ASSUME TypeOK, NEW t \in Task, Create(t)
  PROVE  /\ task' \in [Task -> TaskRow \cup {None}]
         /\ \A v \in Task \ {t} : task'[v] = task[v]
<1>1. PICK d \in DueDate \cup {None}, A \in AssigneeIds :
        task' = [task EXCEPT ![t] = [due |-> d, status |-> "TODO",
                                     reminded |-> FALSE, assignees |-> A]]
  BY DEF Create
<1> DEFINE x == [due |-> d, status |-> "TODO", reminded |-> FALSE, assignees |-> A]
<1>2. x \in TaskRow
  BY DEF TaskRow, TaskStatus, AssigneeIds
<1> HIDE DEF x
<1> QED BY <1>1, <1>2 DEF TypeOK, x

\* The marks of the hourly jobs, by identifier.
LEMMA MarkFields ==
  ASSUME TypeOK, MarkLate \/ MarkReminded
  PROVE  /\ task' \in [Task -> TaskRow \cup {None}]
         /\ \A t \in Task :
              /\ task[t] = None <=> task'[t] = None
              /\ task[t] # None /\ task[t].reminded => task'[t].reminded
              /\ MarkLate /\ task[t] # None => task'[t].reminded = task[t].reminded
              /\ MarkReminded /\ task[t] # None =>
                   task'[t].reminded = (task[t].reminded \/ t \in cron["upcoming"].tasks)
<1>1. \A t \in Task : task[t] # None => task[t] \in TaskRow
  BY Types
<1>2. ASSUME NEW t \in Task, task[t] # None
      PROVE  /\ [task[t] EXCEPT !.status = "LATE"] \in TaskRow
             /\ [task[t] EXCEPT !.status = "LATE"].reminded = task[t].reminded
             /\ [task[t] EXCEPT !.reminded = TRUE] \in TaskRow
             /\ [task[t] EXCEPT !.reminded = TRUE].reminded = TRUE
  BY <1>1, <1>2 DEF TaskRow, TaskStatus
<1>3. CASE MarkLate
  <2>1. ~MarkReminded
    BY <1>3 DEF MarkLate, MarkReminded, TypeOK, Idle, Cron
  <2>2. task' = [t \in Task |->
                IF t \in cron["overdue"].tasks /\ task[t] # None
                THEN [task[t] EXCEPT !.status = "LATE"] ELSE task[t]]
    BY <1>3 DEF MarkLate
  <2> QED BY <1>1, <1>2, <1>3, <2>1, <2>2, NoneAssumption DEF TypeOK
<1>4. CASE MarkReminded
  <2>1. ~MarkLate
    BY <1>4 DEF MarkLate, MarkReminded, TypeOK, Idle, Cron
  <2>2. task' = [t \in Task |->
                IF t \in cron["upcoming"].tasks /\ task[t] # None
                THEN [task[t] EXCEPT !.reminded = TRUE] ELSE task[t]]
    BY <1>4 DEF MarkReminded, SetReminded
  <2>3. \A t \in Task : task[t] # None => task[t].reminded \in BOOLEAN
    BY <1>1 DEF TaskRow
  <2> QED BY <1>1, <1>2, <1>4, <2>1, <2>2, <2>3, NoneAssumption DEF TypeOK
<1> QED BY <1>3, <1>4

\* Where the hourly jobs are after a step of theirs.
LEMMA FindFields ==
  ASSUME TypeOK, NEW c \in Cron, Find(c)
  PROVE  /\ cron' \in [Cron -> {Idle} \cup CronRow]
         /\ cron'[c].pc = "found"
         /\ c = "upcoming" => \A t \in cron'[c].tasks : task[t] # None /\ ~task[t].reminded
         /\ \A p \in cron'[c].left : p \in Task \X User /\ p[1] \in cron'[c].tasks
         /\ \A d \in Cron \ {c} : cron'[d] = cron[d]
<1> DEFINE found == {t \in Task : IF c = "overdue" THEN IsOverdue(t) ELSE IsUpcoming(t)}
           x == [pc |-> "found", tasks |-> found,
                 left |-> {p \in Task \X User :
                             p[1] \in found /\ p[2] \in task[p[1]].assignees}]
<1>1. cron' = [cron EXCEPT ![c] = x]
  BY DEF Find
<1>2. x \in CronRow /\ x.pc = "found"
  BY DEF CronRow
<1>3. c = "upcoming" => \A t \in x.tasks : task[t] # None /\ ~task[t].reminded
  BY DEF IsUpcoming, Open
<1>4. \A p \in x.left : p \in Task \X User /\ p[1] \in x.tasks
  OBVIOUS
<1> HIDE DEF x
<1>5. cron \in [Cron -> {Idle} \cup CronRow]
  BY DEF TypeOK, CronRow
<1> QED BY <1>1, <1>2, <1>3, <1>4, <1>5

LEMMA MarkCron ==
  ASSUME TypeOK, NEW c \in Cron, cron[c].pc = "found", cron' = [cron EXCEPT ![c].pc = "tell"]
  PROVE  /\ cron' \in [Cron -> {Idle} \cup CronRow]
         /\ cron'[c].pc = "tell" /\ cron'[c].tasks = cron[c].tasks
         /\ cron'[c].left = cron[c].left
         /\ \A d \in Cron \ {c} : cron'[d] = cron[d]
<1> DEFINE x == [cron[c] EXCEPT !.pc = "tell"]
<1>1. cron[c] \in CronRow
  BY Types DEF Idle
<1>2. x \in CronRow /\ x.pc = "tell" /\ x.tasks = cron[c].tasks /\ x.left = cron[c].left
  BY <1>1 DEF CronRow
<1>3. cron' = [cron EXCEPT ![c] = x]
  BY DEF TypeOK
<1> HIDE DEF x
<1>4. cron \in [Cron -> {Idle} \cup CronRow]
  BY DEF TypeOK, CronRow
<1> QED BY <1>2, <1>3, <1>4

LEMMA TellFields ==
  ASSUME TypeOK, NEW c \in Cron, Tell(c)
  PROVE  \E p \in cron[c].left :
           /\ p \in Task \X User /\ cron[c].pc = "tell" /\ AddJob("create")
           /\ cron' \in [Cron -> {Idle} \cup CronRow]
           /\ \/ cron'[c] = Idle
              \/ /\ cron'[c].pc = "tell" /\ cron'[c].tasks = cron[c].tasks
                 /\ cron'[c].left = cron[c].left \ {p}
           /\ \A d \in Cron \ {c} : cron'[d] = cron[d]
           /\ reminders' \in [Task -> [User -> 0..2]]
           /\ c = "upcoming" =>
                /\ reminders[p[1]][p[2]] = 0 => reminders'[p[1]][p[2]] = 1
                /\ \A t \in Task, u \in User :
                     <<t, u>> # p => reminders'[t][u] = reminders[t][u]
           /\ c # "upcoming" => reminders' = reminders
<1>1. PICK p \in cron[c].left :
       /\ AddJob("create")
       /\ cron' = [cron EXCEPT ![c] =
            IF @.left = {p} THEN Idle ELSE [@ EXCEPT !.left = cron[c].left \ {p}]]
       /\ IF c = "upcoming"
          THEN reminders' = [reminders EXCEPT ![p[1]][p[2]] = IF @ < 2 THEN @ + 1 ELSE @]
          ELSE UNCHANGED reminders
  BY DEF Tell
<1>2. cron[c].pc = "tell" /\ cron[c] \in CronRow
  BY Types DEF Tell, Idle
<1>3. p \in Task \X User
  BY <1>2 DEF CronRow
<1> DEFINE y == [cron[c] EXCEPT !.left = cron[c].left \ {p}]
           x == IF cron[c].left = {p} THEN Idle ELSE y
<1>4. y \in CronRow /\ y.pc = "tell" /\ y.tasks = cron[c].tasks
      /\ y.left = cron[c].left \ {p}
  BY <1>2 DEF CronRow
<1>5. cron' = [cron EXCEPT ![c] = x]
  BY <1>1 DEF TypeOK
<1> HIDE DEF y
<1>6. cron \in [Cron -> {Idle} \cup CronRow]
  BY DEF TypeOK, CronRow
<1>7. /\ cron' \in [Cron -> {Idle} \cup CronRow]
      /\ \/ cron'[c] = Idle
         \/ /\ cron'[c].pc = "tell" /\ cron'[c].tasks = cron[c].tasks
            /\ cron'[c].left = cron[c].left \ {p}
      /\ \A d \in Cron \ {c} : cron'[d] = cron[d]
  BY <1>4, <1>5, <1>6
<1>8. CASE c # "upcoming"
  BY <1>1, <1>2, <1>3, <1>7, <1>8 DEF TypeOK
<1>9. CASE c = "upcoming"
  <2> DEFINE t == p[1]
             u == p[2]
             n == IF reminders[t][u] < 2 THEN reminders[t][u] + 1 ELSE reminders[t][u]
  <2>1. t \in Task /\ u \in User /\ p = <<t, u>>
    BY <1>3
  <2>2. reminders[t] \in [User -> 0..2] /\ reminders[t][u] \in 0..2
    BY <2>1 DEF TypeOK
  <2>3. n \in 0..2 /\ (reminders[t][u] = 0 => n = 1)
    BY <2>2
  <2>4. reminders' = [reminders EXCEPT ![t] = [reminders[t] EXCEPT ![u] = n]]
    BY <1>1, <1>9, <2>1 DEF TypeOK
  <2> HIDE DEF n, t, u
  <2>5. [reminders[t] EXCEPT ![u] = n] \in [User -> 0..2]
    BY <2>2, <2>3
  <2>6. /\ reminders' \in [Task -> [User -> 0..2]]
        /\ reminders'[t][u] = n
        /\ \A v \in Task, w \in User : <<v, w>> # <<t, u>> => reminders'[v][w] = reminders[v][w]
    BY <2>1, <2>2, <2>4, <2>5 DEF TypeOK
  <2> QED BY <1>1, <1>2, <1>3, <1>7, <1>9, <2>1, <2>3, <2>6 DEF t, u
<1> QED BY <1>8, <1>9

LEMMA InitTyped == Init => TypeOK
BY Types, BoundsAssumption DEF Init, TypeOK, Time

LEMMA StepTyped ==
  ASSUME TypeOK, [Next]_vars
  PROVE  TypeOK'
<1> USE DEF jobs, told, bounds
<1>0. /\ task \in [Task -> TaskRow \cup {None}] /\ cron \in [Cron -> {Idle} \cup CronRow]
      /\ job \in [JobId -> JobRow \cup {None}] /\ row \in [JobId -> {None, "UNREAD", "READ"}]
  BY DEF TypeOK, CronRow
<1>1. CASE Tick \/ UNCHANGED vars
  <2>1. now' \in Time
    BY <1>1, Types DEF Tick, vars, TypeOK, Time
  <2> QED BY <1>1, <2>1 DEF Tick, vars, TypeOK
<1>2. CASE CreateQr \/ ResetDemo
  <2>1. task' \in [Task -> TaskRow \cup {None}] /\ row' \in [JobId -> {None, "UNREAD", "READ"}]
    BY <1>0, <1>2 DEF CreateQr, ResetDemo
  <2> QED BY <1>2, <2>1, Counts DEF CreateQr, ResetDemo, TypeOK
<1>3. ASSUME NEW kind \in JobKind, Enqueue(kind)
      PROVE  TypeOK'
  <2>1. job' \in [JobId -> JobRow \cup {None}]
    BY <1>3, AddFields DEF Enqueue
  <2> QED BY <1>3, <2>1, Counts DEF Enqueue, TypeOK
<1>4. CASE Crash
  <2>1. job' \in [JobId -> JobRow \cup {None}]
    BY <1>4, CrashFields
  <2>2. cron' \in [Cron -> {Idle} \cup CronRow]
    BY <1>4 DEF Crash
  <2> QED BY <1>4, <2>1, <2>2, Counts DEF Crash, TypeOK, CronRow
<1>5. ASSUME NEW t \in Task, Create(t) \/ Update(t) \/ UpdateStatus(t)
      PROVE  TypeOK'
  <2>1. task' \in [Task -> TaskRow \cup {None}]
    BY <1>5, CreateFields, TaskFields DEF Update, UpdateStatus
  <2> QED BY <1>5, <2>1, Counts DEF Create, Update, UpdateStatus, TypeOK
<1>6. ASSUME NEW c \in Cron, Find(c)
      PROVE  TypeOK'
  <2>1. cron' \in [Cron -> {Idle} \cup CronRow]
    BY <1>6, FindFields
  <2> QED BY <1>6, <2>1 DEF Find, TypeOK, CronRow
<1>7. ASSUME NEW c \in Cron, Tell(c)
      PROVE  TypeOK'
  <2>1. /\ cron' \in [Cron -> {Idle} \cup CronRow] /\ AddJob("create")
        /\ reminders' \in [Task -> [User -> 0..2]]
    BY <1>7, TellFields
  <2>2. job' \in [JobId -> JobRow \cup {None}]
    BY <2>1, AddFields DEF JobKind
  <2> QED BY <1>7, <2>1, <2>2 DEF Tell, TypeOK, CronRow
<1>8. ASSUME NEW c \in Cron, CronFails(c)
      PROVE  TypeOK'
  <2>1. cron' \in [Cron -> {Idle} \cup CronRow]
    BY <1>0, <1>8 DEF CronFails
  <2> QED BY <1>8, <2>1, Counts DEF CronFails, TypeOK, CronRow
<1>9. CASE MarkLate \/ MarkReminded
  <2>1. task' \in [Task -> TaskRow \cup {None}]
    BY <1>9, MarkFields
  <2>2. cron' \in [Cron -> {Idle} \cup CronRow]
    BY <1>9, MarkCron DEF MarkLate, MarkReminded, Cron
  <2> QED BY <1>9, <2>1, <2>2 DEF MarkLate, MarkReminded, TypeOK, CronRow
<1>10. ASSUME NEW j \in JobId, Work(j)
       PROVE  TypeOK'
  <2>1. job' \in [JobId -> JobRow \cup {None}]
    BY <1>10, StoredFields, FinishedFields
       DEF Work, HandleCreate, HandleMail, HandleSendTemporaryPassword, RecordScan, ScanDone,
           Takes, In
  <2>2. row' \in [JobId -> {None, "UNREAD", "READ"}]
    BY <1>0, <1>10 DEF Work, HandleCreate, UpsertRow, HandleMail, HandleSendTemporaryPassword,
       RecordScan, ScanDone
  <2> QED BY <1>10, <2>1, <2>2 DEF Work, HandleCreate, HandleMail,
       HandleSendTemporaryPassword, RecordScan, ScanDone, TypeOK
<1>11. ASSUME NEW j \in JobId, Throw(j)
       PROVE  TypeOK'
  <2>1. job' \in [JobId -> JobRow \cup {None}]
    BY <1>11, RethrowFields DEF Throw, Takes, In
  <2> QED BY <1>11, <2>1, Counts DEF Throw, TypeOK
<1>12. ASSUME NEW j \in JobId, MarkAsLue(j)
       PROVE  TypeOK'
  BY <1>12, Counts DEF MarkAsLue, TypeOK
<1>13. ASSUME NEW j \in JobId, DeleteRecipient(j)
       PROVE  TypeOK'
  <2>1. job' \in [JobId -> JobRow \cup {None}]
    BY <1>13, GoneFields
  <2> QED BY <1>13, <2>1, Counts DEF DeleteRecipient, TypeOK
<1> QED BY <1>1, <1>2, <1>3, <1>4, <1>5, <1>6, <1>7, <1>8, <1>9, <1>10, <1>11, <1>12, <1>13
        DEF Next, ResolveScan, JobKind

\* The tasks, the jobs and the histories keep their types, whatever fails.
THEOREM TypeCorrect == Spec => []TypeOK
BY InitTyped, StepTyped, PTL DEF Spec

-----------------------------------------------------------------------------
(* One reminder.                                                           *)

Told(t, u) == reminders[t][u]

\* A task that is there was created; one that is not marked was recalled to
\* nobody, and neither was one not yet created.
Unmarked ==
  /\ \A t \in Task : task[t] # None => t \in drawn
  /\ \A t \in Task, u \in User :
       t \notin drawn \/ (task[t] # None /\ ~task[t].reminded) => Told(t, u) = 0

\* Of the run under way, what is left to tell has not been told, and once it
\* has marked its tasks they are marked, or gone.
RunOpen ==
  cron["upcoming"].pc \in {"found", "tell"} =>
    \A p \in cron["upcoming"].left :
      /\ p \in Task \X User /\ p[1] \in cron["upcoming"].tasks /\ p[1] \in drawn
      /\ Told(p[1], p[2]) = 0
      /\ cron["upcoming"].pc = "tell" /\ task[p[1]] # None => task[p[1]].reminded

ReminderInv == TypeOK /\ Unmarked /\ RunOpen /\ OneReminder

\* A step that tells nobody, and leaves the run where it is or ends it.
LEMMA ReminderKept ==
  ASSUME ReminderInv, reminders' = reminders, drawn \subseteq drawn',
         cron'["upcoming"] = cron["upcoming"] \/ cron'["upcoming"] = Idle,
         \A t \in Task : task'[t] # None => t \in drawn',
         \A t \in Task : task'[t] # None /\ t \in drawn =>
                           task[t] # None /\ (task[t].reminded => task'[t].reminded)
  PROVE  Unmarked' /\ RunOpen' /\ OneReminder'
<1>1. Unmarked'
  BY DEF ReminderInv, Unmarked, Told
<1>2. RunOpen'
  <2>1. CASE cron'["upcoming"] = Idle
    BY <2>1 DEF RunOpen, Idle
  <2>2. CASE cron'["upcoming"] = cron["upcoming"]
    BY <2>2 DEF ReminderInv, RunOpen, Told
  <2> QED BY <2>1, <2>2
<1>3. OneReminder'
  BY DEF ReminderInv, OneReminder
<1> QED BY <1>1, <1>2, <1>3

LEMMA StepReminder ==
  ASSUME ReminderInv, [Next]_vars
  PROVE  ReminderInv'
<1> USE DEF jobs, told, bounds
<1>0. /\ TypeOK /\ TypeOK' /\ Unmarked /\ RunOpen /\ OneReminder
      /\ \A t \in Task : task[t] # None => t \in drawn
  BY StepTyped DEF ReminderInv, Unmarked
<1> SUFFICES Unmarked' /\ RunOpen' /\ OneReminder'
  BY <1>0 DEF ReminderInv
<1>1. ASSUME UNCHANGED <<task, cron, reminders, drawn>>
      PROVE  Unmarked' /\ RunOpen' /\ OneReminder'
  BY <1>0, <1>1, ReminderKept
<1>2. CASE \/ Tick \/ CreateQr \/ UNCHANGED vars
           \/ \E kind \in JobKind : Enqueue(kind)
           \/ \E j \in JobId : Work(j) \/ Throw(j) \/ MarkAsLue(j) \/ DeleteRecipient(j)
  BY <1>1, <1>2 DEF Tick, CreateQr, Enqueue, vars, Work, Throw, MarkAsLue, DeleteRecipient,
     HandleCreate, HandleMail, HandleSendTemporaryPassword, RecordScan, ScanDone
<1>3. CASE ResetDemo
  <2>1. \A t \in Task : task'[t] = None
    BY <1>3 DEF ResetDemo
  <2>2. UNCHANGED <<reminders, drawn, cron>>
    BY <1>3 DEF ResetDemo
  <2> QED BY <1>0, <2>1, <2>2, ReminderKept
<1>4. CASE Crash \/ \E c \in Cron : CronFails(c)
  <2>1. cron'["upcoming"] = cron["upcoming"] \/ cron'["upcoming"] = Idle
    BY <1>0, <1>4 DEF Crash, CronFails, Cron, TypeOK
  <2>2. UNCHANGED <<reminders, drawn, task>>
    BY <1>4 DEF Crash, CronFails
  <2> QED BY <1>0, <2>1, <2>2, ReminderKept
<1>5. ASSUME NEW t \in Task, Create(t)
      PROVE  Unmarked' /\ RunOpen' /\ OneReminder'
  <2>1. /\ t \notin drawn /\ drawn' = drawn \cup {t} /\ UNCHANGED <<reminders, cron>>
        /\ \A v \in Task \ {t} : task'[v] = task[v]
    BY <1>0, <1>5, CreateFields DEF Create
  <2>2. /\ \A v \in Task : task'[v] # None => v \in drawn'
        /\ \A v \in Task : v \in drawn => task'[v] = task[v]
    BY <1>0, <2>1
  <2>3. Unmarked'
    BY <1>0, <2>1, <2>2 DEF Unmarked, Told
  <2>4. RunOpen'
    BY <1>0, <2>1, <2>2 DEF RunOpen, Told
  <2> QED BY <1>0, <2>1, <2>3, <2>4 DEF OneReminder
<1>6. ASSUME NEW t \in Task, Update(t) \/ UpdateStatus(t)
      PROVE  Unmarked' /\ RunOpen' /\ OneReminder'
  <2>1. task[t] # None /\ UNCHANGED <<reminders, cron, drawn>>
    BY <1>6 DEF Update, UpdateStatus
  <2>2. /\ task'[t].reminded = task[t].reminded
        /\ \A v \in Task \ {t} : task'[v] = task[v]
    BY <1>0, <1>6, <2>1, TaskFields
  <2> QED BY <1>0, <2>1, <2>2, ReminderKept
<1>7. CASE MarkLate
  <2>1. cron'["upcoming"] = cron["upcoming"] /\ UNCHANGED <<reminders, drawn>>
    BY <1>0, <1>7 DEF MarkLate, TypeOK, Cron
  <2>2. \A t \in Task :
          /\ task[t] = None <=> task'[t] = None
          /\ task[t] # None /\ task[t].reminded => task'[t].reminded
    BY <1>0, <1>7, MarkFields
  <2> QED BY <1>0, <2>1, <2>2, ReminderKept
<1>8. CASE MarkReminded
  <2>1. /\ cron["upcoming"].pc = "found" /\ cron'["upcoming"].pc = "tell"
        /\ cron'["upcoming"].left = cron["upcoming"].left
        /\ cron'["upcoming"].tasks = cron["upcoming"].tasks
        /\ UNCHANGED <<reminders, drawn>>
    BY <1>0, <1>8, MarkCron DEF MarkReminded, Cron
  <2>2. \A t \in Task :
          /\ task[t] = None <=> task'[t] = None
          /\ task[t] # None =>
               task'[t].reminded = (task[t].reminded \/ t \in cron["upcoming"].tasks)
    BY <1>0, <1>8, MarkFields
  <2>3. Unmarked'
    BY <1>0, <2>1, <2>2 DEF Unmarked, Told
  <2>4. RunOpen'
    BY <1>0, <2>1, <2>2 DEF RunOpen, Told
  <2> QED BY <1>0, <2>1, <2>3, <2>4 DEF OneReminder
<1>9. ASSUME NEW c \in Cron, Find(c)
      PROVE  Unmarked' /\ RunOpen' /\ OneReminder'
  <2>1. UNCHANGED <<reminders, drawn, task>>
    BY <1>9 DEF Find
  <2>2. CASE c # "upcoming"
    <3>1. cron'["upcoming"] = cron["upcoming"]
      BY <1>0, <1>9, <2>2, FindFields DEF Cron
    <3> QED BY <1>1, <1>0, <2>1, <3>1, ReminderKept
  <2>3. CASE c = "upcoming"
    <3>1. /\ cron'["upcoming"].pc = "found"
          /\ \A t \in cron'["upcoming"].tasks : task[t] # None /\ ~task[t].reminded
          /\ \A p \in cron'["upcoming"].left :
               p \in Task \X User /\ p[1] \in cron'["upcoming"].tasks
      BY <1>0, <1>9, <2>3, FindFields
    <3>2. RunOpen'
      BY <1>0, <2>1, <3>1 DEF RunOpen, Unmarked, Told
    <3>3. Unmarked' /\ OneReminder'
      BY <1>0, <2>1 DEF Unmarked, Told, OneReminder
    <3> QED BY <3>2, <3>3
  <2> QED BY <2>2, <2>3
<1>10. ASSUME NEW c \in Cron, Tell(c)
       PROVE  Unmarked' /\ RunOpen' /\ OneReminder'
  <2>1. UNCHANGED <<drawn, task>>
    BY <1>10 DEF Tell
  <2>2. PICK p \in cron[c].left :
           /\ p \in Task \X User /\ cron[c].pc = "tell"
           /\ \/ cron'[c] = Idle
              \/ /\ cron'[c].pc = "tell" /\ cron'[c].tasks = cron[c].tasks
                 /\ cron'[c].left = cron[c].left \ {p}
           /\ \A d \in Cron \ {c} : cron'[d] = cron[d]
           /\ c = "upcoming" =>
                /\ reminders[p[1]][p[2]] = 0 => reminders'[p[1]][p[2]] = 1
                /\ \A t \in Task, u \in User :
                     <<t, u>> # p => reminders'[t][u] = reminders[t][u]
           /\ c # "upcoming" => reminders' = reminders
    BY <1>0, <1>10, TellFields
  <2>3. CASE c # "upcoming"
    <3>1. cron'["upcoming"] = cron["upcoming"] /\ reminders' = reminders
      BY <2>2, <2>3 DEF Cron
    <3> QED BY <1>0, <2>1, <3>1, ReminderKept
  <2>4. CASE c = "upcoming"
    <3>1. /\ p[1] \in drawn /\ Told(p[1], p[2]) = 0
          /\ (task[p[1]] # None => task[p[1]].reminded)
      BY <1>0, <2>2, <2>4 DEF RunOpen
    <3>2. /\ reminders'[p[1]][p[2]] = 1
          /\ \A t \in Task, u \in User : <<t, u>> # p => reminders'[t][u] = reminders[t][u]
      BY <2>2, <2>4, <3>1 DEF Told
    <3>3. \A t \in Task, u \in User :
            \/ reminders'[t][u] = reminders[t][u]
            \/ t = p[1] /\ u = p[2] /\ reminders'[t][u] = 1
      BY <2>2, <3>2
    <3>4. Unmarked'
      BY <1>0, <2>1, <3>1, <3>3 DEF Unmarked, Told
    <3>5. OneReminder'
      BY <1>0, <3>3 DEF OneReminder
    <3>6. RunOpen'
      <4>1. CASE cron'["upcoming"] = Idle
        BY <4>1 DEF RunOpen, Idle
      <4>2. CASE /\ cron'[c].pc = "tell" /\ cron'[c].tasks = cron[c].tasks
                 /\ cron'[c].left = cron[c].left \ {p}
        <5>1. SUFFICES ASSUME NEW q \in cron["upcoming"].left, q # p
                       PROVE  /\ q \in Task \X User /\ q[1] \in cron["upcoming"].tasks
                              /\ q[1] \in drawn /\ reminders'[q[1]][q[2]] = 0
                              /\ task[q[1]] # None => task[q[1]].reminded
          BY <2>1, <2>4, <4>2 DEF RunOpen, Told
        <5>2. /\ q \in Task \X User /\ q[1] \in cron["upcoming"].tasks
              /\ q[1] \in drawn /\ reminders[q[1]][q[2]] = 0
              /\ task[q[1]] # None => task[q[1]].reminded
          BY <1>0, <2>2, <2>4 DEF RunOpen, Told
        <5>3. reminders'[q[1]][q[2]] = reminders[q[1]][q[2]]
          BY <3>2, <5>1, <5>2
        <5> QED BY <5>2, <5>3
      <4> QED BY <2>2, <2>4, <4>1, <4>2
    <3> QED BY <3>4, <3>5, <3>6
  <2> QED BY <2>3, <2>4
<1> QED BY <1>2, <1>3, <1>4, <1>5, <1>6, <1>7, <1>8, <1>9, <1>10
        DEF Next, ResolveScan, JobKind

\* A task is recalled to one of its assignees at most once, for any tasks and
\* users, whatever crashes, failures and changes of the tasks there are.
THEOREM RemindedOnce == Spec => []OneReminder
<1>1. Init => ReminderInv
  <2> SUFFICES ASSUME Init PROVE ReminderInv
    OBVIOUS
  <2>1. /\ \A t \in Task : task[t] = None
        /\ \A t \in Task, u \in User : reminders[t][u] = 0
        /\ cron["upcoming"] = Idle
    BY DEF Init, Cron
  <2> QED BY <2>1, InitTyped DEF ReminderInv, Unmarked, RunOpen, OneReminder, Told, Idle
<1>2. ReminderInv /\ [Next]_vars => ReminderInv'
  BY StepReminder
<1>3. ReminderInv => OneReminder
  BY DEF ReminderInv
<1> QED BY <1>1, <1>2, <1>3, PTL DEF Spec

-----------------------------------------------------------------------------
(* No job is lost.                                                         *)

\* A job that is done has done what it is for, or has nothing left to do; a scan
\* past its write has done it; a scan was asked of a code that was there.
EffectOf ==
  /\ NothingSilentlyLost
  /\ \A j \in JobId : In(j, "stored") /\ job[j].kind = "scan" => j \in effect
  /\ \A j \in JobId : job[j] # None /\ job[j].kind = "scan" => qr # "none"

EffectInv == TypeOK /\ EffectOf

\* A job waits or fails again: it owes nothing.
LEMMA EffectKept ==
  ASSUME EffectInv, effect \subseteq effect',
         qr' = qr \/ (qr = "none" /\ qr' = "live") \/ (qr = "live" /\ qr' = "deleted"),
         \A j \in JobId :
           \/ job'[j] = job[j]
           \/ /\ job'[j].st \in {"wait", "failed"}
              /\ job'[j].kind = "scan" => qr' # "none"
  PROVE  EffectOf'
BY DEF EffectInv, EffectOf, NothingSilentlyLost, NothingToDo, In

\* The job j has just done what it is for, or ended with nothing left to do, or
\* is a notification that has its row.
LEMMA EffectDone ==
  ASSUME EffectInv, NEW j \in JobId, effect \subseteq effect', qr' = qr, job[j] # None,
         job'[j].kind = job[j].kind, job'[j].to = job[j].to,
         \A k \in JobId \ {j} : job'[k] = job[k],
         \/ j \in effect'
         \/ job'[j].st = "done" /\ NothingToDo(j)
         \/ job'[j].st = "stored" /\ job[j].kind # "scan"
  PROVE  EffectOf'
BY DEF EffectInv, EffectOf, NothingSilentlyLost, NothingToDo, In

LEMMA StepEffect ==
  ASSUME EffectInv, [Next]_vars
  PROVE  EffectInv'
<1> USE DEF jobs, told, bounds
<1>0. TypeOK /\ TypeOK'
  BY StepTyped DEF EffectInv
<1> SUFFICES EffectOf'
  BY <1>0 DEF EffectInv
<1>1. CASE UNCHANGED <<job, effect>> /\ (qr' = qr \/ (qr = "none" /\ qr' = "live")
                                         \/ (qr = "live" /\ qr' = "deleted"))
  BY <1>1, EffectKept
<1>2. CASE \/ Tick \/ CreateQr \/ ResetDemo \/ MarkLate \/ MarkReminded \/ UNCHANGED vars
           \/ \E t \in Task : Create(t) \/ Update(t) \/ UpdateStatus(t)
           \/ \E c \in Cron : Find(c) \/ CronFails(c)
           \/ \E j \in JobId : MarkAsLue(j)
  BY <1>1, <1>2 DEF Tick, CreateQr, ResetDemo, MarkLate, MarkReminded, vars, Create, Update,
     UpdateStatus, Find, CronFails, MarkAsLue
<1>3. ASSUME NEW kind \in JobKind, AddJob(kind), UNCHANGED <<qr, effect>>,
             kind = "scan" => qr # "none"
      PROVE  EffectOf'
  BY <1>0, <1>3, AddFields, EffectKept
<1>4. CASE Enqueue("create") \/ Enqueue("password") \/ ResolveScan
  BY <1>3, <1>4 DEF Enqueue, ResolveScan, JobKind
<1>5. ASSUME NEW c \in Cron, Tell(c)
      PROVE  EffectOf'
  BY <1>3, <1>5 DEF Tell, JobKind
<1>6. CASE Crash
  <2>1. \A j \in JobId :
          \/ job'[j] = job[j]
          \/ /\ job[j] # None /\ job'[j].st \in {"wait", "failed"}
             /\ job'[j].kind = job[j].kind
    BY <1>0, <1>6, CrashFields
  <2>2. UNCHANGED <<qr, effect>>
    BY <1>6 DEF Crash
  <2>3. \A j \in JobId : job[j] # None /\ job[j].kind = "scan" => qr # "none"
    BY DEF EffectInv, EffectOf
  <2> QED BY <2>1, <2>2, <2>3, EffectKept
<1>7. ASSUME NEW j \in JobId, Throw(j)
      PROVE  EffectOf'
  <2>1. job[j] # None /\ Rethrow(j) /\ UNCHANGED <<qr, effect>>
    BY <1>7 DEF Throw, Takes, In
  <2>2. /\ job'[j].st \in {"wait", "failed"} /\ job'[j].kind = job[j].kind
        /\ \A k \in JobId \ {j} : job'[k] = job[k]
    BY <1>0, <2>1, RethrowFields
  <2>3. job[j].kind = "scan" => qr # "none"
    BY <2>1 DEF EffectInv, EffectOf
  <2> QED BY <2>1, <2>2, <2>3, EffectKept
<1>8. ASSUME NEW j \in JobId, Work(j)
      PROVE  EffectOf'
  <2>1. job[j] # None /\ qr' = qr /\ effect \subseteq effect'
    BY <1>8 DEF Work, HandleCreate, HandleMail, HandleSendTemporaryPassword, RecordScan,
       ScanDone, Takes, In
  <2>2. /\ job'[j].kind = job[j].kind /\ job'[j].to = job[j].to
        /\ \A k \in JobId \ {j} : job'[k] = job[k]
        /\ Finished(j, "done") => job'[j].st = "done"
        /\ job' = [job EXCEPT ![j].st = "stored"] => job'[j].st = "stored"
    BY <1>0, <1>8, <2>1, StoredFields, FinishedFields
       DEF Work, HandleCreate, HandleMail, HandleSendTemporaryPassword, RecordScan, ScanDone
  <2>3. CASE HandleCreate(j)
    <3>1. \/ job'[j].st = "done" /\ NothingToDo(j)
          \/ job'[j].st = "stored" /\ job[j].kind # "scan"
      BY <2>2, <2>3 DEF HandleCreate, NothingToDo
    <3> QED BY <2>1, <2>2, <3>1, EffectDone
  <2>4. CASE HandleMail(j) \/ ScanDone(j)
    <3>1. j \in effect'
      BY <2>4 DEF HandleMail, ScanDone, EffectInv, EffectOf, In
    <3> QED BY <2>1, <2>2, <3>1, EffectDone
  <2>5. CASE HandleSendTemporaryPassword(j)
    <3>1. j \in effect' \/ (job'[j].st = "done" /\ NothingToDo(j))
      BY <2>2, <2>5 DEF HandleSendTemporaryPassword, NothingToDo
    <3> QED BY <2>1, <2>2, <3>1, EffectDone
  <2>6. CASE RecordScan(j)
    <3>1. job[j].kind = "scan"
      BY <2>6 DEF RecordScan
    <3>2. qr # "none" /\ qr \in {"none", "live", "deleted"}
      BY <1>0, <2>1, <3>1 DEF EffectInv, EffectOf, TypeOK
    <3>3. j \in effect' \/ (job'[j].st = "done" /\ NothingToDo(j))
      BY <2>2, <2>6, <3>1, <3>2 DEF RecordScan, NothingToDo
    <3> QED BY <2>1, <2>2, <3>3, EffectDone
  <2> QED BY <1>8, <2>3, <2>4, <2>5, <2>6 DEF Work
<1>9. ASSUME NEW j \in JobId, DeleteRecipient(j)
      PROVE  EffectOf'
  BY <1>0, <1>9, GoneFields, EffectKept DEF DeleteRecipient
<1> QED BY <1>2, <1>4, <1>5, <1>6, <1>7, <1>8, <1>9 DEF Next

\* A job that is done has its row, its mail or its scan, for any number of jobs,
\* attempts, failures and crashes; the exceptions are a recipient deleted, a QR
\* code removed and a password to an address of the demo.
THEOREM NothingLost == Spec => []NothingSilentlyLost
<1>1. Init => EffectInv
  <2> SUFFICES ASSUME Init PROVE EffectInv
    OBVIOUS
  <2>1. \A j \in JobId : job[j] = None
    BY DEF Init
  <2> QED BY <2>1, InitTyped DEF EffectInv, EffectOf, NothingSilentlyLost, In
<1>2. EffectInv /\ [Next]_vars => EffectInv'
  BY StepEffect
<1>3. EffectInv => NothingSilentlyLost
  BY DEF EffectInv, EffectOf
<1> QED BY <1>1, <1>2, <1>3, PTL DEF Spec

\* A notification that was read is never shown as new again.
THEOREM ReadForGood == Spec => ReadStaysRead
<1>1. ASSUME TypeOK, [Next]_vars
      PROVE  \A j \in JobId : row[j] = "READ" => row'[j] # "UNREAD"
  <2> SUFFICES ASSUME NEW j \in JobId, row[j] = "READ"
               PROVE  row'[j] # "UNREAD"
    OBVIOUS
  <2>1. row \in [JobId -> {None, "UNREAD", "READ"}] /\ None \notin {"UNREAD", "READ"}
    BY <1>1, NoneAssumption DEF TypeOK
  <2>2. ASSUME NEW k \in JobId, UpsertRow(k)
        PROVE  row'[j] # "UNREAD"
    BY <2>1, <2>2 DEF UpsertRow
  <2>3. ASSUME NEW k \in JobId, MarkAsLue(k)
        PROVE  row'[j] # "UNREAD"
    BY <2>1, <2>3 DEF MarkAsLue
  <2>4. CASE ResetDemo
    BY <2>1, <2>4 DEF ResetDemo
  <2>5. CASE row' = row
    BY <2>5
  <2> QED BY <1>1, <2>2, <2>3, <2>4, <2>5
          DEF Next, Work, HandleCreate, HandleMail, HandleSendTemporaryPassword, RecordScan,
              ScanDone, Throw, DeleteRecipient, Tick, CreateQr, ResolveScan, Enqueue, Crash, Create, Update,
              UpdateStatus, Find, Tell, CronFails, MarkLate, MarkReminded, vars, jobs, told
<1> QED BY <1>1, TypeCorrect, PTL DEF Spec, ReadStaysRead

-----------------------------------------------------------------------------
(* The results of the ads.                                                 *)

\* A behaviour of the background is one of the jobs and one of the ads.
LEMMA BackgroundParts ==
  BackgroundSpec => Init /\ [][Next]_vars /\ Ads!Init /\ [][Ads!Next]_(Ads!vars)
<1>1. BackgroundInit => Init /\ Ads!Init
  BY DEF BackgroundInit
<1>2. [BackgroundNext]_background => [Next]_vars
  BY DEF BackgroundNext, background
<1>3. [BackgroundNext]_background => [Ads!Next]_(Ads!vars)
  BY DEF BackgroundNext, background, adVars, Ads!vars
<1> QED BY <1>1, <1>2, <1>3, PTL DEF BackgroundSpec

\* What an actor holds where it is.
LEMMA AdLocal ==
  ASSUME Ads!TypeOK, NEW x \in Ads!Actor
  PROVE  /\ actor[x] \in Ads!Local
         /\ Ads!At(x, "write") \/ Ads!At(x, "del") => actor[x].to \in Meta \cup {None}
         /\ Ads!At(x, "get") => actor[x].refresh \in BOOLEAN
         /\ Ads!Reading(x) => actor[x].meta \in Meta
         /\ Ads!At(x, "evaluate") \/ Ads!Evaluating(x) => actor[x].found \in SUBSET AlertType
         /\ Ads!Evaluating(x) => actor[x].open \in SUBSET (Ads!AlertId \X AlertType)
<1>1. actor[x] \in Ads!Local
  BY DEF Ads!TypeOK
<1> QED BY <1>1 DEF Ads!Local, Ads!Idle, Ads!At, Ads!Reading, Ads!Evaluating

\* A step of one actor leaves the others where they are.
LEMMA AdActor ==
  ASSUME Ads!TypeOK, NEW x \in Ads!Actor, NEW q \in Ads!Local, Ads!Becomes(x, q)
  PROVE  /\ actor' \in [Ads!Actor -> Ads!Local]
         /\ actor'[x] = q
         /\ \A y \in Ads!Actor \ {x} : actor'[y] = actor[y]
BY DEF Ads!TypeOK, Ads!Becomes

\* What an action of an actor must show, besides what it writes elsewhere.
LEMMA AdActorTyped ==
  ASSUME Ads!TypeOK, NEW x \in Ads!Actor, NEW q \in Ads!Local, Ads!Becomes(x, q),
         q.pc \in {"resolve", "raise"} =>
           \A p \in q.open : alert'[p[1]] \in {None, p[2]},
         \A y \in Ads!Actor \ {x} : Ads!Evaluating(y) =>
           \A p \in actor[y].open : alert'[p[1]] \in {None, p[2]},
         link' \in Meta \cup {None}, cache' \in Meta \cup {None},
         alert' \in [Ads!AlertId -> AlertType \cup {None}],
         problems' = problems, adAsked' \in 0..MaxAsked, failures' \in 0..MaxFailures,
         changes' = changes, crossed' \in BOOLEAN, overlapped' \in BOOLEAN
  PROVE  Ads!TypeOK'
<1>1. actor' \in [Ads!Actor -> Ads!Local]
  BY AdActor
<1>2. \A y \in Ads!Actor : actor'[y].pc \in {"resolve", "raise"} =>
         \A p \in actor'[y].open : alert'[p[1]] \in {None, p[2]}
  <2> TAKE y \in Ads!Actor
  <2>1. CASE y = x
    BY <2>1, AdActor
  <2>2. CASE y # x
    BY <2>2, AdActor DEF Ads!Evaluating
  <2> QED BY <2>1, <2>2
<1> QED BY <1>1, <1>2 DEF Ads!TypeOK

LEMMA AdInitTyped == Ads!Init => Ads!TypeOK
<1> SUFFICES ASSUME Ads!Init PROVE Ads!TypeOK
  OBVIOUS
<1>1. actor \in [Ads!Actor -> Ads!Local]
  BY DEF Ads!Init, Ads!Local
<1>2. \A x \in Ads!Actor : actor[x].pc = "idle"
  BY DEF Ads!Init, Ads!Idle
<1>3. adAsked \in 0..MaxAsked /\ failures \in 0..MaxFailures /\ changes \in 0..MaxChanges
  BY AdBoundsAssumption DEF Ads!Init
<1>4. problems \in [Meta -> SUBSET AlertType] /\ alert \in [Ads!AlertId -> AlertType \cup {None}]
  BY DEF Ads!Init
<1> QED BY <1>1, <1>2, <1>3, <1>4 DEF Ads!Init, Ads!TypeOK

\* The actions of an actor that leave the alerts alone, and do not evaluate.
LEMMA AdQuietTyped ==
  ASSUME Ads!TypeOK, NEW x \in Ads!Actor, NEW q \in Ads!Local, Ads!Becomes(x, q),
         q.pc \notin {"resolve", "raise"}, alert' = alert,
         link' \in Meta \cup {None}, cache' \in Meta \cup {None},
         problems' = problems, adAsked' \in 0..MaxAsked, failures' \in 0..MaxFailures,
         changes' = changes, crossed' \in BOOLEAN, overlapped' = overlapped
  PROVE  Ads!TypeOK'
<1>1. \A y \in Ads!Actor \ {x} : Ads!Evaluating(y) =>
         \A p \in actor[y].open : alert'[p[1]] \in {None, p[2]}
  BY DEF Ads!TypeOK, Ads!Evaluating
<1> QED BY <1>1, AdActorTyped DEF Ads!TypeOK

LEMMA AdStepTyped == Ads!TypeOK /\ [Ads!Next]_(Ads!vars) => Ads!TypeOK'
<1> SUFFICES ASSUME Ads!TypeOK, [Ads!Next]_(Ads!vars) PROVE Ads!TypeOK'
  OBVIOUS
<1> USE DEF Ads!world, Ads!counts
<1>0. /\ link \in Meta \cup {None} /\ cache \in Meta \cup {None}
      /\ crossed \in BOOLEAN /\ overlapped \in BOOLEAN
      /\ adAsked \in 0..MaxAsked /\ failures \in 0..MaxFailures
      /\ problems \in [Meta -> SUBSET AlertType]
      /\ alert \in [Ads!AlertId -> AlertType \cup {None}]
  BY DEF Ads!TypeOK
<1>1. ASSUME NEW x \in Ads!Actor, NEW q \in Ads!Local, Ads!Ask(x, q),
             q.pc \notin {"resolve", "raise"}
      PROVE  Ads!TypeOK'
  <2>1. adAsked' \in 0..MaxAsked
    BY <1>0, <1>1, AdBoundsAssumption DEF Ads!Ask
  <2> QED BY <1>0, <1>1, <2>1, AdQuietTyped DEF Ads!Ask
<1>2. ASSUME NEW x \in AdRequest, NEW m \in Meta, Ads!LinkMetaCampaign(x, m)
      PROVE  Ads!TypeOK'
  <2> DEFINE q == [pc |-> "write", to |-> m]
  <2>1. q \in Ads!Local
    BY DEF Ads!Local
  <2> QED BY <1>1, <1>2, <2>1 DEF Ads!LinkMetaCampaign, Ads!Actor
<1>3. ASSUME NEW x \in AdRequest, Ads!UnlinkMetaCampaign(x)
      PROVE  Ads!TypeOK'
  <2> DEFINE q == [pc |-> "write", to |-> None]
  <2>1. q \in Ads!Local
    BY DEF Ads!Local
  <2> QED BY <1>1, <1>3, <2>1 DEF Ads!UnlinkMetaCampaign, Ads!Actor
<1>4. ASSUME NEW x \in AdRequest, NEW b \in BOOLEAN, Ads!GetPerformance(x, b)
      PROVE  Ads!TypeOK'
  <2> DEFINE q == [pc |-> "get", refresh |-> b]
  <2>1. q \in Ads!Local
    BY DEF Ads!Local
  <2> QED BY <1>1, <1>4, <2>1 DEF Ads!GetPerformance, Ads!Actor
<1>5. Ads!Idle \in Ads!Local /\ Ads!Idle.pc = "idle"
  BY DEF Ads!Idle, Ads!Local
<1>6. ASSUME NEW x \in Ads!Actor, Ads!Fail(x)
      PROVE  Ads!TypeOK'
  <2>1. failures' \in 0..MaxFailures /\ crossed' \in BOOLEAN
    BY <1>0, <1>6, AdBoundsAssumption DEF Ads!Fail
  <2> QED BY <1>0, <1>5, <1>6, <2>1, AdQuietTyped DEF Ads!Fail
<1>7. ASSUME NEW x \in Ads!Actor, Ads!WriteLink(x)
      PROVE  Ads!TypeOK'
  <2> DEFINE q == [pc |-> "del", to |-> actor[x].to]
  <2>1. actor[x].to \in Meta \cup {None}
    BY <1>7, AdLocal DEF Ads!WriteLink
  <2>2. q \in Ads!Local
    BY <2>1 DEF Ads!Local
  <2>3. link' \in Meta \cup {None} /\ crossed' \in BOOLEAN
    BY <1>0, <1>7, <2>1 DEF Ads!WriteLink
  <2>4. Ads!Becomes(x, q)
    BY <1>7 DEF Ads!WriteLink
  <2>5. q.pc \notin {"resolve", "raise"}
    OBVIOUS
  <2> HIDE DEF q
  <2> QED BY <1>0, <1>7, <2>2, <2>3, <2>4, <2>5, AdQuietTyped DEF Ads!WriteLink
<1>8. ASSUME NEW x \in Ads!Actor, Ads!DeleteCache(x)
      PROVE  Ads!TypeOK'
  <2> DEFINE q == IF actor[x].to = None THEN Ads!Idle ELSE [pc |-> "get", refresh |-> FALSE]
  <2>1. q \in Ads!Local /\ q.pc \notin {"resolve", "raise"}
    BY <1>5 DEF Ads!Local
  <2>2. Ads!Becomes(x, q)
    BY <1>8 DEF Ads!DeleteCache
  <2> HIDE DEF q
  <2> QED BY <1>0, <1>8, <2>1, <2>2, AdQuietTyped DEF Ads!DeleteCache
<1>9. ASSUME NEW x \in Ads!Actor, Ads!ReadDetails(x)
      PROVE  Ads!TypeOK'
  <2> DEFINE p == IF actor[x].refresh THEN "fetch" ELSE "cached"
             q == IF link = None THEN Ads!Idle ELSE [pc |-> p, meta |-> link]
  <2>1. q \in Ads!Local /\ q.pc \notin {"resolve", "raise"}
    BY <1>0, <1>5 DEF Ads!Local
  <2>2. Ads!Becomes(x, q)
    BY <1>9 DEF Ads!ReadDetails
  <2> HIDE DEF q
  <2> QED BY <1>0, <1>9, <2>1, <2>2, AdQuietTyped DEF Ads!ReadDetails
<1>10. ASSUME NEW x \in Ads!Actor, Ads!ReadCache(x)
       PROVE  Ads!TypeOK'
  <2> DEFINE q == IF cache = None THEN [actor[x] EXCEPT !.pc = "fetch"] ELSE Ads!Idle
  <2>1. actor[x] \in [pc : {"cached", "fetch"}, meta : Meta]
    BY <1>10, AdLocal DEF Ads!ReadCache, Ads!At, Ads!Local, Ads!Idle
  <2>2. q \in Ads!Local /\ q.pc \notin {"resolve", "raise"}
    BY <1>5, <2>1 DEF Ads!Local
  <2>3. Ads!Becomes(x, q)
    BY <1>10 DEF Ads!ReadCache
  <2> HIDE DEF q
  <2> QED BY <1>0, <1>10, <2>2, <2>3, AdQuietTyped DEF Ads!ReadCache
<1>11. ASSUME Ads!FindLinked
       PROVE  Ads!TypeOK'
  <2> DEFINE q == [pc |-> "fetch", meta |-> link]
  <2>1. q \in Ads!Local /\ q.pc \notin {"resolve", "raise"}
    BY <1>0, <1>11 DEF Ads!Local, Ads!FindLinked
  <2>2. Ads!Becomes(Ads!Daily, q)
    BY <1>11 DEF Ads!FindLinked
  <2>3. Ads!Daily \in Ads!Actor
    BY DEF Ads!Actor
  <2> HIDE DEF q
  <2> QED BY <1>0, <1>11, <2>1, <2>2, <2>3, AdQuietTyped DEF Ads!FindLinked
<1>12. ASSUME NEW x \in Ads!Actor, Ads!Fetch(x)
       PROVE  Ads!TypeOK'
  <2> DEFINE m == actor[x].meta
             q == [pc |-> "evaluate", found |-> problems[m]]
  <2>1. m \in Meta
    BY <1>12, AdLocal DEF Ads!Fetch, Ads!At, Ads!Reading
  <2>2. q \in Ads!Local /\ q.pc \notin {"resolve", "raise"}
    BY <1>0, <2>1 DEF Ads!Local
  <2>3. Ads!Becomes(x, q) /\ cache' = m
    BY <1>12 DEF Ads!Fetch
  <2> HIDE DEF m, q
  <2> QED BY <1>0, <1>12, <2>1, <2>2, <2>3, AdQuietTyped DEF Ads!Fetch
<1>13. ASSUME NEW x \in Ads!Actor, Ads!ReadOpen(x)
       PROVE  Ads!TypeOK'
  <2> DEFINE o == {<<i, alert[i]>> : i \in Ads!Open}
             q == [pc |-> "resolve", open |-> o, found |-> actor[x].found]
  <2>1. actor[x].found \in SUBSET AlertType
    BY <1>13, AdLocal DEF Ads!ReadOpen
  <2>2. o \in SUBSET (Ads!AlertId \X AlertType)
    BY <1>0 DEF Ads!Open
  <2>3. q \in Ads!Local /\ q.open = o
    BY <2>1, <2>2 DEF Ads!Local
  <2>4. \A p \in o : alert[p[1]] = p[2]
    OBVIOUS
  <2>5. Ads!Becomes(x, q) /\ alert' = alert /\ overlapped' \in BOOLEAN
    BY <1>0, <1>13 DEF Ads!ReadOpen
  <2>6. \A y \in Ads!Actor \ {x} : Ads!Evaluating(y) =>
         \A p \in actor[y].open : alert'[p[1]] \in {None, p[2]}
    BY <2>5 DEF Ads!TypeOK, Ads!Evaluating
  <2>7. \A p \in q.open : alert'[p[1]] \in {None, p[2]}
    BY <2>3, <2>4, <2>5
  <2> HIDE DEF o, q
  <2> QED BY <1>0, <1>13, <2>3, <2>5, <2>6, <2>7, AdActorTyped DEF Ads!ReadOpen
<1>14. ASSUME NEW x \in Ads!Actor, Ads!Resolve(x)
       PROVE  Ads!TypeOK'
  <2> DEFINE q == IF actor[x].found = {} THEN Ads!Idle ELSE [actor[x] EXCEPT !.pc = "raise"]
  <2>1. actor[x] \in [pc : {"resolve", "raise"}, open : SUBSET (Ads!AlertId \X AlertType),
                      found : SUBSET AlertType]
    BY <1>14, AdLocal DEF Ads!Resolve, Ads!At, Ads!Local, Ads!Idle
  <2>2. q \in Ads!Local /\ (q.pc \in {"resolve", "raise"} => q.open = actor[x].open)
    BY <1>5, <2>1 DEF Ads!Local
  <2>3. Ads!Becomes(x, q)
    BY <1>14 DEF Ads!Resolve
  <2>4. /\ alert' \in [Ads!AlertId -> AlertType \cup {None}]
        /\ \A i \in Ads!AlertId : alert'[i] \in {None, alert[i]}
    BY <1>0, <1>14 DEF Ads!Resolve
  <2>5. \A y \in Ads!Actor : Ads!Evaluating(y) =>
         \A p \in actor[y].open : alert'[p[1]] \in {None, p[2]}
    <3> SUFFICES ASSUME NEW y \in Ads!Actor, Ads!Evaluating(y), NEW p \in actor[y].open
                 PROVE  alert'[p[1]] \in {None, p[2]}
      OBVIOUS
    <3>1. p[1] \in Ads!AlertId
      BY AdLocal
    <3>2. alert[p[1]] \in {None, p[2]}
      BY DEF Ads!TypeOK, Ads!Evaluating
    <3> QED BY <2>4, <3>1, <3>2
  <2>6. Ads!Evaluating(x)
    BY <1>14 DEF Ads!Resolve, Ads!At, Ads!Evaluating
  <2>7. q.pc \in {"resolve", "raise"} =>
          \A p \in q.open : alert'[p[1]] \in {None, p[2]}
    BY <2>2, <2>5, <2>6
  <2> HIDE DEF q
  <2> QED BY <1>0, <1>14, <2>2, <2>3, <2>4, <2>5, <2>7, AdActorTyped DEF Ads!Resolve
<1>15. ASSUME NEW x \in Ads!Actor, Ads!Raise(x)
       PROVE  Ads!TypeOK'
  <2>1. PICK t \in actor[x].found :
          /\ IF Ads!Existing(x, t) # {} THEN UNCHANGED alert
             ELSE \E i \in Ads!AlertId : Ads!Free(i) /\ alert' = [alert EXCEPT ![i] = t]
          /\ Ads!Becomes(x, IF actor[x].found = {t} THEN Ads!Idle
                          ELSE [actor[x] EXCEPT !.found = @ \ {t}])
    BY <1>15 DEF Ads!Raise
  <2> DEFINE q == IF actor[x].found = {t} THEN Ads!Idle
                  ELSE [actor[x] EXCEPT !.found = actor[x].found \ {t}]
  <2>2. actor[x] \in [pc : {"resolve", "raise"}, open : SUBSET (Ads!AlertId \X AlertType),
                      found : SUBSET AlertType]
    BY <1>15, AdLocal DEF Ads!Raise, Ads!At, Ads!Local, Ads!Idle
  <2>3. q \in Ads!Local /\ (q.pc \in {"resolve", "raise"} => q.open = actor[x].open)
    BY <1>5, <2>2 DEF Ads!Local
  <2>4. Ads!Becomes(x, q)
    BY <2>1
  <2>5. alert' \in [Ads!AlertId -> AlertType \cup {None}]
    BY <1>0, <2>1, <2>2
  <2>6. \A y \in Ads!Actor : Ads!Evaluating(y) =>
         \A p \in actor[y].open : alert'[p[1]] \in {None, p[2]}
    <3> SUFFICES ASSUME NEW y \in Ads!Actor, Ads!Evaluating(y), NEW p \in actor[y].open
                 PROVE  alert'[p[1]] \in {None, p[2]}
      OBVIOUS
    <3>1. p[1] \in Ads!AlertId
      BY AdLocal
    <3>2. alert[p[1]] \in {None, p[2]}
      BY DEF Ads!TypeOK, Ads!Evaluating
    <3>3. alert'[p[1]] = alert[p[1]]
      BY <1>0, <2>1, <3>1 DEF Ads!Free
    <3> QED BY <3>2, <3>3
  <2>7. Ads!Evaluating(x)
    BY <1>15 DEF Ads!Raise, Ads!At, Ads!Evaluating
  <2>8. q.pc \in {"resolve", "raise"} =>
          \A p \in q.open : alert'[p[1]] \in {None, p[2]}
    BY <2>3, <2>6, <2>7
  <2> HIDE DEF q
  <2> QED BY <1>0, <1>15, <2>3, <2>4, <2>5, <2>6, <2>8, AdActorTyped DEF Ads!Raise
<1>16. ASSUME NEW m \in Meta, Ads!Change(m)
       PROVE  Ads!TypeOK'
  <2>1. changes' \in 0..MaxChanges
    BY <1>16, AdBoundsAssumption DEF Ads!Change, Ads!TypeOK
  <2>2. problems' \in [Meta -> SUBSET AlertType]
    BY <1>0, <1>16 DEF Ads!Change
  <2> QED BY <1>16, <2>1, <2>2 DEF Ads!Change, Ads!TypeOK
<1>17. CASE Ads!Expire
  BY <1>17 DEF Ads!Expire, Ads!TypeOK
<1>18. CASE UNCHANGED Ads!vars
  BY <1>18 DEF Ads!vars, Ads!TypeOK
<1> QED BY <1>2, <1>3, <1>4, <1>6, <1>7, <1>8, <1>9, <1>10, <1>11, <1>12, <1>13, <1>14,
           <1>15, <1>16, <1>17, <1>18 DEF Ads!Next, Ads!Step, Ads!Actor

\* The types of the jobs and of the results of the ads: what an evaluation has read
\* open stays of its type until it is resolved, as no identifier is used again
\* while it is held.
THEOREM BackgroundTyped == BackgroundSpec => []BackgroundTypeOK
BY BackgroundParts, InitTyped, StepTyped, AdInitTyped, AdStepTyped, PTL DEF BackgroundTypeOK

-----------------------------------------------------------------------------
(* The alerts.                                                             *)

\* One evaluation is under way at a time; what it has read open is what is open,
\* and once it has closed what is gone, what it will raise is not open unless it
\* has read it.
OneEvaluation ==
  \A x, y \in Ads!Actor : Ads!Evaluating(x) /\ Ads!Evaluating(y) => x = y
ReadAsOpen ==
  \A x \in Ads!Actor : Ads!At(x, "resolve") =>
    \A i \in Ads!Open : <<i, alert[i]>> \in actor[x].open
RaisedOnce ==
  \A x \in Ads!Actor : Ads!At(x, "raise") =>
    \A t \in actor[x].found :
      Ads!Existing(x, t) = {} => \A i \in Ads!Open : alert[i] # t
OneOpen == \A i, j \in Ads!Open : alert[i] = alert[j] => i = j
AlertInv ==
  Ads!TypeOK /\ (~overlapped => OneEvaluation /\ ReadAsOpen /\ RaisedOnce /\ OneOpen)

\* An actor that is not evaluating, before or after, disturbs no evaluation.
LEMMA AlertKept ==
  ASSUME AlertInv, Ads!TypeOK', alert' = alert, overlapped' = overlapped,
         \A x \in Ads!Actor : actor'[x] = actor[x] \/ actor'[x].pc \notin {"resolve", "raise"}
  PROVE  AlertInv'
<1> SUFFICES ASSUME ~overlapped
             PROVE  (OneEvaluation /\ ReadAsOpen /\ RaisedOnce /\ OneOpen)'
  BY DEF AlertInv
<1>1. OneEvaluation /\ ReadAsOpen /\ RaisedOnce /\ OneOpen
  BY DEF AlertInv
<1>2. OneEvaluation'
  BY <1>1 DEF OneEvaluation, Ads!Evaluating
<1>3. ReadAsOpen'
  BY <1>1 DEF ReadAsOpen, Ads!At, Ads!Open
<1>4. RaisedOnce'
  BY <1>1 DEF RaisedOnce, Ads!At, Ads!Open, Ads!Existing
<1>5. OneOpen'
  BY <1>1 DEF OneOpen, Ads!Open
<1> QED BY <1>2, <1>3, <1>4, <1>5

LEMMA AlertStep == AlertInv /\ [Ads!Next]_(Ads!vars) => AlertInv'
<1> SUFFICES ASSUME AlertInv, [Ads!Next]_(Ads!vars) PROVE AlertInv'
  OBVIOUS
<1>0. Ads!TypeOK /\ Ads!TypeOK'
  BY AdStepTyped DEF AlertInv
<1>1. ASSUME NEW x \in Ads!Actor, NEW q, q.pc \notin {"resolve", "raise"}, Ads!Becomes(x, q),
             alert' = alert, overlapped' = overlapped
      PROVE  AlertInv'
  <2>1. \A y \in Ads!Actor : actor'[y] = actor[y] \/ actor'[y].pc \notin {"resolve", "raise"}
    BY <1>0, <1>1 DEF Ads!Becomes, Ads!TypeOK
  <2> QED BY <1>0, <1>1, <2>1, AlertKept
<1>2. Ads!Idle.pc \notin {"resolve", "raise"}
  BY DEF Ads!Idle
<1>3. ASSUME NEW x \in Ads!Actor,
             \/ \E m \in Meta : Ads!LinkMetaCampaign(x, m)
             \/ Ads!UnlinkMetaCampaign(x)
             \/ \E refresh \in BOOLEAN : Ads!GetPerformance(x, refresh)
      PROVE  AlertInv'
  BY <1>1, <1>3 DEF Ads!LinkMetaCampaign, Ads!UnlinkMetaCampaign, Ads!GetPerformance, Ads!Ask
<1>4. ASSUME NEW x \in Ads!Actor, Ads!Fail(x) \/ Ads!WriteLink(x)
      PROVE  AlertInv'
  BY <1>1, <1>2, <1>4 DEF Ads!Fail, Ads!WriteLink
<1>5. ASSUME NEW x \in Ads!Actor, Ads!DeleteCache(x) \/ Ads!ReadDetails(x)
      PROVE  AlertInv'
  BY <1>1, <1>2, <1>5 DEF Ads!DeleteCache, Ads!ReadDetails
<1>6. ASSUME NEW x \in Ads!Actor, Ads!ReadCache(x)
      PROVE  AlertInv'
  <2>1. actor[x] \in [pc : {"cached", "fetch"}, meta : Meta]
    BY <1>0, <1>6, AdLocal DEF Ads!ReadCache, Ads!At, Ads!Local, Ads!Idle
  <2>2. [actor[x] EXCEPT !.pc = "fetch"].pc = "fetch"
    BY <2>1
  <2> QED BY <1>1, <1>2, <1>6, <2>2 DEF Ads!ReadCache
<1>7. ASSUME NEW x \in Ads!Actor, Ads!Fetch(x)
      PROVE  AlertInv'
  BY <1>1, <1>7 DEF Ads!Fetch
<1>8. CASE Ads!FindLinked
  BY <1>1, <1>8 DEF Ads!FindLinked, Ads!Actor
<1>9. ASSUME actor' = actor, alert' = alert, overlapped' = overlapped
      PROVE  AlertInv'
  BY <1>0, <1>9, AlertKept
<1>10. ASSUME NEW x \in Ads!Actor, Ads!ReadOpen(x)
       PROVE  AlertInv'
  <2> SUFFICES ASSUME ~overlapped'
               PROVE  (OneEvaluation /\ ReadAsOpen /\ RaisedOnce /\ OneOpen)'
    BY <1>0 DEF AlertInv
  <2> DEFINE o == {<<i, alert[i]>> : i \in Ads!Open}
             q == [pc |-> "resolve", open |-> o, found |-> actor[x].found]
  <2>1. /\ ~overlapped /\ \A y \in Ads!Actor \ {x} : ~Ads!Evaluating(y)
        /\ alert' = alert
    BY <1>10 DEF Ads!ReadOpen
  <2>2. actor' = [actor EXCEPT ![x] = q]
    BY <1>10 DEF Ads!ReadOpen, Ads!Becomes
  <2>3. actor'[x].pc = "resolve" /\ actor'[x].open = o
        /\ \A y \in Ads!Actor \ {x} : actor'[y] = actor[y]
    BY <1>0, <2>2 DEF Ads!TypeOK
  <2>4. \A y \in Ads!Actor \ {x} : actor'[y].pc \notin {"resolve", "raise"}
    BY <2>1, <2>3 DEF Ads!Evaluating
  <2> HIDE DEF q
  <2>5. OneEvaluation'
    BY <2>4 DEF OneEvaluation, Ads!Evaluating
  <2>6. ReadAsOpen'
    BY <2>1, <2>3, <2>4 DEF ReadAsOpen, Ads!At, Ads!Open
  <2>7. RaisedOnce'
    BY <2>3, <2>4 DEF RaisedOnce, Ads!At
  <2>8. OneOpen'
    BY <2>1 DEF OneOpen, AlertInv, Ads!Open
  <2> QED BY <2>5, <2>6, <2>7, <2>8
<1>11. ASSUME NEW x \in Ads!Actor, Ads!Resolve(x)
       PROVE  AlertInv'
  <2> SUFFICES ASSUME ~overlapped
               PROVE  (OneEvaluation /\ ReadAsOpen /\ RaisedOnce /\ OneOpen)'
    BY <1>0, <1>11 DEF AlertInv, Ads!Resolve
  <2> DEFINE q == IF actor[x].found = {} THEN Ads!Idle ELSE [actor[x] EXCEPT !.pc = "raise"]
  <2>1. OneEvaluation /\ ReadAsOpen /\ OneOpen
    BY DEF AlertInv
  <2>2. actor[x] \in [pc : {"resolve", "raise"}, open : SUBSET (Ads!AlertId \X AlertType),
                      found : SUBSET AlertType]
    BY <1>0, <1>11, AdLocal DEF Ads!Resolve, Ads!At, Ads!Local, Ads!Idle
  <2>3. \/ q.pc = "idle"
        \/ q.pc = "raise" /\ q.open = actor[x].open /\ q.found = actor[x].found
    BY <2>2 DEF Ads!Idle
  <2>4. actor' = [actor EXCEPT ![x] = q]
    BY <1>11 DEF Ads!Resolve, Ads!Becomes
  <2>5. actor'[x] = q /\ \A y \in Ads!Actor \ {x} : actor'[y] = actor[y]
    BY <1>0, <2>4 DEF Ads!TypeOK
  <2> HIDE DEF q
  <2>6. \A y \in Ads!Actor \ {x} : actor'[y].pc \notin {"resolve", "raise"}
    BY <2>1, <2>5, <1>11 DEF OneEvaluation, Ads!Evaluating, Ads!Resolve, Ads!At
  <2>7. OneEvaluation'
    BY <2>6 DEF OneEvaluation, Ads!Evaluating
  <2>8. ReadAsOpen'
    BY <2>3, <2>5, <2>6 DEF ReadAsOpen, Ads!At
  <2>9. \A i \in Ads!Open' : /\ i \in Ads!Open /\ i \notin Ads!Gone(x)
                           /\ alert'[i] = alert[i]
    BY <1>0, <1>11 DEF Ads!Resolve, Ads!Open, Ads!TypeOK
  <2>10. RaisedOnce'
    <3> SUFFICES ASSUME actor'[x].pc = "raise", NEW t \in actor'[x].found,
                        Ads!Existing(x, t)' = {}, NEW i \in Ads!Open', alert'[i] = t
                 PROVE  FALSE
      BY <2>6 DEF RaisedOnce, Ads!At
    <3>1. t \in actor[x].found /\ actor'[x].open = actor[x].open
      BY <2>3, <2>5
    <3>2. <<i, t>> \in actor[x].open
      BY <2>1, <2>9, <1>11 DEF ReadAsOpen, Ads!Resolve, Ads!At
    <3> QED BY <3>1, <3>2 DEF Ads!Existing
  <2>11. OneOpen'
    BY <2>1, <2>9 DEF OneOpen
  <2> QED BY <2>7, <2>8, <2>10, <2>11
<1>12. ASSUME NEW x \in Ads!Actor, Ads!Raise(x)
       PROVE  AlertInv'
  <2> SUFFICES ASSUME ~overlapped
               PROVE  (OneEvaluation /\ ReadAsOpen /\ RaisedOnce /\ OneOpen)'
    BY <1>0, <1>12 DEF AlertInv, Ads!Raise
  <2>1. OneEvaluation /\ RaisedOnce /\ OneOpen
    BY DEF AlertInv
  <2>2. PICK t \in actor[x].found :
          /\ IF Ads!Existing(x, t) # {} THEN UNCHANGED alert
             ELSE \E i \in Ads!AlertId : Ads!Free(i) /\ alert' = [alert EXCEPT ![i] = t]
          /\ Ads!Becomes(x, IF actor[x].found = {t} THEN Ads!Idle
                          ELSE [actor[x] EXCEPT !.found = @ \ {t}])
    BY <1>12 DEF Ads!Raise
  <2> DEFINE q == IF actor[x].found = {t} THEN Ads!Idle
                  ELSE [actor[x] EXCEPT !.found = actor[x].found \ {t}]
  <2>3. actor[x] \in [pc : {"resolve", "raise"}, open : SUBSET (Ads!AlertId \X AlertType),
                      found : SUBSET AlertType]
    BY <1>0, <1>12, AdLocal DEF Ads!Raise, Ads!At, Ads!Local, Ads!Idle
  <2>4. \/ q.pc = "idle"
        \/ q.pc = "raise" /\ q.open = actor[x].open /\ q.found = actor[x].found \ {t}
    BY <1>12, <2>3 DEF Ads!Idle, Ads!Raise, Ads!At
  <2>5. actor' = [actor EXCEPT ![x] = q]
    BY <2>2 DEF Ads!Becomes
  <2>6. actor'[x] = q /\ \A y \in Ads!Actor \ {x} : actor'[y] = actor[y]
    BY <1>0, <2>5 DEF Ads!TypeOK
  <2> HIDE DEF q
  <2>7. \A y \in Ads!Actor \ {x} : actor'[y].pc \notin {"resolve", "raise"}
    BY <2>1, <2>6, <1>12 DEF OneEvaluation, Ads!Evaluating, Ads!Raise, Ads!At
  <2>8. OneEvaluation'
    BY <2>7 DEF OneEvaluation, Ads!Evaluating
  <2>9. ReadAsOpen'
    BY <2>4, <2>6, <2>7 DEF ReadAsOpen, Ads!At
  <2>10. \/ alert' = alert
         \/ /\ \A i \in Ads!Open : alert[i] # t
            /\ \E i \in Ads!AlertId : alert' = [alert EXCEPT ![i] = t]
    BY <1>12, <2>1, <2>2 DEF RaisedOnce, Ads!Raise
  <2>11. alert \in [Ads!AlertId -> AlertType \cup {None}]
    BY <1>0 DEF Ads!TypeOK
  <2>12. \A i \in Ads!Open' : alert'[i] = t \/ (i \in Ads!Open /\ alert'[i] = alert[i])
    BY <2>10, <2>11 DEF Ads!Open
  <2>13. RaisedOnce'
    <3> SUFFICES ASSUME actor'[x].pc = "raise", NEW u \in actor'[x].found,
                        Ads!Existing(x, u)' = {}, NEW i \in Ads!Open', alert'[i] = u
                 PROVE  FALSE
      BY <2>7 DEF RaisedOnce, Ads!At
    <3>1. u \in actor[x].found /\ u # t /\ actor'[x].open = actor[x].open
      BY <2>4, <2>6
    <3>2. Ads!Existing(x, u) = {}
      BY <3>1 DEF Ads!Existing
    <3>3. i \in Ads!Open /\ alert[i] = u
      BY <2>12, <3>1
    <3> QED BY <1>12, <2>1, <3>1, <3>2, <3>3 DEF RaisedOnce, Ads!Raise
  <2>14. OneOpen'
    BY <2>1, <2>10, <2>11 DEF OneOpen, Ads!Open
  <2> QED BY <2>8, <2>9, <2>13, <2>14
<1>13. CASE Ads!Expire \/ \E m \in Meta : Ads!Change(m)
  BY <1>9, <1>13 DEF Ads!Expire, Ads!Change
<1>14. CASE UNCHANGED Ads!vars
  BY <1>9, <1>14 DEF Ads!vars
<1>15. AdRequest \subseteq Ads!Actor
  BY DEF Ads!Actor
<1> QED BY <1>3, <1>4, <1>5, <1>6, <1>7, <1>8, <1>10, <1>11, <1>12, <1>13, <1>14, <1>15
        DEF Ads!Next, Ads!Step

\* "mise à jour tant que le problème dure": as long as no two evaluations are under
\* way at once, a problem has one open alert, however often it lasts, goes and comes
\* back, and whatever fails.
THEOREM OneAlert == BackgroundSpec => []OneOpenUnlessOverlapped
<1>1. Ads!Init => AlertInv
  <2> SUFFICES ASSUME Ads!Init PROVE AlertInv
    OBVIOUS
  <2>1. /\ \A x \in Ads!Actor : actor[x].pc = "idle"
        /\ Ads!Open = {}
    BY DEF Ads!Init, Ads!Idle, Ads!Open
  <2> QED BY <2>1, AdInitTyped DEF AlertInv, OneEvaluation, ReadAsOpen, RaisedOnce, OneOpen,
             Ads!Evaluating, Ads!At
<1>2. AlertInv => OneOpenUnlessOverlapped
  BY DEF AlertInv, OneOpen, Ads!OneOpenUnlessOverlapped, OneOpenUnlessOverlapped
<1> QED BY <1>1, <1>2, AlertStep, BackgroundParts, PTL

-----------------------------------------------------------------------------

\* As long as nothing has crossed, an actor that goes by a link goes by the one
\* there is; other results than its own are about to be deleted.
GoesByTheLink == \A x \in Ads!Actor : Ads!Reading(x) => actor[x].meta = link
OthersDeleted == cache \in {None, link} \/ \E x \in Ads!Actor : Ads!At(x, "del")
CacheInv == Ads!TypeOK /\ (~crossed => GoesByTheLink /\ OthersDeleted)

\* A step of one actor that neither writes the link nor deletes.
LEMMA CacheKept ==
  ASSUME CacheInv, Ads!TypeOK', link' = link, NEW x \in Ads!Actor, NEW q, Ads!Becomes(x, q),
         q.pc \in {"cached", "fetch"} => q.meta = link,
         crossed \/ ~Ads!At(x, "del"), crossed => crossed',
         cache' = cache \/ cache' = link
  PROVE  CacheInv'
<1> SUFFICES ASSUME ~crossed'
             PROVE  GoesByTheLink' /\ OthersDeleted'
  BY DEF CacheInv
<1>1. ~crossed /\ GoesByTheLink /\ OthersDeleted
  BY DEF CacheInv
<1>2. actor'[x] = q /\ \A y \in Ads!Actor \ {x} : actor'[y] = actor[y]
  BY DEF CacheInv, Ads!TypeOK, Ads!Becomes
<1>3. GoesByTheLink'
  BY <1>1, <1>2 DEF GoesByTheLink, Ads!Reading
<1>4. OthersDeleted'
  BY <1>1, <1>2 DEF OthersDeleted, Ads!At
<1> QED BY <1>3, <1>4

LEMMA CacheStep == CacheInv /\ [Ads!Next]_(Ads!vars) => CacheInv'
<1> SUFFICES ASSUME CacheInv, [Ads!Next]_(Ads!vars) PROVE CacheInv'
  OBVIOUS
<1>0. Ads!TypeOK /\ Ads!TypeOK'
  BY AdStepTyped DEF CacheInv
<1>1. Ads!Idle.pc \notin {"cached", "fetch"}
  BY DEF Ads!Idle
<1>2. ASSUME NEW x \in Ads!Actor,
             \/ \E m \in Meta : Ads!LinkMetaCampaign(x, m)
             \/ Ads!UnlinkMetaCampaign(x)
             \/ \E refresh \in BOOLEAN : Ads!GetPerformance(x, refresh)
      PROVE  CacheInv'
  <2>1. Ads!At(x, "idle") /\ link' = link /\ cache' = cache /\ crossed' = crossed
    BY <1>2 DEF Ads!LinkMetaCampaign, Ads!UnlinkMetaCampaign, Ads!GetPerformance, Ads!Ask
  <2>2. ASSUME NEW q, Ads!Becomes(x, q), q.pc \notin {"cached", "fetch"}
        PROVE  CacheInv'
    BY <1>0, <2>1, <2>2, CacheKept DEF Ads!At
  <2> QED BY <1>2, <2>2 DEF Ads!LinkMetaCampaign, Ads!UnlinkMetaCampaign, Ads!GetPerformance, Ads!Ask
<1>3. ASSUME NEW x \in Ads!Actor, Ads!Fail(x)
      PROVE  CacheInv'
  <2>1. CASE Ads!At(x, "del")
    BY <1>0, <1>3, <2>1 DEF Ads!Fail, CacheInv
  <2>2. CASE ~Ads!At(x, "del")
    BY <1>0, <1>1, <1>3, <2>2, CacheKept DEF Ads!Fail
  <2> QED BY <2>1, <2>2
<1>4. ASSUME NEW x \in Ads!Actor, Ads!WriteLink(x)
      PROVE  CacheInv'
  <2> SUFFICES ASSUME ~crossed'
               PROVE  GoesByTheLink' /\ OthersDeleted'
    BY <1>0 DEF CacheInv
  <2>1. /\ link' = actor[x].to
        /\ \A y \in Ads!Actor : Ads!Reading(y) => actor[y].meta = actor[x].to
        /\ actor' = [actor EXCEPT ![x] = [pc |-> "del", to |-> actor[x].to]]
    BY <1>4 DEF Ads!WriteLink, Ads!Becomes
  <2>2. actor'[x].pc = "del" /\ \A y \in Ads!Actor \ {x} : actor'[y] = actor[y]
    BY <1>0, <2>1 DEF Ads!TypeOK
  <2>3. GoesByTheLink'
    BY <2>1, <2>2 DEF GoesByTheLink, Ads!Reading
  <2>4. OthersDeleted'
    BY <2>2 DEF OthersDeleted, Ads!At
  <2> QED BY <2>3, <2>4
<1>5. ASSUME NEW x \in Ads!Actor, Ads!DeleteCache(x)
      PROVE  CacheInv'
  <2> SUFFICES ASSUME ~crossed
               PROVE  GoesByTheLink'
    BY <1>0, <1>5 DEF CacheInv, OthersDeleted, Ads!DeleteCache
  <2> DEFINE q == IF actor[x].to = None THEN Ads!Idle ELSE [pc |-> "get", refresh |-> FALSE]
  <2>1. q.pc \notin {"cached", "fetch"}
    BY DEF Ads!Idle
  <2>2. actor' = [actor EXCEPT ![x] = q] /\ link' = link
    BY <1>5 DEF Ads!DeleteCache, Ads!Becomes
  <2>3. actor'[x] = q /\ \A y \in Ads!Actor \ {x} : actor'[y] = actor[y]
    BY <1>0, <2>2 DEF Ads!TypeOK
  <2> HIDE DEF q
  <2> QED BY <2>1, <2>2, <2>3 DEF CacheInv, GoesByTheLink, Ads!Reading
<1>6. ASSUME NEW x \in Ads!Actor, Ads!ReadDetails(x)
      PROVE  CacheInv'
  <2> DEFINE q == IF link = None THEN Ads!Idle
                  ELSE [pc |-> IF actor[x].refresh THEN "fetch" ELSE "cached", meta |-> link]
  <2>1. q.pc \in {"cached", "fetch"} => q.meta = link
    BY <1>1
  <2>2. /\ Ads!Becomes(x, q) /\ ~Ads!At(x, "del")
        /\ link' = link /\ cache' = cache /\ crossed' = crossed
    BY <1>6 DEF Ads!ReadDetails, Ads!At
  <2> HIDE DEF q
  <2> QED BY <1>0, <2>1, <2>2, CacheKept
<1>7. ASSUME NEW x \in Ads!Actor, Ads!ReadCache(x)
      PROVE  CacheInv'
  <2> DEFINE q == IF cache = None THEN [actor[x] EXCEPT !.pc = "fetch"] ELSE Ads!Idle
  <2>1. actor[x] \in [pc : {"cached", "fetch"}, meta : Meta]
    BY <1>0, <1>7, AdLocal DEF Ads!ReadCache, Ads!At, Ads!Local, Ads!Idle
  <2>2. CASE crossed
    BY <1>0, <1>7, <2>2 DEF Ads!ReadCache, CacheInv
  <2>3. CASE ~crossed
    <3>1. actor[x].meta = link
      BY <1>7, <2>3 DEF CacheInv, GoesByTheLink, Ads!ReadCache, Ads!At, Ads!Reading
    <3>2. q.pc \in {"cached", "fetch"} => q.meta = link
      BY <1>1, <2>1, <3>1
    <3>3. /\ Ads!Becomes(x, q) /\ ~Ads!At(x, "del")
          /\ link' = link /\ cache' = cache /\ crossed' = crossed
      BY <1>7 DEF Ads!ReadCache, Ads!At
    <3> HIDE DEF q
    <3> QED BY <1>0, <3>2, <3>3, CacheKept
  <2> QED BY <2>2, <2>3
<1>8. ASSUME NEW x \in Ads!Actor, Ads!Fetch(x)
      PROVE  CacheInv'
  <2>1. CASE crossed
    BY <1>0, <1>8, <2>1 DEF Ads!Fetch, CacheInv
  <2>2. CASE ~crossed
    <3>1. actor[x].meta = link
      BY <1>8, <2>2 DEF CacheInv, GoesByTheLink, Ads!Fetch, Ads!At, Ads!Reading
    <3>2. /\ \E q : Ads!Becomes(x, q) /\ q.pc = "evaluate"
          /\ ~Ads!At(x, "del") /\ link' = link /\ cache' = link /\ crossed' = crossed
      BY <1>8, <3>1 DEF Ads!Fetch, Ads!At
    <3> QED BY <1>0, <3>2, CacheKept
  <2> QED BY <2>1, <2>2
<1>9. CASE Ads!FindLinked
  <2>1. /\ \E q : Ads!Becomes(Ads!Daily, q) /\ q.meta = link
        /\ ~Ads!At(Ads!Daily, "del") /\ link' = link /\ cache' = cache /\ crossed' = crossed
    BY <1>9 DEF Ads!FindLinked, Ads!At
  <2> QED BY <1>0, <2>1, CacheKept DEF Ads!Actor
<1>10. ASSUME NEW x \in Ads!Actor, Ads!ReadOpen(x)
       PROVE  CacheInv'
  <2>1. /\ \E q : Ads!Becomes(x, q) /\ q.pc = "resolve"
        /\ ~Ads!At(x, "del") /\ link' = link /\ cache' = cache /\ crossed' = crossed
    BY <1>10 DEF Ads!ReadOpen, Ads!At
  <2> QED BY <1>0, <2>1, CacheKept
<1>11. ASSUME NEW x \in Ads!Actor, Ads!Resolve(x) \/ Ads!Raise(x)
       PROVE  CacheInv'
  <2>1. actor[x] \in [pc : {"resolve", "raise"}, open : SUBSET (Ads!AlertId \X AlertType),
                      found : SUBSET AlertType]
    BY <1>0, <1>11, AdLocal DEF Ads!Resolve, Ads!Raise, Ads!At, Ads!Local, Ads!Idle
  <2>2. /\ [actor[x] EXCEPT !.pc = "raise"].pc = "raise"
        /\ \A S : [actor[x] EXCEPT !.found = S].pc \in {"resolve", "raise"}
    BY <2>1
  <2>3. /\ \E q : Ads!Becomes(x, q) /\ q.pc \notin {"cached", "fetch"}
        /\ ~Ads!At(x, "del") /\ link' = link /\ cache' = cache /\ crossed' = crossed
    BY <1>1, <1>11, <2>2 DEF Ads!Resolve, Ads!Raise, Ads!At
  <2> QED BY <1>0, <2>3, CacheKept
<1>12. CASE Ads!Expire
  BY <1>0, <1>12 DEF Ads!Expire, CacheInv, GoesByTheLink, OthersDeleted, Ads!Reading, Ads!At
<1>13. CASE (\E m \in Meta : Ads!Change(m)) \/ UNCHANGED Ads!vars
  BY <1>0, <1>13 DEF Ads!Change, Ads!vars, CacheInv, GoesByTheLink, OthersDeleted, Ads!Reading, Ads!At
<1>14. AdRequest \subseteq Ads!Actor
  BY DEF Ads!Actor
<1> QED BY <1>2, <1>3, <1>4, <1>5, <1>6, <1>7, <1>8, <1>9, <1>10, <1>11, <1>12, <1>13, <1>14
        DEF Ads!Next, Ads!Step

\* The results Redis has are those of the campaign that is linked, unless a reading
\* was under way when the link changed, or its DEL failed.
THEOREM CacheCurrent == BackgroundSpec => []CacheFollowsLink
<1>1. Ads!Init => CacheInv
  BY AdInitTyped DEF Ads!Init, Ads!Idle, CacheInv, GoesByTheLink, OthersDeleted, Ads!Reading
<1>2. CacheInv => CacheFollowsLink
  BY DEF CacheInv, OthersDeleted, Ads!CacheFollowsLink, CacheFollowsLink
<1> QED BY <1>1, <1>2, CacheStep, BackgroundParts, PTL

=============================================================================
