-------------------------------- MODULE Demo --------------------------------
(***************************************************************************)
(* The public demo (demo.service, demo-data): a company whose data are     *)
(* deleted and written again, in one transaction, when an instance starts  *)
(* and finds none or data a day old, and every night at 03:30.             *)
(*                                                                         *)
(* Time goes by quarters of a day, the first from 03:30; the minute and    *)
(* the weekday of a reset, and its pseudo-random draws, are in its seed.   *)
(* Minutes count from the midnight that begins the day of the reset.  What *)
(* reset writes is a function of the seed (Radio, Completed, Sites); the   *)
(* dates of the tasks count in quarters from the reset.                    *)
(***************************************************************************)
EXTENDS Integers, SequencesExt

CONSTANTS
  None,
  Instance,        \* the instances of the server
  Seed             \* the resets: records of a weekday (0 is Sunday), a minute, draws

Day == 1440
MaxAge == 9        \* bound: the age of the data stops here
Least(m, n) == IF m < n THEN m ELSE n

VARIABLES
  clock,           \* the quarter of the day
  seed,            \* the seed of the data, or None before the first reset
  age,             \* of the data, in quarters (Company.updatedAt)
  missed,          \* history: a night has gone by since without a reset
  due,             \* the instances whose nightly job has not fired yet tonight
  up, pc,          \* per instance: it runs; where its reset is
  lock             \* who holds the advisory lock

data == <<seed, age, missed>>
vars == <<clock, data, due, up, pc, lock>>

TypeOK ==
  /\ clock \in 0..3
  /\ seed \in Seed \cup {None}
  /\ age \in 0..MaxAge /\ missed \in BOOLEAN
  /\ due \subseteq Instance
  /\ up \in [Instance -> BOOLEAN]
  /\ pc \in [Instance -> {"idle", "reset", "write"}]
  /\ lock \in Instance \cup {None}
  /\ \A i \in Instance : pc[i] = "write" <=> lock = i

Init ==
  /\ clock = 0 /\ seed = None /\ age = 0 /\ missed = FALSE
  /\ due = {} /\ lock = None
  /\ up = [i \in Instance |-> FALSE] /\ pc = [i \in Instance |-> "idle"]

-----------------------------------------------------------------------------
(* The resets.                                                             *)

Goes(i, p) == pc' = [pc EXCEPT ![i] = p]

QuarterOf(minute) == ((minute + Day - 210) % Day) \div 360

\* resetIfStale, DEMO_MAX_AGE_MS.
Stale == seed = None \/ age >= 4

\* An instance that starts after 03:30 does not make up for the nightly job.
Boot(i) ==
  /\ ~up[i]
  /\ up' = [up EXCEPT ![i] = TRUE]
  /\ due' = due \ {i}
  /\ Goes(i, IF Stale THEN "reset" ELSE "idle")
  /\ UNCHANGED <<clock, data, lock>>

NightlyReset(i) ==
  /\ i \in due /\ up[i] /\ pc[i] = "idle"
  /\ due' = due \ {i}
  /\ Goes(i, "reset")
  /\ UNCHANGED <<clock, data, up, lock>>

\* pg_try_advisory_xact_lock: who does not get it leaves the reset to the other.
TryLock(i) ==
  /\ pc[i] = "reset"
  /\ IF lock = None THEN lock' = i /\ Goes(i, "write")
     ELSE UNCHANGED lock /\ Goes(i, "idle")
  /\ UNCHANGED <<clock, data, due, up>>

\* upsertCompany, upsertMembers, wipe, seed, and the end of the transaction.
Commit(i) ==
  /\ pc[i] = "write"
  /\ \E s \in Seed : QuarterOf(s.minute) = clock /\ seed' = s
  /\ age' = 0 /\ missed' = FALSE
  /\ lock' = None
  /\ Goes(i, "idle")
  /\ UNCHANGED <<clock, due, up>>

\* The database, an address of the demo another company has, or the timeout of
\* two minutes: nothing is written, the error is logged.
Fail(i) ==
  /\ pc[i] # "idle"
  /\ Goes(i, "idle")
  /\ lock' = IF lock = i THEN None ELSE lock
  /\ UNCHANGED <<clock, data, due, up>>

Stop(i) ==
  /\ up[i]
  /\ up' = [up EXCEPT ![i] = FALSE]
  /\ Goes(i, "idle")
  /\ lock' = IF lock = i THEN None ELSE lock
  /\ UNCHANGED <<clock, data, due>>

\* The nightly job fires on every instance that runs at 03:30.
Tick ==
  /\ \A i \in Instance : pc[i] = "idle" /\ (i \in due => ~up[i])
  /\ clock' = (clock + 1) % 4
  /\ age' = IF seed = None THEN 0 ELSE Least(age + 1, MaxAge)
  /\ missed' = (missed \/ (seed # None /\ clock = 0 /\ age > 0))
  /\ due' = IF clock = 3 THEN Instance ELSE {}
  /\ UNCHANGED <<seed, up, pc, lock>>

Next ==
  \/ Tick
  \/ \E i \in Instance :
       Boot(i) \/ NightlyReset(i) \/ TryLock(i) \/ Commit(i) \/ Fail(i) \/ Stop(i)

Spec == Init /\ [][Next]_vars

-----------------------------------------------------------------------------
(* The campaigns and their broadcasts (buildBroadcastPlan).  A day is that *)
(* many days after the reset's.                                            *)

RadioCampaign ==
  [status |-> "IN_PROGRESS", first |-> -21, end |-> 15, days |-> 36,
   slots |-> <<435, 1110>>, saturday |-> <<435, 720, 1110>>,
   cancelledPast |-> {20}, cancelledFuture |-> {4}]

CompletedCampaign ==
  [status |-> "COMPLETED", first |-> -120, end |-> -90, days |-> 30,
   slots |-> <<750>>, saturday |-> <<750>>,
   cancelledPast |-> {}, cancelledFuture |-> {}]

PosterCampaign == [status |-> "IN_PROGRESS", first |-> -10, end |-> 21]
DigitalCampaign == [status |-> "PLANNED", first |-> 5, end |-> 33]
DraftCampaign == [status |-> "DRAFT", first |-> 40, end |-> 70]

\* The places in a plan, three a day at most.
Index == 0..(3 * RadioCampaign.days - 1)

Scheduled(c, s) ==
  FlattenSeq([n \in 1..c.days |->
    LET day == c.first + n - 1
        slots == IF (s.weekday + day) % 7 = 6 THEN c.saturday ELSE c.slots
    IN [k \in DOMAIN slots |-> day * Day + slots[k]]])

\* Slip: an actual time may lie after the reset.
ActualUnchecked(at, index, s) ==
  at + IF index % 7 = 3 THEN 16 + (s.draw[index] * 27) \div 1000
                        ELSE (s.draw[index] * 13) \div 1000 - 4

\* Late by 16 to 42 minutes one time in seven, else within -4..9; not in the future.
Actual(at, index, s) ==
  LET actual == ActualUnchecked(at, index, s)
  IN IF actual > s.minute THEN at ELSE actual

BroadcastPlan(c, s) ==
  LET all == Scheduled(c, s)
      past == Cardinality({k \in DOMAIN all : all[k] < s.minute})
      Row(at, status, actual) == [at |-> at, status |-> status, actual |-> actual]
  IN [k \in DOMAIN all |->
        LET at == all[k]
            index == k - 1
        IN IF index >= past
           THEN Row(at, IF index - past \in c.cancelledFuture THEN "CANCELLED"
                        ELSE "PLANNED", None)
           ELSE IF index \in c.cancelledPast THEN Row(at, "CANCELLED", None)
           ELSE IF index % 13 = 5 THEN Row(at, "MISSED", None)
           ELSE Row(at, "BROADCASTED", Actual(at, index, s))]

Radio(s) == BroadcastPlan(RadioCampaign, s)
Completed(s) == BroadcastPlan(CompletedCampaign, s)

-----------------------------------------------------------------------------
(* The posters (DEMO_POSTER_SITES): an installation, its proof and its     *)
(* history.                                                                *)

Sites ==
  {[state |-> "VALIDATED", day |-> d] : d \in {-9, -8, -7}}
  \cup {[state |-> "PENDING_REVIEW", day |-> d] : d \in {-3, -1}}
  \cup {[state |-> "REJECTED", day |-> -6]}
  \cup {[state |-> "PLANNED", day |-> d] : d \in {2, 5}}

\* Of the panel of a day: when it was to be posed, its photo, its review.
Planned(day) == day * Day + 9 * 60
TakenAt(day) == Planned(day) + 2 * 60 + 17
ReviewedAt(day) == TakenAt(day) + 20 * 60

Installation(site) ==
  LET Change(from, to, at) == [from |-> from, to |-> to, at |-> at]
      installed == Change("PLANNED", "INSTALLED", TakenAt(site.day))
      decided == Change("INSTALLED", site.state, ReviewedAt(site.day))
  IN CASE site.state = "PLANNED" ->
            [status |-> "PLANNED", proof |-> None, history |-> <<>>]
       [] site.state = "PENDING_REVIEW" ->
            [status |-> "INSTALLED", proof |-> "PENDING", history |-> <<installed>>]
       [] OTHER ->
            [status |-> site.state, proof |-> site.state,
             history |-> <<installed, decided>>]

\* The codes on three panels, with scans from eight to twenty-one on eight days:
\* the first and the last minute a draw can give.
Panels == {-9, -8, -7}
QrCreated(s) == s.minute - 9 * Day
Scans == {day * Day + minute : day \in -8..-1, minute \in {8 * 60, 21 * 60 - 1}}

\* The notices of the visitor: when each is sent, and when what it tells of was:
\* the visit itself, a proof, the first broadcast heard late, a refusal and an
\* approval.
Notices(s) ==
  LET radio == Radio(s)
      late == {k \in DOMAIN radio :
                 radio[k].actual # None /\ radio[k].actual - radio[k].at > 15}
      first == CHOOSE k \in late : \A j \in late : k <= j
      heard == IF late = {} THEN s.minute - 2 * Day ELSE radio[first].actual
      Notice(at, of) == [at |-> at, of |-> of]
  IN {Notice(s.minute, s.minute), Notice(heard, heard),
      Notice(s.minute - 3 * Day + 180, TakenAt(-3)),
      Notice(s.minute - 5 * Day, ReviewedAt(-6)),
      Notice(s.minute - 8 * Day, ReviewedAt(-9))}

\* The conversation with the assistant.
Conversation(s) == s.minute - Day - 120

-----------------------------------------------------------------------------
(* The tasks, in quarters from the reset.                                  *)

Tasks ==
  {[due |-> 4, status |-> "TODO"], [due |-> 8, status |-> "IN_PROGRESS"],
   [due |-> -4, status |-> "LATE"], [due |-> -340, status |-> "DONE"]}

\* Slip: reminderSentAt is left to the scheduler.
NotReminded(t) == FALSE
Reminded(t) == TRUE

OpenTask(t) == t.status \notin {"DONE", "LATE"}
Overdue(t) == OpenTask(t) /\ t.due < age
Upcoming(t) == OpenTask(t) /\ ~Reminded(t) /\ t.due \in age..(age + 4)

-----------------------------------------------------------------------------

\* Of a plan at the moment of a reset: a broadcast has been heard before it, or is
\* missed, cancelled or to come, within its campaign; "la démo montre toujours des
\* retards et des manques, quelle que soit l'heure" (demo-data.ts:95-97).
PlanHolds(c, plan, s) ==
  /\ \A k \in DOMAIN plan :
       LET b == plan[k] IN
       /\ b.at \in (c.first * Day)..(c.end * Day - 1)
       /\ b.status = "BROADCASTED" <=> b.actual # None
       /\ b.actual # None => b.actual <= s.minute
       /\ b.status = "PLANNED" => b.at >= s.minute
  /\ \E k \in DOMAIN plan : plan[k].status = "MISSED"
  /\ \E k \in DOMAIN plan : plan[k].actual # None /\ plan[k].actual - plan[k].at > 15

\* Status, history and proof of an installation tell one story, none of it to come.
SiteHolds(site, s) ==
  LET i == Installation(site)
      n == Len(i.history)
      Before(k) == IF k = 1 THEN "PLANNED" ELSE i.history[k - 1].to
  IN /\ i.status = IF n = 0 THEN "PLANNED" ELSE i.history[n].to
     /\ \A k \in 1..n : i.history[k].from = Before(k) /\ i.history[k].at <= s.minute
     /\ n = 0 <=> i.proof = None
     /\ n = 0 => Planned(site.day) > s.minute

\* A campaign in progress has begun and is not over, and so on.
InTime(c, s) ==
  CASE c.status = "IN_PROGRESS" -> s.minute \in (c.first * Day)..(c.end * Day - 1)
    [] c.status = "COMPLETED" -> s.minute >= c.end * Day
    [] OTHER -> s.minute < c.first * Day

\* The reset from which no notice goes before what it tells of.
LateMorning == 8 * 60 + 17

SeedHolds(s) ==
  /\ PlanHolds(RadioCampaign, Radio(s), s)
  /\ PlanHolds(CompletedCampaign, Completed(s), s)
  /\ \A site \in Sites : SiteHolds(site, s)
  /\ \A c \in {RadioCampaign, CompletedCampaign, PosterCampaign, DigitalCampaign,
             DraftCampaign} :
       InTime(c, s)
  /\ \A scan \in Scans : scan \in QrCreated(s)..s.minute
  /\ \A n \in Notices(s) :
       /\ n.at \in (RadioCampaign.first * Day)..s.minute
       /\ s.minute >= LateMorning => n.of <= n.at
  /\ Conversation(s) < 0   \* "n'entame pas le quota du jour"

\* "la démo paraît toujours en cours" (demo-data.ts:5): at whatever hour, weekday
\* and draws a reset is made, nothing it writes as done lies after it and nothing
\* it writes as to come before it, the campaigns are at the stage their status
\* says, the history of each panel leads to its status, and the radio shows a
\* broadcast heard late and one missed.  Dates are compared with the reset; with
\* one another only where SeedHolds says so: notices follow what they tell of for
\* resets from 08:17 on, and scans are not compared with the posing of a panel.
PastIsPast == seed # None => SeedHolds(seed)

\* "le planificateur des tâches n'a rien à relancer sur la démo" (demo.service.ts:653).
NothingToChase == \A t \in Tasks : ~Overdue(t) /\ ~Upcoming(t)

\* The hourly job finds nothing to chase in the demo as long as every night has its
\* reset, whatever instances start, stop, fail or leave the reset to one another.
NobodyChased == seed # None /\ ~missed => NothingToChase

\* The same after a night without a reset: an instance that starts later in the
\* morning finds data less than a day old, and the task due that day is chased.
DemoNeverChased == seed # None => NothingToChase

\* A notice comes after what it tells of.  At the reset of 03:30 those of the proof,
\* of the refusal and of the approval come hours before.
NoticesFollow == seed # None => \A n \in Notices(seed) : n.of <= n.at

\* A code is scanned after its panel was posed.  Five scans of the panel of Bastos,
\* as createRng(20_261_013) draws them, are of the day before.
ScansFollow == seed # None => \A day \in Panels, scan \in Scans : TakenAt(day) <= scan

=============================================================================
