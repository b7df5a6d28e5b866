----------------------------- MODULE Campaigns -----------------------------
(***************************************************************************)
(* One campaign from draft to end (modules/campagnes) with what is planned *)
(* for it: channels and broadcasts (modules/canaux), placements            *)
(* (prestations.createPrestation), digital details (digital-campaigns),    *)
(* and the constats that say what was really broadcast (modules/diffusions *)
(* and modules/monitoring).                                                *)
(*                                                                         *)
(* A Request is a slot for one HTTP request at a time; it is cut where the *)
(* handler awaits the database, and keeps what it has read in req[r].  A   *)
(* prisma.$transaction, and an updateMany with its condition, is one step. *)
(* A request refused, or dead, before it has written leaves no trace       *)
(* (Abandon).  No row is ever deleted, except by the demo's reset.         *)
(***************************************************************************)
EXTENDS Integers, FiniteSets

CONSTANTS Broadcast, Request, None,
          Audio,         \* audio proofs of a broadcast
          LastDay        \* the bound of the calendar: days 1 .. LastDay

ASSUME DayAssumption == LastDay \in Nat \ {0, 1}

Status == {"DRAFT", "PLANNED", "IN_PROGRESS", "COMPLETED", "CANCELLED"}
Terminated == {"COMPLETED", "CANCELLED"}
Type == {"RADIO", "POSTER", "DIGITAL"}
BroadcastStatus == {"PLANNED", "BROADCASTED", "CANCELLED"}
Part == {"channel", "broadcast", "installation", "details", "digitalChannel"}
Day == 1 .. LastDay

\* CampaignStateMachine.transitions
Transitions ==
  {<<"DRAFT", "PLANNED">>, <<"PLANNED", "IN_PROGRESS">>,
   <<"IN_PROGRESS", "COMPLETED">>, <<"IN_PROGRESS", "CANCELLED">>,
   <<"PLANNED", "CANCELLED">>, <<"DRAFT", "CANCELLED">>}

\* What validateCampaignComplete asks of each type.
Required ==
  [RADIO |-> {"channel", "broadcast"}, POSTER |-> {"installation"},
   DIGITAL |-> {"details", "digitalChannel"}]

\* When a broadcast was heard: within 15 minutes of its schedule or not.
Heard == {"onTime", "late"}

Row == [status : BroadcastStatus, actual : Heard \cup {None},
        audio : Audio \cup {None}]

ASSUME NoneAssumption == None \notin Audio \cup Heard \cup Row

VARIABLES
  status, type, window,    \* the Campaign row; window is startDate, endDate
  today,
  parts,                   \* the kinds of rows the campaign has
  broadcast,               \* the Broadcast rows, None before creation
  notices,                 \* deviation notifications sent per broadcast
  req                      \* what each request has read

campaignVars == <<status, type, window>>
vars == <<status, type, window, today, parts, broadcast, notices, req>>

\* A dto may leave a date out: 0.
Dates == [start : Day \cup {0}, end : Day \cup {0}]

Idle == [pc |-> "idle"]
Local ==
  {Idle}
  \cup [pc : {"update"}, dates : Dates]
  \cup [pc : {"addPart"}, part : Part \ {"broadcast"}]
  \cup [pc : {"schedule"}, set : SUBSET Broadcast]
  \cup [pc : {"count", "launch"}, from : Status, to : Status]
  \cup [pc : {"constat"}, b : Broadcast, actual : Heard \cup {None},
        audio : Audio \cup {None}, webhook : BOOLEAN]
  \cup [pc : {"notify"}, b : Broadcast]

TypeOK ==
  /\ status \in Status
  /\ type \in Type
  /\ window \in [start : Day, end : Day]
  /\ today \in Day
  /\ parts \subseteq Part
  /\ broadcast \in [Broadcast -> Row \cup {None}]
  /\ notices \in [Broadcast -> Nat]
  /\ req \in [Request -> Local]

\* create: a DRAFT whose dates have passed validateDates.
Init ==
  /\ status = "DRAFT"
  /\ type \in Type
  /\ window \in {w \in [start : Day, end : Day] : w.start < w.end}
  /\ today = 1
  /\ parts = {}
  /\ broadcast = [b \in Broadcast |-> None]
  /\ notices = [b \in Broadcast |-> 0]
  /\ req = [r \in Request |-> Idle]

-----------------------------------------------------------------------------

At(r, p) == req[r].pc = p

Becomes(r, q) == req' = [req EXCEPT ![r] = q]

Created(b) == broadcast[b] # None

\* The dates a dto asks for, over those of w.
Over(d, w) ==
  [start |-> IF d.start = 0 THEN w.start ELSE d.start,
   end |-> IF d.end = 0 THEN w.end ELSE d.end]

-----------------------------------------------------------------------------
(* update                                                                  *)

\* validateDates sees the dto's dates over those just read.
Update(r) ==
  /\ At(r, "idle") /\ status = "DRAFT"
  /\ \E d \in Dates :
       /\ d.start # 0 \/ d.end # 0
       /\ Over(d, window).start < Over(d, window).end
       /\ Becomes(r, [pc |-> "update", dates |-> d])
  /\ UNCHANGED <<campaignVars, today, parts, broadcast, notices>>

WriteUpdateUnlocked(r) ==
  /\ At(r, "update")
  /\ window' = Over(req[r].dates, window)
  /\ Becomes(r, Idle)
  /\ UNCHANGED <<status, type, today, parts, broadcast, notices>>

\* updateMany where the status is still DRAFT, else 409; only the columns of
\* the dto are written.
WriteUpdate(r) ==
  /\ At(r, "update")
  /\ window' = IF status = "DRAFT" THEN Over(req[r].dates, window) ELSE window
  /\ Becomes(r, Idle)
  /\ UNCHANGED <<status, type, today, parts, broadcast, notices>>

-----------------------------------------------------------------------------
(* What is planned: associateChannels, createPrestation, upsertDetails,    *)
(* selectChannels and createSchedule read the campaign, then write without *)
(* looking at it again.                                                    *)

StartPart(r, p) ==
  /\ At(r, "idle")
  /\ Becomes(r, [pc |-> "addPart", part |-> p])
  /\ UNCHANGED <<campaignVars, today, parts, broadcast, notices>>

AssociateChannels(r) == status \notin Terminated /\ StartPart(r, "channel")

CreatePrestation(r) == status \notin Terminated /\ StartPart(r, "installation")

UpsertDetails(r) ==
  type = "DIGITAL" /\ status = "DRAFT" /\ StartPart(r, "details")

SelectChannels(r) ==
  /\ type = "DIGITAL" /\ status = "DRAFT" /\ "details" \in parts
  /\ StartPart(r, "digitalChannel")

WritePart(r) ==
  /\ At(r, "addPart")
  /\ parts' = parts \cup {req[r].part}
  /\ Becomes(r, Idle)
  /\ UNCHANGED <<campaignVars, today, broadcast, notices>>

\* The caller names channels of the campaign, which are never removed.
CreateSchedule(r) ==
  /\ At(r, "idle")
  /\ status \notin Terminated /\ "channel" \in parts
  /\ \E S \in SUBSET Broadcast \ {{}} :
       Becomes(r, [pc |-> "schedule", set |-> S])
  /\ UNCHANGED <<campaignVars, today, parts, broadcast, notices>>

\* The rows are new: two requests never create the same one.
WriteSchedule(r) ==
  /\ At(r, "schedule")
  /\ \A b \in req[r].set : ~Created(b)
  /\ broadcast' = [b \in Broadcast |->
       IF b \in req[r].set
       THEN [status |-> "PLANNED", actual |-> None, audio |-> None]
       ELSE broadcast[b]]
  /\ parts' = parts \cup {"broadcast"}
  /\ Becomes(r, Idle)
  /\ UNCHANGED <<campaignVars, today, notices>>

-----------------------------------------------------------------------------
(* lancer                                                                  *)

\* validateTransition; asking for the status the campaign has is allowed.
\* Planning needs an end date to come, then the counts of CountParts.
Lancer(r) ==
  /\ At(r, "idle")
  /\ \E s \in Status :
       /\ s = status \/ <<status, s>> \in Transitions
       /\ <<status, s>> = <<"DRAFT", "PLANNED">> => window.end > today
       /\ Becomes(r, [pc |-> IF <<status, s>> = <<"DRAFT", "PLANNED">>
                             THEN "count" ELSE "launch",
                      from |-> status, to |-> s])
  /\ UNCHANGED <<campaignVars, today, parts, broadcast, notices>>

\* The slip the comment of validateCampaignComplete tells of: a check that
\* cannot fail.
CountNothing(r) ==
  /\ At(r, "count")
  /\ Becomes(r, [req[r] EXCEPT !.pc = "launch"])
  /\ UNCHANGED <<campaignVars, today, parts, broadcast, notices>>

CountParts(r) ==
  /\ At(r, "count")
  /\ Required[type] \subseteq parts
  /\ Becomes(r, [req[r] EXCEPT !.pc = "launch"])
  /\ UNCHANGED <<campaignVars, today, parts, broadcast, notices>>

\* updateMany on the broadcasts that are PLANNED.
CancelPlanned ==
  [b \in Broadcast |->
     IF Created(b) /\ broadcast[b].status = "PLANNED"
     THEN [broadcast[b] EXCEPT !.status = "CANCELLED"]
     ELSE broadcast[b]]

WriteLaunchUnlocked(r) ==
  /\ At(r, "launch")
  /\ status' = req[r].to
  /\ broadcast' = IF req[r].to = "CANCELLED" THEN CancelPlanned ELSE broadcast
  /\ Becomes(r, Idle)
  /\ UNCHANGED <<type, window, today, parts, notices>>

\* One transaction: the status, if it is still the one read (else 409), and on
\* cancellation the broadcasts still to come.
WriteLaunch(r) ==
  /\ At(r, "launch")
  /\ IF status = req[r].from
     THEN /\ status' = req[r].to
          /\ broadcast' = IF req[r].to = "CANCELLED" THEN CancelPlanned
                                                     ELSE broadcast
     ELSE UNCHANGED <<status, broadcast>>
  /\ Becomes(r, Idle)
  /\ UNCHANGED <<type, window, today, parts, notices>>

-----------------------------------------------------------------------------
(* Constats.                                                               *)

\* updateConstat, by a member of the company: both fields are optional.
UpdateConstat(r, b) ==
  /\ At(r, "idle")
  /\ Created(b) /\ broadcast[b].actual = None
  /\ \E h \in Heard \cup {None}, a \in Audio \cup {None} :
       Becomes(r, [pc |-> "constat", b |-> b, actual |-> h, audio |-> a,
                   webhook |-> FALSE])
  /\ UNCHANGED <<campaignVars, today, parts, broadcast, notices>>

\* recordDetection, by the monitoring service: always dated.
RecordDetection(r, b) ==
  /\ At(r, "idle")
  /\ Created(b) /\ broadcast[b].actual = None
  /\ \E h \in Heard, a \in Audio \cup {None} :
       Becomes(r, [pc |-> "constat", b |-> b, actual |-> h, audio |-> a,
                   webhook |-> TRUE])
  /\ UNCHANGED <<campaignVars, today, parts, broadcast, notices>>

AfterConstat(r, won) ==
  IF won /\ req[r].webhook /\ req[r].actual = "late"
  THEN Becomes(r, [pc |-> "notify", b |-> req[r].b])
  ELSE Becomes(r, Idle)

Constated(c, q) ==
  [status |-> "BROADCASTED", actual |-> q.actual,
   audio |-> IF q.audio = None THEN c.audio ELSE q.audio]

ApplyConstatUnlocked(r) ==
  LET b == req[r].b IN
  /\ At(r, "constat")
  /\ broadcast' = [broadcast EXCEPT ![b] = Constated(broadcast[b], req[r])]
  /\ AfterConstat(r, TRUE)
  /\ UNCHANGED <<campaignVars, today, parts, notices>>

\* updateMany where actualBroadcastAt is still null; otherwise 409, which the
\* webhook takes for a replay.  The campaign's status is not looked at.
ApplyConstat(r) ==
  LET b == req[r].b
      won == broadcast[b].actual = None
  IN
  /\ At(r, "constat")
  /\ broadcast' = IF won
                  THEN [broadcast EXCEPT ![b] = Constated(broadcast[b], req[r])]
                  ELSE broadcast
  /\ AfterConstat(r, won)
  /\ UNCHANGED <<campaignVars, today, parts, notices>>

NotifyDeviation(r) ==
  /\ At(r, "notify")
  /\ notices' = [notices EXCEPT ![req[r].b] = @ + 1]
  /\ Becomes(r, Idle)
  /\ UNCHANGED <<campaignVars, today, parts, broadcast>>

-----------------------------------------------------------------------------

Tick ==
  /\ today < LastDay
  /\ today' = today + 1
  /\ UNCHANGED <<campaignVars, parts, broadcast, notices, req>>

\* A refusal, an error or a crash: what is not yet written never is.
Abandon(r) ==
  /\ ~At(r, "idle")
  /\ Becomes(r, Idle)
  /\ UNCHANGED <<campaignVars, today, parts, broadcast, notices>>

Step(r) ==
  \/ Update(r) \/ WriteUpdate(r)
  \/ AssociateChannels(r) \/ CreatePrestation(r)
  \/ UpsertDetails(r) \/ SelectChannels(r) \/ WritePart(r)
  \/ CreateSchedule(r) \/ WriteSchedule(r)
  \/ Lancer(r) \/ CountParts(r) \/ WriteLaunch(r)
  \/ ApplyConstat(r) \/ NotifyDeviation(r)
  \/ Abandon(r)

Next ==
  \/ \E r \in Request : Step(r)
  \/ \E r \in Request, b \in Broadcast :
       UpdateConstat(r, b) \/ RecordDetection(r, b)
  \/ Tick

Spec == Init /\ [][Next]_vars

-----------------------------------------------------------------------------

\* However many launches and cancellations are in flight, the campaign only
\* takes the transitions of the state machine: what is completed or cancelled
\* stays so.
LifecycleFollowed ==
  [][status' # status => <<status, status'>> \in Transitions]_vars

\* "Only DRAFT campaigns can be updated", also by an update that had read a
\* DRAFT before someone launched it.
FrozenAfterDraft == [][window' # window => status = "DRAFT"]_vars

\* A campaign never goes live without what its type needs to be broadcast.
LaunchedIsComplete ==
  status \in {"PLANNED", "IN_PROGRESS", "COMPLETED"} => Required[type] \subseteq parts

\* "celles déjà constatées (BROADCASTED) sont des faits, on ne réécrit pas
\* l'historique": neither a cancellation, nor a second constat, nor a replayed
\* detection rewrites a dated constat and its audio proof; and a broadcast once
\* BROADCASTED stays so.
ConstatIsFinal ==
  [][\A b \in Broadcast : Created(b) =>
       /\ broadcast[b].actual # None => broadcast'[b] = broadcast[b]
       /\ broadcast[b].status = "BROADCASTED" =>
            broadcast'[b].status = "BROADCASTED"]_vars

\* "sans déclencher de notification en double": replayed and concurrent
\* detections send one deviation notice at most, and none for a broadcast
\* that was on time.
OneDeviationNotice ==
  \A b \in Broadcast :
    notices[b] # 0 => notices[b] = 1 /\ broadcast[b].actual = "late"

\* "un échec après le premier UPDATE laisserait une campagne annulée avec des
\* diffusions toujours actives": a cancelled campaign has no broadcast to come.
CancelledHasNoPlanned ==
  status = "CANCELLED" =>
    \A b \in Broadcast : Created(b) => broadcast[b].status # "PLANNED"

\* "End date must be after start date."
WindowOrdered == window.start < window.end

=============================================================================
