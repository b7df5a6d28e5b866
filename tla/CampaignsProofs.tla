-------------------------- MODULE CampaignsProofs --------------------------
(***************************************************************************)
(* Campaigns for every set of broadcasts, requests and audio proofs and    *)
(* every calendar: its type invariant, its two state invariants and its    *)
(* three action properties.                                                *)
(***************************************************************************)
EXTENDS Campaigns, TLAPS

\* A launch about to be written asks for a transition from the status it has
\* read, and planning a draft has had its parts counted.
LaunchChecked ==
  \A r \in Request :
    /\ req[r].pc \in {"count", "launch"} =>
         req[r].from = req[r].to \/ <<req[r].from, req[r].to>> \in Transitions
    /\ At(r, "launch") /\ req[r].from = "DRAFT" /\ req[r].to = "PLANNED" =>
         Required[type] \subseteq parts

\* A dated constat is of a broadcast that is BROADCASTED: no cancellation
\* takes it for one still to come.
DatedIsBroadcast ==
  \A b \in Broadcast :
    Created(b) /\ broadcast[b].actual # None => broadcast[b].status = "BROADCASTED"

ConstatCreated == \A r \in Request : At(r, "constat") => Created(req[r].b)

\* A notice is sent, or about to be sent, for a broadcast that was late, once.
NoticeDue ==
  /\ \A b \in Broadcast : notices[b] # 0 =>
       Created(b) /\ notices[b] = 1 /\ broadcast[b].actual = "late"
  /\ \A r \in Request : At(r, "notify") =>
       /\ Created(req[r].b) /\ broadcast[req[r].b].actual = "late"
       /\ notices[req[r].b] = 0
  /\ \A q, r \in Request :
       At(q, "notify") /\ At(r, "notify") /\ req[q].b = req[r].b => q = r

LaunchInv == LaunchChecked /\ LaunchedIsComplete

ConstatInv == DatedIsBroadcast /\ ConstatCreated

ConstatNoticeInv == ConstatInv /\ NoticeDue

IInv == TypeOK /\ LaunchInv /\ ConstatNoticeInv

-----------------------------------------------------------------------------
(* Typing.                                                                 *)

\* What a request holds follows from where it stands.
LEMMA LocalShape ==
  ASSUME NEW q \in Local
  PROVE  /\ q.pc = "idle" => q = Idle
         /\ q.pc = "update" => q \in [pc : {"update"}, dates : Dates]
         /\ q.pc = "addPart" => q \in [pc : {"addPart"}, part : Part \ {"broadcast"}]
         /\ q.pc = "schedule" => q \in [pc : {"schedule"}, set : SUBSET Broadcast]
         /\ q.pc \in {"count", "launch"} =>
              q \in [pc : {"count", "launch"}, from : Status, to : Status]
         /\ q.pc = "constat" =>
              q \in [pc : {"constat"}, b : Broadcast, actual : Heard \cup {None},
                     audio : Audio \cup {None}, webhook : BOOLEAN]
         /\ q.pc = "notify" => q \in [pc : {"notify"}, b : Broadcast]
BY DEF Local, Idle

LEMMA BecomesTyped ==
  ASSUME TypeOK, NEW r \in Request, NEW q \in Local, Becomes(r, q)
  PROVE  req' \in [Request -> Local]
BY DEF TypeOK, Becomes

LEMMA IdleTyped == Idle \in Local
BY DEF Local, Idle

\* The dates of a dto over those of the campaign are dates.
LEMMA OverTyped ==
  ASSUME NEW d \in Dates, NEW w \in [start : Day, end : Day]
  PROVE  Over(d, w) \in [start : Day, end : Day]
BY DEF Over, Dates, Day

\* A cancellation touches no row but those that are PLANNED.
LEMMA CancelTyped ==
  ASSUME TypeOK
  PROVE  /\ CancelPlanned \in [Broadcast -> Row \cup {None}]
         /\ \A b \in Broadcast :
              /\ Created(b) => CancelPlanned[b] # None
              /\ Created(b) /\ broadcast[b].status # "PLANNED" =>
                   CancelPlanned[b] = broadcast[b]
              /\ Created(b) => CancelPlanned[b].actual = broadcast[b].actual
              /\ ~Created(b) => CancelPlanned[b] = None
              /\ Created(b) /\ broadcast[b].status = "PLANNED" =>
                   CancelPlanned[b].status = "CANCELLED"
<1>1. ASSUME NEW b \in Broadcast, Created(b)
      PROVE  broadcast[b] \in Row
  BY <1>1 DEF TypeOK, Created
<1>2. None \notin Row
  BY NoneAssumption
<1> QED
  BY <1>1, <1>2 DEF CancelPlanned, Created, TypeOK, Row, BroadcastStatus

\* Actions that only move a request keep every type.
LEMMA MoveTyped ==
  ASSUME TypeOK, NEW r \in Request, NEW q \in Local, Becomes(r, q),
         UNCHANGED <<campaignVars, today, parts, broadcast, notices>>
  PROVE  TypeOK'
<1>1. req' \in [Request -> Local]
  BY BecomesTyped
<1> QED
  BY <1>1 DEF TypeOK, campaignVars

\* Every step keeps the types.
LEMMA StepTypeOK == TypeOK /\ ConstatCreated /\ [Next]_vars => TypeOK'
<1> SUFFICES ASSUME TypeOK, ConstatCreated, [Next]_vars
             PROVE  TypeOK'
  OBVIOUS
<1>1. ASSUME NEW r \in Request, Update(r)
      PROVE  TypeOK'
  <2>1. PICK d \in Dates : Becomes(r, [pc |-> "update", dates |-> d])
    BY <1>1 DEF Update
  <2>2. [pc |-> "update", dates |-> d] \in Local
    BY DEF Local
  <2> QED
    BY <1>1, <2>1, <2>2, MoveTyped DEF Update
<1>2. ASSUME NEW r \in Request, WriteUpdate(r)
      PROVE  TypeOK'
  <2>1. req[r].dates \in Dates
    BY <1>2, LocalShape DEF WriteUpdate, At, TypeOK
  <2>2. window' \in [start : Day, end : Day]
    BY <1>2, <2>1, OverTyped DEF WriteUpdate, TypeOK
  <2>3. req' \in [Request -> Local]
    BY <1>2, IdleTyped, BecomesTyped DEF WriteUpdate
  <2> QED
    BY <1>2, <2>2, <2>3 DEF WriteUpdate, TypeOK
<1>3. ASSUME NEW r \in Request, NEW p \in Part \ {"broadcast"}, StartPart(r, p)
      PROVE  TypeOK'
  <2>1. [pc |-> "addPart", part |-> p] \in Local
    BY DEF Local
  <2> QED
    BY <1>3, <2>1, MoveTyped DEF StartPart
<1>4. ASSUME NEW r \in Request, WritePart(r)
      PROVE  TypeOK'
  <2>1. req[r].part \in Part
    BY <1>4, LocalShape DEF WritePart, At, TypeOK
  <2>2. req' \in [Request -> Local]
    BY <1>4, IdleTyped, BecomesTyped DEF WritePart
  <2> QED
    BY <1>4, <2>1, <2>2 DEF WritePart, TypeOK, campaignVars
<1>5. ASSUME NEW r \in Request, CreateSchedule(r)
      PROVE  TypeOK'
  <2>1. PICK B \in SUBSET Broadcast : Becomes(r, [pc |-> "schedule", set |-> B])
    BY <1>5 DEF CreateSchedule
  <2>2. [pc |-> "schedule", set |-> B] \in Local
    BY DEF Local
  <2> QED
    BY <1>5, <2>1, <2>2, MoveTyped DEF CreateSchedule
<1>6. ASSUME NEW r \in Request, WriteSchedule(r)
      PROVE  TypeOK'
  <2>1. [status |-> "PLANNED", actual |-> None, audio |-> None] \in Row
    BY DEF Row, BroadcastStatus
  <2>2. broadcast' \in [Broadcast -> Row \cup {None}]
    BY <1>6, <2>1 DEF WriteSchedule, TypeOK
  <2>3. req' \in [Request -> Local]
    BY <1>6, IdleTyped, BecomesTyped DEF WriteSchedule
  <2>4. parts' \subseteq Part
    BY <1>6 DEF WriteSchedule, TypeOK, Part
  <2> QED
    BY <1>6, <2>2, <2>3, <2>4 DEF WriteSchedule, TypeOK, campaignVars
<1>7. ASSUME NEW r \in Request, Lancer(r)
      PROVE  TypeOK'
  <2>1. PICK s \in Status, p \in {"count", "launch"} :
          Becomes(r, [pc |-> p, from |-> status, to |-> s])
    BY <1>7 DEF Lancer
  <2>2. [pc |-> p, from |-> status, to |-> s] \in Local
    BY DEF Local, TypeOK
  <2> QED
    BY <1>7, <2>1, <2>2, MoveTyped DEF Lancer
<1>8. ASSUME NEW r \in Request, CountParts(r)
      PROVE  TypeOK'
  <2>1. req[r] \in [pc : {"count", "launch"}, from : Status, to : Status]
    BY <1>8, LocalShape DEF CountParts, At, TypeOK
  <2>2. [req[r] EXCEPT !.pc = "launch"] \in Local
    BY <2>1 DEF Local
  <2> QED
    BY <1>8, <2>2, MoveTyped DEF CountParts
<1>9. ASSUME NEW r \in Request, WriteLaunch(r)
      PROVE  TypeOK'
  <2>1. req[r].to \in Status
    BY <1>9, LocalShape DEF WriteLaunch, At, TypeOK
  <2>2. /\ status' \in Status
        /\ broadcast' \in [Broadcast -> Row \cup {None}]
    BY <1>9, <2>1, CancelTyped DEF WriteLaunch, TypeOK
  <2>3. req' \in [Request -> Local]
    BY <1>9, IdleTyped, BecomesTyped DEF WriteLaunch
  <2> QED
    BY <1>9, <2>2, <2>3 DEF WriteLaunch, TypeOK
<1>10. ASSUME NEW r \in Request, NEW b \in Broadcast,
              UpdateConstat(r, b) \/ RecordDetection(r, b)
       PROVE  TypeOK'
  <2>1. PICK h \in Heard \cup {None}, a \in Audio \cup {None}, w \in BOOLEAN :
          Becomes(r, [pc |-> "constat", b |-> b, actual |-> h, audio |-> a,
                      webhook |-> w])
    BY <1>10 DEF UpdateConstat, RecordDetection
  <2>2. [pc |-> "constat", b |-> b, actual |-> h, audio |-> a, webhook |-> w] \in Local
    BY DEF Local
  <2> QED
    BY <1>10, <2>1, <2>2, MoveTyped DEF UpdateConstat, RecordDetection
<1>11. ASSUME NEW r \in Request, ApplyConstat(r)
       PROVE  TypeOK'
  <2>1. req[r] \in [pc : {"constat"}, b : Broadcast, actual : Heard \cup {None},
                    audio : Audio \cup {None}, webhook : BOOLEAN]
    BY <1>11, LocalShape DEF ApplyConstat, At, TypeOK
  <2>2. broadcast[req[r].b] \in Row
    BY <1>11, <2>1 DEF ApplyConstat, ConstatCreated, Created, TypeOK
  <2>3. Constated(broadcast[req[r].b], req[r]) \in Row
    BY <2>1, <2>2 DEF Constated, Row, BroadcastStatus
  <2>4. broadcast' \in [Broadcast -> Row \cup {None}]
    BY <1>11, <2>3 DEF ApplyConstat, TypeOK
  <2>5. [pc |-> "notify", b |-> req[r].b] \in Local
    BY <2>1 DEF Local
  <2>6. req' \in [Request -> Local]
    BY <1>11, <2>5, IdleTyped, BecomesTyped DEF ApplyConstat, AfterConstat
  <2> QED
    BY <1>11, <2>4, <2>6 DEF ApplyConstat, TypeOK, campaignVars
<1>12. ASSUME NEW r \in Request, NotifyDeviation(r)
       PROVE  TypeOK'
  <2>1. req[r].b \in Broadcast
    BY <1>12, LocalShape DEF NotifyDeviation, At, TypeOK
  <2>2. notices' \in [Broadcast -> Nat]
    BY <1>12, <2>1 DEF NotifyDeviation, TypeOK
  <2>3. req' \in [Request -> Local]
    BY <1>12, IdleTyped, BecomesTyped DEF NotifyDeviation
  <2> QED
    BY <1>12, <2>2, <2>3 DEF NotifyDeviation, TypeOK, campaignVars
<1>13. CASE Tick
  BY <1>13, DayAssumption DEF Tick, TypeOK, Day, campaignVars
<1>14. ASSUME NEW r \in Request, Abandon(r)
       PROVE  TypeOK'
  BY <1>14, IdleTyped, MoveTyped DEF Abandon
<1>15. CASE UNCHANGED vars
  BY <1>15 DEF vars, TypeOK, campaignVars
<1> QED
  BY <1>1, <1>2, <1>3, <1>4, <1>5, <1>6, <1>7, <1>8, <1>9, <1>10, <1>11, <1>12,
     <1>13, <1>14, <1>15
  DEF Next, Step, AssociateChannels, CreatePrestation, UpsertDetails,
      SelectChannels, Part

-----------------------------------------------------------------------------
(* Launches.                                                               *)

\* A request that is not launching disturbs no launch: parts are never lost,
\* and only a launch writes the status.
LEMMA LaunchKept ==
  ASSUME TypeOK, LaunchInv, NEW r \in Request, NEW q \in Local, Becomes(r, q),
         q.pc \notin {"count", "launch"},
         UNCHANGED <<status, type>>, parts \subseteq parts'
  PROVE  LaunchInv'
<1>1. LaunchChecked'
  BY DEF LaunchInv, LaunchChecked, Becomes, TypeOK, At
<1>2. LaunchedIsComplete'
  BY DEF LaunchInv, LaunchedIsComplete
<1> QED
  BY <1>1, <1>2 DEF LaunchInv

\* The launches in flight stay checked, and the status is complete, whatever
\* WriteLaunch is entitled to write.
LEMMA StepLaunch == TypeOK /\ LaunchInv /\ [Next]_vars => LaunchInv'
<1> SUFFICES ASSUME TypeOK, LaunchInv, [Next]_vars
             PROVE  LaunchInv'
  OBVIOUS
<1>1. ASSUME NEW r \in Request, Update(r)
      PROVE  LaunchInv'
  <2>1. PICK d \in Dates : Becomes(r, [pc |-> "update", dates |-> d])
    BY <1>1 DEF Update
  <2>2. [pc |-> "update", dates |-> d] \in Local
    BY DEF Local
  <2> QED
    BY <1>1, <2>1, <2>2, LaunchKept DEF Update, campaignVars
<1>2. ASSUME NEW r \in Request,
             \/ WriteUpdate(r) \/ WritePart(r) \/ WriteSchedule(r)
             \/ NotifyDeviation(r) \/ Abandon(r)
      PROVE  LaunchInv'
  <2>1. /\ Becomes(r, Idle) /\ UNCHANGED <<status, type>>
        /\ parts \subseteq parts'
    BY <1>2 DEF WriteUpdate, WritePart, WriteSchedule, NotifyDeviation, Abandon,
                campaignVars
  <2>2. Idle.pc = "idle"
    BY DEF Idle
  <2> QED
    BY <2>1, <2>2, IdleTyped, LaunchKept
<1>3. ASSUME NEW r \in Request, NEW p \in Part \ {"broadcast"}, StartPart(r, p)
      PROVE  LaunchInv'
  <2>1. [pc |-> "addPart", part |-> p] \in Local
    BY DEF Local
  <2> QED
    BY <1>3, <2>1, LaunchKept DEF StartPart, campaignVars
<1>4. ASSUME NEW r \in Request, CreateSchedule(r)
      PROVE  LaunchInv'
  <2>1. PICK B \in SUBSET Broadcast : Becomes(r, [pc |-> "schedule", set |-> B])
    BY <1>4 DEF CreateSchedule
  <2>2. [pc |-> "schedule", set |-> B] \in Local
    BY DEF Local
  <2> QED
    BY <1>4, <2>1, <2>2, LaunchKept DEF CreateSchedule, campaignVars
<1>5. ASSUME NEW r \in Request, Lancer(r)
      PROVE  LaunchInv'
  <2>1. PICK s \in Status :
          /\ s = status \/ <<status, s>> \in Transitions
          /\ Becomes(r, [pc |-> IF <<status, s>> = <<"DRAFT", "PLANNED">>
                                THEN "count" ELSE "launch",
                         from |-> status, to |-> s])
    BY <1>5 DEF Lancer
  <2>2. req'[r] = [pc |-> IF <<status, s>> = <<"DRAFT", "PLANNED">>
                          THEN "count" ELSE "launch",
                   from |-> status, to |-> s]
    BY <2>1 DEF Becomes, TypeOK
  <2>3. \A q \in Request \ {r} : req'[q] = req[q]
    BY <2>1 DEF Becomes, TypeOK
  <2>4. LaunchChecked'
    BY <1>5, <2>1, <2>2, <2>3
    DEF Lancer, LaunchInv, LaunchChecked, At, campaignVars
  <2> QED
    BY <1>5, <2>4 DEF Lancer, LaunchInv, LaunchedIsComplete, campaignVars
<1>6. ASSUME NEW r \in Request, CountParts(r)
      PROVE  LaunchInv'
  <2>1. req[r] \in [pc : {"count", "launch"}, from : Status, to : Status]
    BY <1>6, LocalShape DEF CountParts, At, TypeOK
  <2>2. /\ req'[r] = [req[r] EXCEPT !.pc = "launch"]
        /\ \A q \in Request \ {r} : req'[q] = req[q]
    BY <1>6 DEF CountParts, Becomes, TypeOK
  <2>3. req'[r].pc = "launch" /\ req'[r].from = req[r].from /\ req'[r].to = req[r].to
    BY <2>1, <2>2
  <2>4. LaunchChecked'
    BY <1>6, <2>2, <2>3
    DEF CountParts, LaunchInv, LaunchChecked, At, campaignVars
  <2> QED
    BY <1>6, <2>4 DEF CountParts, LaunchInv, LaunchedIsComplete, campaignVars
<1>7. ASSUME NEW r \in Request, WriteLaunch(r)
      PROVE  LaunchInv'
  <2>1. LaunchChecked'
    BY <1>7 DEF WriteLaunch, LaunchInv, LaunchChecked, Becomes, TypeOK, At, Idle
  <2>2. CASE status = req[r].from
    <3>1. \/ status' = status
          \/ <<status, status'>> \in Transitions
      BY <1>7, <2>2 DEF WriteLaunch, LaunchInv, LaunchChecked, At
    <3>2. status = "DRAFT" /\ status' = "PLANNED" => Required[type] \subseteq parts
      BY <1>7, <2>2 DEF WriteLaunch, LaunchInv, LaunchChecked, At
    <3> QED
      BY <1>7, <2>1, <3>1, <3>2
      DEF WriteLaunch, LaunchInv, LaunchedIsComplete, Transitions
  <2>3. CASE status # req[r].from
    BY <1>7, <2>1, <2>3 DEF WriteLaunch, LaunchInv, LaunchedIsComplete
  <2> QED
    BY <2>2, <2>3
<1>8. ASSUME NEW r \in Request, NEW b \in Broadcast,
             UpdateConstat(r, b) \/ RecordDetection(r, b)
      PROVE  LaunchInv'
  <2>1. PICK h \in Heard \cup {None}, a \in Audio \cup {None}, w \in BOOLEAN :
          Becomes(r, [pc |-> "constat", b |-> b, actual |-> h, audio |-> a,
                      webhook |-> w])
    BY <1>8 DEF UpdateConstat, RecordDetection
  <2>2. [pc |-> "constat", b |-> b, actual |-> h, audio |-> a, webhook |-> w] \in Local
    BY DEF Local
  <2> QED
    BY <1>8, <2>1, <2>2, LaunchKept DEF UpdateConstat, RecordDetection, campaignVars
<1>9. ASSUME NEW r \in Request, ApplyConstat(r)
      PROVE  LaunchInv'
  <2>1. req[r].b \in Broadcast
    BY <1>9, LocalShape DEF ApplyConstat, At, TypeOK
  <2>2. [pc |-> "notify", b |-> req[r].b] \in Local
    BY <2>1 DEF Local
  <2>3. PICK q \in Local : Becomes(r, q) /\ q.pc \in {"idle", "notify"}
    BY <1>9, <2>2, IdleTyped DEF ApplyConstat, AfterConstat, Idle
  <2> QED
    BY <1>9, <2>3, LaunchKept DEF ApplyConstat, campaignVars
<1>10. CASE Tick \/ UNCHANGED vars
  BY <1>10 DEF Tick, vars, campaignVars, LaunchInv, LaunchChecked,
               LaunchedIsComplete, At
<1> QED
  BY <1>1, <1>2, <1>3, <1>4, <1>5, <1>6, <1>7, <1>8, <1>9, <1>10
  DEF Next, Step, AssociateChannels, CreatePrestation, UpsertDetails,
      SelectChannels, Part

-----------------------------------------------------------------------------
(* Constats and notices.                                                   *)

\* What no action takes back: a row, and the date of a late broadcast.
RowsKept ==
  \A b \in Broadcast : Created(b) =>
    /\ broadcast'[b] # None
    /\ broadcast[b].actual = "late" => broadcast'[b].actual = "late"

\* A request that neither constats nor notifies keeps both invariants, when
\* the rows it leaves are kept and dated ones are BROADCASTED.
LEMMA ConstatKept ==
  ASSUME TypeOK, ConstatNoticeInv, NEW r \in Request, NEW q \in Local, Becomes(r, q),
         q.pc \notin {"constat", "notify"},
         RowsKept, DatedIsBroadcast', UNCHANGED notices
  PROVE  ConstatNoticeInv'
<1>1. \A s \in Request : req'[s] = req[s] \/ (s = r /\ req'[s] = q)
  BY DEF Becomes, TypeOK
<1>2. \A s \in Request : At(s, "constat") => req[s].b \in Broadcast
  BY LocalShape DEF At, TypeOK
<1>3. \A s \in Request : At(s, "notify") => req[s].b \in Broadcast
  BY LocalShape DEF At, TypeOK
<1>4. ConstatCreated'
  BY <1>1, <1>2 DEF ConstatNoticeInv, ConstatInv, ConstatCreated, RowsKept, Created, At
<1>5. NoticeDue'
  BY <1>1, <1>3 DEF ConstatNoticeInv, NoticeDue, RowsKept, Created, At
<1> QED
  BY <1>4, <1>5 DEF ConstatNoticeInv, ConstatInv

\* With the rows as they were, nothing else is needed.
LEMMA RowsUnchanged ==
  ASSUME TypeOK, ConstatNoticeInv, UNCHANGED broadcast
  PROVE  RowsKept /\ DatedIsBroadcast'
BY DEF RowsKept, Created, ConstatNoticeInv, ConstatInv, DatedIsBroadcast

\* Only the winner of the null date owes a notice, so there is one.
LEMMA StepConstat == TypeOK /\ ConstatNoticeInv /\ [Next]_vars => ConstatNoticeInv'
<1> SUFFICES ASSUME TypeOK, ConstatNoticeInv, [Next]_vars
             PROVE  ConstatNoticeInv'
  OBVIOUS
<1> USE DEF campaignVars
<1>1. ASSUME NEW r \in Request, Update(r)
      PROVE  ConstatNoticeInv'
  <2>1. PICK d \in Dates : Becomes(r, [pc |-> "update", dates |-> d])
    BY <1>1 DEF Update
  <2>2. [pc |-> "update", dates |-> d] \in Local
    BY DEF Local
  <2> QED
    BY <1>1, <2>1, <2>2, RowsUnchanged, ConstatKept DEF Update
<1>2. ASSUME NEW r \in Request, WriteUpdate(r) \/ WritePart(r) \/ Abandon(r)
      PROVE  ConstatNoticeInv'
  <2>1. Becomes(r, Idle) /\ UNCHANGED <<broadcast, notices>>
    BY <1>2 DEF WriteUpdate, WritePart, Abandon
  <2>2. Idle.pc = "idle"
    BY DEF Idle
  <2> QED
    BY <2>1, <2>2, IdleTyped, RowsUnchanged, ConstatKept
<1>3. ASSUME NEW r \in Request, NEW p \in Part \ {"broadcast"}, StartPart(r, p)
      PROVE  ConstatNoticeInv'
  <2>1. [pc |-> "addPart", part |-> p] \in Local
    BY DEF Local
  <2> QED
    BY <1>3, <2>1, RowsUnchanged, ConstatKept DEF StartPart
<1>4. ASSUME NEW r \in Request, CreateSchedule(r)
      PROVE  ConstatNoticeInv'
  <2>1. PICK B \in SUBSET Broadcast : Becomes(r, [pc |-> "schedule", set |-> B])
    BY <1>4 DEF CreateSchedule
  <2>2. [pc |-> "schedule", set |-> B] \in Local
    BY DEF Local
  <2> QED
    BY <1>4, <2>1, <2>2, RowsUnchanged, ConstatKept DEF CreateSchedule
<1>5. ASSUME NEW r \in Request, WriteSchedule(r)
      PROVE  ConstatNoticeInv'
  <2>1. RowsKept
    BY <1>5 DEF WriteSchedule, RowsKept, Created
  <2>2. DatedIsBroadcast'
    BY <1>5 DEF WriteSchedule, DatedIsBroadcast, ConstatNoticeInv, ConstatInv, Created
  <2>3. Becomes(r, Idle) /\ UNCHANGED notices /\ Idle.pc = "idle"
    BY <1>5 DEF WriteSchedule, Idle
  <2> QED
    BY <2>1, <2>2, <2>3, IdleTyped, ConstatKept
<1>6. ASSUME NEW r \in Request, Lancer(r)
      PROVE  ConstatNoticeInv'
  <2>1. PICK s \in Status, p \in {"count", "launch"} :
          Becomes(r, [pc |-> p, from |-> status, to |-> s])
    BY <1>6 DEF Lancer
  <2>2. [pc |-> p, from |-> status, to |-> s] \in Local
    BY DEF Local, TypeOK
  <2> QED
    BY <1>6, <2>1, <2>2, RowsUnchanged, ConstatKept DEF Lancer
<1>7. ASSUME NEW r \in Request, CountParts(r)
      PROVE  ConstatNoticeInv'
  <2>1. req[r] \in [pc : {"count", "launch"}, from : Status, to : Status]
    BY <1>7, LocalShape DEF CountParts, At, TypeOK
  <2>2. /\ [req[r] EXCEPT !.pc = "launch"] \in Local
        /\ [req[r] EXCEPT !.pc = "launch"].pc = "launch"
    BY <2>1 DEF Local
  <2> QED
    BY <1>7, <2>2, RowsUnchanged, ConstatKept DEF CountParts
<1>8. ASSUME NEW r \in Request, WriteLaunch(r)
      PROVE  ConstatNoticeInv'
  <2>1. Becomes(r, Idle) /\ UNCHANGED notices /\ Idle.pc = "idle"
    BY <1>8 DEF WriteLaunch, Idle
  <2>2. CASE UNCHANGED broadcast
    BY <2>1, <2>2, IdleTyped, RowsUnchanged, ConstatKept
  <2>3. CASE broadcast' = CancelPlanned
    <3>1. RowsKept
      BY <2>3, CancelTyped DEF RowsKept
    <3>2. DatedIsBroadcast'
      <4>1. ASSUME NEW b \in Broadcast, CancelPlanned[b] # None,
                   CancelPlanned[b].actual # None
            PROVE  CancelPlanned[b].status = "BROADCASTED"
        <5>1. Created(b) /\ broadcast[b].actual # None
          BY <4>1, CancelTyped
        <5>2. broadcast[b].status = "BROADCASTED"
          BY <5>1 DEF ConstatNoticeInv, ConstatInv, DatedIsBroadcast
        <5> QED
          BY <5>1, <5>2, CancelTyped
      <4> QED
        BY <2>3, <4>1 DEF DatedIsBroadcast, Created
    <3> QED
      BY <2>1, <3>1, <3>2, IdleTyped, ConstatKept
  <2> QED
    BY <1>8, <2>2, <2>3 DEF WriteLaunch
<1>9. ASSUME NEW r \in Request, NEW b \in Broadcast,
             UpdateConstat(r, b) \/ RecordDetection(r, b)
      PROVE  ConstatNoticeInv'
  <2>1. Created(b)
    BY <1>9 DEF UpdateConstat, RecordDetection
  <2>2. PICK h \in Heard \cup {None}, a \in Audio \cup {None}, w \in BOOLEAN :
          Becomes(r, [pc |-> "constat", b |-> b, actual |-> h, audio |-> a,
                      webhook |-> w])
    BY <1>9 DEF UpdateConstat, RecordDetection
  <2>3. /\ req'[r].pc = "constat" /\ req'[r].b = b
        /\ \A s \in Request \ {r} : req'[s] = req[s]
    BY <2>2 DEF Becomes, TypeOK
  <2>4. UNCHANGED <<broadcast, notices>>
    BY <1>9 DEF UpdateConstat, RecordDetection
  <2>5. ConstatCreated'
    BY <2>1, <2>3, <2>4 DEF ConstatCreated, ConstatNoticeInv, ConstatInv, Created, At
  <2>6. NoticeDue'
    BY <2>3, <2>4 DEF NoticeDue, ConstatNoticeInv, Created, At
  <2> QED
    BY <2>4, <2>5, <2>6, RowsUnchanged DEF ConstatNoticeInv, ConstatInv
<1>10. ASSUME NEW r \in Request, ApplyConstat(r)
       PROVE  ConstatNoticeInv'
  <2> DEFINE b == req[r].b
  <2>1. req[r] \in [pc : {"constat"}, b : Broadcast, actual : Heard \cup {None},
                    audio : Audio \cup {None}, webhook : BOOLEAN]
    BY <1>10, LocalShape DEF ApplyConstat, At, TypeOK
  <2>2. Created(b)
    BY <1>10 DEF ApplyConstat, ConstatNoticeInv, ConstatInv, ConstatCreated
  <2>3. CASE broadcast[b].actual # None
    BY <1>10, <2>3, IdleTyped, RowsUnchanged, ConstatKept
    DEF ApplyConstat, AfterConstat, Idle
  <2>4. CASE broadcast[b].actual = None
    <3>1. b \in Broadcast /\ broadcast[b] \in Row
      BY <2>1, <2>2 DEF Created, TypeOK
    <3>2. /\ Constated(broadcast[b], req[r]) \in Row
          /\ Constated(broadcast[b], req[r]).status = "BROADCASTED"
          /\ Constated(broadcast[b], req[r]).actual = req[r].actual
      BY <2>1, <3>1 DEF Constated, Row, BroadcastStatus
    <3>3. /\ broadcast'[b] = Constated(broadcast[b], req[r])
          /\ \A c \in Broadcast \ {b} : broadcast'[c] = broadcast[c]
          /\ UNCHANGED notices
      BY <1>10, <2>4, <3>1 DEF ApplyConstat, TypeOK
    <3>4. broadcast'[b] # None
      BY <3>2, <3>3, NoneAssumption
    <3>5. "late" # None
      BY NoneAssumption DEF Heard
    <3>6. RowsKept
      BY <2>4, <3>3, <3>4, <3>5 DEF RowsKept, Created
    <3>7. DatedIsBroadcast'
      BY <3>2, <3>3 DEF DatedIsBroadcast, ConstatNoticeInv, ConstatInv, Created
    <3>8. CASE req[r].webhook /\ req[r].actual = "late"
      <4>1. Becomes(r, [pc |-> "notify", b |-> b])
        BY <1>10, <2>4, <3>8 DEF ApplyConstat, AfterConstat
      <4>2. /\ req'[r] = [pc |-> "notify", b |-> b]
            /\ \A s \in Request \ {r} : req'[s] = req[s]
        BY <4>1 DEF Becomes, TypeOK
      <4>3. /\ notices[b] = 0
            /\ \A s \in Request : At(s, "notify") => req[s].b # b
        BY <2>4, <3>1, <3>5 DEF ConstatNoticeInv, NoticeDue
      <4>4. ConstatCreated'
        <5>1. \A s \in Request : At(s, "constat") => req[s].b \in Broadcast
          BY LocalShape DEF At, TypeOK
        <5> QED
          BY <3>6, <4>2, <5>1
          DEF ConstatCreated, ConstatNoticeInv, ConstatInv, RowsKept, Created, At
      <4>5. NoticeDue'
        <5>1. \A s \in Request : At(s, "notify") => req[s].b \in Broadcast
          BY LocalShape DEF At, TypeOK
        <5>2. broadcast'[b].actual = "late"
          BY <3>2, <3>3, <3>8
        <5>3. \A c \in Broadcast : notices'[c] # 0 =>
                broadcast'[c] # None /\ notices'[c] = 1 /\ broadcast'[c].actual = "late"
          BY <3>3, <3>6 DEF ConstatNoticeInv, NoticeDue, RowsKept, Created
        <5>4. \A s \in Request : req'[s].pc = "notify" =>
                /\ broadcast'[req'[s].b] # None
                /\ broadcast'[req'[s].b].actual = "late"
                /\ notices'[req'[s].b] = 0
          BY <3>3, <3>4, <3>6, <4>2, <4>3, <5>1, <5>2
          DEF ConstatNoticeInv, NoticeDue, RowsKept, Created, At
        <5>5. \A s, t \in Request :
                req'[s].pc = "notify" /\ req'[t].pc = "notify" /\ req'[s].b = req'[t].b
                  => s = t
          BY <4>2, <4>3 DEF ConstatNoticeInv, NoticeDue, At
        <5> QED
          BY <5>3, <5>4, <5>5 DEF NoticeDue, Created, At
      <4> QED
        BY <3>7, <4>4, <4>5 DEF ConstatNoticeInv, ConstatInv
    <3>9. CASE ~(req[r].webhook /\ req[r].actual = "late")
      <4>1. Becomes(r, Idle) /\ Idle.pc = "idle"
        BY <1>10, <3>9 DEF ApplyConstat, AfterConstat, Idle
      <4> QED
        BY <3>3, <3>6, <3>7, <4>1, IdleTyped, ConstatKept
    <3> QED
      BY <3>8, <3>9
  <2> QED
    BY <2>3, <2>4
<1>11. ASSUME NEW r \in Request, NotifyDeviation(r)
       PROVE  ConstatNoticeInv'
  <2>1. /\ req[r].b \in Broadcast
        /\ \A s \in Request : At(s, "notify") => req[s].b \in Broadcast
    BY <1>11, LocalShape DEF NotifyDeviation, At, TypeOK
  <2>2. /\ req'[r] = Idle /\ Idle.pc = "idle"
        /\ \A s \in Request \ {r} : req'[s] = req[s]
    BY <1>11 DEF NotifyDeviation, Becomes, TypeOK, Idle
  <2>3. /\ notices'[req[r].b] = 1
        /\ \A c \in Broadcast \ {req[r].b} : notices'[c] = notices[c]
        /\ UNCHANGED broadcast
    BY <1>11, <2>1 DEF NotifyDeviation, TypeOK, ConstatNoticeInv, NoticeDue
  <2>4. ConstatCreated'
    BY <2>2, <2>3 DEF ConstatCreated, ConstatNoticeInv, ConstatInv, Created, At
  <2>5. \A s \in Request \ {r} : At(s, "notify") => req[s].b # req[r].b
    BY <1>11 DEF NotifyDeviation, ConstatNoticeInv, NoticeDue
  <2>6. NoticeDue'
    BY <1>11, <2>1, <2>2, <2>3, <2>5
    DEF NotifyDeviation, NoticeDue, ConstatNoticeInv, Created, At
  <2> QED
    BY <2>3, <2>4, <2>6, RowsUnchanged DEF ConstatNoticeInv, ConstatInv
<1>12. CASE Tick \/ UNCHANGED vars
  BY <1>12 DEF Tick, vars, ConstatNoticeInv, ConstatInv, DatedIsBroadcast,
               ConstatCreated, NoticeDue, Created, At
<1> QED
  BY <1>1, <1>2, <1>3, <1>4, <1>5, <1>6, <1>7, <1>8, <1>9, <1>10, <1>11, <1>12
  DEF Next, Step, AssociateChannels, CreatePrestation, UpsertDetails,
      SelectChannels, Part

-----------------------------------------------------------------------------
(* The specification.                                                      *)

LEMMA InitIInv == Init => IInv
<1> SUFFICES ASSUME Init
             PROVE  IInv
  OBVIOUS
<1>1. TypeOK
  BY IdleTyped, DayAssumption DEF Init, TypeOK, Status, Day
<1>2. \A r \in Request : req[r].pc = "idle"
  BY DEF Init, Idle
<1>3. LaunchInv
  BY <1>2 DEF Init, LaunchInv, LaunchChecked, LaunchedIsComplete, At
<1>4. ConstatNoticeInv
  BY <1>2 DEF Init, ConstatNoticeInv, ConstatInv, DatedIsBroadcast, ConstatCreated,
              NoticeDue, Created, At
<1> QED
  BY <1>1, <1>3, <1>4 DEF IInv

LEMMA StepIInv == IInv /\ [Next]_vars => IInv'
BY StepTypeOK, StepLaunch, StepConstat DEF IInv, ConstatNoticeInv, ConstatInv

\* The inductive invariant of the module.
LEMMA Inductive == Spec => []IInv
BY InitIInv, StepIInv, PTL DEF Spec

\* Every variable keeps its type: no request mixes up what another has read.
THEOREM TypeCorrect == Spec => []TypeOK
<1>1. IInv => TypeOK
  BY DEF IInv
<1> QED
  BY <1>1, Inductive, PTL

\* lancer: a campaign that is live has every part validateCampaignComplete
\* asks for, though the parts were counted before the status was written.
THEOREM LaunchComplete == Spec => []LaunchedIsComplete
<1>1. IInv => LaunchedIsComplete
  BY DEF IInv, LaunchInv
<1> QED
  BY <1>1, Inductive, PTL

\* recordDetection: however many detections race or are replayed, one
\* deviation notice at most leaves for a broadcast, and only if it was late.
THEOREM NoticeOnce == Spec => []OneDeviationNotice
<1>1. IInv => OneDeviationNotice
  BY DEF IInv, ConstatNoticeInv, NoticeDue, OneDeviationNotice
<1> QED
  BY <1>1, Inductive, PTL

\* Whatever a step writes, it writes a legal transition: only lancer's guarded
\* updateMany writes the status.
LEMMA StepLifecycle ==
  IInv /\ [Next]_vars => (status' # status => <<status, status'>> \in Transitions)
<1> SUFFICES ASSUME IInv, [Next]_vars, status' # status
             PROVE  <<status, status'>> \in Transitions
  OBVIOUS
<1>1. PICK r \in Request : WriteLaunch(r)
  BY DEF Next, Step, vars, campaignVars, Update, WriteUpdate, AssociateChannels,
         CreatePrestation, UpsertDetails, SelectChannels, StartPart, WritePart,
         CreateSchedule, WriteSchedule, Lancer, CountParts, ApplyConstat,
         NotifyDeviation, Abandon, UpdateConstat, RecordDetection, Tick
<1>2. status = req[r].from /\ status' = req[r].to
  BY <1>1 DEF WriteLaunch
<1> QED
  BY <1>1, <1>2 DEF WriteLaunch, IInv, LaunchInv, LaunchChecked, At

\* CampaignStateMachine is obeyed by launches and cancellations in flight at
\* the same time: the updateMany on the status read is what makes it so.
THEOREM Lifecycle == Spec => LifecycleFollowed
<1>1. IInv /\ [Next]_vars =>
        [status' # status => <<status, status'>> \in Transitions]_vars
  BY StepLifecycle
<1> QED
  BY <1>1, Inductive, PTL DEF Spec, LifecycleFollowed

\* A step moves the dates of a draft or of nothing.
LEMMA StepFrozen == [Next]_vars => (window' # window => status = "DRAFT")
<1> SUFFICES ASSUME [Next]_vars, window' # window
             PROVE  status = "DRAFT"
  OBVIOUS
<1>1. PICK r \in Request : WriteUpdate(r)
  BY DEF Next, Step, vars, campaignVars, Update, WriteLaunch, AssociateChannels,
         CreatePrestation, UpsertDetails, SelectChannels, StartPart, WritePart,
         CreateSchedule, WriteSchedule, Lancer, CountParts, ApplyConstat,
         NotifyDeviation, Abandon, UpdateConstat, RecordDetection, Tick
<1> QED
  BY <1>1 DEF WriteUpdate

\* update: no date of a campaign moves once someone has launched it.
THEOREM Frozen == Spec => FrozenAfterDraft
<1>1. [Next]_vars => [window' # window => status = "DRAFT"]_vars
  BY StepFrozen
<1> QED
  BY <1>1, PTL DEF Spec, FrozenAfterDraft

\* What may happen to a row that exists, in one step.
FinalRows ==
  \A b \in Broadcast : Created(b) =>
    /\ broadcast[b].actual # None => broadcast'[b] = broadcast[b]
    /\ broadcast[b].status = "BROADCASTED" => broadcast'[b].status = "BROADCASTED"

LEMMA StepFinal == IInv /\ [Next]_vars => FinalRows
<1> SUFFICES ASSUME IInv, [Next]_vars
             PROVE  FinalRows
  OBVIOUS
<1>1. CASE UNCHANGED broadcast
  BY <1>1 DEF FinalRows
<1>2. ASSUME NEW r \in Request, WriteSchedule(r)
      PROVE  FinalRows
  BY <1>2 DEF WriteSchedule, FinalRows
<1>3. ASSUME NEW r \in Request, WriteLaunch(r)
      PROVE  FinalRows
  <2>1. CASE broadcast' = CancelPlanned
    <3>1. \A b \in Broadcast : Created(b) /\ broadcast[b].actual # None =>
            broadcast[b].status = "BROADCASTED"
      BY DEF IInv, ConstatNoticeInv, ConstatInv, DatedIsBroadcast
    <3> QED
      BY <2>1, <3>1, CancelTyped DEF FinalRows, IInv
  <2> QED
    BY <1>1, <1>3, <2>1 DEF WriteLaunch
<1>4. ASSUME NEW r \in Request, ApplyConstat(r)
      PROVE  FinalRows
  BY <1>4 DEF ApplyConstat, Constated, FinalRows, IInv, TypeOK
<1> QED
  BY <1>1, <1>2, <1>3, <1>4
  DEF Next, Step, vars, campaignVars, Update, WriteUpdate, AssociateChannels,
      CreatePrestation, UpsertDetails, SelectChannels, StartPart, WritePart,
      CreateSchedule, Lancer, CountParts, NotifyDeviation, Abandon,
      UpdateConstat, RecordDetection, Tick

\* updateConstat, recordDetection and lancer: a dated constat is never
\* rewritten, and what was broadcast stays so.
THEOREM ConstatFinal == Spec => ConstatIsFinal
<1>1. IInv /\ [Next]_vars => [FinalRows]_vars
  BY StepFinal
<1> QED
  BY <1>1, Inductive, PTL DEF Spec, ConstatIsFinal, FinalRows

=============================================================================
