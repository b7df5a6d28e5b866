--------------------------- MODULE ServicesProofs ---------------------------
(***************************************************************************)
(* The services that share no state, for every set of accounts, tokens,    *)
(* requests, visitors, media and instances, and every value of the limits  *)
(* and the bounds: the types of all of them, and what each of them         *)
(* promises.                                                               *)
(***************************************************************************)
EXTENDS Services, Sequences, TLAPS, FiniteSetTheorems, NaturalsInduction, WellFoundedInduction

-----------------------------------------------------------------------------
(* A behaviour of the services is one of each.                             *)

LEMMA SocialPart == ServicesSpec => Social!Init /\ [][Social!Next]_(Social!vars)
<1>1. ServicesInit => Social!Init
  BY DEF ServicesInit
<1>2. [ServicesNext]_services => [Social!Next]_(Social!vars)
  BY DEF ServicesNext, services, social, assistant, simulations, media, quotas, rules,
         engine, demo, Social!vars, Social!oauth, Social!tokens, Social!queue, Social!notices
<1> QED BY <1>1, <1>2, PTL DEF ServicesSpec

LEMMA CopilotPart == ServicesSpec => Copilot!Init /\ [][Copilot!Next]_(Copilot!vars)
<1>1. ServicesInit => Copilot!Init
  BY DEF ServicesInit
<1>2. [ServicesNext]_services => [Copilot!Next]_(Copilot!vars)
  BY DEF ServicesNext, services, social, assistant, simulations, media, quotas, rules,
         engine, demo, Copilot!vars, Copilot!talk, Copilot!advice
<1> QED BY <1>1, <1>2, PTL DEF ServicesSpec

LEMMA SimPart == ServicesSpec => Sim!Init /\ [][Sim!Next]_(Sim!vars)
<1>1. ServicesInit => Sim!Init
  BY DEF ServicesInit
<1>2. [ServicesNext]_services => [Sim!Next]_(Sim!vars)
  BY DEF ServicesNext, services, social, assistant, simulations, media, quotas, rules,
         engine, demo, Sim!vars, Sim!campaign, Sim!rows
<1> QED BY <1>1, <1>2, PTL DEF ServicesSpec

LEMMA FilesPart == ServicesSpec => Files!Init /\ [][Files!Next]_(Files!vars)
<1>1. ServicesInit => Files!Init
  BY DEF ServicesInit
<1>2. [ServicesNext]_services => [Files!Next]_(Files!vars)
  BY DEF ServicesNext, services, social, assistant, simulations, media, quotas, rules,
         engine, demo, Files!vars
<1> QED BY <1>1, <1>2, PTL DEF ServicesSpec

LEMMA QuotaPart == ServicesSpec => Quota!Init /\ [][Quota!Next]_(Quota!vars)
<1>1. ServicesInit => Quota!Init
  BY DEF ServicesInit
<1>2. [ServicesNext]_services => [Quota!Next]_(Quota!vars)
  BY DEF ServicesNext, services, social, assistant, simulations, media, quotas, rules,
         engine, demo, Quota!vars, Quota!public, Quota!throttle
<1> QED BY <1>1, <1>2, PTL DEF ServicesSpec

LEMMA RulesPart == ServicesSpec => Rules!Init /\ [][Rules!Next]_(Rules!vars)
<1>1. ServicesInit => Rules!Init
  BY DEF ServicesInit
<1>2. [ServicesNext]_services => [Rules!Next]_(Rules!vars)
  BY DEF ServicesNext, services, social, assistant, simulations, media, quotas, rules,
         engine, demo, Rules!vars
<1> QED BY <1>1, <1>2, PTL DEF ServicesSpec

LEMMA EnginePart == ServicesSpec => Engine!Init /\ [][Engine!Next]_(Engine!vars)
<1>1. ServicesInit => Engine!Init
  BY DEF ServicesInit
<1>2. [ServicesNext]_services => [Engine!Next]_(Engine!vars)
  BY DEF ServicesNext, services, social, assistant, simulations, media, quotas, rules,
         engine, demo, Engine!vars
<1> QED BY <1>1, <1>2, PTL DEF ServicesSpec

LEMMA SitePart == ServicesSpec => Site!Init /\ [][Site!Next]_(Site!vars)
<1>1. ServicesInit => Site!Init
  BY DEF ServicesInit
<1>2. [ServicesNext]_services => [Site!Next]_(Site!vars)
  BY DEF ServicesNext, services, social, assistant, simulations, media, quotas, rules,
         engine, demo, Site!vars, Site!data
<1> QED BY <1>1, <1>2, PTL DEF ServicesSpec

-----------------------------------------------------------------------------
(* The media.                                                              *)

\* What a confirmation holds where it is.
LEMMA MediaLocal ==
  ASSUME Files!TypeOK, NEW r \in Request, ~Files!At(r, "idle")
  PROVE  mReq[r] \in [pc : {"head", "delete", "update"}, media : MediaId]
BY DEF Files!TypeOK, Files!Idle, Files!At

\* A step of one confirmation.
LEMMA MediaStepped ==
  ASSUME Files!TypeOK, NEW r \in Request,
         NEW q \in {Files!Idle} \cup [pc : {"head", "delete", "update"}, media : MediaId],
         Files!Becomes(r, q)
  PROVE  /\ mReq' \in [Request -> {Files!Idle} \cup
                         [pc : {"head", "delete", "update"}, media : MediaId]]
         /\ mReq'[r] = q /\ \A p \in Request \ {r} : mReq'[p] = mReq[p]
BY DEF Files!TypeOK, Files!Becomes

\* A confirmed media, unless two confirmations of it have met, has the file that was
\* checked or one put after the check, and nobody confirms it; what a single
\* confirmation has accepted is there, or what was put since; and two confirmations
\* of one media have met.
Met == \A r, p \in Request :
         ~Files!At(r, "idle") /\ ~Files!At(p, "idle") /\ mReq[r].media = mReq[p].media
         /\ mReq[r].media \notin mCrossed => r = p
GoodIsThere ==
  \A r \in Request : Files!At(r, "update") /\ mReq[r].media \notin mCrossed =>
    /\ object[mReq[r].media] # None
    /\ mReq[r].media \notin mReplaced => object[mReq[r].media] = "good"
ConfirmedByNone ==
  \A r \in Request : ~Files!At(r, "idle") /\ mReq[r].media \notin mCrossed =>
    status[mReq[r].media] = "PENDING"
MediaInv ==
  Files!TypeOK /\ Met /\ GoodIsThere /\ ConfirmedByNone /\ ConfirmedWasChecked

LEMMA MediaInit == Files!Init => MediaInv
BY NoneAssumption, BoundsAssumption
   DEF Files!Init, MediaInv, Files!TypeOK, Met, GoodIsThere, ConfirmedByNone,
       ConfirmedWasChecked, Files!ConfirmedWasChecked, Files!Idle, Files!At

LEMMA MediaStep ==
  ASSUME MediaInv, [Files!Next]_(Files!vars) PROVE MediaInv'
<1> USE DEF MediaInv
<1> SUFFICES ASSUME Files!Next PROVE MediaInv'
  BY DEF Files!vars, Files!TypeOK, Met, GoodIsThere, ConfirmedByNone, ConfirmedWasChecked,
         Files!ConfirmedWasChecked, Files!At
<1>1. ASSUME NEW m \in MediaId, Files!CreatePresignedUpload(m)
      PROVE  MediaInv'
  BY <1>1, NoneAssumption
     DEF Files!CreatePresignedUpload, Files!TypeOK, Met, GoodIsThere, ConfirmedByNone,
         ConfirmedWasChecked, Files!ConfirmedWasChecked, Files!At
<1>2. ASSUME NEW m \in MediaId, Files!Put(m)
      PROVE  MediaInv'
  BY <1>2, NoneAssumption, BoundsAssumption
     DEF Files!Put, Files!Checked, Files!TypeOK, Met, GoodIsThere, ConfirmedByNone,
         ConfirmedWasChecked, Files!ConfirmedWasChecked, Files!At
<1>3. ASSUME NEW m \in MediaId, Files!ExpireUrl(m)
      PROVE  MediaInv'
  BY <1>3 DEF Files!ExpireUrl, Files!TypeOK, Met, GoodIsThere, ConfirmedByNone,
         ConfirmedWasChecked, Files!ConfirmedWasChecked, Files!At
<1>4. ASSUME NEW r \in Request, NEW m \in MediaId, Files!ConfirmUpload(r, m)
      PROVE  MediaInv'
  <2> DEFINE q == [pc |-> "head", media |-> m]
  <2>1. q \in {Files!Idle} \cup [pc : {"head", "delete", "update"}, media : MediaId]
    BY <1>4 DEF Files!ConfirmUpload, Files!At, Files!Idle
  <2>2. Files!Becomes(r, q)
    BY <1>4 DEF Files!ConfirmUpload, Files!Goes
  <2>3. q.pc = "head" /\ q.media = m
    BY <1>4 DEF Files!ConfirmUpload, Files!At, Files!Idle
  <2> HIDE DEF q
  <2>4. /\ mReq' \in [Request -> {Files!Idle} \cup
                         [pc : {"head", "delete", "update"}, media : MediaId]]
        /\ mReq'[r] = q /\ \A p \in Request \ {r} : mReq'[p] = mReq[p]
    BY <2>1, <2>2, MediaStepped
  <2> QED BY <1>4, <2>1, <2>3, <2>4, MediaLocal, NoneAssumption
          DEF Files!ConfirmUpload, Files!TypeOK, Met, GoodIsThere, ConfirmedByNone,
         ConfirmedWasChecked, Files!ConfirmedWasChecked, Files!At, Files!Idle
<1>5. ASSUME NEW r \in Request, Files!HeadObject(r)
      PROVE  MediaInv'
  <2>1. CASE Files!Becomes(r, Files!Idle)
    <3>1. /\ mReq' \in [Request -> {Files!Idle} \cup
                           [pc : {"head", "delete", "update"}, media : MediaId]]
          /\ mReq'[r] = Files!Idle /\ \A p \in Request \ {r} : mReq'[p] = mReq[p]
      BY <2>1, MediaStepped
    <3> QED BY <1>5, <3>1, MediaLocal
            DEF Files!HeadObject, Files!TypeOK, Met, GoodIsThere, ConfirmedByNone,
              ConfirmedWasChecked, Files!ConfirmedWasChecked, Files!At, Files!Idle
  <2>2. CASE \E p \in {"delete", "update"} :
               Files!Goes(r, p) /\ (p = "update" => object[mReq[r].media] = "good")
    <3> PICK p \in {"delete", "update"} :
               Files!Goes(r, p) /\ (p = "update" => object[mReq[r].media] = "good")
      BY <2>2
    <3> DEFINE q == [mReq[r] EXCEPT !.pc = p]
    <3>1. /\ q \in {Files!Idle} \cup [pc : {"head", "delete", "update"}, media : MediaId]
          /\ q.pc = p /\ q.media = mReq[r].media
      BY MediaLocal, <1>5 DEF Files!HeadObject, Files!At
    <3>2. Files!Becomes(r, q)
      BY DEF Files!Goes
    <3> HIDE DEF q
    <3>3. /\ mReq' \in [Request -> {Files!Idle} \cup
                           [pc : {"head", "delete", "update"}, media : MediaId]]
          /\ mReq'[r] = q /\ \A x \in Request \ {r} : mReq'[x] = mReq[x]
      BY <3>1, <3>2, MediaStepped
    <3>4. /\ mReplaced' = mReplaced \ {mReq[r].media}
          /\ UNCHANGED <<status, object, url, puts, mCrossed>>
          /\ ~Files!At(r, "idle") /\ mReq[r].media \in MediaId
      BY <1>5, MediaLocal DEF Files!HeadObject, Files!At
    <3>5. Files!TypeOK'
      BY <3>3, <3>4, <3>1 DEF Files!TypeOK
    <3>6. \A x \in Request : (~Files!At(x, "idle"))' =>
            ~Files!At(x, "idle") /\ mReq'[x].media = mReq[x].media
      BY <3>1, <3>3, <3>4 DEF Files!At
    <3>7. Met' /\ ConfirmedByNone'
      BY <3>4, <3>6 DEF Met, ConfirmedByNone
    <3>8. GoodIsThere'
      <4> SUFFICES ASSUME NEW x \in Request, Files!At(x, "update")',
                          mReq'[x].media \notin mCrossed
                   PROVE  /\ object[mReq'[x].media] # None
                          /\ mReq'[x].media \notin mReplaced' =>
                               object[mReq'[x].media] = "good"
        BY <3>4 DEF GoodIsThere
      <4>1. CASE x = r
        BY <3>1, <3>3, <4>1, NoneAssumption DEF Files!At
      <4>2. CASE x # r
        <5>1. Files!At(x, "update") /\ mReq'[x] = mReq[x] /\ ~Files!At(x, "idle")
          BY <3>3, <4>2 DEF Files!At
        <5>2. mReq[x].media # mReq[r].media
          BY <3>4, <4>2, <5>1 DEF Met
        <5> QED BY <3>4, <5>1, <5>2 DEF GoodIsThere
      <4> QED BY <4>1, <4>2
    <3>9. ConfirmedWasChecked'
      <4>1. \A m \in MediaId : status[m] = "CONFIRMED" /\ m \notin mCrossed =>
              m # mReq[r].media
        BY <3>4 DEF ConfirmedByNone
      <4> QED BY <3>4, <4>1 DEF ConfirmedWasChecked, Files!ConfirmedWasChecked
    <3> QED BY <3>5, <3>7, <3>8, <3>9
  <2> QED BY <1>5, <2>1, <2>2, NoneAssumption DEF Files!HeadObject
<1>6. ASSUME NEW r \in Request, Files!DeleteObject(r)
      PROVE  MediaInv'
  <2>1. /\ mReq' \in [Request -> {Files!Idle} \cup
                         [pc : {"head", "delete", "update"}, media : MediaId]]
        /\ mReq'[r] = Files!Idle /\ \A p \in Request \ {r} : mReq'[p] = mReq[p]
    BY <1>6, MediaStepped DEF Files!DeleteObject
  <2>2. ~Files!At(r, "idle") /\ mReq[r].media \in MediaId
    BY <1>6, MediaLocal DEF Files!DeleteObject, Files!At
  <2> QED BY <1>6, <2>1, <2>2, MediaLocal
          DEF Files!DeleteObject, Files!TypeOK, Met, GoodIsThere, ConfirmedByNone,
         ConfirmedWasChecked, Files!ConfirmedWasChecked, Files!At, Files!Idle
<1>7. ASSUME NEW r \in Request, Files!Update(r)
      PROVE  MediaInv'
  <2>1. /\ mReq' \in [Request -> {Files!Idle} \cup
                         [pc : {"head", "delete", "update"}, media : MediaId]]
        /\ mReq'[r] = Files!Idle /\ \A p \in Request \ {r} : mReq'[p] = mReq[p]
    BY <1>7, MediaStepped DEF Files!Update
  <2>2. ~Files!At(r, "idle") /\ mReq[r].media \in MediaId
    BY <1>7, MediaLocal DEF Files!Update, Files!At
  <2> QED BY <1>7, <2>1, <2>2, MediaLocal, NoneAssumption
          DEF Files!Update, Files!TypeOK, Met, GoodIsThere, ConfirmedByNone,
         ConfirmedWasChecked, Files!ConfirmedWasChecked, Files!At, Files!Idle
<1>8. ASSUME NEW r \in Request, Files!Fail(r)
      PROVE  MediaInv'
  <2>1. /\ mReq' \in [Request -> {Files!Idle} \cup
                         [pc : {"head", "delete", "update"}, media : MediaId]]
        /\ mReq'[r] = Files!Idle /\ \A p \in Request \ {r} : mReq'[p] = mReq[p]
    BY <1>8, MediaStepped DEF Files!Fail
  <2>2. ~Files!At(r, "idle") /\ mReq[r].media \in MediaId
    BY <1>8, MediaLocal DEF Files!Fail, Files!At
  <2> QED BY <1>8, <2>1, <2>2, MediaLocal
          DEF Files!Fail, Files!TypeOK, Met, GoodIsThere, ConfirmedByNone,
         ConfirmedWasChecked, Files!ConfirmedWasChecked, Files!At, Files!Idle
<1> QED BY <1>1, <1>2, <1>3, <1>4, <1>5, <1>6, <1>7, <1>8 DEF Files!Next

\* A confirmed media has a file, as long as it is confirmed by one request at a time:
\* what that request has found good stays until it is confirmed, because only a
\* refusal removes a file, and nobody looks at a confirmed media again.  The file is
\* the one found good, unless the client has put another since: then any.
THEOREM ConfirmedKept == ServicesSpec => []ConfirmedWasChecked
<1>1. MediaInv => ConfirmedWasChecked
  BY DEF MediaInv
<1> QED BY <1>1, FilesPart, MediaInit, MediaStep, PTL

-----------------------------------------------------------------------------
(* The linked accounts: the types.                                         *)

\* What a request and the worker hold where they are.
LEMMA SocialLocal ==
  ASSUME Social!TypeOK, NEW r \in Request
  PROVE  /\ req[r] \in Social!Local
         /\ Social!At(r, "exchange") \/ Social!At(r, "upsert") => req[r].grant \in Grant
         /\ Social!At(r, "upsert") \/ Social!At(r, "queue") => req[r].account \in Account
<1>1. req[r] \in Social!Local
  BY DEF Social!TypeOK
<1> QED BY <1>1 DEF Social!Local, Social!Idle, Social!At

LEMMA SocialWorker ==
  ASSUME Social!TypeOK, worker # Social!Idle
  PROVE  /\ worker \in [pc : {"call", "expire", "tell"}, job : Social!JobId,
                        account : Account, token : Grant]
         /\ worker.pc \in {"call", "expire", "tell"} /\ worker.job \in Social!JobId
         /\ worker.account \in Account /\ worker.token \in Grant
BY DEF Social!TypeOK

LEMMA SocialCron ==
  ASSUME Social!TypeOK, cron # Social!Idle
  PROVE  /\ cron \in [pc : {"found", "tell"}, left : SUBSET (Account \X Grant)]
         /\ cron.pc \in {"found", "tell"} /\ cron.left \in SUBSET (Account \X Grant)
BY DEF Social!TypeOK

\* One more notice.
LEMMA SocialTold ==
  ASSUME NEW n \in 0..2
  PROVE  Social!Twice(n) \in 0..2 /\ Social!Twice(n) # 0
         /\ (n = 0 => Social!Twice(n) = 1)
BY DEF Social!Twice

\* A step of one request.
LEMMA SocialStepped ==
  ASSUME Social!TypeOK, NEW r \in Request, NEW q \in Social!Local, Social!Becomes(r, q)
  PROVE  /\ req' \in [Request -> Social!Local]
         /\ req'[r] = q /\ \A p \in Request \ {r} : req'[p] = req[p]
BY DEF Social!TypeOK, Social!Becomes

\* What is about to be written lives; the job at work is there; what was found has
\* a row, and rows stay.
UpsertLives == \A r \in Request : Social!At(r, "upsert") => life[req[r].grant] # None
TakenIsThere == worker # Social!Idle => sync[worker.job] # None
FoundLinked == cron # Social!Idle => \A p \in cron.left : acct[p[1]] # None
SocialTyped == Social!TypeOK /\ UpsertLives /\ TakenIsThere /\ FoundLinked

LEMMA SocialTypedInit == Social!Init => SocialTyped
BY BoundsAssumption
   DEF Social!Init, SocialTyped, Social!TypeOK, UpsertLives, TakenIsThere, FoundLinked,
       Social!Idle, Social!At, Social!Local

\* A step that gives a job back, or away.
LEMMA SocialDone ==
  ASSUME SocialTyped, worker # Social!Idle, Social!Done(worker.job)
  PROVE  /\ worker' = Social!Idle
         /\ sync' \in [Social!JobId -> [account : Account, tries : 0..(MaxAttempts - 1)]
                                        \cup {None}]
BY SocialWorker DEF SocialTyped, Social!TypeOK, Social!Done

LEMMA SocialTypedStep ==
  ASSUME SocialTyped, [Social!Next]_(Social!vars) PROVE SocialTyped'
<1> USE DEF SocialTyped
<1> USE BoundsAssumption, NoneAssumption
<1>1. ASSUME UNCHANGED Social!vars PROVE SocialTyped'
  BY <1>1 DEF Social!vars, Social!oauth, Social!tokens, Social!queue, Social!notices,
     Social!TypeOK, UpsertLives, TakenIsThere, FoundLinked, Social!At
<1>2. ASSUME NEW g \in Grant, Social!Age(g) PROVE SocialTyped'
  <2>1. life' \in [Grant -> Social!Life \cup {None}]
        /\ \A h \in Grant : life[h] # None => life'[h] # None
    BY <1>2 DEF Social!Age, Social!TypeOK, Social!Life
  <2> QED BY <1>2, <2>1, SocialLocal
          DEF Social!Age, Social!oauth, Social!queue, Social!notices, Social!TypeOK,
              Social!Row, UpsertLives, TakenIsThere, FoundLinked, Social!At
<1>3. ASSUME NEW g \in Grant, Social!Invalidate(g) PROVE SocialTyped'
  BY <1>3 DEF Social!Invalidate, Social!oauth, Social!queue, Social!notices,
     Social!TypeOK, UpsertLives, TakenIsThere, FoundLinked, Social!At
<1>4. ASSUME NEW g \in Grant, Social!StartOAuth(g) PROVE SocialTyped'
  BY <1>4 DEF Social!StartOAuth, Social!tokens, Social!queue, Social!notices,
     Social!TypeOK, UpsertLives, TakenIsThere, FoundLinked, Social!At
<1>5. ASSUME NEW g \in Grant, Social!Expire(g) PROVE SocialTyped'
  BY <1>5 DEF Social!Expire, Social!tokens, Social!queue, Social!notices,
     Social!TypeOK, UpsertLives, TakenIsThere, FoundLinked, Social!At
<1>6. ASSUME NEW r \in Request, NEW g \in Grant, Social!Callback(r, g) PROVE SocialTyped'
  <2> DEFINE q == [pc |-> "exchange", grant |-> g]
  <2>1. q \in Social!Local /\ q.pc = "exchange"
    BY DEF Social!Local
  <2>2. Social!Becomes(r, q)
    BY <1>6 DEF Social!Callback
  <2> HIDE DEF q
  <2>3. /\ req' \in [Request -> Social!Local]
        /\ req'[r] = q /\ \A p \in Request \ {r} : req'[p] = req[p]
    BY <2>1, <2>2, SocialStepped
  <2> QED BY <1>6, <2>1, <2>3
          DEF Social!Callback, Social!tokens, Social!queue, Social!notices,
              Social!TypeOK, UpsertLives, TakenIsThere, FoundLinked, Social!At
<1>7. ASSUME NEW r \in Request, NEW a \in Account, Social!Exchange(r, a)
      PROVE  SocialTyped'
  <2> DEFINE q == [pc |-> "upsert", grant |-> req[r].grant, account |-> a]
  <2>1. req[r].grant \in Grant
    BY <1>7, SocialLocal DEF Social!Exchange
  <2>2. q \in Social!Local /\ q.pc = "upsert" /\ q.grant = req[r].grant
    BY <2>1 DEF Social!Local
  <2>3. Social!Becomes(r, q)
    BY <1>7 DEF Social!Exchange
  <2> HIDE DEF q
  <2>4. /\ req' \in [Request -> Social!Local]
        /\ req'[r] = q /\ \A p \in Request \ {r} : req'[p] = req[p]
    BY <2>2, <2>3, SocialStepped
  <2>5. /\ life' \in [Grant -> Social!Life \cup {None}]
        /\ life'[req[r].grant] # None
        /\ \A h \in Grant : life[h] # None => life'[h] # None
    BY <1>7, <2>1 DEF Social!Exchange, Social!TypeOK, Social!Life
  <2>6. Social!TypeOK'
    BY <1>7, <2>4, <2>5
       DEF Social!Exchange, Social!queue, Social!notices, Social!TypeOK, Social!Row
  <2>7. UpsertLives'
    BY <2>2, <2>4, <2>5, SocialLocal DEF UpsertLives, Social!At
  <2> QED BY <1>7, <2>6, <2>7
          DEF Social!Exchange, Social!queue, TakenIsThere, FoundLinked
<1>8. ASSUME NEW r \in Request, Social!Upsert(r) PROVE SocialTyped'
  <2> DEFINE q == [pc |-> "queue", account |-> req[r].account]
             x == [status |-> "ACTIVE", token |-> req[r].grant, reminded |-> FALSE]
  <2>1. req[r].grant \in Grant /\ req[r].account \in Account /\ life[req[r].grant] # None
    BY <1>8, SocialLocal DEF Social!Upsert, UpsertLives
  <2>2. q \in Social!Local /\ q.pc = "queue"
    BY <2>1 DEF Social!Local
  <2>3. Social!Becomes(r, q)
    BY <1>8 DEF Social!Upsert
  <2>4. x \in Social!Row /\ x.token = req[r].grant
    BY <2>1 DEF Social!Row, Social!Status
  <2>5. acct' = [acct EXCEPT ![req[r].account] = x]
    BY <1>8 DEF Social!Upsert
  <2> HIDE DEF q, x
  <2>6. /\ req' \in [Request -> Social!Local]
        /\ req'[r] = q /\ \A p \in Request \ {r} : req'[p] = req[p]
    BY <2>2, <2>3, SocialStepped
  <2>7. /\ acct' \in [Account -> Social!Row \cup {None}]
        /\ acct'[req[r].account] = x /\ x # None
        /\ \A b \in Account \ {req[r].account} : acct'[b] = acct[b]
    BY <2>1, <2>4, <2>5 DEF Social!TypeOK
  <2>8. Social!TypeOK'
    BY <1>8, <2>1, <2>4, <2>6, <2>7
       DEF Social!Upsert, Social!tokens, Social!queue, Social!notices, Social!TypeOK
  <2>9. UpsertLives'
    BY <1>8, <2>2, <2>6 DEF Social!Upsert, Social!tokens, UpsertLives, Social!At
  <2>10. FoundLinked'
    <3>1. ASSUME cron # Social!Idle, NEW p \in cron.left
          PROVE  acct'[p[1]] # None
      <4>1. p[1] \in Account
        BY <3>1, SocialCron
      <4> QED BY <3>1, <4>1, <2>7 DEF FoundLinked
    <3> QED BY <1>8, <3>1 DEF Social!Upsert, FoundLinked
  <2> QED BY <1>8, <2>8, <2>9, <2>10 DEF Social!Upsert, Social!queue, TakenIsThere
<1>9. ASSUME NEW r \in Request, Social!QueueSync(r) PROVE SocialTyped'
  <2>1. Social!Idle \in Social!Local /\ Social!Idle.pc = "idle"
    BY DEF Social!Local, Social!Idle
  <2>2. Social!Becomes(r, Social!Idle)
    BY <1>9 DEF Social!QueueSync
  <2>3. /\ req' \in [Request -> Social!Local]
        /\ req'[r] = Social!Idle /\ \A p \in Request \ {r} : req'[p] = req[p]
    BY <2>1, <2>2, SocialStepped
  <2>4. req[r].account \in Account
    BY <1>9, SocialLocal DEF Social!QueueSync
  <2>5. PICK j \in Social!JobId :
          /\ sync[j] = None
          /\ sync' = [sync EXCEPT ![j] = [account |-> req[r].account, tries |-> 0]]
    BY <1>9 DEF Social!QueueSync, Social!AddJob
  <2>6. sync' \in [Social!JobId -> [account : Account, tries : 0..(MaxAttempts - 1)]
                                    \cup {None}]
    BY <2>4, <2>5 DEF Social!TypeOK
  <2>7. TakenIsThere'
    BY <1>9, <2>5, SocialWorker DEF Social!QueueSync, TakenIsThere, Social!TypeOK
  <2> QED BY <1>9, <2>1, <2>3, <2>6, <2>7
          DEF Social!QueueSync, Social!tokens, Social!notices, Social!TypeOK, UpsertLives,
              FoundLinked, Social!At
<1>10. ASSUME NEW r \in Request, Social!Abandon(r) PROVE SocialTyped'
  <2>1. Social!Idle \in Social!Local /\ Social!Idle.pc = "idle"
    BY DEF Social!Local, Social!Idle
  <2>2. Social!Becomes(r, Social!Idle)
    BY <1>10 DEF Social!Abandon
  <2>3. /\ req' \in [Request -> Social!Local]
        /\ req'[r] = Social!Idle /\ \A p \in Request \ {r} : req'[p] = req[p]
    BY <2>1, <2>2, SocialStepped
  <2> QED BY <1>10, <2>1, <2>3
          DEF Social!Abandon, Social!tokens, Social!queue, Social!notices, Social!TypeOK,
              UpsertLives, TakenIsThere, FoundLinked, Social!At
<1>11. ASSUME NEW r \in Request, NEW a \in Account, Social!TriggerSync(r, a)
       PROVE  SocialTyped'
  <2> DEFINE q == [pc |-> "queue", account |-> a]
  <2>1. q \in Social!Local /\ q.pc = "queue"
    BY DEF Social!Local
  <2>2. Social!Becomes(r, q)
    BY <1>11 DEF Social!TriggerSync
  <2> HIDE DEF q
  <2>3. /\ req' \in [Request -> Social!Local]
        /\ req'[r] = q /\ \A p \in Request \ {r} : req'[p] = req[p]
    BY <2>1, <2>2, SocialStepped
  <2> QED BY <1>11, <2>1, <2>3
          DEF Social!TriggerSync, Social!tokens, Social!queue, Social!notices,
              Social!TypeOK, UpsertLives, TakenIsThere, FoundLinked, Social!At
<1>12. ASSUME NEW a \in Account, Social!Revoke(a) PROVE SocialTyped'
  <2>1. /\ acct' \in [Account -> Social!Row \cup {None}]
        /\ acct'[a] \in Social!Row /\ acct'[a].token = acct[a].token
        /\ \A b \in Account \ {a} : acct'[b] = acct[b]
    BY <1>12 DEF Social!Revoke, Social!TypeOK, Social!Row, Social!Status
  <2>2. FoundLinked'
    <3>1. ASSUME cron # Social!Idle, NEW p \in cron.left
          PROVE  acct'[p[1]] # None
      <4>1. p[1] \in Account
        BY <3>1, SocialCron
      <4> QED BY <3>1, <4>1, <2>1 DEF FoundLinked
    <3> QED BY <1>12, <3>1 DEF Social!Revoke, FoundLinked
  <2> QED BY <1>12, <2>1, <2>2
          DEF Social!Revoke, Social!oauth, Social!tokens, Social!queue, Social!notices,
              Social!TypeOK, UpsertLives, TakenIsThere, Social!At
<1>13. ASSUME NEW j \in Social!JobId, Social!Process(j) PROVE SocialTyped'
  <2> DEFINE a == sync[j].account
             w == [pc |-> "call", job |-> j, account |-> a, token |-> acct[a].token]
  <2>1. a \in Account
    BY <1>13 DEF Social!Process, Social!TypeOK
  <2>2. CASE Social!Is(a, "ACTIVE")
    <3>1. acct[a].token \in Grant
      BY <2>1, <2>2 DEF Social!Is, Social!TypeOK, Social!Row
    <3>2. w \in [pc : {"call", "expire"}, job : Social!JobId, account : Account,
                  token : Grant] /\ w.job = j
      BY <2>1, <3>1
    <3>3. worker' = w /\ sync' = sync /\ sync[j] # None
      BY <1>13, <2>2 DEF Social!Process
    <3> HIDE DEF w
    <3> QED BY <1>13, <3>2, <3>3
            DEF Social!Process, Social!oauth, Social!tokens, Social!notices, Social!TypeOK,
                UpsertLives, TakenIsThere, FoundLinked, Social!At
  <2>3. CASE ~Social!Is(a, "ACTIVE")
    <3>1. worker' = Social!Idle /\ sync' = [sync EXCEPT ![j] = None]
      BY <1>13, <2>3 DEF Social!Process, Social!Done
    <3> QED BY <1>13, <3>1
            DEF Social!Process, Social!oauth, Social!tokens, Social!notices, Social!TypeOK,
                UpsertLives, TakenIsThere, FoundLinked, Social!At
  <2> QED BY <2>2, <2>3
<1>14. ASSUME Social!Store PROVE SocialTyped'
  <2>1. worker # Social!Idle /\ Social!Done(worker.job)
    BY <1>14 DEF Social!Store, Social!Idle
  <2> QED BY <1>14, <2>1, SocialDone
          DEF Social!Store, Social!oauth, Social!tokens, Social!notices, Social!TypeOK,
              UpsertLives, TakenIsThere, FoundLinked, Social!At
<1>15. ASSUME Social!Refuse PROVE SocialTyped'
  <2>1. worker # Social!Idle
    BY <1>15 DEF Social!Refuse, Social!Idle
  <2>2. worker' = [worker EXCEPT !.pc = "expire"]
    BY <1>15 DEF Social!Refuse
  <2>3. /\ worker' \in [pc : {"call", "expire"}, job : Social!JobId, account : Account,
                         token : Grant]
        /\ worker'.job = worker.job
    BY <2>1, <2>2, SocialWorker
  <2> QED BY <1>15, <2>1, <2>3
          DEF Social!Refuse, Social!oauth, Social!tokens, Social!notices, Social!TypeOK,
              UpsertLives, TakenIsThere, FoundLinked, Social!At
<1>16. ASSUME Social!MarkExpired PROVE SocialTyped'
  <2> DEFINE a == worker.account
  <2>1. worker # Social!Idle /\ a \in Account
    BY <1>16, SocialWorker DEF Social!MarkExpired, Social!Idle
  <2>2. CASE Social!Is(a, "ACTIVE")
    <3>1. acct[a] \in Social!Row /\ acct[a].token \in Grant
      BY <2>1, <2>2 DEF Social!Is, Social!TypeOK, Social!Row
    <3>2. acct' = [acct EXCEPT ![a].status = "EXPIRED"]
      BY <1>16, <2>2 DEF Social!MarkExpired
    <3>3. /\ acct' \in [Account -> Social!Row \cup {None}]
          /\ acct'[a] \in Social!Row /\ acct'[a].token = acct[a].token
          /\ \A b \in Account \ {a} : acct'[b] = acct[b]
      BY <2>1, <3>1, <3>2 DEF Social!TypeOK, Social!Row, Social!Status
    <3>4. worker' = [worker EXCEPT !.pc = "tell", !.token = acct[a].token] /\ sync' = sync
      BY <1>16, <2>2 DEF Social!MarkExpired
    <3>5. /\ worker' \in [pc : {"tell"}, job : Social!JobId, account : Account,
                           token : Grant]
          /\ worker'.job = worker.job
      BY <2>1, <3>1, <3>4, SocialWorker
    <3>6. FoundLinked'
      <4>1. ASSUME cron # Social!Idle, NEW p \in cron.left
            PROVE  acct'[p[1]] # None
        <5>1. p[1] \in Account
          BY <4>1, SocialCron
        <5> QED BY <4>1, <5>1, <3>3 DEF FoundLinked
      <4> QED BY <1>16, <4>1 DEF Social!MarkExpired, FoundLinked
    <3>7. Social!TypeOK'
      BY <1>16, <3>1, <3>3, <3>4, <3>5
         DEF Social!MarkExpired, Social!oauth, Social!tokens, Social!notices, Social!TypeOK
    <3> QED BY <1>16, <2>1, <3>4, <3>5, <3>6, <3>7
            DEF Social!MarkExpired, Social!oauth, Social!tokens, UpsertLives, TakenIsThere,
                Social!At
  <2>3. CASE ~Social!Is(a, "ACTIVE")
    <3>1. Social!Done(worker.job) /\ acct' = acct
      BY <1>16, <2>3 DEF Social!MarkExpired
    <3> QED BY <1>16, <2>1, <3>1, SocialDone
            DEF Social!MarkExpired, Social!oauth, Social!tokens, Social!notices,
                Social!TypeOK, UpsertLives, TakenIsThere, FoundLinked, Social!At
  <2> QED BY <2>2, <2>3
<1>17. ASSUME Social!TellExpired PROVE SocialTyped'
  <2>1. worker # Social!Idle /\ Social!Done(worker.job)
    BY <1>17 DEF Social!TellExpired, Social!Idle
  <2>2. told' \in [Grant -> 0..2]
    <3>1. told' = [told EXCEPT ![worker.token] = Social!Twice(told[worker.token])]
      BY <1>17 DEF Social!TellExpired
    <3>2. told[worker.token] \in 0..2
      BY <2>1, SocialWorker DEF Social!TypeOK
    <3> QED BY <3>1, <3>2, SocialTold DEF Social!TypeOK
  <2> QED BY <1>17, <2>1, <2>2, SocialDone
          DEF Social!TellExpired, Social!oauth, Social!tokens, Social!TypeOK,
              UpsertLives, TakenIsThere, FoundLinked, Social!At
<1>18. ASSUME Social!Throw PROVE SocialTyped'
  <2>1. worker # Social!Idle /\ worker' = Social!Idle /\ worker.job \in Social!JobId
    BY <1>18, SocialWorker DEF Social!Throw
  <2>2. sync[worker.job] \in [account : Account, tries : 0..(MaxAttempts - 1)]
    BY <2>1 DEF TakenIsThere, Social!TypeOK
  <2>3. Social!Retry(sync[worker.job]) \in
          [account : Account, tries : 0..(MaxAttempts - 1)] \cup {None}
    BY <2>2 DEF Social!Retry
  <2>4. sync' = [sync EXCEPT ![worker.job] = Social!Retry(sync[worker.job])]
    BY <1>18, <2>1 DEF Social!Throw, Social!TypeOK
  <2>5. sync' \in [Social!JobId -> [account : Account, tries : 0..(MaxAttempts - 1)]
                                    \cup {None}]
    BY <2>1, <2>3, <2>4 DEF Social!TypeOK
  <2>6. faults' \in 0..MaxFaults
    BY <1>18 DEF Social!Throw, Social!Fault, Social!TypeOK
  <2> QED BY <1>18, <2>1, <2>5, <2>6
          DEF Social!Throw, Social!oauth, Social!tokens, Social!notices, Social!TypeOK,
              UpsertLives, TakenIsThere, FoundLinked, Social!At
<1>19. ASSUME Social!Find PROVE SocialTyped'
  <2> DEFINE found == {a \in Account : Social!Expiring(a)}
             left == {<<a, acct[a].token>> : a \in found}
  <2>1. \A a \in found : acct[a] # None /\ acct[a].token \in Grant
    BY DEF Social!Expiring, Social!Is, Social!TypeOK, Social!Row
  <2>2. left \in SUBSET (Account \X Grant) /\ \A p \in left : acct[p[1]] # None
    BY <2>1
  <2>3. cron' = [pc |-> "found", left |-> left]
    BY <1>19 DEF Social!Find
  <2> HIDE DEF left
  <2>4. cron' \in [pc : {"found", "tell"}, left : SUBSET (Account \X Grant)]
        /\ cron'.left = left
    BY <2>2, <2>3
  <2> QED BY <1>19, <2>2, <2>4
          DEF Social!Find, Social!oauth, Social!tokens, Social!queue, Social!notices,
              Social!TypeOK, UpsertLives, TakenIsThere, FoundLinked, Social!At
<1>20. ASSUME Social!Mark PROVE SocialTyped'
  <2>1. cron # Social!Idle /\ cron' = [cron EXCEPT !.pc = "tell"]
    BY <1>20 DEF Social!Mark, Social!Idle
  <2>2. cron' \in [pc : {"found", "tell"}, left : SUBSET (Account \X Grant)]
        /\ cron'.left = cron.left
    BY <2>1, SocialCron
  <2> DEFINE found == {p[1] : p \in cron.left}
  <2>3. acct' = [a \in Account |->
                   IF a \in found THEN [acct[a] EXCEPT !.reminded = TRUE] ELSE acct[a]]
    BY <1>20 DEF Social!Mark
  <2>4. \A a \in found : acct[a] # None
    BY <2>1 DEF FoundLinked
  <2> HIDE DEF found
  <2>5. \A a \in Account : IF a \in found
                             THEN /\ acct[a] \in Social!Row /\ acct'[a] \in Social!Row
                                  /\ acct'[a].token = acct[a].token
                             ELSE acct'[a] = acct[a]
    <3>1. ASSUME NEW a \in Account, a \in found
          PROVE  /\ acct[a] \in Social!Row /\ acct'[a] \in Social!Row
                 /\ acct'[a].token = acct[a].token
      <4>1. acct[a] \in Social!Row
        BY <2>4, <3>1 DEF Social!TypeOK
      <4>2. acct'[a] = [acct[a] EXCEPT !.reminded = TRUE]
        BY <2>3, <3>1
      <4> QED BY <4>1, <4>2 DEF Social!Row
    <3>2. ASSUME NEW a \in Account, a \notin found PROVE acct'[a] = acct[a]
      BY <2>3, <3>2
    <3> QED BY <3>1, <3>2
  <2>6. acct' \in [Account -> Social!Row \cup {None}]
    BY <2>3, <2>5 DEF Social!TypeOK
  <2>7. FoundLinked'
    <3>1. ASSUME NEW p \in cron.left PROVE acct'[p[1]] # None
      <4>1. p[1] \in Account
        BY <2>1, SocialCron
      <4> QED BY <2>1, <2>5, <4>1 DEF FoundLinked
    <3> QED BY <2>2, <3>1 DEF FoundLinked
  <2>8. Social!TypeOK'
    BY <1>20, <2>2, <2>5, <2>6
       DEF Social!Mark, Social!oauth, Social!tokens, Social!queue, Social!notices,
           Social!TypeOK
  <2> QED BY <1>20, <2>7, <2>8
          DEF Social!Mark, Social!oauth, Social!tokens, Social!queue, UpsertLives,
              TakenIsThere, Social!At
<1>21. ASSUME Social!Warn PROVE SocialTyped'
  <2>1. PICK p \in cron.left :
          /\ warned' = [warned EXCEPT ![p[2]] = Social!Twice(@)]
          /\ cron' = IF cron.left = {p} THEN Social!Idle
                      ELSE [cron EXCEPT !.left = cron.left \ {p}]
    BY <1>21 DEF Social!Warn
  <2>2. cron # Social!Idle
    BY <1>21 DEF Social!Warn, Social!Idle
  <2>3. warned' \in [Grant -> 0..2]
    <3>1. warned' = [warned EXCEPT ![p[2]] = Social!Twice(warned[p[2]])]
      BY <2>1
    <3>2. p[2] \in Grant /\ warned[p[2]] \in 0..2
      BY <2>2, SocialCron DEF Social!TypeOK
    <3> QED BY <3>1, <3>2, SocialTold DEF Social!TypeOK
  <2>4. \/ cron' = Social!Idle
        \/ /\ cron' \in [pc : {"found", "tell"}, left : SUBSET (Account \X Grant)]
           /\ cron'.left \subseteq cron.left
    BY <2>1, <2>2, SocialCron
  <2> QED BY <1>21, <2>2, <2>3, <2>4
          DEF Social!Warn, Social!oauth, Social!tokens, Social!queue, Social!TypeOK,
              UpsertLives, TakenIsThere, FoundLinked, Social!At
<1>22. ASSUME Social!Crash PROVE SocialTyped'
  <2>1. req' \in [Request -> Social!Local] /\ \A r \in Request : req'[r].pc = "idle"
    BY <1>22 DEF Social!Crash, Social!Local, Social!Idle
  <2>2. faults' \in 0..MaxFaults
    BY <1>22 DEF Social!Crash, Social!Fault, Social!TypeOK
  <2> QED BY <1>22, <2>1, <2>2
          DEF Social!Crash, Social!tokens, Social!notices, Social!TypeOK,
              UpsertLives, TakenIsThere, FoundLinked, Social!At
<1> QED BY <1>1, <1>2, <1>3, <1>4, <1>5, <1>6, <1>7, <1>8, <1>9, <1>10, <1>11, <1>12,
           <1>13, <1>14, <1>15, <1>16, <1>17, <1>18, <1>19, <1>20, <1>21, <1>22
        DEF Social!Next

-----------------------------------------------------------------------------
(* The linked accounts: the notices.                                       *)

\* A grant is spent once its state is burnt and no request holds it any more: it
\* will not be linked again.
Holds(r) == Social!At(r, "exchange") \/ Social!At(r, "upsert")
Spent(g) == g \in drawn \ state /\ \A r \in Request : Holds(r) => req[r].grant # g
Linked(a, g) == acct[a] # None /\ acct[a].token = g

\* A grant is held by one request, and by none once an account is linked with it;
\* no two accounts are linked with the same.
HeldOnce ==
  \A r \in Request : Holds(r) =>
    /\ req[r].grant \in drawn \ state
    /\ \A p \in Request : Holds(p) /\ req[p].grant = req[r].grant => p = r
LinkedOnce ==
  \A a \in Account, g \in Grant : Linked(a, g) =>
    Spent(g) /\ \A b \in Account : Linked(b, g) => b = a

\* What is about to be warned of has not been; its account, if it still has that
\* token, is marked by then.
NotWarnedYet(p) ==
  /\ Spent(p[2]) /\ warned[p[2]] = 0
  /\ \A q \in cron.left : q[2] = p[2] => q = p
  /\ \A b \in Account : Linked(b, p[2]) =>
       b = p[1] /\ (cron.pc = "tell" => acct[b].reminded)
FoundOnce == cron # Social!Idle => \A p \in cron.left : NotWarnedYet(p)
WarnedMarked ==
  \A g \in Grant : warned[g] # 0 =>
    /\ warned[g] = 1 /\ Spent(g)
    /\ \A a \in Account : Linked(a, g) => acct[a].reminded

\* A token that users are told of, or were, belongs to no active account.
Telling(g) == worker.pc = "tell" /\ worker.token = g
ToldExpired ==
  \A g \in Grant : told[g] # 0 \/ Telling(g) =>
    /\ told[g] <= 1 /\ (Telling(g) => told[g] = 0) /\ Spent(g)
    /\ \A a \in Account : Linked(a, g) => acct[a].status # "ACTIVE"

TokenInv ==
  SocialTyped /\ HeldOnce /\ LinkedOnce /\ FoundOnce /\ WarnedMarked /\ ToldExpired

LEMMA TokenInit == Social!Init => TokenInv
<1> SUFFICES ASSUME Social!Init PROVE TokenInv
  OBVIOUS
<1>1. SocialTyped
  BY SocialTypedInit
<1> QED BY <1>1
        DEF Social!Init, TokenInv, HeldOnce, LinkedOnce, FoundOnce, WarnedMarked,
            ToldExpired, Telling, Linked, Holds, Social!At, Social!Idle

\* A step that links no account, draws no state and gives no request a grant.
LEMMA SpentStays ==
  ASSUME SocialTyped, NEW g \in Grant, Spent(g),
         drawn \subseteq drawn', g \notin state',
         \A r \in Request : Holds(r)' => req'[r].grant # g
  PROVE  Spent(g)'
BY DEF Spent

\* A step that leaves the requests, the states and the notices.
LEMMA AccountsStep ==
  ASSUME TokenInv, SocialTyped', UNCHANGED <<state, drawn, req, warned, told, cron>>,
         \A a \in Account : acct'[a] # None =>
           /\ acct[a] # None /\ acct'[a].token = acct[a].token
           /\ acct[a].reminded => acct'[a].reminded
           /\ acct'[a].status = "ACTIVE" => acct[a].status = "ACTIVE",
         \A g \in Grant : Telling(g)' => Telling(g)
  PROVE  TokenInv'
<1>1. \A g \in Grant : Spent(g)' <=> Spent(g)
  BY DEF Spent, Holds, Social!At
<1>2. \A a \in Account, g \in Grant : Linked(a, g)' => Linked(a, g)
  BY DEF Linked
<1>3. HeldOnce'
  BY DEF TokenInv, HeldOnce, Holds, Social!At
<1>4. LinkedOnce'
  BY <1>1, <1>2 DEF TokenInv, LinkedOnce
<1>5. FoundOnce'
  <2> SUFFICES ASSUME cron # Social!Idle, NEW p \in cron.left PROVE NotWarnedYet(p)'
    BY DEF FoundOnce
  <2>1. p[2] \in Grant /\ NotWarnedYet(p)
    BY SocialCron DEF TokenInv, SocialTyped, FoundOnce
  <2> QED BY <1>1, <1>2, <2>1 DEF NotWarnedYet, Linked
<1>6. WarnedMarked'
  BY <1>1, <1>2 DEF TokenInv, WarnedMarked, Linked
<1>7. ToldExpired'
  BY <1>1, <1>2 DEF TokenInv, ToldExpired, Linked
<1> QED BY <1>3, <1>4, <1>5, <1>6, <1>7 DEF TokenInv

\* A step that leaves the accounts, the notices, the worker and the daily job: what
\* is spent stays so.
LEMMA OAuthStep ==
  ASSUME TokenInv, SocialTyped', UNCHANGED <<acct, worker, cron, warned, told>>,
         \A g \in Grant : Spent(g) => Spent(g)',
         HeldOnce'
  PROVE  TokenInv'
<1>1. \A a \in Account, g \in Grant : Linked(a, g)' <=> Linked(a, g)
  BY DEF Linked
<1>2. LinkedOnce'
  BY <1>1 DEF TokenInv, LinkedOnce
<1>3. FoundOnce'
  <2> SUFFICES ASSUME cron # Social!Idle, NEW p \in cron.left PROVE NotWarnedYet(p)'
    BY DEF FoundOnce
  <2>1. p[2] \in Grant /\ NotWarnedYet(p)
    BY SocialCron DEF TokenInv, SocialTyped, FoundOnce
  <2> QED BY <1>1, <2>1 DEF NotWarnedYet
<1>4. WarnedMarked'
  BY <1>1 DEF TokenInv, WarnedMarked
<1>5. ToldExpired'
  BY <1>1 DEF TokenInv, ToldExpired, Telling
<1> QED BY <1>2, <1>3, <1>4, <1>5 DEF TokenInv

\* A request goes where it holds no other grant.
LEMMA RequestStep ==
  ASSUME TokenInv, SocialTyped', UNCHANGED <<acct, worker, cron, warned, told, state, drawn>>,
         NEW r \in Request, NEW q \in Social!Local, Social!Becomes(r, q),
         q.pc \in {"exchange", "upsert"} => Holds(r) /\ q.grant = req[r].grant
  PROVE  TokenInv'
<1>1. req'[r] = q /\ \A p \in Request \ {r} : req'[p] = req[p]
  BY SocialStepped DEF TokenInv, SocialTyped
<1>2. \A p \in Request : Holds(p)' => Holds(p) /\ req'[p].grant = req[p].grant
  BY <1>1 DEF Holds, Social!At
<1>3. \A g \in Grant : Spent(g) => Spent(g)'
  BY <1>2 DEF Spent
<1>4. HeldOnce'
  BY <1>2 DEF TokenInv, HeldOnce
<1> QED BY <1>3, <1>4, OAuthStep

LEMMA TokenStep ==
  ASSUME TokenInv, [Social!Next]_(Social!vars) PROVE TokenInv'
<1>0. SocialTyped' /\ SocialTyped /\ Social!TypeOK
  BY SocialTypedStep DEF TokenInv, SocialTyped
<1> USE <1>0
<1>1. ASSUME UNCHANGED Social!vars PROVE TokenInv'
  BY <1>1, AccountsStep
     DEF Social!vars, Social!oauth, Social!tokens, Social!queue, Social!notices, Telling
<1>2. ASSUME NEW g \in Grant, Social!Age(g) PROVE TokenInv'
  BY <1>2, AccountsStep
     DEF Social!Age, Social!oauth, Social!queue, Social!notices, Telling
<1>3. ASSUME NEW g \in Grant, Social!Invalidate(g) PROVE TokenInv'
  BY <1>3, AccountsStep
     DEF Social!Invalidate, Social!oauth, Social!queue, Social!notices, Telling
<1>4. ASSUME NEW g \in Grant, Social!StartOAuth(g) PROVE TokenInv'
  <2>1. \A h \in Grant : Spent(h) => Spent(h)'
    BY <1>4 DEF Social!StartOAuth, Spent, Holds, Social!At
  <2>2. HeldOnce'
    BY <1>4 DEF Social!StartOAuth, TokenInv, HeldOnce, Holds, Social!At
  <2> QED BY <1>4, <2>1, <2>2, OAuthStep
          DEF Social!StartOAuth, Social!queue, Social!notices
<1>5. ASSUME NEW g \in Grant, Social!Expire(g) PROVE TokenInv'
  <2>1. \A h \in Grant : Spent(h) => Spent(h)'
    BY <1>5 DEF Social!Expire, Spent, Holds, Social!At
  <2>2. HeldOnce'
    BY <1>5 DEF Social!Expire, TokenInv, HeldOnce, Holds, Social!At
  <2> QED BY <1>5, <2>1, <2>2, OAuthStep
          DEF Social!Expire, Social!queue, Social!notices
<1>6. ASSUME NEW r \in Request, NEW g \in Grant, Social!Callback(r, g) PROVE TokenInv'
  <2> DEFINE q == [pc |-> "exchange", grant |-> g]
  <2>1. q \in Social!Local /\ q.grant = g
    BY DEF Social!Local
  <2>2. Social!Becomes(r, q)
    BY <1>6 DEF Social!Callback
  <2> HIDE DEF q
  <2>3. req'[r] = q /\ \A p \in Request \ {r} : req'[p] = req[p]
    BY <2>1, <2>2, SocialStepped
  <2>4. g \in state /\ g \in drawn /\ state' = state \ {g} /\ drawn' = drawn
    BY <1>6 DEF Social!Callback, Social!TypeOK
  <2>5. \A h \in Grant : Spent(h) => Spent(h)'
    BY <2>1, <2>3, <2>4 DEF Spent, Holds, Social!At
  <2>6. HeldOnce'
    BY <2>1, <2>3, <2>4 DEF TokenInv, HeldOnce, Holds, Social!At
  <2> QED BY <1>6, <2>5, <2>6, OAuthStep
          DEF Social!Callback, Social!queue, Social!notices
<1>7. ASSUME NEW r \in Request, NEW a \in Account, Social!Exchange(r, a)
      PROVE  TokenInv'
  <2> DEFINE q == [pc |-> "upsert", grant |-> req[r].grant, account |-> a]
  <2>1. Holds(r) /\ req[r].grant \in Grant
    BY <1>7, SocialLocal DEF Social!Exchange, Holds
  <2>2. q \in Social!Local /\ q.grant = req[r].grant
    BY <2>1 DEF Social!Local
  <2>3. Social!Becomes(r, q)
    BY <1>7 DEF Social!Exchange
  <2> HIDE DEF q
  <2> QED BY <1>7, <2>1, <2>2, <2>3, RequestStep
          DEF Social!Exchange, Social!queue, Social!notices
<1>8. ASSUME NEW r \in Request, Social!QueueSync(r) PROVE TokenInv'
  <2>1. Social!Idle \in Social!Local /\ Social!Idle.pc = "idle"
    BY DEF Social!Local, Social!Idle
  <2> QED BY <1>8, <2>1, RequestStep DEF Social!QueueSync, Social!notices
<1>9. ASSUME NEW r \in Request, Social!Abandon(r) PROVE TokenInv'
  <2>1. Social!Idle \in Social!Local /\ Social!Idle.pc = "idle"
    BY DEF Social!Local, Social!Idle
  <2> QED BY <1>9, <2>1, RequestStep DEF Social!Abandon, Social!notices, Social!queue
<1>10. ASSUME NEW r \in Request, NEW a \in Account, Social!TriggerSync(r, a)
       PROVE  TokenInv'
  <2> DEFINE q == [pc |-> "queue", account |-> a]
  <2>1. q \in Social!Local /\ q.pc = "queue"
    BY DEF Social!Local
  <2>2. Social!Becomes(r, q)
    BY <1>10 DEF Social!TriggerSync
  <2> HIDE DEF q
  <2> QED BY <1>10, <2>1, <2>2, RequestStep
          DEF Social!TriggerSync, Social!queue, Social!notices
<1>11. ASSUME NEW r \in Request, Social!Upsert(r) PROVE TokenInv'
  <2>1. Holds(r) /\ req[r].grant \in Grant /\ req[r].account \in Account
    BY <1>11, SocialLocal DEF Social!Upsert, Holds
  <2> PICK g \in Grant : g = req[r].grant
    BY <2>1
  <2> PICK c \in Account : c = req[r].account
    BY <2>1
  <2> DEFINE q == [pc |-> "queue", account |-> req[r].account]
             x == [status |-> "ACTIVE", token |-> req[r].grant, reminded |-> FALSE]
  <2>2. q \in Social!Local /\ q.pc = "queue"
    BY <2>1 DEF Social!Local
  <2>3. Social!Becomes(r, q)
    BY <1>11 DEF Social!Upsert
  <2>4. x.token = g
    OBVIOUS
  <2>5. acct' = [acct EXCEPT ![req[r].account] = x]
    BY <1>11 DEF Social!Upsert
  <2> HIDE DEF q, x
  <2>6. req'[r] = q /\ \A p \in Request \ {r} : req'[p] = req[p]
    BY <2>2, <2>3, SocialStepped
  <2>7. \A a \in Account, h \in Grant :
          Linked(a, h)' => IF h = g THEN a = c \/ Linked(a, h)
                           ELSE Linked(a, h) /\ acct'[a] = acct[a]
    BY <2>1, <2>4, <2>5 DEF Linked, Social!TypeOK
  <2>8. g \in drawn \ state /\ ~Spent(g)
        /\ \A p \in Request : Holds(p) /\ req[p].grant = g => p = r
    BY <2>1 DEF TokenInv, HeldOnce, Spent
  <2>9. UNCHANGED <<state, drawn, worker, cron, warned, told>>
    BY <1>11 DEF Social!Upsert, Social!queue, Social!notices
  <2>10. Spent(g)'
    BY <2>2, <2>6, <2>8, <2>9 DEF Spent, Holds, Social!At
  <2>11. \A h \in Grant : Spent(h) => Spent(h)' /\ h # g
    <3> SUFFICES ASSUME NEW h \in Grant, Spent(h) PROVE Spent(h)' /\ h # g
      OBVIOUS
    <3>1. h # g
      BY <2>8
    <3>2. \A p \in Request : Holds(p)' => Holds(p) /\ req'[p].grant = req[p].grant
      BY <2>2, <2>6 DEF Holds, Social!At
    <3> QED BY <3>1, <3>2, <2>9 DEF Spent
  <2>12. \A a \in Account : ~Linked(a, g)
    BY <2>1, <2>8 DEF TokenInv, LinkedOnce
  <2>13. HeldOnce'
    BY <2>2, <2>6, <2>9 DEF TokenInv, HeldOnce, Holds, Social!At
  <2>14. LinkedOnce'
    <3> SUFFICES ASSUME NEW a \in Account, NEW h \in Grant, Linked(a, h)'
                 PROVE  Spent(h)' /\ \A b \in Account : Linked(b, h)' => b = a
      BY DEF LinkedOnce
    <3>1. CASE h = g
      BY <2>1, <2>7, <2>10, <2>12, <3>1
    <3>2. CASE h # g
      BY <2>7, <2>11, <3>2 DEF TokenInv, LinkedOnce
    <3> QED BY <3>1, <3>2
  <2>15. FoundOnce'
    <3> SUFFICES ASSUME cron # Social!Idle, NEW p \in cron.left PROVE NotWarnedYet(p)'
      BY <2>9 DEF FoundOnce
    <3>1. p[2] \in Grant /\ NotWarnedYet(p)
      BY SocialCron DEF TokenInv, FoundOnce
    <3>2. p[2] # g /\ Spent(p[2])'
      BY <3>1, <2>11 DEF NotWarnedYet
    <3> QED BY <3>1, <3>2, <2>7, <2>9 DEF NotWarnedYet
  <2>16. WarnedMarked'
    BY <2>7, <2>9, <2>11 DEF TokenInv, WarnedMarked
  <2>17. ToldExpired'
    BY <2>7, <2>9, <2>11 DEF TokenInv, ToldExpired, Telling
  <2> QED BY <2>13, <2>14, <2>15, <2>16, <2>17 DEF TokenInv
<1>12. ASSUME NEW a \in Account, Social!Revoke(a) PROVE TokenInv'
  <2>1. /\ acct'[a].status = "REVOKED" /\ acct'[a].token = acct[a].token
        /\ acct'[a].reminded = acct[a].reminded /\ acct[a] # None
        /\ \A b \in Account \ {a} : acct'[b] = acct[b]
    BY <1>12 DEF Social!Revoke, Social!TypeOK, Social!Row
  <2> QED BY <1>12, <2>1, AccountsStep
          DEF Social!Revoke, Social!oauth, Social!queue, Social!notices, Telling
<1>13. ASSUME NEW j \in Social!JobId, Social!Process(j) PROVE TokenInv'
  <2>1. worker'.pc # "tell"
    BY <1>13 DEF Social!Process, Social!Done, Social!Idle
  <2> QED BY <1>13, <2>1, AccountsStep
          DEF Social!Process, Social!oauth, Social!notices, Telling
<1>14. ASSUME Social!Store PROVE TokenInv'
  BY <1>14, AccountsStep
     DEF Social!Store, Social!Done, Social!Idle, Social!oauth, Social!notices, Telling
<1>15. ASSUME Social!Refuse PROVE TokenInv'
  <2>1. worker # Social!Idle /\ worker' = [worker EXCEPT !.pc = "expire"]
    BY <1>15 DEF Social!Refuse, Social!Idle
  <2>2. worker'.pc = "expire"
    BY <2>1, SocialWorker
  <2> QED BY <1>15, <2>2, AccountsStep
          DEF Social!Refuse, Social!oauth, Social!notices, Telling
<1>16. ASSUME Social!MarkExpired PROVE TokenInv'
  <2> DEFINE a == worker.account
             g == acct[a].token
  <2>1. worker # Social!Idle /\ a \in Account
    BY <1>16, SocialWorker DEF Social!MarkExpired, Social!Idle
  <2>2. CASE Social!Is(a, "ACTIVE")
    <3>1. acct[a] \in Social!Row /\ g \in Grant /\ Linked(a, g) /\ acct[a].status = "ACTIVE"
      BY <2>1, <2>2 DEF Social!Is, Social!TypeOK, Social!Row, Linked
    <3>2. acct' = [acct EXCEPT ![a].status = "EXPIRED"]
          /\ worker' = [worker EXCEPT !.pc = "tell", !.token = g]
      BY <1>16, <2>2 DEF Social!MarkExpired
    <3>3. /\ acct'[a].token = g /\ acct'[a].status = "EXPIRED"
          /\ acct'[a].reminded = acct[a].reminded
          /\ \A b \in Account \ {a} : acct'[b] = acct[b]
      BY <2>1, <3>1, <3>2 DEF Social!TypeOK, Social!Row
    <3>4. worker'.pc = "tell" /\ worker'.token = g
      BY <2>1, <3>2, SocialWorker
    <3>5. UNCHANGED <<state, drawn, req, warned, told, cron>>
      BY <1>16 DEF Social!MarkExpired, Social!oauth, Social!notices
    <3>6. /\ Spent(g) /\ told[g] = 0
          /\ \A b \in Account : Linked(b, g) => b = a
      BY <2>1, <3>1 DEF TokenInv, LinkedOnce, ToldExpired
    <3> HIDE DEF g, a
    <3>7. \A b \in Account, h \in Grant :
            Linked(b, h)' => /\ Linked(b, h)
                             /\ acct[b].reminded => acct'[b].reminded
                             /\ acct'[b].status = "ACTIVE" => acct[b].status = "ACTIVE"
      BY <2>1, <3>1, <3>3 DEF Linked
    <3>8. \A h \in Grant : Spent(h)' <=> Spent(h)
      BY <3>5 DEF Spent, Holds, Social!At
    <3>9. HeldOnce'
      BY <3>5 DEF TokenInv, HeldOnce, Holds, Social!At
    <3>10. LinkedOnce'
      BY <3>7, <3>8 DEF TokenInv, LinkedOnce
    <3>11. FoundOnce'
      <4> SUFFICES ASSUME cron # Social!Idle, NEW p \in cron.left PROVE NotWarnedYet(p)'
        BY <3>5 DEF FoundOnce
      <4>1. p[2] \in Grant /\ NotWarnedYet(p)
        BY SocialCron DEF TokenInv, FoundOnce
      <4> QED BY <4>1, <3>5, <3>7, <3>8 DEF NotWarnedYet
    <3>12. WarnedMarked'
      BY <3>5, <3>7, <3>8 DEF TokenInv, WarnedMarked
    <3>13. ToldExpired'
      <4> SUFFICES ASSUME NEW h \in Grant, told[h] # 0 \/ h = g
                   PROVE  /\ told[h] <= 1 /\ (h = g => told[h] = 0) /\ Spent(h)'
                          /\ \A b \in Account : Linked(b, h)' => acct'[b].status # "ACTIVE"
        BY <3>4, <3>5 DEF ToldExpired, Telling
      <4>1. CASE h = g
        BY <2>1, <3>3, <3>6, <3>7, <3>8, <4>1
      <4>2. CASE h # g
        BY <3>6, <3>7, <3>8, <4>2 DEF TokenInv, ToldExpired
      <4> QED BY <4>1, <4>2
    <3> QED BY <3>9, <3>10, <3>11, <3>12, <3>13 DEF TokenInv
  <2>3. CASE ~Social!Is(a, "ACTIVE")
    BY <1>16, <2>3, AccountsStep
       DEF Social!MarkExpired, Social!Done, Social!Idle, Social!oauth, Social!notices, Telling
  <2> QED BY <2>2, <2>3
<1>17. ASSUME Social!TellExpired PROVE TokenInv'
  <2> DEFINE g == worker.token
  <2>1. worker # Social!Idle /\ worker.pc = "tell" /\ g \in Grant
    BY <1>17, SocialWorker DEF Social!TellExpired, Social!Idle
  <2>2. told' = [told EXCEPT ![g] = Social!Twice(told[g])] /\ worker'.pc = "idle"
    BY <1>17 DEF Social!TellExpired, Social!Done, Social!Idle
  <2>3. told[g] = 0 /\ Spent(g)
        /\ \A a \in Account : Linked(a, g) => acct[a].status # "ACTIVE"
    BY <2>1 DEF TokenInv, ToldExpired, Telling
  <2>4. told'[g] = 1 /\ \A h \in Grant \ {g} : told'[h] = told[h]
    BY <2>1, <2>2, <2>3, SocialTold DEF Social!TypeOK
  <2>5. UNCHANGED <<acct, state, drawn, req, warned, cron>>
    BY <1>17 DEF Social!TellExpired, Social!oauth
  <2> HIDE DEF g
  <2>6. \A h \in Grant : (Spent(h)' <=> Spent(h))
          /\ \A a \in Account : Linked(a, h)' <=> Linked(a, h)
    BY <2>5 DEF Spent, Holds, Social!At, Linked
  <2>7. HeldOnce' /\ LinkedOnce'
    BY <2>5, <2>6 DEF TokenInv, HeldOnce, LinkedOnce, Holds, Social!At
  <2>8. FoundOnce'
    <3> SUFFICES ASSUME cron # Social!Idle, NEW p \in cron.left PROVE NotWarnedYet(p)'
      BY <2>5 DEF FoundOnce
    <3>1. p[2] \in Grant /\ NotWarnedYet(p)
      BY SocialCron DEF TokenInv, FoundOnce
    <3> QED BY <3>1, <2>5, <2>6 DEF NotWarnedYet
  <2>9. WarnedMarked'
    BY <2>5, <2>6 DEF TokenInv, WarnedMarked
  <2>10. ToldExpired'
    BY <2>1, <2>2, <2>3, <2>4, <2>5, <2>6 DEF TokenInv, ToldExpired, Telling
  <2> QED BY <2>7, <2>8, <2>9, <2>10 DEF TokenInv
<1>18. ASSUME Social!Throw PROVE TokenInv'
  BY <1>18, AccountsStep
     DEF Social!Throw, Social!Idle, Social!oauth, Social!notices, Telling
<1>19. ASSUME Social!Find PROVE TokenInv'
  <2> DEFINE found == {a \in Account : Social!Expiring(a)}
             left == {<<a, acct[a].token>> : a \in found}
  <2>1. cron' = [pc |-> "found", left |-> left]
    BY <1>19 DEF Social!Find
  <2>2. UNCHANGED <<acct, state, drawn, req, warned, told, worker>>
    BY <1>19 DEF Social!Find, Social!oauth, Social!queue, Social!notices
  <2>3. \A h \in Grant : (Spent(h)' <=> Spent(h))
          /\ \A a \in Account : Linked(a, h)' <=> Linked(a, h)
    BY <2>2 DEF Spent, Holds, Social!At, Linked
  <2>4. FoundOnce'
    <3> SUFFICES ASSUME NEW p \in left
                 PROVE  /\ Spent(p[2])' /\ warned[p[2]] = 0
                        /\ \A q \in left : q[2] = p[2] => q = p
                        /\ \A b \in Account : Linked(b, p[2])' => b = p[1]
      BY <2>1, <2>2 DEF FoundOnce, NotWarnedYet
    <3>1. PICK a \in found : p = <<a, acct[a].token>>
      OBVIOUS
    <3>2. p[1] = a /\ p[2] = acct[a].token /\ Linked(a, p[2]) /\ ~acct[a].reminded
          /\ p[2] \in Grant
      BY <3>1 DEF Social!Expiring, Social!Is, Linked, Social!TypeOK, Social!Row
    <3>3. \A b \in Account : Linked(b, p[2]) => b = a
      BY <3>2 DEF TokenInv, LinkedOnce
    <3>4. \A q \in left : q[2] = p[2] => q = p
      <4> SUFFICES ASSUME NEW b \in found, acct[b].token = p[2]
                   PROVE  <<b, acct[b].token>> = p
        OBVIOUS
      <4>1. Linked(b, p[2])
        BY DEF Linked, Social!Expiring, Social!Is
      <4> QED BY <3>1, <3>3, <4>1
    <3>5. Spent(p[2]) /\ warned[p[2]] = 0
      BY <3>2 DEF TokenInv, LinkedOnce, WarnedMarked
    <3> HIDE DEF left
    <3> QED BY <2>3, <3>2, <3>3, <3>4, <3>5
  <2>5. HeldOnce' /\ LinkedOnce'
    BY <2>2, <2>3 DEF TokenInv, HeldOnce, LinkedOnce, Holds, Social!At
  <2>6. WarnedMarked' /\ ToldExpired'
    BY <2>2, <2>3 DEF TokenInv, WarnedMarked, ToldExpired, Telling
  <2> QED BY <2>4, <2>5, <2>6 DEF TokenInv
<1>20. ASSUME Social!Mark PROVE TokenInv'
  <2> DEFINE found == {p[1] : p \in cron.left}
  <2>1. cron # Social!Idle /\ cron' = [cron EXCEPT !.pc = "tell"]
    BY <1>20 DEF Social!Mark, Social!Idle
  <2>2. cron'.pc = "tell" /\ cron'.left = cron.left
    BY <2>1, SocialCron
  <2>3. UNCHANGED <<state, drawn, req, warned, told, worker>>
    BY <1>20 DEF Social!Mark, Social!oauth, Social!queue, Social!notices
  <2>4. acct' = [a \in Account |->
                   IF a \in found THEN [acct[a] EXCEPT !.reminded = TRUE] ELSE acct[a]]
    BY <1>20 DEF Social!Mark
  <2>5. \A a \in Account : a \in found => acct[a] \in Social!Row
    BY <2>1 DEF SocialTyped, FoundLinked, Social!TypeOK
  <2>6. \A a \in Account : IF a \in found
                             THEN /\ acct'[a].token = acct[a].token /\ acct'[a].reminded
                                  /\ acct'[a].status = acct[a].status /\ acct[a] # None
                             ELSE acct'[a] = acct[a]
    <3> HIDE DEF found
    <3> QED BY <2>4, <2>5, NoneAssumption DEF Social!Row
  <2>7. \A a \in Account, h \in Grant :
          Linked(a, h)' => /\ Linked(a, h) /\ (acct[a].reminded => acct'[a].reminded)
                           /\ acct'[a].status = acct[a].status
    <3> HIDE DEF found
    <3> QED BY <2>6 DEF Linked
  <2>8. \A h \in Grant : Spent(h)' <=> Spent(h)
    BY <2>3 DEF Spent, Holds, Social!At
  <2>9. FoundOnce'
    <3> SUFFICES ASSUME NEW p \in cron.left PROVE NotWarnedYet(p)'
      BY <2>2 DEF FoundOnce
    <3>1. p[2] \in Grant /\ p[1] \in found /\ NotWarnedYet(p)
      BY <2>1, SocialCron DEF TokenInv, FoundOnce
    <3> HIDE DEF found
    <3> QED BY <3>1, <2>2, <2>3, <2>6, <2>7, <2>8 DEF NotWarnedYet
  <2> HIDE DEF found
  <2>10. HeldOnce' /\ LinkedOnce'
    BY <2>3, <2>7, <2>8 DEF TokenInv, HeldOnce, LinkedOnce, Holds, Social!At
  <2>11. WarnedMarked' /\ ToldExpired'
    BY <2>3, <2>7, <2>8 DEF TokenInv, WarnedMarked, ToldExpired, Telling
  <2> QED BY <2>9, <2>10, <2>11 DEF TokenInv
<1>21. ASSUME Social!Warn PROVE TokenInv'
  <2>1. PICK p \in cron.left :
          /\ warned' = [warned EXCEPT ![p[2]] = Social!Twice(@)]
          /\ cron' = IF cron.left = {p} THEN Social!Idle
                      ELSE [cron EXCEPT !.left = cron.left \ {p}]
    BY <1>21 DEF Social!Warn
  <2>2. cron # Social!Idle /\ cron.pc = "tell"
    BY <1>21 DEF Social!Warn, Social!Idle
  <2>3. p[2] \in Grant /\ NotWarnedYet(p)
    BY <2>2, SocialCron DEF TokenInv, FoundOnce
  <2>4. /\ warned' = [warned EXCEPT ![p[2]] = Social!Twice(warned[p[2]])]
        /\ warned[p[2]] = 0
    BY <2>1, <2>3 DEF NotWarnedYet
  <2>5. warned'[p[2]] = 1 /\ \A h \in Grant \ {p[2]} : warned'[h] = warned[h]
    BY <2>3, <2>4, SocialTold DEF Social!TypeOK
  <2>6. UNCHANGED <<acct, state, drawn, req, told, worker>>
    BY <1>21 DEF Social!Warn, Social!oauth, Social!queue
  <2>7. \A h \in Grant : (Spent(h)' <=> Spent(h))
          /\ \A a \in Account : Linked(a, h)' <=> Linked(a, h)
    BY <2>6 DEF Spent, Holds, Social!At, Linked
  <2>8. FoundOnce'
    <3>1. CASE cron.left = {p}
      BY <2>1, <3>1 DEF FoundOnce
    <3>2. CASE cron.left # {p}
      <4>1. cron'.left = cron.left \ {p} /\ cron'.pc = "tell"
        BY <2>1, <2>2, <3>2, SocialCron
      <4> SUFFICES ASSUME NEW q \in cron.left \ {p} PROVE NotWarnedYet(q)'
        BY <4>1 DEF FoundOnce
      <4>2. q[2] \in Grant /\ NotWarnedYet(q) /\ q[2] # p[2]
        BY <2>2, <2>3, SocialCron DEF TokenInv, FoundOnce, NotWarnedYet
      <4> QED BY <4>1, <4>2, <2>2, <2>5, <2>6, <2>7 DEF NotWarnedYet
    <3> QED BY <3>1, <3>2
  <2>9. HeldOnce' /\ LinkedOnce'
    BY <2>6, <2>7 DEF TokenInv, HeldOnce, LinkedOnce, Holds, Social!At
  <2>10. WarnedMarked'
    <3> SUFFICES ASSUME NEW h \in Grant, warned'[h] # 0
                 PROVE  /\ warned'[h] = 1 /\ Spent(h)
                        /\ \A a \in Account : Linked(a, h) => acct[a].reminded
      BY <2>6, <2>7 DEF WarnedMarked
    <3>1. CASE h = p[2]
      BY <2>2, <2>3, <2>5, <3>1 DEF NotWarnedYet
    <3>2. CASE h # p[2]
      BY <2>5, <3>2 DEF TokenInv, WarnedMarked
    <3> QED BY <3>1, <3>2
  <2>11. ToldExpired'
    BY <2>6, <2>7 DEF TokenInv, ToldExpired, Telling
  <2> QED BY <2>8, <2>9, <2>10, <2>11 DEF TokenInv
<1>22. ASSUME Social!Crash PROVE TokenInv'
  <2>1. /\ cron' = Social!Idle /\ worker'.pc = "idle"
        /\ \A r \in Request : req'[r].pc = "idle"
        /\ UNCHANGED <<acct, state, drawn, warned, told>>
    BY <1>22 DEF Social!Crash, Social!Idle, Social!notices
  <2>2. \A h \in Grant : (Spent(h) => Spent(h)')
          /\ \A a \in Account : Linked(a, h)' <=> Linked(a, h)
    BY <2>1 DEF Spent, Holds, Social!At, Linked
  <2>3. HeldOnce' /\ FoundOnce'
    BY <2>1 DEF HeldOnce, FoundOnce, Holds, Social!At
  <2>4. LinkedOnce' /\ WarnedMarked' /\ ToldExpired'
    BY <2>1, <2>2 DEF TokenInv, LinkedOnce, WarnedMarked, ToldExpired, Telling
  <2> QED BY <2>3, <2>4 DEF TokenInv
<1> QED BY <1>1, <1>2, <1>3, <1>4, <1>5, <1>6, <1>7, <1>8, <1>9, <1>10, <1>11, <1>12,
           <1>13, <1>14, <1>15, <1>16, <1>17, <1>18, <1>19, <1>20, <1>21, <1>22
        DEF Social!Next

\* Nobody is told twice that a token will expire, or has: a token is linked once,
\* marked before anybody is warned, and told of by who turned its account from
\* active to expired, whatever crashes or is retried.
THEOREM NoticedOnce == ServicesSpec => []OneNoticePerToken
<1>1. TokenInv => OneNoticePerToken
  <2> SUFFICES ASSUME TokenInv, NEW g \in Grant PROVE warned[g] <= 1 /\ told[g] <= 1
    BY DEF OneNoticePerToken, Social!OneNoticePerToken
  <2>1. warned[g] \in 0..2 /\ told[g] \in 0..2
    BY DEF TokenInv, SocialTyped, Social!TypeOK
  <2> QED BY <2>1 DEF TokenInv, WarnedMarked, ToldExpired
<1> QED BY <1>1, SocialPart, TokenInit, TokenStep, PTL

\* Only a new authorization takes an account out of REVOKED: a sync on its way
\* marks active accounts alone, and the token of a new link is one no account has.
THEOREM RevokedStays == ServicesSpec => RevokedUntilReconnected
<1>1. ASSUME TokenInv, [Social!Next]_(Social!vars), NEW a \in Account,
             Social!Is(a, "REVOKED")
      PROVE  acct'[a].status = "REVOKED" \/ acct'[a].token # acct[a].token
  <2> SUFFICES ASSUME Social!Next, acct'[a] # acct[a]
               PROVE  acct'[a].status = "REVOKED" \/ acct'[a].token # acct[a].token
    BY <1>1 DEF Social!vars, Social!Is
  <2>0. Social!TypeOK /\ acct[a] # None /\ acct[a] \in Social!Row
        /\ acct[a].status = "REVOKED" /\ acct[a].token \in Grant
    BY <1>1 DEF TokenInv, SocialTyped, Social!TypeOK, Social!Is, Social!Row
  <2>1. CASE \E r \in Request : Social!Upsert(r)
    <3>1. PICK r \in Request : Social!Upsert(r)
      BY <2>1
    <3>2. acct' = [acct EXCEPT ![req[r].account] =
            [status |-> "ACTIVE", token |-> req[r].grant, reminded |-> FALSE]]
      BY <3>1 DEF Social!Upsert
    <3>3. req[r].account = a
      BY <3>2, <2>0 DEF Social!TypeOK
    <3>4. acct'[a].token = req[r].grant
      BY <3>2, <3>3, <2>0 DEF Social!TypeOK
    <3>5. Spent(acct[a].token)
      BY <1>1, <2>0 DEF TokenInv, LinkedOnce, Linked
    <3> QED BY <3>1, <3>4, <3>5 DEF Spent, Holds, Social!Upsert
  <2>2. CASE \E b \in Account : Social!Revoke(b)
    BY <2>0, <2>2 DEF Social!Revoke, Social!TypeOK
  <2>3. CASE Social!MarkExpired
    <3>1. worker.account # a
      BY <2>0, <2>3 DEF Social!MarkExpired, Social!Is
    <3> QED BY <2>3, <3>1, <2>0 DEF Social!MarkExpired, Social!TypeOK
  <2>4. CASE Social!Mark
    <3>1. acct'[a] = [acct[a] EXCEPT !.reminded = TRUE]
      BY <2>4 DEF Social!Mark
    <3> QED BY <3>1, <2>0 DEF Social!Row
  <2> QED BY <2>1, <2>2, <2>3, <2>4
          DEF Social!Next, Social!Age, Social!Invalidate, Social!StartOAuth, Social!Expire,
              Social!QueueSync, Social!Abandon, Social!Callback, Social!Exchange,
              Social!TriggerSync, Social!Process, Social!Store, Social!Refuse,
              Social!TellExpired, Social!Throw, Social!Find, Social!Warn, Social!Crash
<1>2. TokenInv /\ [Social!Next]_(Social!vars) =>
        [\A a \in Account : Social!Is(a, "REVOKED") =>
           acct'[a].status = "REVOKED" \/ acct'[a].token # acct[a].token]_(Social!vars)
  BY <1>1
<1> QED BY <1>2, SocialPart, TokenInit, TokenStep, PTL
        DEF RevokedUntilReconnected, Social!RevokedUntilReconnected

-----------------------------------------------------------------------------
(* The counters.                                                           *)

QuotaLocal ==
  {Quota!Idle} \cup [pc : {"increment", "block"}]
               \cup [pc : {"minute", "global"}, visitor : Visitor]
               \cup [pc : {"day"}, visitor : Visitor, perMinute : 1..(PerMinute + 1)]

LEMMA QuotaTypes ==
  ASSUME Quota!TypeOK
  PROVE  /\ now \in Nat /\ qReq \in [Request -> QuotaLocal]
         /\ \A v \in Visitor :
              /\ minute[v] \in 0..(PerMinute + 1) /\ share[v] \in Nat
              /\ day[v].n \in 0..(PerDay + 1) /\ day[v].left \in 0..2
         /\ \A r \in Request :
              /\ qReq[r] \in QuotaLocal
              /\ \A p \in {"minute", "day", "global"} :
                   Quota!At(r, p) => qReq[r].visitor \in Visitor
<1>1. now \in Nat /\ qReq \in [Request -> QuotaLocal]
  BY BoundsAssumption DEF Quota!TypeOK, QuotaLocal
<1>2. ASSUME NEW v \in Visitor
      PROVE  /\ minute[v] \in 0..(PerMinute + 1) /\ share[v] \in Nat
             /\ day[v].n \in 0..(PerDay + 1) /\ day[v].left \in 0..2
  BY LimitsAssumption DEF Quota!TypeOK, Quota!HalfDays
<1>3. ASSUME NEW r \in Request
      PROVE  /\ qReq[r] \in QuotaLocal
             /\ \A p \in {"minute", "day", "global"} :
                  Quota!At(r, p) => qReq[r].visitor \in Visitor
  BY <1>1 DEF QuotaLocal, Quota!Idle, Quota!At
<1> QED BY <1>1, <1>2, <1>3

\* A step of one request.
LEMMA QuotaStepped ==
  ASSUME Quota!TypeOK, NEW r \in Request, NEW q \in QuotaLocal, Quota!Becomes(r, q)
  PROVE  /\ qReq' \in [Request -> QuotaLocal]
         /\ qReq'[r] = q /\ \A p \in Request \ {r} : qReq'[p] = qReq[p]
BY QuotaTypes DEF Quota!Becomes

\* What a visitor has taken of a date, and is about to take, is of at most two of
\* its days: of the one under way, and in the second half of the date, unless that
\* one began before, of the one it follows.
Pending(v) == {r \in Request : Quota!At(r, "global") /\ qReq[r].visitor = v}
Former(v) == IF now % 2 = 1 /\ day[v].left # 1 THEN PerDay ELSE 0
Taken(v) == Former(v) + Quota!Least(day[v].n, PerDay)
SharesHold == \A v \in Visitor : share[v] + Cardinality(Pending(v)) <= Taken(v)
PassedHold == passed <= Quota!Least(hits, Limit)
QuotaInv == Quota!TypeOK /\ SharesHold /\ PassedHold

LEMMA PendingFinite ==
  ASSUME NEW v
  PROVE  IsFiniteSet(Pending(v)) /\ Cardinality(Pending(v)) \in Nat
<1>1. Pending(v) \subseteq Request
  BY DEF Pending
<1> QED BY <1>1, FiniteAssumption, FS_Subset, FS_CardinalityType

\* What a visitor may have taken.
LEMMA TakenBound ==
  ASSUME Quota!TypeOK, NEW v \in Visitor
  PROVE  /\ Taken(v) \in Nat /\ Taken(v) <= 2 * PerDay
         /\ Former(v) \in {0, PerDay}
         /\ Quota!Least(day[v].n, PerDay) \in 0..PerDay
BY QuotaTypes, LimitsAssumption DEF Taken, Former, Quota!Least

LEMMA QuotaInit == Quota!Init => QuotaInv
<1> SUFFICES ASSUME Quota!Init PROVE QuotaInv
  OBVIOUS
<1>1. Quota!TypeOK
  <2>1. minute \in [Visitor -> 0..(PerMinute + 1)] /\ share \in [Visitor -> 0..(2 * PerDay + 1)]
    BY LimitsAssumption DEF Quota!Init
  <2>2. day \in [Visitor -> [n : 0..(PerDay + 1), left : 0..2]]
        /\ \A v \in Visitor : day[v].left = 0 <=> day[v].n = 0
    BY LimitsAssumption DEF Quota!Init
  <2>3. qReq \in [Request -> QuotaLocal]
    BY DEF Quota!Init, QuotaLocal
  <2>4. now \in 0..MaxTime /\ global \in 0..(Global + 1) /\ hits \in 0..(Limit + 1)
        /\ passed \in 0..(Limit + 1)
    BY BoundsAssumption, LimitsAssumption DEF Quota!Init
  <2>5. blocked \in BOOLEAN
    BY DEF Quota!Init
  <2> QED BY <2>1, <2>2, <2>3, <2>4, <2>5 DEF Quota!TypeOK, Quota!HalfDays, QuotaLocal
<1>2. SharesHold
  <2> SUFFICES ASSUME NEW v \in Visitor
               PROVE  share[v] + Cardinality(Pending(v)) <= Taken(v)
    BY DEF SharesHold
  <2>1. Pending(v) = {} /\ share[v] = 0
    BY DEF Pending, Quota!Init, Quota!Idle, Quota!At
  <2>2. Cardinality(Pending(v)) = 0
    BY <2>1, FS_EmptySet
  <2> QED BY <1>1, <2>1, <2>2, TakenBound
<1>3. PassedHold
  BY LimitsAssumption DEF PassedHold, Quota!Init, Quota!Least
<1> QED BY <1>1, <1>2, <1>3 DEF QuotaInv

\* A step that leaves the days, the shares and what is pending.
LEMMA QuotaKept ==
  ASSUME QuotaInv, Quota!TypeOK', PassedHold', UNCHANGED <<now, day, share>>,
         \A v \in Visitor : Pending(v)' = Pending(v)
  PROVE  QuotaInv'
BY DEF QuotaInv, SharesHold, Taken, Former

\* A request that is not at the count of the date, before or after.
LEMMA PendingKept ==
  ASSUME NEW r \in Request, ~Quota!At(r, "global"), ~Quota!At(r, "global")',
         \A p \in Request \ {r} : qReq'[p] = qReq[p]
  PROVE  \A v \in Visitor : Pending(v)' = Pending(v)
BY DEF Pending, Quota!At

LEMMA QuotaStep ==
  ASSUME QuotaInv, [Quota!Next]_(Quota!vars) PROVE QuotaInv'
<1>0. Quota!TypeOK /\ SharesHold /\ PassedHold
  BY DEF QuotaInv
<1> USE <1>0, LimitsAssumption, BoundsAssumption
<1>1. ASSUME UNCHANGED Quota!vars PROVE QuotaInv'
  BY <1>1 DEF Quota!vars, Quota!public, Quota!throttle, QuotaInv, Quota!TypeOK, SharesHold,
     PassedHold, Taken, Former, Pending, Quota!At
<1>2. ASSUME NEW r \in Request, NEW v \in Visitor, Quota!AskPublic(r, v) PROVE QuotaInv'
  <2> DEFINE q == [pc |-> "minute", visitor |-> v]
  <2>1. q \in QuotaLocal /\ q.pc = "minute"
    BY DEF QuotaLocal
  <2>2. Quota!Becomes(r, q) /\ Quota!At(r, "idle")
    BY <1>2 DEF Quota!AskPublic
  <2> HIDE DEF q
  <2>3. /\ qReq' \in [Request -> QuotaLocal]
        /\ qReq'[r] = q /\ \A p \in Request \ {r} : qReq'[p] = qReq[p]
    BY <2>1, <2>2, QuotaStepped
  <2>4. \A x \in Visitor : Pending(x)' = Pending(x)
    BY <2>1, <2>2, <2>3, PendingKept DEF Quota!At
  <2>5. Quota!TypeOK' /\ PassedHold'
    BY <1>2, <2>3 DEF Quota!AskPublic, Quota!public, Quota!throttle, Quota!TypeOK,
       QuotaLocal, PassedHold
  <2> QED BY <1>2, <2>4, <2>5, QuotaKept DEF Quota!AskPublic, Quota!public
<1>3. ASSUME NEW r \in Request, Quota!CountMinute(r) PROVE QuotaInv'
  <2> DEFINE v == qReq[r].visitor
             n == Quota!Least(minute[v] + 1, PerMinute + 1)
             q == [pc |-> "day", visitor |-> v, perMinute |-> n]
  <2>1. v \in Visitor /\ Quota!At(r, "minute")
    BY <1>3, QuotaTypes DEF Quota!CountMinute
  <2>2. n \in 1..(PerMinute + 1)
    BY <2>1, QuotaTypes DEF Quota!Least
  <2>3. Quota!Becomes(r, q) /\ minute' = [minute EXCEPT ![v] = n]
    BY <1>3 DEF Quota!CountMinute
  <2> HIDE DEF n, v
  <2>4. q \in QuotaLocal /\ q.pc = "day"
    BY <2>1, <2>2 DEF QuotaLocal
  <2> HIDE DEF q
  <2>5. /\ qReq' \in [Request -> QuotaLocal]
        /\ qReq'[r] = q /\ \A p \in Request \ {r} : qReq'[p] = qReq[p]
    BY <2>3, <2>4, QuotaStepped
  <2>6. \A x \in Visitor : Pending(x)' = Pending(x)
    BY <2>1, <2>4, <2>5, PendingKept DEF Quota!At
  <2>7. Quota!TypeOK' /\ PassedHold'
    <3>1. minute' \in [Visitor -> 0..(PerMinute + 1)]
      <4>1. n \in 0..(PerMinute + 1)
        BY <2>2
      <4> QED BY <4>1, <2>3 DEF Quota!TypeOK
    <3>2. UNCHANGED <<now, day, global, share, hits, blocked, passed>>
      BY <1>3 DEF Quota!CountMinute, Quota!throttle
    <3> QED BY <2>5, <3>1, <3>2 DEF Quota!TypeOK, QuotaLocal, PassedHold
  <2> QED BY <1>3, <2>6, <2>7, QuotaKept DEF Quota!CountMinute
<1>4. ASSUME NEW r \in Request, Quota!CountDay(r) PROVE QuotaInv'
  <2>0. Quota!At(r, "day") /\ qReq[r].visitor \in Visitor
    BY <1>4, QuotaTypes DEF Quota!CountDay
  <2> PICK v \in Visitor : v = qReq[r].visitor
    BY <2>0
  <2> DEFINE n == Quota!Least(day[v].n + 1, PerDay + 1)
             left == IF day[v].left = 0 THEN 2 ELSE day[v].left
             x == [n |-> n, left |-> left]
             q == IF Quota!Accepted(r, n) THEN [pc |-> "global", visitor |-> v]
                  ELSE Quota!Idle
  <2>1. /\ n \in 1..(PerDay + 1) /\ left \in 1..2
        /\ n <= PerDay => n = day[v].n + 1
        /\ n > PerDay => day[v].n >= PerDay
        /\ left = 1 => day[v].left = 1
        /\ day[v].left = 1 => left = 1
        /\ day[v].n \in Nat
    BY QuotaTypes DEF Quota!Least
  <2>2. day' = [day EXCEPT ![v] = x] /\ Quota!Becomes(r, q)
    BY <1>4 DEF Quota!CountDay, Quota!HalfDays
  <2>3. q \in QuotaLocal /\ (q.pc = "global" <=> Quota!Accepted(r, n))
        /\ (q.pc = "global" => q.visitor = v)
    BY DEF QuotaLocal, Quota!Idle
  <2>4. x \in [n : 0..(PerDay + 1), left : 0..2] /\ x.n = n /\ x.left = left
    BY <2>1
  <2>5. Quota!Accepted(r, n) => n <= PerDay
    BY DEF Quota!Accepted
  <2> HIDE DEF n, left, x, q
  <2>6. /\ qReq' \in [Request -> QuotaLocal]
        /\ qReq'[r] = q /\ \A p \in Request \ {r} : qReq'[p] = qReq[p]
    BY <2>2, <2>3, QuotaStepped
  <2>7. /\ day'[v] = x /\ \A w \in Visitor \ {v} : day'[w] = day[w]
        /\ day' \in [Visitor -> [n : 0..(PerDay + 1), left : 0..2]]
    BY <2>2, <2>4 DEF Quota!TypeOK, Quota!HalfDays
  <2>8. Quota!TypeOK' /\ PassedHold'
    <3>1. \A w \in Visitor : day'[w].left = 0 <=> day'[w].n = 0
      BY <2>1, <2>4, <2>7 DEF Quota!TypeOK
    <3> QED BY <1>4, <2>6, <2>7, <3>1 DEF Quota!CountDay, Quota!throttle, Quota!TypeOK,
            QuotaLocal, PassedHold, Quota!HalfDays
  <2>9. UNCHANGED <<now, share>>
    BY <1>4 DEF Quota!CountDay
  <2>10. ASSUME NEW w \in Visitor, w # v
         PROVE  share'[w] + Cardinality(Pending(w)') <= Taken(w)'
    <3>1. Pending(w)' = Pending(w)
      BY <2>0, <2>3, <2>6, <2>10 DEF Pending, Quota!At
    <3>2. Taken(w)' = Taken(w)
      BY <2>7, <2>9, <2>10 DEF Taken, Former
    <3> QED BY <2>9, <3>1, <3>2 DEF SharesHold
  <2>11. share'[v] + Cardinality(Pending(v)') <= Taken(v)'
    <3>1. r \notin Pending(v)
      BY <2>0 DEF Pending, Quota!At
    <3>2. /\ Former(v)' = Former(v)
          /\ Taken(v)' = Former(v) + Quota!Least(n, PerDay)
      BY <2>1, <2>4, <2>7, <2>9 DEF Taken, Former
    <3>3. CASE q.pc = "global"
      <4>1. Pending(v)' = Pending(v) \cup {r}
        BY <2>0, <2>3, <2>6, <3>3 DEF Pending, Quota!At
      <4>2. Cardinality(Pending(v)') = Cardinality(Pending(v)) + 1
        BY <4>1, <3>1, PendingFinite, FS_AddElement
      <4>3. Quota!Least(n, PerDay) = Quota!Least(day[v].n, PerDay) + 1
        BY <2>1, <2>3, <2>5, <3>3 DEF Quota!Least
      <4> HIDE DEF QuotaInv
      <4>4. share[v] + Cardinality(Pending(v)) <= Taken(v)
        BY DEF SharesHold
      <4>5. /\ Former(v) \in Nat /\ Quota!Least(day[v].n, PerDay) \in Nat
            /\ Taken(v) = Former(v) + Quota!Least(day[v].n, PerDay)
            /\ share[v] \in Nat /\ Cardinality(Pending(v)) \in Nat
        BY TakenBound, QuotaTypes, PendingFinite DEF Taken
      <4> QED BY <2>9, <3>2, <4>2, <4>3, <4>4, <4>5
    <3>4. CASE q.pc # "global"
      <4>1. Pending(v)' = Pending(v)
        BY <2>0, <2>3, <2>6, <3>4 DEF Pending, Quota!At
      <4>2. Quota!Least(n, PerDay) >= Quota!Least(day[v].n, PerDay)
        BY <2>1 DEF Quota!Least
      <4>4. share[v] + Cardinality(Pending(v)) <= Taken(v)
        BY DEF SharesHold
      <4>5. /\ Former(v) \in Nat /\ Quota!Least(day[v].n, PerDay) \in Nat
            /\ Taken(v) = Former(v) + Quota!Least(day[v].n, PerDay)
            /\ share[v] \in Nat /\ Cardinality(Pending(v)) \in Nat
            /\ Quota!Least(n, PerDay) \in Nat
        BY <2>1, TakenBound, QuotaTypes, PendingFinite DEF Taken, Quota!Least
      <4> QED BY <2>9, <3>2, <4>1, <4>2, <4>4, <4>5
    <3> QED BY <3>3, <3>4
  <2>12. SharesHold'
    BY <2>10, <2>11 DEF SharesHold
  <2> QED BY <2>8, <2>12 DEF QuotaInv
<1>5. ASSUME NEW r \in Request, Quota!CountGlobal(r) PROVE QuotaInv'
  <2>0. Quota!At(r, "global") /\ qReq[r].visitor \in Visitor
    BY <1>5, QuotaTypes DEF Quota!CountGlobal
  <2> PICK v \in Visitor : v = qReq[r].visitor
    BY <2>0
  <2>1. Quota!Idle \in QuotaLocal /\ Quota!Idle.pc = "idle"
    BY DEF QuotaLocal, Quota!Idle
  <2>2. /\ qReq' \in [Request -> QuotaLocal]
        /\ qReq'[r] = Quota!Idle /\ \A p \in Request \ {r} : qReq'[p] = qReq[p]
    BY <1>5, <2>1, QuotaStepped DEF Quota!CountGlobal
  <2>3. Pending(v)' = Pending(v) \ {r} /\ r \in Pending(v)
    BY <2>0, <2>1, <2>2 DEF Pending, Quota!At
  <2>4. /\ Cardinality(Pending(v)') = Cardinality(Pending(v)) - 1
        /\ Cardinality(Pending(v)) \in Nat
    <3>1. IsFiniteSet(Pending(v)) /\ Cardinality(Pending(v)) \in Nat
      BY PendingFinite
    <3>2. Cardinality(Pending(v) \ {r}) = Cardinality(Pending(v)) - 1
      BY <2>3, <3>1, FS_RemoveElement
    <3> QED BY <2>3, <3>1, <3>2
  <2>5. /\ share[v] + Cardinality(Pending(v)) <= Taken(v)
        /\ Taken(v) \in Nat /\ Taken(v) <= 2 * PerDay /\ share[v] \in Nat
    BY TakenBound, QuotaTypes DEF SharesHold
  <2>6. Cardinality(Pending(v)) # 0
    BY <2>3, PendingFinite, FS_EmptySet
  <2>7. Quota!Least(share[v] + 1, 2 * PerDay + 1) = share[v] + 1
        /\ share[v] + 1 \in 0..(2 * PerDay + 1)
    BY <2>4, <2>5, <2>6 DEF Quota!Least
  <2>8. share' = [share EXCEPT ![v] = share[v] + 1]
    BY <1>5, <2>7 DEF Quota!CountGlobal
  <2>9. /\ share'[v] = share[v] + 1 /\ \A w \in Visitor \ {v} : share'[w] = share[w]
        /\ share' \in [Visitor -> 0..(2 * PerDay + 1)]
    BY <2>7, <2>8 DEF Quota!TypeOK
  <2>10. global' \in 0..(Global + 1)
    BY <1>5 DEF Quota!CountGlobal, Quota!Least, Quota!TypeOK
  <2>11. Quota!TypeOK' /\ PassedHold'
    BY <1>5, <2>2, <2>9, <2>10 DEF Quota!CountGlobal, Quota!throttle, Quota!TypeOK,
       QuotaLocal, PassedHold
  <2>12. \A w \in Visitor : Taken(w)' = Taken(w)
    BY <1>5 DEF Quota!CountGlobal, Taken, Former
  <2>13. ASSUME NEW w \in Visitor, w # v
         PROVE  share'[w] + Cardinality(Pending(w)') <= Taken(w)'
    <3>1. Pending(w)' = Pending(w)
      BY <2>0, <2>1, <2>2, <2>13 DEF Pending, Quota!At
    <3> QED BY <2>9, <2>12, <2>13, <3>1 DEF SharesHold
  <2>14. share'[v] + Cardinality(Pending(v)') <= Taken(v)'
    BY <2>4, <2>5, <2>9, <2>12
  <2> QED BY <2>11, <2>13, <2>14 DEF QuotaInv, SharesHold
<1>6. ASSUME NEW v \in Visitor, Quota!MinuteOver(v) PROVE QuotaInv'
  <2>1. Quota!TypeOK' /\ PassedHold'
    BY <1>6 DEF Quota!MinuteOver, Quota!throttle, Quota!TypeOK, PassedHold
  <2> QED BY <1>6, <2>1, QuotaKept DEF Quota!MinuteOver, Pending, Quota!At
<1>7. ASSUME Quota!HalfDay PROVE QuotaInv'
  <2>1. now' = now + 1 /\ now' \in 0..MaxTime
    BY <1>7 DEF Quota!HalfDay, Quota!TypeOK
  <2>2. \A w \in Visitor :
          /\ day[w].left <= 1 => day'[w] = [n |-> 0, left |-> 0]
          /\ ~(day[w].left <= 1) =>
               day'[w] = [n |-> day[w].n, left |-> day[w].left - 1]
    <3> SUFFICES ASSUME NEW w \in Visitor
                 PROVE  /\ day[w].left <= 1 => day'[w] = [n |-> 0, left |-> 0]
                        /\ ~(day[w].left <= 1) =>
                             day'[w] = [n |-> day[w].n, left |-> day[w].left - 1]
      OBVIOUS
    <3>1. day'[w] = IF day[w].left <= 1 THEN [n |-> 0, left |-> 0]
                    ELSE [day[w] EXCEPT !.left = day[w].left - 1]
      BY <1>7 DEF Quota!HalfDay
    <3>2. [day[w] EXCEPT !.left = day[w].left - 1]
            = [n |-> day[w].n, left |-> day[w].left - 1]
      BY DEF Quota!TypeOK
    <3> QED BY <3>1, <3>2
  <2>3. day' \in [Visitor -> [n : 0..(PerDay + 1), left : 0..2]]
    <3>1. day' = [w \in Visitor |-> day'[w]]
      BY <1>7 DEF Quota!HalfDay
    <3> QED BY <3>1, <2>2, QuotaTypes
  <2>4. Quota!TypeOK'
    <3>1. \A w \in Visitor : day'[w].left = 0 <=> day'[w].n = 0
      <4> SUFFICES ASSUME NEW w \in Visitor
                   PROVE  day'[w].left = 0 <=> day'[w].n = 0
        OBVIOUS
      <4>1. CASE day[w].left <= 1
        <5>1. day'[w] = [n |-> 0, left |-> 0]
          BY <2>2, <4>1
        <5> QED BY <5>1
      <4>2. CASE ~(day[w].left <= 1)
        <5>1. day'[w] = [n |-> day[w].n, left |-> day[w].left - 1]
          BY <2>2, <4>2
        <5>2. day[w].left \in Nat /\ (day[w].left = 0 <=> day[w].n = 0)
          BY QuotaTypes DEF Quota!TypeOK
        <5> QED BY <4>2, <5>1, <5>2
      <4> QED BY <4>1, <4>2
    <3> QED BY <1>7, <2>1, <2>3, <3>1
            DEF Quota!HalfDay, Quota!throttle, Quota!TypeOK, Quota!HalfDays
  <2>5. PassedHold'
    BY <1>7 DEF Quota!HalfDay, Quota!throttle, PassedHold
  <2>6. ASSUME NEW w \in Visitor
        PROVE  share'[w] + Cardinality(Pending(w)') <= Taken(w)'
    <3>1. Pending(w) = {} /\ Pending(w)' = {}
      BY <1>7 DEF Quota!HalfDay, Pending, Quota!At
    <3>2. Cardinality(Pending(w)) = 0 /\ Cardinality(Pending(w)') = 0
      BY <3>1, FS_EmptySet
    <3>3. CASE now' % 2 = 0
      <4>1. share'[w] = 0
        BY <1>7, <2>1, <3>3 DEF Quota!HalfDay, Quota!HalfDays
      <4>2. Taken(w)' \in Nat
        <5>1. day'[w].n \in Nat
          BY <2>3
        <5> QED BY <5>1 DEF Taken, Former, Quota!Least
      <4> QED BY <3>2, <4>1, <4>2
    <3>4. CASE now' % 2 # 0
      <4>1. share'[w] = share[w] /\ share[w] \in Nat
        BY <1>7, <2>1, <3>4, QuotaTypes DEF Quota!HalfDay, Quota!HalfDays
      <4>2. now % 2 = 0 /\ now' % 2 = 1
        BY <2>1, <3>4, QuotaTypes
      <4>3. share[w] <= Quota!Least(day[w].n, PerDay)
        BY <3>2, <4>1, <4>2, QuotaTypes DEF SharesHold, Taken, Former, Quota!Least
      <4>4. CASE day[w].left <= 1
        <5>0. day'[w].n = 0 /\ day'[w].left = 0
          <6>1. day'[w] = [n |-> 0, left |-> 0]
            BY <2>2, <4>4
          <6> QED BY <6>1
        <5>1. Taken(w)' = PerDay
          BY <4>2, <5>0 DEF Taken, Former, Quota!Least
        <5> QED BY <3>2, <4>1, <4>3, <5>1, QuotaTypes DEF Quota!Least
      <4>5. CASE ~(day[w].left <= 1)
        <5>1. day'[w].left = 1 /\ day'[w].n = day[w].n
          <6>1. day'[w] = [n |-> day[w].n, left |-> day[w].left - 1]
            BY <2>2, <4>5
          <6>2. day[w].left \in 0..2
            BY QuotaTypes
          <6> QED BY <4>5, <6>1, <6>2
        <5>2. Taken(w)' = Quota!Least(day[w].n, PerDay)
          BY <4>2, <5>1, QuotaTypes DEF Taken, Former, Quota!Least
        <5> QED BY <3>2, <4>1, <4>3, <5>2
      <4> QED BY <4>4, <4>5
    <3> QED BY <3>3, <3>4
  <2> QED BY <2>4, <2>5, <2>6 DEF QuotaInv, SharesHold
<1>8. ASSUME NEW r \in Request, Quota!ReadBlock(r) PROVE QuotaInv'
  <2> DEFINE q == [pc |-> "increment"]
  <2>1. q \in QuotaLocal /\ q.pc = "increment"
    BY DEF QuotaLocal
  <2>2. Quota!Becomes(r, q) /\ Quota!At(r, "idle")
    BY <1>8 DEF Quota!ReadBlock
  <2> HIDE DEF q
  <2>3. /\ qReq' \in [Request -> QuotaLocal]
        /\ qReq'[r] = q /\ \A p \in Request \ {r} : qReq'[p] = qReq[p]
    BY <2>1, <2>2, QuotaStepped
  <2>4. \A x \in Visitor : Pending(x)' = Pending(x)
    BY <2>1, <2>2, <2>3, PendingKept DEF Quota!At
  <2>5. Quota!TypeOK' /\ PassedHold'
    BY <1>8, <2>3 DEF Quota!ReadBlock, Quota!public, Quota!throttle, Quota!TypeOK,
       QuotaLocal, PassedHold
  <2> QED BY <1>8, <2>4, <2>5, QuotaKept DEF Quota!ReadBlock, Quota!public
<1>9. ASSUME NEW r \in Request, Quota!Increment(r) PROVE QuotaInv'
  <2> DEFINE q == IF hits' > Limit THEN [pc |-> "block"] ELSE Quota!Idle
  <2>1. q \in QuotaLocal /\ q.pc # "global"
    BY DEF QuotaLocal, Quota!Idle
  <2>2. Quota!Becomes(r, q) /\ Quota!At(r, "increment")
    BY <1>9 DEF Quota!Increment
  <2> HIDE DEF q
  <2>3. /\ qReq' \in [Request -> QuotaLocal]
        /\ qReq'[r] = q /\ \A p \in Request \ {r} : qReq'[p] = qReq[p]
    BY <2>1, <2>2, QuotaStepped
  <2>4. \A x \in Visitor : Pending(x)' = Pending(x)
    BY <2>1, <2>2, <2>3, PendingKept DEF Quota!At
  <2>5. /\ hits' \in 0..(Limit + 1) /\ passed' \in 0..(Limit + 1) /\ PassedHold'
    BY <1>9 DEF Quota!Increment, Quota!TypeOK, Quota!Least, PassedHold
  <2>6. Quota!TypeOK'
    BY <1>9, <2>3, <2>5 DEF Quota!Increment, Quota!public, Quota!TypeOK, QuotaLocal
  <2> QED BY <1>9, <2>4, <2>5, <2>6, QuotaKept DEF Quota!Increment, Quota!public
<1>10. ASSUME NEW r \in Request, Quota!SetBlock(r) PROVE QuotaInv'
  <2>1. Quota!Idle \in QuotaLocal /\ Quota!Idle.pc = "idle"
    BY DEF QuotaLocal, Quota!Idle
  <2>2. /\ qReq' \in [Request -> QuotaLocal]
        /\ qReq'[r] = Quota!Idle /\ \A p \in Request \ {r} : qReq'[p] = qReq[p]
    BY <1>10, <2>1, QuotaStepped DEF Quota!SetBlock
  <2>3. \A x \in Visitor : Pending(x)' = Pending(x)
    BY <1>10, <2>1, <2>2, PendingKept DEF Quota!At, Quota!SetBlock
  <2>4. Quota!TypeOK' /\ PassedHold'
    BY <1>10, <2>2 DEF Quota!SetBlock, Quota!public, Quota!TypeOK, QuotaLocal, PassedHold
  <2> QED BY <1>10, <2>3, <2>4, QuotaKept DEF Quota!SetBlock, Quota!public
<1>11. ASSUME Quota!WindowOver PROVE QuotaInv'
  <2>1. Quota!TypeOK' /\ PassedHold'
    BY <1>11 DEF Quota!WindowOver, Quota!public, Quota!TypeOK, PassedHold, Quota!Least
  <2> QED BY <1>11, <2>1, QuotaKept DEF Quota!WindowOver, Quota!public, Pending, Quota!At
<1>12. ASSUME Quota!BlockOver PROVE QuotaInv'
  <2>1. Quota!TypeOK' /\ PassedHold'
    BY <1>12 DEF Quota!BlockOver, Quota!public, Quota!TypeOK, PassedHold
  <2> QED BY <1>12, <2>1, QuotaKept DEF Quota!BlockOver, Quota!public, Pending, Quota!At
<1> QED BY <1>1, <1>2, <1>3, <1>4, <1>5, <1>6, <1>7, <1>8, <1>9, <1>10, <1>11, <1>12
        DEF Quota!Next

\* A visitor takes no more than two of its days from a date, as its day spans a date
\* or begins in it once; and what is let through in a window is counted in it.
THEOREM QuotasKept == ServicesSpec => []QuotasHold
<1>1. QuotaInv => QuotasHold
  <2> SUFFICES ASSUME QuotaInv PROVE QuotasHold
    OBVIOUS
  <2>1. ASSUME NEW v \in Visitor PROVE share[v] <= 2 * PerDay
    <3>1. /\ share[v] + Cardinality(Pending(v)) <= Taken(v)
          /\ Taken(v) \in Nat /\ Taken(v) <= 2 * PerDay /\ share[v] \in Nat
      BY TakenBound, QuotaTypes DEF QuotaInv, SharesHold
    <3> QED BY <3>1, PendingFinite, LimitsAssumption
  <2>2. passed <= Limit
    BY LimitsAssumption DEF QuotaInv, PassedHold, Quota!TypeOK, Quota!Least
  <2> QED BY <2>1, <2>2 DEF QuotasHold, Quota!QuotasHold
<1> QED BY <1>1, QuotaPart, QuotaInit, QuotaStep, PTL

-----------------------------------------------------------------------------
(* Sets of numbers.                                                        *)

\* A set of natural numbers has a least one.
LEMMA LeastElement ==
  ASSUME NEW S \in SUBSET Nat, S # {}
  PROVE  \E m \in S : \A k \in S : m <= k
<1>1. IsWellFoundedOn(OpToRel(<, Nat), Nat)
  BY NatLessThanWellFounded
<1>2. PICK m \in S : \A k \in S : ~(<<k, m>> \in OpToRel(<, Nat))
  BY <1>1, WFMin
<1>3. \A k \in S : ~(k < m)
  BY <1>2 DEF OpToRel
<1> QED BY <1>3

\* A finite set of natural numbers has a greatest one: the one below the fewest.
LEMMA GreatestElement ==
  ASSUME NEW S \in SUBSET Nat, IsFiniteSet(S), S # {}
  PROVE  \E m \in S : \A k \in S : k <= m
<1> DEFINE Above(x) == {y \in S : y > x}
           Sizes == {Cardinality(Above(x)) : x \in S}
<1>1. \A x \in S : IsFiniteSet(Above(x)) /\ Cardinality(Above(x)) \in Nat
  BY FS_Subset, FS_CardinalityType
<1>2. PICK n \in Sizes : \A k \in Sizes : n <= k
  <2>1. Sizes \in SUBSET Nat /\ Sizes # {}
    BY <1>1
  <2> HIDE DEF Sizes
  <2> QED BY <2>1, LeastElement
<1>3. PICK m \in S : n = Cardinality(Above(m))
  OBVIOUS
<1>4. ASSUME NEW y \in Above(m) PROVE FALSE
  <2>1. Above(y) \in SUBSET Above(m) /\ y \notin Above(y)
    <3>1. m \in Nat /\ y \in Nat /\ y > m
      OBVIOUS
    <3>2. ASSUME NEW z \in Above(y) PROVE z \in Above(m)
      <4>1. z \in Nat /\ z > y
        OBVIOUS
      <4> QED BY <3>1, <4>1
    <3>3. ~(y > y)
      BY <3>1
    <3>4. y \notin Above(y)
      BY <3>3
    <3> HIDE DEF Above
    <3> QED BY <3>2, <3>4
  <2>2. Cardinality(Above(y)) <= n /\ Cardinality(Above(y)) # n
    <3> HIDE DEF Above
    <3>1. IsFiniteSet(Above(m))
      BY <1>1
    <3> QED BY <1>3, <2>1, <3>1, FS_Subset
  <2>3. n <= Cardinality(Above(y)) /\ n \in Nat /\ Cardinality(Above(y)) \in Nat
    BY <1>1, <1>2, <1>3
  <2> QED BY <2>2, <2>3
<1> QED BY <1>4

-----------------------------------------------------------------------------
(* The demo.                                                               *)

\* The data are never older than the night they were written in.
AgeHolds == seed # None /\ ~missed => age <= IF clock = 0 THEN 4 ELSE clock
UpWorks == \A i \in Instance : pc[i] # "idle" => up[i]
DemoInv == Site!TypeOK /\ AgeHolds /\ UpWorks

LEMMA DemoInit == Site!Init => DemoInv
<1> SUFFICES ASSUME Site!Init PROVE DemoInv
  OBVIOUS
<1>1. missed \in BOOLEAN /\ up \in [Instance -> BOOLEAN]
  BY DEF Site!Init
<1>2. clock \in 0..3 /\ age \in 0..9
  BY DEF Site!Init
<1>3. /\ seed \in Seed \cup {None} /\ due \subseteq Instance /\ lock \in Instance \cup {None}
      /\ pc \in [Instance -> {"idle", "reset", "write"}]
      /\ \A i \in Instance : pc[i] = "idle" /\ lock # i
  BY NoneAssumption DEF Site!Init
<1>4. AgeHolds /\ UpWorks
  BY <1>3 DEF Site!Init, AgeHolds, UpWorks
<1> QED BY <1>1, <1>2, <1>3, <1>4 DEF Site!TypeOK, Site!MaxAge, DemoInv

\* A step of one instance that leaves the clock and the data.
LEMMA DemoStepped ==
  ASSUME DemoInv, UNCHANGED <<clock, seed, age, missed>>, due' \subseteq due,
         NEW i \in Instance, NEW p \in {"idle", "reset", "write"}, Site!Goes(i, p),
         up' \in [Instance -> BOOLEAN], \A j \in Instance \ {i} : up'[j] = up[j],
         p # "idle" => up'[i],
         lock' = IF p = "write" THEN i ELSE IF lock = i THEN None ELSE lock,
         p = "write" => lock = None
  PROVE  DemoInv'
<1>1. /\ pc' \in [Instance -> {"idle", "reset", "write"}]
      /\ pc'[i] = p /\ \A j \in Instance \ {i} : pc'[j] = pc[j]
  BY DEF DemoInv, Site!TypeOK, Site!Goes
<1>2. lock' \in Instance \cup {None}
  BY DEF DemoInv, Site!TypeOK
<1>3. \A j \in Instance : pc'[j] = "write" <=> lock' = j
  BY <1>1, NoneAssumption DEF DemoInv, Site!TypeOK
<1>4. UpWorks'
  BY <1>1 DEF DemoInv, UpWorks
<1> QED BY <1>1, <1>2, <1>3, <1>4 DEF DemoInv, Site!TypeOK, AgeHolds

LEMMA DemoStep ==
  ASSUME DemoInv, [Site!Next]_(Site!vars) PROVE DemoInv'
<1>1. ASSUME UNCHANGED Site!vars PROVE DemoInv'
  BY <1>1 DEF Site!vars, Site!data, DemoInv, Site!TypeOK, AgeHolds, UpWorks
<1>2. ASSUME Site!Tick PROVE DemoInv'
  <2>1. clock \in 0..3 /\ age \in 0..9 /\ missed \in BOOLEAN
    BY DEF DemoInv, Site!TypeOK, Site!MaxAge
  <2>2. clock' = (clock + 1) % 4 /\ clock' \in 0..3
    BY <1>2, <2>1 DEF Site!Tick
  <2>3. age' = IF seed = None THEN 0 ELSE IF age + 1 < 9 THEN age + 1 ELSE 9
    BY <1>2 DEF Site!Tick, Site!Least, Site!MaxAge
  <2>4. missed' = (missed \/ (seed # None /\ clock = 0 /\ age > 0))
    BY <1>2 DEF Site!Tick
  <2>5. missed' \in BOOLEAN
    BY <2>4
  <2>6. age' \in 0..9
    BY <2>1, <2>3
  <2>7. Site!TypeOK'
    BY <1>2, <2>2, <2>5, <2>6 DEF Site!Tick, DemoInv, Site!TypeOK, Site!MaxAge
  <2>8. AgeHolds'
    <3> SUFFICES ASSUME seed # None, ~missed, ~(clock = 0 /\ age > 0)
                 PROVE  age' <= IF clock' = 0 THEN 4 ELSE clock'
      BY <1>2, <2>4 DEF Site!Tick, AgeHolds
    <3>1. age <= clock
      BY <2>1 DEF DemoInv, AgeHolds
    <3>2. age' = age + 1
      BY <2>1, <2>3, <3>1
    <3> QED BY <2>1, <2>2, <3>1, <3>2
  <2> QED BY <1>2, <2>7, <2>8 DEF Site!Tick, DemoInv, UpWorks
<1>3. \A i \in Instance : (pc[i] = "write" <=> lock = i) /\ up[i] \in BOOLEAN
                             /\ pc[i] \in {"idle", "reset", "write"}
  BY DEF DemoInv, Site!TypeOK
<1>4. ASSUME NEW i \in Instance, Site!Boot(i) PROVE DemoInv'
  <2>1. PICK p \in {"idle", "reset"} : Site!Goes(i, p)
    BY <1>4 DEF Site!Boot
  <2>2. lock # i
    BY <1>3, <1>4 DEF Site!Boot, DemoInv, UpWorks
  <2>3. /\ up' \in [Instance -> BOOLEAN] /\ up'[i]
        /\ \A j \in Instance \ {i} : up'[j] = up[j]
    BY <1>4, Zenon DEF Site!Boot, DemoInv, Site!TypeOK
  <2> QED BY <1>4, <2>1, <2>2, <2>3, DemoStepped DEF Site!Boot, Site!data
<1>5. ASSUME NEW i \in Instance, Site!NightlyReset(i) PROVE DemoInv'
  <2>1. lock # i /\ up[i] /\ up \in [Instance -> BOOLEAN]
    BY <1>3, <1>5 DEF Site!NightlyReset, DemoInv, Site!TypeOK
  <2> QED BY <1>5, <2>1, DemoStepped DEF Site!NightlyReset, Site!data
<1>6. ASSUME NEW i \in Instance, Site!TryLock(i) PROVE DemoInv'
  <2>1. lock # i /\ up[i] /\ up \in [Instance -> BOOLEAN]
    BY <1>3, <1>6 DEF Site!TryLock, DemoInv, Site!TypeOK, UpWorks
  <2>2. CASE lock = None
    BY <1>6, <2>1, <2>2, DemoStepped DEF Site!TryLock, Site!data
  <2>3. CASE lock # None
    BY <1>6, <2>1, <2>3, DemoStepped DEF Site!TryLock, Site!data
  <2> QED BY <2>2, <2>3
<1>7. ASSUME NEW i \in Instance, Site!Commit(i) PROVE DemoInv'
  <2>1. /\ pc' \in [Instance -> {"idle", "reset", "write"}]
        /\ pc'[i] = "idle" /\ \A j \in Instance \ {i} : pc'[j] = pc[j]
    BY <1>7 DEF DemoInv, Site!TypeOK, Site!Commit, Site!Goes
  <2>2. lock' = None /\ lock = i
    BY <1>3, <1>7 DEF Site!Commit
  <2>3. \A j \in Instance : pc'[j] = "write" <=> lock' = j
    BY <1>3, <2>1, <2>2, NoneAssumption
  <2>4. age' = 0 /\ missed' = FALSE /\ clock' = clock /\ clock \in 0..3
        /\ UNCHANGED <<due, up>> /\ seed' \in Seed
    BY <1>7 DEF Site!Commit, DemoInv, Site!TypeOK
  <2>5. Site!TypeOK'
    <3>1. missed' \in BOOLEAN
      BY <2>4
    <3>2. age' \in 0..9
      BY <2>4
    <3> QED BY <2>1, <2>2, <2>3, <2>4, <3>1, <3>2 DEF DemoInv, Site!TypeOK, Site!MaxAge
  <2>6. AgeHolds'
    BY <2>4 DEF AgeHolds
  <2>7. UpWorks'
    BY <2>1, <2>4 DEF DemoInv, UpWorks
  <2> QED BY <2>5, <2>6, <2>7 DEF DemoInv
<1>8. ASSUME NEW i \in Instance, Site!Fail(i) PROVE DemoInv'
  <2>1. up \in [Instance -> BOOLEAN]
    BY DEF DemoInv, Site!TypeOK
  <2> QED BY <1>8, <2>1, DemoStepped DEF Site!Fail, Site!data
<1>9. ASSUME NEW i \in Instance, Site!Stop(i) PROVE DemoInv'
  <2>1. /\ up' \in [Instance -> BOOLEAN]
        /\ \A j \in Instance \ {i} : up'[j] = up[j]
    BY <1>9 DEF Site!Stop, DemoInv, Site!TypeOK
  <2> QED BY <1>9, <2>1, DemoStepped DEF Site!Stop, Site!data
<1> QED BY <1>1, <1>2, <1>4, <1>5, <1>6, <1>7, <1>8, <1>9 DEF Site!Next

\* As long as every night has its reset, the hourly job finds nothing late in the
\* demo: the data are at most a day old when the task due after a day would be late.
LEMMA NothingChased ==
  ASSUME DemoInv, seed # None, ~missed PROVE Site!NothingToChase
<1> SUFFICES ASSUME NEW t \in Site!Tasks PROVE ~Site!Overdue(t) /\ ~Site!Upcoming(t)
  BY DEF Site!NothingToChase
<1>1. age \in 0..4
  BY DEF DemoInv, AgeHolds, Site!TypeOK, Site!MaxAge
<1>2. t.status \in {"DONE", "LATE"} \/ t.due \in {4, 8}
  BY DEF Site!Tasks
<1> QED BY <1>1, <1>2 DEF Site!Overdue, Site!Upcoming, Site!OpenTask, Site!Reminded

-----------------------------------------------------------------------------
(* The demo: its broadcasts, one day after the other.                      *)

\* A flattened sequence is a recursive function of its parts: by their number.
LEMMA FlattenUnfolds ==
  ASSUME NEW seqs, NEW N \in Nat \ {0}, Len(seqs) = N
  PROVE  \E flat : /\ Site!FlattenSeq(seqs) = flat[N]
                   /\ flat[1] = seqs[1]
                   /\ \A i \in 2..N : flat[i] = flat[i - 1] \o seqs[i]
<1> DEFINE Step(i, s) == IF i = 1 THEN seqs[i] ELSE s[i - 1] \o seqs[i]
           Is(m, s) == s = [i \in 1..m |-> Step(i, s)]
           Without == {m \in 1..N : ~\E s : Is(m, s)}
<1>1. Without = {}
  <2> SUFFICES ASSUME Without # {} PROVE FALSE
    OBVIOUS
  <2>1. PICK m \in Without : \A k \in Without : m <= k
    <3> HIDE DEF Is
    <3>1. Without \in SUBSET Nat
      BY SMT
    <3> HIDE DEF Without
    <3> QED BY <3>1, LeastElement
  <2>2. CASE m = 1
    <3>1. Is(1, [i \in 1..1 |-> seqs[1]])
      OBVIOUS
    <3> QED BY <3>1, <2>2
  <2>3. CASE m # 1
    <3>1. m - 1 \in 1..N /\ ~(m <= m - 1)
      BY <2>3
    <3>2. PICK s : Is(m - 1, s)
      <4> HIDE DEF Is
      <4> QED BY <2>1, <3>1
    <3> DEFINE t == [i \in 1..m |-> IF i = m THEN s[m - 1] \o seqs[m] ELSE s[i]]
    <3>3. \A i \in 1..m : t[i] = Step(i, t)
      <4> TAKE i \in 1..m
      <4>1. CASE i = m
        <5>1. t[i] = s[m - 1] \o seqs[m] /\ t[m - 1] = s[m - 1]
          BY <2>3, <4>1
        <5> HIDE DEF t
        <5> QED BY <5>1, <4>1, <2>3
      <4>2. CASE i # m
        <5>1. i \in 1..(m - 1) /\ t[i] = s[i]
          BY <4>2
        <5>2. s[i] = Step(i, s)
          BY <3>2, <5>1
        <5>3. i # 1 => t[i - 1] = s[i - 1]
          BY <5>1
        <5> HIDE DEF t
        <5> QED BY <5>1, <5>2, <5>3
      <4> QED BY <4>1, <4>2
    <3>4. t = [i \in 1..m |-> t[i]]
      OBVIOUS
    <3> HIDE DEF t
    <3>5. Is(m, t)
      BY <3>3, <3>4
    <3> QED BY <3>5
  <2> QED BY <2>2, <2>3
<1> DEFINE flat == CHOOSE s : Is(N, s)
<1>2. Is(N, flat)
  <2>1. \E s : Is(N, s)
    <3>1. N \in 1..N
      OBVIOUS
    <3> HIDE DEF Is
    <3> QED BY <3>1, <1>1
  <2> HIDE DEF Is
  <2> QED BY <2>1, Zenon
<1>3. Site!FlattenSeq(seqs) = flat[N]
  <2>1. N # 0
    OBVIOUS
  <2> QED BY <2>1, Zenon DEF Site!FlattenSeq
<1> HIDE DEF flat
<1>4. \A i \in 1..N : flat[i] = Step(i, flat)
  BY <1>2
<1>5. flat[1] = seqs[1] /\ \A i \in 2..N : flat[i] = flat[i - 1] \o seqs[i]
  <2>1. 1 \in 1..N /\ \A i \in 2..N : i \in 1..N /\ i # 1
    OBVIOUS
  <2> QED BY <1>4, <2>1
<1> QED BY <1>3, <1>5

\* The times of n days from first on, one to three a day.
InDays(s, first, n, k) ==
  /\ s[k] >= first * 1440 /\ s[k] < (first + n) * 1440 /\ s[k] < (first + k) * 1440
DaysHold(s, first, n) ==
  /\ s \in Seq(Int) /\ Len(s) >= n /\ Len(s) <= 3 * n
  /\ \A k \in 1..Len(s) : InDays(s, first, n, k)
  /\ \A j, k \in 1..Len(s) : j < k => s[j] < s[k]

LEMMA DaysAppended ==
  ASSUME NEW first \in Int, NEW n \in Nat, NEW s, DaysHold(s, first, n),
         NEW t, DaysHold(t, first + n, 1)
  PROVE  DaysHold(s \o t, first, n + 1)
<1>1. PICK a \in Nat, b \in Nat : /\ a = Len(s) /\ b = Len(t)
                                  /\ n <= a /\ a <= 3 * n /\ 1 <= b /\ b <= 3
  <2>1. s \in Seq(Int) /\ Len(s) >= n /\ Len(s) <= 3 * n
    BY DEF DaysHold
  <2>2. t \in Seq(Int) /\ Len(t) >= 1 /\ Len(t) <= 3 * 1
    BY DEF DaysHold
  <2> QED BY <2>1, <2>2
<1> DEFINE u == s \o t
<1>2. u \in Seq(Int) /\ Len(u) = a + b
  <2>1. s \in Seq(Int) /\ t \in Seq(Int)
    BY DEF DaysHold
  <2> QED BY <1>1, <2>1
<1>3. /\ \A k \in 1..a : u[k] = s[k] /\ s[k] \in Int
      /\ \A k \in 1..(a + b) : k > a => k - a \in 1..b /\ u[k] = t[k - a]
      /\ \A k \in 1..b : t[k] \in Int
  <2>1. s \in Seq(Int) /\ t \in Seq(Int)
    BY DEF DaysHold
  <2> QED BY <1>1, <2>1
<1>4. \A k \in 1..a : /\ s[k] >= first * 1440
                      /\ s[k] < (first + n) * 1440 /\ s[k] < (first + k) * 1440
  <2>1. \A k \in 1..Len(s) : InDays(s, first, n, k)
    BY DEF DaysHold
  <2> QED BY <1>1, <2>1 DEF InDays
<1>5. \A k \in 1..b : /\ t[k] >= (first + n) * 1440
                      /\ t[k] < (first + n + 1) * 1440
  <2>1. \A k \in 1..Len(t) : InDays(t, first + n, 1, k)
    BY DEF DaysHold
  <2> QED BY <1>1, <2>1 DEF InDays
<1>6. /\ \A j, k \in 1..a : j < k => s[j] < s[k]
      /\ \A j, k \in 1..b : j < k => t[j] < t[k]
  <2>1. \A j, k \in 1..Len(s) : j < k => s[j] < s[k]
    BY DEF DaysHold
  <2>2. \A j, k \in 1..Len(t) : j < k => t[j] < t[k]
    BY DEF DaysHold
  <2> QED BY <1>1, <2>1, <2>2
<1> HIDE DEF u
<1>7. ASSUME NEW k \in 1..(a + b)
      PROVE  /\ u[k] >= first * 1440
             /\ u[k] < (first + (n + 1)) * 1440 /\ u[k] < (first + k) * 1440
  <2>1. CASE k <= a
    <3>1. k \in 1..a /\ u[k] = s[k] /\ s[k] \in Int
      BY <1>3, <2>1
    <3> QED BY <1>4, <3>1
  <2>2. CASE k > a
    <3>1. k - a \in 1..b /\ u[k] = t[k - a] /\ t[k - a] \in Int
      BY <1>3, <2>2
    <3>2. t[k - a] >= (first + n) * 1440 /\ t[k - a] < (first + n + 1) * 1440
      BY <1>5, <3>1
    <3> QED BY <1>1, <2>2, <3>1, <3>2
  <2> QED BY <2>1, <2>2
<1>8. ASSUME NEW j \in 1..(a + b), NEW k \in 1..(a + b), j < k
      PROVE  u[j] < u[k]
  <2>1. CASE k <= a
    <3>1. j \in 1..a /\ k \in 1..a
      BY <1>8, <2>1
    <3> QED BY <1>3, <1>6, <1>8, <3>1
  <2>2. CASE j <= a /\ k > a
    <3>1. j \in 1..a /\ k - a \in 1..b /\ u[k] = t[k - a]
      BY <1>3, <2>2
    <3>2. s[j] < (first + n) * 1440 /\ t[k - a] >= (first + n) * 1440
      BY <1>4, <1>5, <3>1
    <3> QED BY <1>3, <3>1, <3>2
  <2>3. CASE j > a
    <3>1. k > a /\ j - a < k - a
      BY <1>8, <2>3
    <3>2. /\ j - a \in 1..b /\ u[j] = t[j - a]
          /\ k - a \in 1..b /\ u[k] = t[k - a]
      BY <1>3, <2>3, <3>1
    <3> QED BY <1>6, <3>1, <3>2
  <2> QED BY <1>1, <2>1, <2>2, <2>3
<1>9. u \in Seq(Int) /\ Len(u) >= n + 1 /\ Len(u) <= 3 * (n + 1)
  BY <1>1, <1>2
<1>10. \A k \in 1..Len(u) : InDays(u, first, n + 1, k)
  BY <1>2, <1>7 DEF InDays
<1>11. \A j, k \in 1..Len(u) : j < k => u[j] < u[k]
  BY <1>2, <1>8
<1> QED BY <1>9, <1>10, <1>11 DEF DaysHold, u

\* The flattened days are the days.
LEMMA DaysFlattened ==
  ASSUME NEW seqs, NEW N \in Nat \ {0}, Len(seqs) = N, NEW first \in Int,
         \A i \in 1..N : DaysHold(seqs[i], first + (i - 1), 1)
  PROVE  DaysHold(Site!FlattenSeq(seqs), first, N)
<1>1. PICK flat : /\ Site!FlattenSeq(seqs) = flat[N]
                  /\ flat[1] = seqs[1]
                  /\ \A i \in 2..N : flat[i] = flat[i - 1] \o seqs[i]
  BY FlattenUnfolds
<1> DEFINE Wrong == {i \in 1..N : ~DaysHold(flat[i], first, i)}
<1>2. Wrong = {}
  <2> SUFFICES ASSUME Wrong # {} PROVE FALSE
    OBVIOUS
  <2>1. PICK n \in Wrong : \A k \in Wrong : n <= k
    <3>1. Wrong \in SUBSET Nat
      BY SMT
    <3> HIDE DEF Wrong
    <3> QED BY <3>1, LeastElement
  <2>2. CASE n = 1
    <3>1. 1 \in 1..N /\ first + (1 - 1) = first
      OBVIOUS
    <3>2. DaysHold(seqs[1], first, 1)
      BY <3>1
    <3> QED BY <1>1, <2>2, <3>2
  <2>3. CASE n # 1
    <3>1. n - 1 \in 1..N /\ ~(n <= n - 1) /\ n \in 2..N /\ n - 1 \in Nat
      BY <2>3
    <3>2. DaysHold(flat[n - 1], first, n - 1)
      BY <2>1, <3>1
    <3>3. DaysHold(seqs[n], first + (n - 1), 1)
      OBVIOUS
    <3>4. DaysHold(flat[n - 1] \o seqs[n], first, (n - 1) + 1)
      BY <3>1, <3>2, <3>3, DaysAppended
    <3>5. (n - 1) + 1 = n
      BY <3>1
    <3>6. flat[n] = flat[n - 1] \o seqs[n]
      BY <1>1, <3>1
    <3> QED BY <3>4, <3>5, <3>6
  <2> QED BY <2>2, <2>3
<1>3. N \in 1..N
  OBVIOUS
<1> QED BY <1>1, <1>2, <1>3

-----------------------------------------------------------------------------
(* The demo: what a reset writes.                                          *)

\* The cardinality of the demo is that of FiniteSets.
LEMMA SiteCardinality == \A S : Site!Cardinality(S) = Cardinality(S)
BY DEF Cardinality, Site!Cardinality

Broadcasts == {Site!RadioCampaign, Site!CompletedCampaign}
Slots == {<<435, 1110>>, <<435, 720, 1110>>, <<750>>}

LEMMA SlotsHold ==
  ASSUME NEW date \in Int, NEW slots \in Slots
  PROVE  DaysHold([k \in DOMAIN slots |-> date * 1440 + slots[k]], date, 1)
<1> DEFINE t == [k \in DOMAIN slots |-> date * 1440 + slots[k]]
<1>1. \E n \in 1..3 :
        /\ DOMAIN slots = 1..n
        /\ \A k \in 1..n : slots[k] \in Nat /\ slots[k] < 1440
        /\ \A j, k \in 1..n : j < k => slots[j] < slots[k]
  <2>1. CASE slots = <<435, 1110>>
    <3>1. DOMAIN slots = 1..2 /\ slots[1] = 435 /\ slots[2] = 1110
      BY <2>1
    <3>2. \A k \in 1..2 : k = 1 \/ k = 2
      OBVIOUS
    <3> QED BY <3>1, <3>2
  <2>2. CASE slots = <<435, 720, 1110>>
    <3>1. DOMAIN slots = 1..3 /\ slots[1] = 435 /\ slots[2] = 720 /\ slots[3] = 1110
      BY <2>2
    <3>2. \A k \in 1..3 : k = 1 \/ k = 2 \/ k = 3
      OBVIOUS
    <3> QED BY <3>1, <3>2
  <2>3. CASE slots = <<750>>
    <3>1. DOMAIN slots = 1..1 /\ slots[1] = 750
      BY <2>3
    <3>2. \A k \in 1..1 : k = 1
      OBVIOUS
    <3> QED BY <3>1, <3>2
  <2>4. slots = <<435, 1110>> \/ slots = <<435, 720, 1110>> \/ slots = <<750>>
    BY DEF Slots
  <2> QED BY <2>1, <2>2, <2>3, <2>4
<1>2. PICK n \in 1..3 :
        /\ DOMAIN slots = 1..n
        /\ \A k \in 1..n : slots[k] \in Nat /\ slots[k] < 1440
        /\ \A j, k \in 1..n : j < k => slots[j] < slots[k]
  BY <1>1
<1>3. n \in Nat /\ DOMAIN slots = 1..n
  BY <1>2
<1>4. \A k \in 1..n : t[k] = date * 1440 + slots[k] /\ t[k] \in Int
  <2> TAKE k \in 1..n
  <2>1. slots[k] \in Int /\ k \in DOMAIN slots
    BY <1>2
  <2> QED BY <2>1
<1>5. t \in Seq(Int) /\ Len(t) = n
  <2>1. DOMAIN t = 1..n /\ t = [k \in 1..n |-> t[k]]
    BY <1>3
  <2> HIDE DEF t
  <2> QED BY <1>3, <1>4, <2>1
<1> HIDE DEF t
<1>6. \A k \in 1..n : InDays(t, date, 1, k)
  BY <1>2, <1>4 DEF InDays
<1>7. \A j, k \in 1..n : j < k => t[j] < t[k]
  BY <1>2, <1>4
<1> QED BY <1>5, <1>6, <1>7 DEF DaysHold, t

\* The times of a campaign go by, day after day.
LEMMA ScheduledHold ==
  ASSUME NEW c \in Broadcasts, NEW s
  PROVE  DaysHold(Site!Scheduled(c, s), c.first, c.days)
<1> DEFINE SlotsOf(n) == IF (s.weekday + (c.first + n - 1)) % 7 = 6 THEN c.saturday
                         ELSE c.slots
           seqs == [n \in 1..c.days |->
                      [k \in DOMAIN SlotsOf(n) |->
                         (c.first + n - 1) * Site!Day + SlotsOf(n)[k]]]
<1>1. /\ c.days \in Nat \ {0} /\ c.first \in Int
      /\ c.saturday \in Slots /\ c.slots \in Slots
  BY DEF Broadcasts, Site!RadioCampaign, Site!CompletedCampaign, Slots
<1>2. Site!Scheduled(c, s) = Site!FlattenSeq(seqs)
  BY DEF Site!Scheduled
<1>3. \A n \in 1..c.days : DaysHold(seqs[n], c.first + (n - 1), 1)
  <2> TAKE n \in 1..c.days
  <2>1. SlotsOf(n) \in Slots /\ c.first + (n - 1) \in Int
    BY <1>1
  <2>2. seqs[n] = [k \in DOMAIN SlotsOf(n) |-> (c.first + (n - 1)) * 1440 + SlotsOf(n)[k]]
    <3>1. c.first + n - 1 = c.first + (n - 1)
      BY <1>1
    <3> HIDE DEF SlotsOf
    <3> QED BY <3>1 DEF Site!Day
  <2> HIDE DEF SlotsOf, seqs
  <2> QED BY <2>1, <2>2, SlotsHold
<1>4. Len(seqs) = c.days
  <2>1. DOMAIN seqs = 1..c.days /\ seqs = [n \in 1..c.days |-> seqs[n]]
    OBVIOUS
  <2> HIDE DEF seqs, SlotsOf
  <2>2. \A n \in 1..c.days : seqs[n] \in Seq(Int)
    BY <1>3 DEF DaysHold
  <2>3. seqs \in Seq(Seq(Int))
    <3>1. PICK N \in Nat : N = c.days
      BY <1>1
    <3> QED BY <2>1, <2>2, <3>1
  <2> QED BY <1>1, <2>1, <2>3
<1> HIDE DEF seqs, SlotsOf
<1> QED BY <1>1, <1>2, <1>3, <1>4, DaysFlattened

\* Those before a time come first.
LEMMA PastFirst ==
  ASSUME NEW all, NEW first, NEW n \in Nat, DaysHold(all, first, n), NEW t \in Int
  PROVE  LET past == Site!Cardinality({k \in DOMAIN all : all[k] < t})
         IN /\ past \in Nat /\ past <= Len(all)
            /\ \A k \in 1..Len(all) : all[k] < t <=> k <= past
<1> DEFINE L == Len(all)
           S == {k \in 1..L : all[k] < t}
<1>1. L \in Nat /\ DOMAIN all = 1..L /\ \A k \in 1..L : all[k] \in Int
  <2>1. all \in Seq(Int)
    BY DEF DaysHold
  <2> QED BY <2>1
<1>2. \A j, k \in 1..L : j < k => all[j] < all[k]
  BY DEF DaysHold
<1> HIDE DEF L
<1>3. IsFiniteSet(S) /\ S \in SUBSET Nat
  <2>1. IsFiniteSet(1..L)
    <3>1. 1 \in Int /\ L \in Int
      BY <1>1
    <3> QED BY <3>1, FS_Interval, Zenon
  <2>2. S \in SUBSET (1..L) /\ 1..L \in SUBSET Nat
    BY <1>1
  <2> QED BY <2>1, <2>2, FS_Subset
<1>4. \E m \in 0..L : S = 1..m
  <2>1. CASE S = {}
    <3>1. 1..0 = {} /\ 0 \in 0..L
      BY <1>1
    <3> HIDE DEF S
    <3> QED BY <2>1, <3>1
  <2>2. CASE S # {}
    <3>1. PICK m \in S : \A k \in S : k <= m
      <4> HIDE DEF S
      <4> QED BY <1>3, <2>2, GreatestElement
    <3>2. m \in 1..L /\ all[m] < t
      OBVIOUS
    <3>3. \A k \in 1..m : k \in S
      BY <1>1, <1>2, <3>2
    <3>4. \A k \in S : k \in 1..m
      BY <1>1, <3>1, <3>2
    <3>5. S = 1..m
      <4> HIDE DEF S
      <4> QED BY <3>3, <3>4
    <3> HIDE DEF S
    <3> QED BY <1>1, <3>2, <3>5
  <2> QED BY <2>1, <2>2
<1>5. PICK m \in 0..L : S = 1..m
  BY <1>4
<1>6. Cardinality(1..m) = m
  <2>1. m \in Int /\ 1 \in Int /\ m >= 0
    BY <1>1
  <2>2. Cardinality(1..m) = IF 1 > m THEN 0 ELSE m - 1 + 1
    BY <2>1, FS_Interval, Zenon
  <2> QED BY <2>1, <2>2
<1>7. Site!Cardinality({k \in DOMAIN all : all[k] < t}) = m
  BY <1>1, <1>5, <1>6, SiteCardinality
<1>8. \A k \in 1..L : all[k] < t <=> k <= m
  <2> TAKE k \in 1..L
  <2>1. k \in S <=> k \in 1..m
    BY <1>5
  <2> QED BY <1>1, <2>1
<1>9. m \in Nat /\ m <= L
  BY <1>1
<1> QED BY <1>7, <1>8, <1>9 DEF L

\* What a plan says of its broadcasts: those before the reset, and the two of them
\* that are always missed and late.
Heard(plan, s, k) ==
  \/ plan[k].status = "BROADCASTED" /\ plan[k].actual \in Int /\ plan[k].actual <= s.minute
  \/ plan[k].status # "BROADCASTED" /\ plan[k].actual = None
PlanKnown(plan, c, s, n) ==
  /\ DOMAIN plan = 1..n /\ n >= 30
  /\ \A k \in 1..n :
       /\ plan[k].at >= c.first * 1440 /\ plan[k].at < c.end * 1440 /\ plan[k].at \in Int
       /\ plan[k].status = "PLANNED" => plan[k].at >= s.minute
       /\ Heard(plan, s, k)
  /\ plan[6].status = "MISSED"
  /\ plan[4].actual \in Int /\ plan[4].actual - plan[4].at > 15

LEMMA PlansKnown ==
  ASSUME NEW c \in Broadcasts, NEW s \in Seed
  PROVE  \E n \in Nat : PlanKnown(Site!BroadcastPlan(c, s), c, s, n)
<1> DEFINE all == Site!Scheduled(c, s)
           past == Site!Cardinality({k \in DOMAIN all : all[k] < s.minute})
           L == Len(all)
           plan == Site!BroadcastPlan(c, s)
<1>1. /\ s.minute \in Nat /\ s.minute < 1440
      /\ \A i \in 0..107 : s.draw[i] \in Nat /\ s.draw[i] < 1000
  <2> DEFINE Draw == 0..999
             Minute == 0..(Site!Day - 1)
  <2>1. s \in [weekday : 0..6, minute : Minute, draw : [Site!Index -> Draw]]
    BY SeedAssumption
  <2>2. Site!Index = 0..107 /\ \A n \in Draw : n \in Nat /\ n < 1000
    BY DEF Site!Index, Site!RadioCampaign
  <2>3. \A n \in Minute : n \in Nat /\ n < 1440
    BY DEF Site!Day
  <2> HIDE DEF Draw, Minute
  <2>4. s.minute \in Minute /\ s.draw \in [Site!Index -> Draw]
    BY <2>1
  <2>5. \A i \in Site!Index : s.draw[i] \in Draw
    BY <2>4
  <2> QED BY <2>2, <2>3, <2>4, <2>5
<1>2. /\ c.days \in Nat /\ 30 <= c.days /\ c.days <= 36 /\ c.first \in Int /\ c.end \in Int
      /\ c.first + c.days = c.end /\ c.first <= -21
      /\ 3 \notin c.cancelledPast /\ 5 \notin c.cancelledPast
  BY DEF Broadcasts, Site!RadioCampaign, Site!CompletedCampaign
<1>3. DaysHold(all, c.first, c.days)
  BY ScheduledHold
<1>4. all \in Seq(Int) /\ L \in Nat /\ 30 <= L /\ L <= 108 /\ DOMAIN all = 1..L
  <2>1. all \in Seq(Int) /\ L >= c.days /\ L <= 3 * c.days
    BY <1>3 DEF DaysHold
  <2>2. L \in Nat /\ DOMAIN all = 1..L
    BY <2>1
  <2> HIDE DEF all, L
  <2>3. PICK n \in Nat : n = c.days
    BY <1>2
  <2> QED BY <1>2, <2>1, <2>2, <2>3
<1>5. \A k \in 1..L : /\ all[k] \in Int /\ all[k] >= c.first * 1440
                      /\ all[k] < c.end * 1440 /\ all[k] < (c.first + k) * 1440
  <2>1. \A k \in 1..L : InDays(all, c.first, c.days, k)
    BY <1>3 DEF DaysHold
  <2>2. \A k \in 1..L : all[k] \in Int
    BY <1>4
  <2> HIDE DEF L, all
  <2> QED BY <1>2, <2>1, <2>2 DEF InDays
<1>6. past \in Nat /\ past <= L /\ \A k \in 1..L : all[k] < s.minute <=> k <= past
  <2>1. s.minute \in Int
    BY <1>1
  <2> HIDE DEF all
  <2> QED BY <1>2, <1>3, <2>1, PastFirst
<1> DEFINE Row(at, as, actual) == [at |-> at, status |-> as, actual |-> actual]
           Rows(k) ==
             IF k - 1 >= past
             THEN Row(all[k], IF k - 1 - past \in c.cancelledFuture THEN "CANCELLED"
                              ELSE "PLANNED", None)
             ELSE IF k - 1 \in c.cancelledPast THEN Row(all[k], "CANCELLED", None)
             ELSE IF (k - 1) % 13 = 5 THEN Row(all[k], "MISSED", None)
             ELSE Row(all[k], "BROADCASTED", Site!Actual(all[k], k - 1, s))
<1>7. DOMAIN plan = 1..L /\ \A k \in 1..L : plan[k] = Rows(k)
  <2>1. plan = [k \in DOMAIN all |-> Rows(k)]
    BY DEF Site!BroadcastPlan
  <2> HIDE DEF plan, Rows
  <2> QED BY <1>4, <2>1
<1> HIDE DEF plan, past, all, L
<1>8. ASSUME NEW k \in 1..L, k - 1 < past
      PROVE  /\ Site!Actual(all[k], k - 1, s) \in Int
             /\ Site!Actual(all[k], k - 1, s) <= s.minute
  <2>1. all[k] \in Int /\ all[k] <= s.minute
    <3>1. k <= past
      BY <1>4, <1>6, <1>8
    <3>2. all[k] < s.minute
      BY <1>6, <3>1
    <3> QED BY <1>1, <1>5, <3>2
  <2>2. k - 1 \in 0..107
    BY <1>4
  <2>3. s.draw[k - 1] \in Nat
    BY <1>1, <2>2
  <2>4. Site!ActualUnchecked(all[k], k - 1, s) \in Int
    BY <2>1, <2>3 DEF Site!ActualUnchecked
  <2> QED BY <1>1, <2>1, <2>4 DEF Site!Actual
<1>9. ASSUME NEW k \in 1..L
      PROVE  /\ plan[k].at >= c.first * 1440 /\ plan[k].at < c.end * 1440
             /\ plan[k].at \in Int
             /\ plan[k].status = "PLANNED" => plan[k].at >= s.minute
             /\ Heard(plan, s, k)
  <2>1. plan[k] = Rows(k)
    BY <1>7
  <2>2. plan[k].at = all[k]
    BY <2>1
  <2>3. CASE k - 1 >= past
    <3>1. all[k] >= s.minute
      <4>1. ~(k <= past)
        BY <1>4, <1>6, <2>3
      <4>2. ~(all[k] < s.minute)
        BY <1>6, <4>1
      <4> QED BY <1>1, <1>5, <4>2
    <3>2. plan[k].status \in {"CANCELLED", "PLANNED"} /\ plan[k].actual = None
      BY <2>1, <2>3
    <3> QED BY <1>5, <2>2, <3>1, <3>2 DEF Heard
  <2>4. CASE k - 1 < past
    <3>1. ~(k - 1 >= past)
      BY <1>4, <1>6, <2>4
    <3>2. \/ plan[k].status \in {"CANCELLED", "MISSED"} /\ plan[k].actual = None
          \/ /\ plan[k].status = "BROADCASTED"
             /\ plan[k].actual = Site!Actual(all[k], k - 1, s)
      BY <2>1, <3>1
    <3> QED BY <1>5, <1>8, <2>2, <2>4, <3>2 DEF Heard
  <2> QED BY <1>4, <1>6, <2>3, <2>4
<1>10. /\ 6 \in 1..L /\ 4 \in 1..L /\ 6 <= past /\ 4 <= past
       /\ all[4] + 42 <= s.minute
  <2>1. 6 \in 1..L /\ 4 \in 1..L
    BY <1>4
  <2>2. all[6] < s.minute /\ all[4] + 42 <= s.minute /\ all[4] < s.minute
    BY <1>1, <1>2, <1>5, <2>1
  <2> QED BY <1>6, <2>1, <2>2
<1>11. plan[6].status = "MISSED"
  <2>1. plan[6] = Rows(6)
    BY <1>7, <1>10
  <2>2. ~(6 - 1 >= past) /\ 6 - 1 = 5 /\ 5 % 13 = 5
    BY <1>4, <1>6, <1>10
  <2> QED BY <1>2, <2>1, <2>2
<1>12. plan[4].actual = Site!Actual(all[4], 3, s) /\ plan[4].at = all[4]
  <2>1. plan[4] = Rows(4)
    BY <1>7, <1>10
  <2>2. ~(4 - 1 >= past) /\ 4 - 1 = 3 /\ 3 % 13 # 5
    BY <1>4, <1>6, <1>10
  <2> QED BY <1>2, <2>1, <2>2
<1>13. Site!Actual(all[4], 3, s) \in Int /\ Site!Actual(all[4], 3, s) - all[4] > 15
  <2>1. s.draw[3] \in Nat /\ s.draw[3] < 1000 /\ all[4] \in Int /\ 3 % 7 = 3
    BY <1>1, <1>5, <1>10
  <2>2. (s.draw[3] * 27) \div 1000 \in Nat /\ (s.draw[3] * 27) \div 1000 <= 26
    BY <2>1
  <2>3. Site!ActualUnchecked(all[4], 3, s) = all[4] + 16 + (s.draw[3] * 27) \div 1000
    BY <2>1 DEF Site!ActualUnchecked
  <2> QED BY <1>1, <1>10, <2>1, <2>2, <2>3 DEF Site!Actual
<1>14. plan[4].actual \in Int /\ plan[4].actual - plan[4].at > 15
  BY <1>12, <1>13
<1>15. DOMAIN plan = 1..L
  BY <1>7
<1>16. PlanKnown(plan, c, s, L)
  BY <1>4, <1>9, <1>11, <1>14, <1>15 DEF PlanKnown
<1> QED BY <1>4, <1>16 DEF plan

LEMMA PlansHold ==
  ASSUME NEW c \in Broadcasts, NEW s \in Seed
  PROVE  Site!PlanHolds(c, Site!BroadcastPlan(c, s), s)
<1> DEFINE plan == Site!BroadcastPlan(c, s)
<1>1. PICK n \in Nat : PlanKnown(plan, c, s, n)
  BY PlansKnown
<1> HIDE DEF plan
<1>2. c.first \in Int /\ c.end \in Int
  BY DEF Broadcasts, Site!RadioCampaign, Site!CompletedCampaign
<1>3. DOMAIN plan = 1..n /\ n >= 30
  BY <1>1 DEF PlanKnown
<1>4. ASSUME NEW k \in DOMAIN plan
      PROVE  /\ plan[k].at \in (c.first * Site!Day)..(c.end * Site!Day - 1)
             /\ plan[k].status = "BROADCASTED" <=> plan[k].actual # None
             /\ plan[k].actual # None => plan[k].actual <= s.minute
             /\ plan[k].status = "PLANNED" => plan[k].at >= s.minute
  <2>1. /\ plan[k].at >= c.first * 1440 /\ plan[k].at < c.end * 1440 /\ plan[k].at \in Int
        /\ plan[k].status = "PLANNED" => plan[k].at >= s.minute
        /\ Heard(plan, s, k)
    BY <1>1, <1>3 DEF PlanKnown
  <2>2. plan[k].at \in (c.first * Site!Day)..(c.end * Site!Day - 1)
    BY <1>2, <2>1 DEF Site!Day
  <2>3. /\ plan[k].status = "BROADCASTED" <=> plan[k].actual # None
        /\ plan[k].actual # None => plan[k].actual <= s.minute
    BY <2>1, NoneAssumption DEF Heard
  <2> QED BY <2>1, <2>2, <2>3
<1>5. 6 \in DOMAIN plan /\ plan[6].status = "MISSED"
  BY <1>1, <1>3 DEF PlanKnown
<1>6. 4 \in DOMAIN plan /\ plan[4].actual # None /\ plan[4].actual - plan[4].at > 15
  BY <1>1, <1>3, NoneAssumption DEF PlanKnown
<1> QED BY <1>4, <1>5, <1>6 DEF Site!PlanHolds, plan

LEMMA SeedMinute == \A s \in Seed : s.minute \in Nat /\ s.minute < 1440
<1> DEFINE Minute == 0..(Site!Day - 1)
<1>1. \A n \in Minute : n \in Nat /\ n < 1440
  BY DEF Site!Day
<1> HIDE DEF Minute
<1>2. \A s \in Seed : s.minute \in Minute
  BY SeedAssumption DEF Minute
<1> QED BY <1>1, <1>2

\* An installation of the demo, its proof and its history.
LEMMA SitesHold ==
  ASSUME NEW site \in Site!Sites, NEW s, s.minute \in Nat, s.minute < 1440
  PROVE  Site!SiteHolds(site, s)
<1> DEFINE i == Site!Installation(site)
           at == Site!TakenAt(site.day)
           installed == [from |-> "PLANNED", to |-> "INSTALLED", at |-> at]
           decided == [from |-> "INSTALLED", to |-> site.state, at |-> Site!ReviewedAt(site.day)]
           Before(k) == IF k = 1 THEN "PLANNED" ELSE i.history[k - 1].to
<1>1. \/ site.state = "PLANNED" /\ site.day \in {2, 5}
      \/ site.state = "PENDING_REVIEW" /\ site.day \in {-3, -1}
      \/ site.state \in {"VALIDATED", "REJECTED"} /\ site.day \in {-9, -8, -7, -6}
  BY DEF Site!Sites
<1>2. /\ Site!Planned(site.day) = site.day * 1440 + 540 /\ at = site.day * 1440 + 677
      /\ Site!ReviewedAt(site.day) = site.day * 1440 + 1877
  BY <1>1 DEF Site!Planned, Site!TakenAt, Site!ReviewedAt, Site!Day
<1>3. CASE site.state = "PLANNED" /\ site.day \in {2, 5}
  <2>1. i = [status |-> "PLANNED", proof |-> None, history |-> <<>>]
    BY <1>3 DEF Site!Installation
  <2>2. Site!Planned(site.day) > s.minute
    BY <1>2, <1>3
  <2> HIDE DEF i
  <2> QED BY <2>1, <2>2 DEF Site!SiteHolds, i
<1>4. CASE site.state = "PENDING_REVIEW" /\ site.day \in {-3, -1}
  <2>1. i = [status |-> "INSTALLED", proof |-> "PENDING", history |-> <<installed>>]
    BY <1>4 DEF Site!Installation
  <2>2. at <= s.minute
    BY <1>2, <1>4
  <2>3. "PENDING" # None
    BY NoneAssumption
  <2> HIDE DEF i, at
  <2>4. /\ Len(i.history) = 1 /\ i.history[1] = installed /\ i.status = "INSTALLED"
        /\ i.proof # None
    BY <2>1, <2>3
  <2>5. \A k \in 1..1 : k = 1
    OBVIOUS
  <2> QED BY <2>2, <2>4, <2>5 DEF Site!SiteHolds, i
<1>5. CASE site.state \in {"VALIDATED", "REJECTED"} /\ site.day \in {-9, -8, -7, -6}
  <2>1. i = [status |-> site.state, proof |-> site.state, history |-> <<installed, decided>>]
    BY <1>5 DEF Site!Installation
  <2>2. at <= s.minute /\ Site!ReviewedAt(site.day) <= s.minute
    BY <1>2, <1>5
  <2>3. site.state # None
    BY <1>5, NoneAssumption
  <2> HIDE DEF i, at
  <2>4. /\ Len(i.history) = 2 /\ i.history[1] = installed /\ i.history[2] = decided
        /\ i.status = site.state /\ i.proof # None
    BY <2>1, <2>3
  <2>5. \A k \in 1..2 : k = 1 \/ k = 2
    OBVIOUS
  <2> QED BY <2>2, <2>4, <2>5 DEF Site!SiteHolds, i
<1> QED BY <1>1, <1>3, <1>4, <1>5

\* What the visitor is told, the late broadcast included.
LEMMA NoticesHold ==
  ASSUME NEW s \in Seed
  PROVE  \A n \in Site!Notices(s) :
           /\ n.at \in (Site!RadioCampaign.first * Site!Day)..s.minute
           /\ s.minute >= Site!LateMorning => n.of <= n.at
<1> DEFINE radio == Site!Radio(s)
           late == {k \in DOMAIN radio :
                      radio[k].actual # None /\ radio[k].actual - radio[k].at > 15}
           first == CHOOSE k \in late : \A j \in late : k <= j
<1>1. s.minute \in Nat /\ s.minute < 1440
  BY SeedMinute
<1>2. PICK n \in Nat : PlanKnown(radio, Site!RadioCampaign, s, n)
  BY PlansKnown DEF Broadcasts, Site!Radio
<1> HIDE DEF radio
<1>3. 4 \in late /\ late \in SUBSET Nat /\ DOMAIN radio = 1..n
  BY <1>2, NoneAssumption DEF PlanKnown
<1>4. first \in late
  <2> HIDE DEF late
  <2>1. \E k \in late : \A j \in late : k <= j
    BY <1>3, LeastElement
  <2> QED BY <2>1
<1> HIDE DEF first
<1>5. /\ radio[first].actual \in Int /\ radio[first].actual >= -21 * 1440
      /\ radio[first].actual <= s.minute
  <2>1. /\ radio[first].at >= -21 * 1440 /\ radio[first].at \in Int
        /\ Heard(radio, s, first)
    BY <1>2, <1>3, <1>4 DEF PlanKnown, Site!RadioCampaign
  <2>2. radio[first].actual # None /\ radio[first].actual - radio[first].at > 15
    BY <1>4
  <2> QED BY <2>1, <2>2 DEF Heard
<1> DEFINE heard == IF late = {} THEN s.minute - 2 * Site!Day ELSE radio[first].actual
           Notice(at, of) == [at |-> at, of |-> of]
<1>6. Site!Notices(s) = {Notice(s.minute, s.minute), Notice(heard, heard),
                         Notice(s.minute - 3 * Site!Day + 180, Site!TakenAt(-3)),
                         Notice(s.minute - 5 * Site!Day, Site!ReviewedAt(-6)),
                         Notice(s.minute - 8 * Site!Day, Site!ReviewedAt(-9))}
  BY Zenon DEF Site!Notices, radio, first
<1>7. heard = radio[first].actual
  BY <1>3
<1> HIDE DEF late, heard
<1>8. /\ Site!RadioCampaign.first = -21 /\ Site!Day = 1440
      /\ Site!LateMorning = 497 /\ Site!TakenAt(-3) = 677 - 3 * 1440
      /\ Site!ReviewedAt(-6) = 437 - 5 * 1440 /\ Site!ReviewedAt(-9) = 437 - 8 * 1440
  BY DEF Site!RadioCampaign, Site!Day, Site!LateMorning, Site!TakenAt, Site!ReviewedAt,
         Site!Planned
<1> QED BY <1>1, <1>5, <1>6, <1>7, <1>8

\* What a reset writes, compared with the moment of the reset.
LEMMA SeedsHold ==
  ASSUME NEW s \in Seed PROVE Site!SeedHolds(s)
<1>1. s.minute \in Nat /\ s.minute < 1440
  BY SeedMinute
<1>2. /\ Site!PlanHolds(Site!RadioCampaign, Site!Radio(s), s)
      /\ Site!PlanHolds(Site!CompletedCampaign, Site!Completed(s), s)
  BY PlansHold DEF Broadcasts, Site!Radio, Site!Completed
<1>3. \A site \in Site!Sites : Site!SiteHolds(site, s)
  BY <1>1, SitesHold
<1>4. /\ Site!InTime(Site!RadioCampaign, s) /\ Site!InTime(Site!CompletedCampaign, s)
      /\ Site!InTime(Site!PosterCampaign, s) /\ Site!InTime(Site!DigitalCampaign, s)
      /\ Site!InTime(Site!DraftCampaign, s)
  BY <1>1 DEF Site!InTime, Site!RadioCampaign, Site!CompletedCampaign, Site!PosterCampaign,
              Site!DigitalCampaign, Site!DraftCampaign, Site!Day
<1>5. \A scan \in Site!Scans : scan \in Site!QrCreated(s)..s.minute
  <2> TAKE scan \in Site!Scans
  <2>1. PICK d \in -8..-1, m \in {480, 1259} : scan = d * 1440 + m
    BY DEF Site!Scans, Site!Day
  <2> QED BY <1>1, <2>1 DEF Site!QrCreated, Site!Day
<1>6. Site!Conversation(s) < 0
  BY <1>1 DEF Site!Conversation, Site!Day
<1> QED BY <1>2, <1>3, <1>4, <1>5, <1>6, NoticesHold DEF Site!SeedHolds

\* At every hour, weekday and draw of a reset, what it writes as done lies before it
\* and what it writes as to come after it, in its campaign; the history of a panel
\* leads to its status, and no notice of a reset from 08:17 on goes before what it
\* tells of.
THEOREM DemoWritten == ServicesSpec => []PastIsPast
<1>1. DemoInv => PastIsPast
  <2> SUFFICES ASSUME DemoInv PROVE Site!PastIsPast
    BY DEF PastIsPast
  <2>1. seed # None => seed \in Seed
    BY DEF DemoInv, Site!TypeOK
  <2> QED BY <2>1, SeedsHold DEF Site!PastIsPast
<1> QED BY <1>1, SitePart, DemoInit, DemoStep, PTL

\* The hourly job finds nothing to chase as long as every night has its reset,
\* however many instances start, stop, fail or leave it to one another.
THEOREM DemoLeftAlone == ServicesSpec => []NobodyChased
<1>1. DemoInv => NobodyChased
  BY NothingChased DEF NobodyChased, Site!NobodyChased
<1> QED BY <1>1, SitePart, DemoInit, DemoStep, PTL

-----------------------------------------------------------------------------
(* The rules of the ads: their types, and totals.                          *)

LEMMA RulesInit == Rules!Init => Rules!TypeOK
BY FiguresAssumption DEF Rules!Init, Rules!TypeOK

LEMMA RulesStep ==
  ASSUME Rules!TypeOK, [Rules!Next]_(Rules!vars) PROVE Rules!TypeOK'
<1>1. ASSUME UNCHANGED Rules!vars PROVE Rules!TypeOK'
  BY <1>1 DEF Rules!vars, Rules!TypeOK
<1>2. ASSUME Rules!Simulate PROVE Rules!TypeOK'
  BY <1>2 DEF Rules!Simulate, Rules!TypeOK
<1>3. ASSUME NEW x \in Days, Rules!Day(x) PROVE Rules!TypeOK'
  <2>1. daily \in Seq(Days) /\ daily' = Append(daily, x) /\ Len(daily) <= Duration
    BY <1>3 DEF Rules!Day, Rules!TypeOK
  <2>2. daily' \in Seq(Days) /\ Len(daily') <= Duration + 1
    BY <2>1, FiguresAssumption
  <2> QED BY <1>3, <2>2 DEF Rules!Day, Rules!TypeOK
<1> QED BY <1>1, <1>2, <1>3 DEF Rules!Next

\* A total of natural numbers is one: by the shortest part of the sequence of which
\* it is not.
LEMMA TotalNat ==
  ASSUME NEW rows, Len(rows) \in Nat, NEW f, \A n \in 1..Len(rows) : rows[n][f] \in Nat
  PROVE  Rules!Total(rows, f) \in Nat
<1> DEFINE Sum(n, s) == IF n = 0 THEN 0 ELSE s[n - 1] + rows[n][f]
           Is(m, s) == s = [n \in 0..m |-> Sum(n, s)]
           Without == {m \in 0..Len(rows) : ~\E s : Is(m, s)}
<1>1. ASSUME NEW s, NEW m \in 0..Len(rows), Is(m, s)
      PROVE  \A n \in 0..m : s[n] \in Nat
  <2> DEFINE Not == {n \in 0..m : s[n] \notin Nat}
  <2> SUFFICES ASSUME Not # {} PROVE FALSE
    OBVIOUS
  <2>1. PICK n \in Not : \A k \in Not : n <= k
    <3>1. Not \in SUBSET Nat
      OBVIOUS
    <3> HIDE DEF Not
    <3> QED BY <3>1, LeastElement
  <2>2. s[n] = Sum(n, s)
    BY <1>1
  <2>3. CASE n = 0
    BY <2>2, <2>3
  <2>4. CASE n # 0
    <3>1. n - 1 \in 0..m /\ n \in 1..Len(rows) /\ ~(n <= n - 1)
      BY <2>4
    <3>2. s[n - 1] \in Nat
      BY <2>1, <3>1
    <3> QED BY <2>2, <2>4, <3>1, <3>2
  <2> QED BY <2>3, <2>4
<1>2. Without = {}
  <2> SUFFICES ASSUME Without # {} PROVE FALSE
    OBVIOUS
  <2>1. PICK m \in Without : \A k \in Without : m <= k
    <3>1. Without \in SUBSET Nat
      BY SMT
    <3> HIDE DEF Without
    <3> QED BY <3>1, LeastElement
  <2>2. CASE m = 0
    <3>1. Is(0, [n \in 0..0 |-> 0])
      OBVIOUS
    <3> QED BY <3>1, <2>2
  <2>3. CASE m # 0
    <3>1. m - 1 \in 0..Len(rows) /\ ~(m <= m - 1)
      BY <2>3
    <3>2. PICK s : Is(m - 1, s)
      BY <2>1, <3>1
    <3> DEFINE t == [n \in 0..m |-> IF n = m THEN s[m - 1] + rows[m][f] ELSE s[n]]
    <3>3. \A n \in 0..m : t[n] = Sum(n, t)
      <4> TAKE n \in 0..m
      <4>1. CASE n = m
        <5>1. t[n] = s[m - 1] + rows[m][f] /\ t[m - 1] = s[m - 1]
          BY <2>3, <4>1
        <5> HIDE DEF t
        <5> QED BY <5>1, <4>1, <2>3
      <4>2. CASE n # m
        <5>1. n \in 0..(m - 1) /\ t[n] = s[n]
          BY <4>2
        <5>2. s[n] = Sum(n, s)
          BY <3>2, <5>1
        <5>3. n # 0 => t[n - 1] = s[n - 1]
          BY <5>1
        <5> HIDE DEF t
        <5> QED BY <5>1, <5>2, <5>3
      <4> QED BY <4>1, <4>2
    <3>4. t = [n \in 0..m |-> t[n]]
      OBVIOUS
    <3> HIDE DEF t
    <3>5. Is(m, t)
      BY <3>3, <3>4
    <3> QED BY <3>5
  <2> QED BY <2>2, <2>3
<1> DEFINE sum == CHOOSE s : Is(Len(rows), s)
<1>3. Is(Len(rows), sum)
  <2>1. \E s : Is(Len(rows), s)
    <3>1. Len(rows) \in 0..Len(rows)
      OBVIOUS
    <3> QED BY <3>1, <1>2, Zenon
  <2> HIDE DEF Is
  <2> QED BY <2>1, Zenon
<1>4. sum[Len(rows)] \in Nat
  <2> HIDE DEF sum
  <2> QED BY <1>1, <1>3
<1>5. Rules!Total(rows, f) = sum[Len(rows)]
  BY Zenon DEF Rules!Total
<1> QED BY <1>4, <1>5

-----------------------------------------------------------------------------
(* The rules of the ads: the ratios.                                       *)

Positive == Nat \ {0}

\* A ratio of at most 0.67 is below 0.85: the rounding of the first is less.
LEMMA RatioBelow ==
  ASSUME NEW a \in Nat, NEW b \in Positive, Rules!Thousandths(<<a, b>>) <= 670
  PROVE  ~Rules!AtLeast(<<a, b>>, 850) /\ ~Rules!AtLeast(<<a, b>>, 1100)
<1> DEFINE q == (2000 * a + b) \div (2 * b)
<1>1. q \in Int /\ 2000 * a + b < (2 * b) * q + 2 * b
  BY DEF Positive
<1>2. q <= 670
  BY DEF Rules!Thousandths
<1> HIDE DEF q
<1>3. b * q <= b * 670
  BY <1>1, <1>2 DEF Positive
<1>4. a * 1000 < 850 * b /\ a * 1000 < 1100 * b
  BY <1>1, <1>3 DEF Positive
<1> QED BY <1>4 DEF Rules!AtLeast, Positive

\* What is zero has no thousandth.
LEMMA RatioOfZero ==
  ASSUME NEW b \in Positive PROVE Rules!Thousandths(<<0, b>>) = 0
<1>1. (2000 * 0 + b) \div (2 * b) = 0
  BY DEF Positive
<1> QED BY <1>1 DEF Rules!Thousandths

LEMMA RatioInt ==
  ASSUME NEW a \in Nat, NEW b \in Positive PROVE Rules!Thousandths(<<a, b>>) \in Int
<1>1. 2 * b \in Int /\ 2 * b # 0 /\ 2000 * a + b \in Int
  BY DEF Positive
<1>2. (2000 * a + b) \div (2 * b) \in Int
  BY DEF Positive
<1> QED BY <1>2 DEF Rules!Thousandths

LEMMA RatioProduct ==
  ASSUME NEW a \in Positive, NEW b \in Positive PROVE a * b \in Positive
BY DEF Positive

\* The totals are counts.
LEMMA Totals ==
  ASSUME Rules!TypeOK
  PROVE  /\ Rules!Spend \in Nat /\ Rules!Impressions \in Nat
         /\ Rules!Clicks \in Nat /\ Rules!Conversions \in Nat
<1>1. daily \in Seq(Days) /\ Len(daily) \in Nat
  BY DEF Rules!TypeOK
<1>2. ASSUME NEW f \in {"spend", "impressions", "clicks", "conversions"}
      PROVE  Rules!Total(daily, f) \in Nat
  <2>1. \A n \in 1..Len(daily) : daily[n][f] \in Nat
    <3> SUFFICES ASSUME NEW n \in 1..Len(daily) PROVE daily[n][f] \in Nat
      OBVIOUS
    <3>1. daily[n] \in [spend : Nat, impressions : Nat, clicks : Nat, conversions : Nat]
      BY <1>1, FiguresAssumption
    <3> QED BY <3>1
  <2> QED BY <1>1, <2>1, TotalNat
<1> QED BY <1>2 DEF Rules!Spend, Rules!Impressions, Rules!Clicks, Rules!Conversions

\* The progress is a ratio, of the spending or else of the time.
LEMMA ProgressRatio ==
  ASSUME Rules!TypeOK
  PROVE  /\ \E a \in Nat : \E b \in Positive : Rules!TimeProgress = <<a, b>>
         /\ Rules!SpendProgress # None =>
              \E a \in Nat : \E b \in Positive : Rules!SpendProgress = <<a, b>>
         /\ \E a \in Nat : \E b \in Positive : Rules!Progress = <<a, b>>
<1>1. Len(daily) \in Nat /\ Duration \in Positive /\ Budget \in Positive
  BY FiguresAssumption DEF Rules!TypeOK, Positive
<1>2. Rules!Least(Len(daily), Duration) \in Nat /\ Rules!Least(Rules!Spend, Budget) \in Nat
  BY <1>1, Totals DEF Rules!Least, Positive
<1>3. \E a \in Nat : \E b \in Positive : Rules!TimeProgress = <<a, b>>
  BY <1>1, <1>2 DEF Rules!TimeProgress
<1>4. known => \E a \in Nat : \E b \in Positive : Rules!SpendProgress = <<a, b>>
  BY <1>1, <1>2 DEF Rules!SpendProgress
<1>5. ~known => Rules!SpendProgress = None
  BY DEF Rules!SpendProgress
<1> QED BY <1>3, <1>4, <1>5 DEF Rules!Progress

\* What a rule finds low is shown behind.
LEMMA LowIsBehind ==
  ASSUME NEW k, NEW n \in {600, 670}, Rules!Scores(k, n),
         NEW a \in Nat, NEW b \in Positive, Rules!Performance(k) = <<a, b>>
  PROVE  Rules!Status(k) = "behind"
<1>1. Rules!Performance(k) # None /\ Rules!Thousandths(<<a, b>>) <= n
  BY DEF Rules!Scores
<1>2. Rules!Thousandths(<<a, b>>) <= 670
  BY <1>1, RatioInt
<1>3. ~Rules!AtLeast(<<a, b>>, 850) /\ ~Rules!AtLeast(<<a, b>>, 1100)
  BY <1>2, RatioBelow
<1> QED BY <1>1, <1>3 DEF Rules!Status

LEMMA CpcBehind ==
  ASSUME Rules!TypeOK, Rules!CpcHigh PROVE Rules!Status("cpc") = "behind"
<1> DEFINE f == Forecast["cpc"]
<1>1. f \in Nat /\ Rules!Clicks \in Nat /\ Rules!Spend \in Nat
  BY FiguresAssumption, Totals
<1>2. Rules!Performance("cpc") # None /\ Rules!Scores("cpc", 670)
  BY DEF Rules!CpcHigh, Rules!Scores
<1>3. /\ Rules!Actual("cpc") # None /\ Rules!Expected("cpc") # None
      /\ Rules!Actual("cpc")[1] # 0
      /\ Rules!Performance("cpc") = <<Rules!Expected("cpc")[1] * Rules!Actual("cpc")[2],
                                      Rules!Expected("cpc")[2] * Rules!Actual("cpc")[1]>>
  BY <1>2 DEF Rules!Performance, Rules!Cost
<1>4. Rules!Actual("cpc") = <<Rules!Spend, Rules!Clicks>>
  BY <1>3 DEF Rules!Actual
<1>5. Rules!Expected("cpc") = <<f, 1>>
  BY <1>3 DEF Rules!Expected, Rules!Volume
<1>6. Rules!Performance("cpc") = <<f * Rules!Clicks, 1 * Rules!Spend>> /\ Rules!Spend # 0
  BY <1>3, <1>4, <1>5
<1>7. f * Rules!Clicks \in Nat /\ 1 * Rules!Spend \in Positive
  BY <1>1, <1>6 DEF Positive
<1> QED BY <1>2, <1>6, <1>7, LowIsBehind

LEMMA CtrBehind ==
  ASSUME Rules!TypeOK, Rules!CtrLow PROVE Rules!Status("ctr") = "behind"
<1> DEFINE f == Forecast["ctr"]
<1>1. f \in Nat /\ Rules!Clicks \in Nat /\ Rules!Impressions \in Nat
  BY FiguresAssumption, Totals
<1>2. Rules!Performance("ctr") # None /\ Rules!Scores("ctr", 600)
  BY DEF Rules!CtrLow, Rules!Scores
<1>3. /\ Rules!Actual("ctr") # None /\ Rules!Expected("ctr") # None
      /\ Rules!Expected("ctr")[1] # 0
      /\ Rules!Performance("ctr") = <<Rules!Actual("ctr")[1] * Rules!Expected("ctr")[2],
                                      Rules!Actual("ctr")[2] * Rules!Expected("ctr")[1]>>
  BY <1>2 DEF Rules!Performance, Rules!Cost
<1>4. Rules!Actual("ctr") = <<Rules!Clicks * 100, Rules!Impressions>> /\ Rules!Impressions > 0
  BY <1>3 DEF Rules!Actual
<1>5. Rules!Expected("ctr") = <<f, 1>>
  BY <1>3 DEF Rules!Expected, Rules!Volume
<1>6. /\ Rules!Performance("ctr") = <<(Rules!Clicks * 100) * 1, Rules!Impressions * f>>
      /\ f # 0
  BY <1>3, <1>4, <1>5
<1>7. f \in Positive /\ Rules!Impressions \in Positive /\ (Rules!Clicks * 100) * 1 \in Nat
  BY <1>1, <1>4, <1>6 DEF Positive
<1>8. Rules!Impressions * f \in Positive
  BY <1>7, RatioProduct
<1> HIDE DEF f
<1> QED BY <1>2, <1>6, <1>7, <1>8, LowIsBehind

LEMMA ConversionsBehind ==
  ASSUME Rules!TypeOK, Rules!NoConversions PROVE Rules!Status("conversions") = "behind"
<1> DEFINE f == Forecast["conversions"]
<1>1. f \in Nat
  BY FiguresAssumption
<1>2. PICK a \in Nat, b \in Positive : Rules!Progress = <<a, b>>
  BY ProgressRatio
<1>3. Rules!Expected("conversions") # None
      /\ Rules!Thousandths(Rules!Expected("conversions")) >= 2995
  BY DEF Rules!NoConversions
<1>4. Rules!Expected("conversions") = <<f * a, b>>
  BY <1>2, <1>3 DEF Rules!Expected, Rules!Volume
<1>5. f * a \in Nat
  BY <1>1
<1> HIDE DEF f
<1>6. f * a # 0
  <2> SUFFICES ASSUME f * a = 0 PROVE FALSE
    OBVIOUS
  <2>1. Rules!Thousandths(<<0, b>>) >= 2995
    BY <1>3, <1>4
  <2> QED BY <2>1, RatioOfZero
<1>7. Rules!Actual("conversions") = <<0, 1>> /\ Rules!Actual("conversions") # None
  BY NoneAssumption DEF Rules!NoConversions
<1>8. Rules!Performance("conversions") = <<0 * b, 1 * (f * a)>>
  BY <1>3, <1>4, <1>6, <1>7 DEF Rules!Performance, Rules!Cost
<1>9. 0 * b = 0 /\ 1 * (f * a) = f * a
  BY <1>5 DEF Positive
<1>10. Rules!Performance("conversions") = <<0, f * a>>
  BY <1>8, <1>9
<1>11. Rules!Performance("conversions") # None
  BY <1>5, <1>10, NoneAssumption
<1>12. ~Rules!AtLeast(<<0, f * a>>, 850) /\ ~Rules!AtLeast(<<0, f * a>>, 1100)
  BY <1>5, <1>6 DEF Rules!AtLeast
<1> QED BY <1>10, <1>11, <1>12 DEF Rules!Status

LEMMA PacingOneWay ==
  ASSUME Rules!TypeOK PROVE ~(Rules!PacingFast /\ Rules!PacingSlow)
<1> SUFFICES ASSUME Rules!PacingFast, Rules!PacingSlow PROVE FALSE
  OBVIOUS
<1>1. Rules!SpendProgress # None /\ Rules!Lead >= 250 /\ Rules!Lead <= -300
  BY DEF Rules!PacingFast, Rules!PacingSlow
<1>2. Rules!Thousandths(Rules!SpendProgress) \in Int
      /\ Rules!Thousandths(Rules!TimeProgress) \in Int
  BY <1>1, ProgressRatio, RatioInt
<1>3. Rules!Lead \in Int
  BY <1>2 DEF Rules!Lead
<1> QED BY <1>1, <1>3

\* An alert complains of what the page shows behind the forecast, whatever Meta has
\* counted, whatever the forecast, the budget and the duration: the thresholds of
\* the alerts, rounded, lie within those of the page.
THEOREM AlertsTrue == ServicesSpec => []AlertsAgree
<1>1. Rules!TypeOK => AlertsAgree
  <2> SUFFICES ASSUME Rules!TypeOK PROVE Rules!AlertsAgree
    BY DEF AlertsAgree
  <2>1. "CPC_HIGH" \in Rules!DetectAlerts => Rules!CpcHigh
    BY DEF Rules!DetectAlerts
  <2>2. "CTR_LOW" \in Rules!DetectAlerts => Rules!CtrLow
    BY DEF Rules!DetectAlerts
  <2>3. "NO_CONVERSIONS" \in Rules!DetectAlerts => Rules!NoConversions
    BY DEF Rules!DetectAlerts
  <2>4. "BUDGET_PACING_FAST" \in Rules!DetectAlerts => Rules!PacingFast
    BY DEF Rules!DetectAlerts
  <2>5. "BUDGET_PACING_SLOW" \in Rules!DetectAlerts => Rules!PacingSlow
    BY DEF Rules!DetectAlerts
  <2> QED BY <2>1, <2>2, <2>3, <2>4, <2>5, CpcBehind, CtrBehind, ConversionsBehind,
             PacingOneWay DEF Rules!AlertsAgree
<1> QED BY <1>1, RulesPart, RulesInit, RulesStep, PTL

-----------------------------------------------------------------------------
(* The forecast engine.                                                    *)

LEMMA EngineInit == Engine!Init => Engine!TypeOK
BY DEF Engine!Init, Engine!TypeOK

LEMMA EngineStep ==
  ASSUME Engine!TypeOK, [Engine!Next]_(Engine!vars) PROVE Engine!TypeOK'
<1>1. ASSUME UNCHANGED Engine!vars PROVE Engine!TypeOK'
  BY <1>1 DEF Engine!vars, Engine!TypeOK
<1>2. ASSUME NEW c \in Engine!Campaign, NEW f \in Figure, Engine!Record(c, f)
      PROVE  Engine!TypeOK'
  BY <1>2 DEF Engine!Record, Engine!TypeOK
<1>3. ASSUME NEW p \in Params, Engine!Ask(p) PROVE Engine!TypeOK'
  BY <1>3 DEF Engine!Ask, Engine!TypeOK
<1> QED BY <1>1, <1>2, <1>3 DEF Engine!Next

\* A channel with the costs of its account: what is reached, and how many click,
\* is a matter of the budget, of these costs, of the followers and of the audience.
LEMMA RealMetrics ==
  ASSUME NEW q, NEW u, q.channels = u.channels, q.audience = u.audience,
         NEW x, Engine!Known(q.channels[x], "cpm"), Engine!Known(q.channels[x], "cpc"),
         NEW budget, NEW reference, NEW v
  PROVE  /\ Engine!Estimate(q, x, budget, reference, v).reach
              = Engine!Estimate(u, x, budget, None, v).reach
         /\ Engine!Estimate(q, x, budget, reference, v).clicks
              = Engine!Estimate(u, x, budget, None, v).clicks
BY DEF Engine!Estimate, Engine!Basis

\* Of a campaign on Instagram alone, no channel has a reference.
LEMMA NoReference ==
  ASSUME NEW p, DOMAIN p.channels = {"INSTAGRAM"}
  PROVE  Engine!Measured(p) = Engine!Unmeasured(p)
BY DEF Engine!Measured, Engine!Unmeasured, Engine!Reference

\* "les métriques réelles priment toujours", and what was measured on Facebook moves
\* no Instagram forecast, for every simulation and every reference.
LEMMA OwnFiguresFirst ==
  ASSUME NEW p \in Params
  PROVE  Engine!RealMetricsPrevail(p) /\ Engine!InstagramUncalibrated(p)
<1>1. Engine!RealMetricsPrevail(p)
  <2> DEFINE still == [x \in DOMAIN p.channels |->
                         [cpm |-> 100, ctr |-> 100, conversion |-> 100]]
             Q(o) == [p EXCEPT !.objective = o, !.jitter = still]
             With(x, o, reference) ==
               Engine!Estimate(Q(o), x, Engine!ChannelBudget(p, x), reference,
                               Engine!Variant["A"])
  <2> SUFFICES ASSUME NEW x \in DOMAIN p.channels, NEW o \in Engine!Objective,
                      Engine!Known(p.channels[x], "cpm"), Engine!Known(p.channels[x], "cpc")
               PROVE  /\ With(x, o, Engine!Calibration(p)).reach
                           = With(x, p.objective, None).reach
                      /\ With(x, o, Engine!Calibration(p)).clicks
                           = With(x, p.objective, None).clicks
    BY Zenon DEF Engine!RealMetricsPrevail
  <2>1. \A n : Q(n).channels = p.channels /\ Q(n).audience = p.audience
    BY ParamsAssumption
  <2> HIDE DEF Q
  <2> QED BY <2>1, RealMetrics
<1>2. Engine!InstagramUncalibrated(p)
  <2> SUFFICES ASSUME DOMAIN p.channels = {"INSTAGRAM"}, NEW s \in DOMAIN Engine!Variant
               PROVE  Engine!Results(p)[s]
                        = Engine!Plan(p, Engine!Variant[s], Engine!Unmeasured(p))
    BY DEF Engine!InstagramUncalibrated
  <2> QED BY NoReference DEF Engine!Results
<1> QED BY <1>1, <1>2

-----------------------------------------------------------------------------
(* The forecast engine: sums.                                              *)

\* A sum over a finite set is a recursive function of its subsets: by their sizes.
LEMMA SumUnfolds ==
  ASSUME NEW fun, IsFiniteSet(DOMAIN fun)
  PROVE  \E sum : /\ Engine!SumFunction(fun) = sum[DOMAIN fun]
                  /\ sum[{}] = 0
                  /\ \A T \in (SUBSET DOMAIN fun) \ {{}} :
                       \E x \in T : sum[T] = fun[x] + sum[T \ {x}]
<1> DEFINE D == DOMAIN fun
           First(T) == CHOOSE x \in T : TRUE
           Step(T, s) == IF T = {} THEN 0 ELSE fun[First(T)] + s[T \ {First(T)}]
           Upto(n) == {T \in SUBSET D : Cardinality(T) <= n}
           Is(S, s) == s = [T \in S |-> Step(T, s)]
           Without == {n \in Nat : ~\E s : Is(Upto(n), s)}
<1>1. \A T \in (SUBSET D) \ {{}} :
        /\ First(T) \in T
        /\ T \ {First(T)} \in SUBSET D
        /\ Cardinality(T \ {First(T)}) = Cardinality(T) - 1
        /\ Cardinality(T) \in Nat \ {0}
  <2> TAKE T \in (SUBSET D) \ {{}}
  <2>1. First(T) \in T
    OBVIOUS
  <2>2. IsFiniteSet(T)
    BY FS_Subset
  <2> HIDE DEF First
  <2> QED BY <2>1, <2>2, FS_RemoveElement, FS_CardinalityType, FS_EmptySet
<1>2. Without = {}
  <2> SUFFICES ASSUME Without # {} PROVE FALSE
    OBVIOUS
  <2>1. PICK n \in Without : \A k \in Without : n <= k
    <3>1. Without \in SUBSET Nat
      BY SMT
    <3> HIDE DEF Without
    <3> QED BY <3>1, LeastElement
  <2>2. CASE n = 0
    <3> DEFINE t == [T \in Upto(0) |-> 0]
    <3>1. \A T \in Upto(0) : T = {}
      BY FS_Subset, FS_EmptySet, <1>1
    <3>2. t = [T \in Upto(0) |-> Step(T, t)]
      BY <3>1
    <3>3. Is(Upto(0), t)
      BY <3>2
    <3> HIDE DEF t, Upto, Step
    <3> QED BY <2>2, <3>3
  <2>3. CASE n # 0
    <3>1. n - 1 \in Nat /\ ~(n <= n - 1)
      BY <2>3
    <3>2. PICK s : Is(Upto(n - 1), s)
      BY <2>1, <3>1
    <3> DEFINE t == [T \in Upto(n) |-> Step(T, s)]
    <3>3. \A T \in Upto(n - 1) : T \in Upto(n) /\ s[T] = t[T]
      <4> TAKE T \in Upto(n - 1)
      <4>1. T \in Upto(n)
        BY <3>1, FS_Subset, FS_CardinalityType
      <4>2. s[T] = Step(T, s)
        BY <3>2
      <4> HIDE DEF Step, Upto
      <4> QED BY <4>1, <4>2
    <3>4. \A T \in Upto(n) : T # {} => T \ {First(T)} \in Upto(n - 1)
      BY <1>1
    <3>5. \A T \in Upto(n) : Step(T, s) = Step(T, t)
      <4> HIDE DEF t, Upto, First
      <4> QED BY <3>3, <3>4
    <3>6. t = [T \in Upto(n) |-> Step(T, t)]
      <4> HIDE DEF Step, Upto
      <4>1. \A T \in Upto(n) : t[T] = Step(T, t)
        BY <3>5
      <4>2. t = [T \in Upto(n) |-> t[T]]
        OBVIOUS
      <4> HIDE DEF t
      <4> QED BY <4>1, <4>2
    <3>7. Is(Upto(n), t)
      <4> HIDE DEF t, Step, Upto
      <4> QED BY <3>6
    <3> HIDE DEF Is
    <3> QED BY <3>7
  <2> QED BY <2>2, <2>3
<1>3. Upto(Cardinality(D)) = SUBSET D /\ Cardinality(D) \in Nat
  BY FS_Subset, FS_CardinalityType
<1>4. \E s : Is(SUBSET D, s)
  <2> HIDE DEF Is, Upto
  <2>1. \E s : Is(Upto(Cardinality(D)), s)
    BY <1>2, <1>3
  <2> QED BY <1>3, <2>1
<1> DEFINE sum == CHOOSE s : Is(SUBSET D, s)
<1>5. Is(SUBSET D, sum)
  <2> HIDE DEF Is
  <2> QED BY <1>4
<1>6. Engine!SumFunction(fun) = sum[D]
  BY Zenon DEF Engine!SumFunction, Engine!SumFunctionOnSet, Engine!FoldFunctionOnSet,
               Engine!MapThenFoldSet
<1>7. \A T \in SUBSET D : sum[T] = Step(T, sum)
  <2> HIDE DEF sum, Step
  <2> QED BY <1>5
<1> HIDE DEF sum, First
<1>8. sum[{}] = 0
  BY <1>7
<1>9. \A T \in (SUBSET D) \ {{}} : \E x \in T : sum[T] = fun[x] + sum[T \ {x}]
  BY <1>1, <1>7
<1> QED BY <1>6, <1>8, <1>9

\* The sum over the channels.
LEMMA SumOfChannels ==
  ASSUME NEW fun, DOMAIN fun \subseteq Engine!Platform, \A x \in DOMAIN fun : fun[x] \in Int
  PROVE  Engine!SumFunction(fun)
           = (IF "FACEBOOK" \in DOMAIN fun THEN fun["FACEBOOK"] ELSE 0)
             + (IF "INSTAGRAM" \in DOMAIN fun THEN fun["INSTAGRAM"] ELSE 0)
<1> DEFINE D == DOMAIN fun
           F == "FACEBOOK"
           I == "INSTAGRAM"
<1>1. D \subseteq {F, I} /\ F # I
  BY DEF Engine!Platform
<1>2. IsFiniteSet(D)
  <2>1. IsFiniteSet({F}) /\ IsFiniteSet({I})
    BY FS_Singleton
  <2>2. IsFiniteSet({F} \cup {I}) /\ D \subseteq {F} \cup {I}
    BY <1>1, <2>1, FS_Union
  <2> QED BY <2>2, FS_Subset
<1>3. PICK sum : /\ Engine!SumFunction(fun) = sum[D]
                 /\ sum[{}] = 0
                 /\ \A T \in (SUBSET D) \ {{}} : \E x \in T : sum[T] = fun[x] + sum[T \ {x}]
  BY <1>2, SumUnfolds
<1>4. \A x \in D : sum[{x}] = fun[x]
  <2> TAKE x \in D
  <2>1. {x} \in (SUBSET D) \ {{}} /\ {x} \ {x} = {}
    OBVIOUS
  <2>2. sum[{x}] = fun[x] + sum[{}]
    BY <1>3, <2>1
  <2> QED BY <1>3, <2>2
<1>5. CASE D = {F, I}
  <2>1. D \in (SUBSET D) \ {{}} /\ D \ {F} = {I} /\ D \ {I} = {F}
    BY <1>1, <1>5
  <2>2. sum[D] = fun[F] + fun[I]
    BY <1>3, <1>4, <1>5, <2>1
  <2> QED BY <1>3, <1>5, <2>2
<1>6. CASE D = {F} \/ D = {I} \/ D = {}
  BY <1>1, <1>3, <1>4, <1>6
<1> QED BY <1>1, <1>5, <1>6

\* The sum over the weeks.
LEMMA SumOfWeeks ==
  ASSUME NEW fun, DOMAIN fun = 1..5, \A w \in 1..5 : fun[w] \in Int
  PROVE  Engine!SumFunction(fun) = fun[1] + fun[2] + fun[3] + fun[4] + fun[5]
<1> DEFINE D == DOMAIN fun
           In(T, w) == IF w \in T THEN fun[w] ELSE 0
           Total(T) == In(T, 1) + In(T, 2) + In(T, 3) + In(T, 4) + In(T, 5)
<1>1. IsFiniteSet(D)
  <2>1. IsFiniteSet(1..5)
    <3>1. 1 \in Int /\ 5 \in Int
      OBVIOUS
    <3> QED BY <3>1, FS_Interval, Zenon
  <2> QED BY <2>1
<1>2. PICK sum : /\ Engine!SumFunction(fun) = sum[D]
                 /\ sum[{}] = 0
                 /\ \A T \in (SUBSET D) \ {{}} : \E x \in T : sum[T] = fun[x] + sum[T \ {x}]
  <2> HIDE DEF D
  <2> QED BY <1>1, SumUnfolds DEF D
<1> HIDE DEF Total
<1> DEFINE Wrong == {n \in Nat : \E T \in SUBSET D : Cardinality(T) = n /\ sum[T] # Total(T)}
<1>3. Wrong = {}
  <2> SUFFICES ASSUME Wrong # {} PROVE FALSE
    OBVIOUS
  <2>1. PICK n \in Wrong : \A k \in Wrong : n <= k
    <3>1. Wrong \in SUBSET Nat
      BY SMT
    <3> HIDE DEF Wrong
    <3> QED BY <3>1, LeastElement
  <2>2. PICK T \in SUBSET D : Cardinality(T) = n /\ sum[T] # Total(T)
    OBVIOUS
  <2>3. Total({}) = 0
    BY DEF Total
  <2>4. PICK x \in T : sum[T] = fun[x] + sum[T \ {x}]
    BY <1>2, <2>2, <2>3
  <2>5. T \ {x} \in SUBSET D /\ Cardinality(T \ {x}) \in Nat /\ ~(n <= Cardinality(T \ {x}))
    <3>1. IsFiniteSet(T)
      BY <1>1, FS_Subset
    <3>2. IsFiniteSet(T \ {x}) /\ Cardinality(T \ {x}) = Cardinality(T) - 1
      BY <3>1, FS_RemoveElement
    <3>3. Cardinality(T) \in Nat /\ Cardinality(T \ {x}) \in Nat
      BY <3>1, <3>2, FS_CardinalityType
    <3> QED BY <2>2, <3>2, <3>3
  <2>6. sum[T \ {x}] = Total(T \ {x})
    BY <2>1, <2>5
  <2>7. fun[x] + Total(T \ {x}) = Total(T)
    <3>1. \A w \in 1..5 : In(T \ {x}, w) = IF w = x THEN 0 ELSE In(T, w)
      OBVIOUS
    <3>2. x \in 1..5 /\ In(T, x) = fun[x] /\ \A w \in 1..5 : In(T, w) \in Int
      OBVIOUS
    <3> HIDE DEF In
    <3> QED BY <3>1, <3>2 DEF Total
  <2> QED BY <2>2, <2>4, <2>6, <2>7
<1>4. sum[D] = Total(D)
  <2>1. Cardinality(D) \in Nat /\ D \in SUBSET D
    BY <1>1, FS_CardinalityType
  <2> QED BY <1>3, <2>1
<1> QED BY <1>2, <1>4 DEF Total

\* The five roundings of the weeks make two at most.
LEMMA WeeksAddUp ==
  ASSUME NEW total \in Nat
  PROVE  Engine!SumFunction(Engine!WeeklySeries(total)) - total \in -2..2
<1> DEFINE weeks == Engine!WeeklySeries(total)
<1>1. /\ DOMAIN weeks = 1..5
      /\ weeks[1] = (total * 12 + 50) \div 100 /\ weeks[2] = (total * 19 + 50) \div 100
      /\ weeks[3] = (total * 24 + 50) \div 100 /\ weeks[4] = (total * 24 + 50) \div 100
      /\ weeks[5] = (total * 21 + 50) \div 100
  BY DEF Engine!WeeklySeries, Engine!WeeklyRamp
<1> HIDE DEF weeks
<1>2. \A w \in 1..5 : weeks[w] \in Int
  BY <1>1
<1>3. Engine!SumFunction(weeks) = weeks[1] + weeks[2] + weeks[3] + weeks[4] + weeks[5]
  BY <1>1, <1>2, SumOfWeeks
<1> QED BY <1>1, <1>3 DEF weeks

-----------------------------------------------------------------------------
(* The forecast engine: medians, and the references measured.              *)
\* The engine's cardinality is that of FiniteSets.
LEMMA SameCardinality == \A S : Engine!Cardinality(S) = Cardinality(S)
BY DEF Cardinality, Engine!Cardinality

\* The k-th of at least k figures is one of them, the least that k do not exceed.
LEMMA RankedNat ==
  ASSUME NEW C, IsFiniteSet(C), NEW f, \A c \in C : observed[c][f] \in Nat,
         NEW k \in 1..Cardinality(C)
  PROVE  Engine!Ranked(C, f, k) \in Nat
<1> DEFINE Is(c) == observed[c][f]
           V == {Is(c) : c \in C}
           W == {v \in V : k <= Cardinality({c \in C : Is(c) <= v})}
           Ranks(v) == /\ Cardinality({c \in C : Is(c) < v}) < k
                       /\ k <= Cardinality({c \in C : Is(c) <= v})
<1>1. ASSUME NEW L \in SUBSET C, L # {}
      PROVE  \E c \in L : \A d \in L : Is(d) <= Is(c)
  <2> DEFINE g == [c \in L |-> Is(c)]
             U == {Is(c) : c \in L}
  <2>1. g \in Surjection(L, U) /\ IsFiniteSet(L)
    BY FS_Subset DEF Surjection
  <2>2. IsFiniteSet(U) /\ U \in SUBSET Nat /\ U # {}
    <3>1. IsFiniteSet(U)
      <4> HIDE DEF g, U
      <4> QED BY <2>1, FS_Surjection
    <3> QED BY <1>1, <3>1
  <2>3. PICK u \in U : \A v \in U : v <= u
    <3> HIDE DEF U
    <3> QED BY <2>2, GreatestElement
  <2> QED BY <2>3
<1>2. C # {} /\ Cardinality(C) \in Nat
  BY FS_CardinalityType, FS_EmptySet
<1>3. W # {}
  <2>1. PICK c \in C : \A d \in C : Is(d) <= Is(c)
    BY <1>1, <1>2
  <2>2. {d \in C : Is(d) <= Is(c)} = C
    BY <2>1
  <2>3. k <= Cardinality({d \in C : Is(d) <= Is(c)})
    <3> HIDE DEF Is
    <3> QED BY <1>2, <2>2
  <2>4. Is(c) \in V
    OBVIOUS
  <2> HIDE DEF Is, V
  <2> QED BY <2>3, <2>4
<1>4. PICK v \in W : \A w \in W : v <= w
  <2>1. W \in SUBSET Nat
    OBVIOUS
  <2> HIDE DEF W
  <2> QED BY <1>3, <2>1, LeastElement
<1>5. Cardinality({c \in C : Is(c) < v}) < k
  <2> DEFINE L == {c \in C : Is(c) < v}
  <2>1. L \in SUBSET C /\ IsFiniteSet(L) /\ Cardinality(L) \in Nat /\ v \in Nat
    BY FS_Subset, FS_CardinalityType
  <2> SUFFICES ASSUME Cardinality(L) >= k PROVE FALSE
    BY <2>1
  <2>2. L # {}
    <3> HIDE DEF L
    <3>1. Cardinality(L) # 0
      BY <2>1
    <3> QED BY <3>1, FS_EmptySet
  <2>3. PICK c \in L : \A d \in L : Is(d) <= Is(c)
    <3> HIDE DEF L, Is
    <3> QED BY <1>1, <2>1, <2>2
  <2>4. {d \in C : Is(d) <= Is(c)} = L
    BY <2>1, <2>3
  <2>5. Is(c) \in W
    <3>1. k <= Cardinality({d \in C : Is(d) <= Is(c)})
      <4> HIDE DEF Is
      <4> QED BY <2>1, <2>4
    <3>2. Is(c) \in V
      OBVIOUS
    <3> HIDE DEF Is, V
    <3> QED BY <3>1, <3>2
  <2>6. Is(c) \in Nat /\ ~(v <= Is(c))
    BY <2>1, <2>3
  <2> QED BY <1>4, <2>5, <2>6
<1>6. \E w \in V : Ranks(w)
  BY <1>4, <1>5
<1>7. Engine!Ranked(C, f, k) = CHOOSE w \in V : Ranks(w)
  BY Zenon DEF Engine!Ranked, Cardinality, Engine!Cardinality
<1>8. (CHOOSE w \in V : Ranks(w)) \in V
  <2> HIDE DEF V, Ranks
  <2> QED BY <1>6
<1> QED BY <1>7, <1>8

\* A median of natural numbers is one.
LEMMA MedianNat ==
  ASSUME NEW C, IsFiniteSet(C), C # {}, NEW f, \A c \in C : observed[c][f] \in Nat
  PROVE  Engine!Median(C, f) \in Nat
<1> DEFINE n == Cardinality(C)
           mid == n \div 2
<1>1. n \in Nat \ {0}
  BY FS_CardinalityType, FS_EmptySet
<1>2. mid \in Nat /\ (n % 2 = 1 => mid + 1 \in 1..n)
      /\ (n % 2 # 1 => mid \in 1..n /\ mid + 1 \in 1..n)
  <2> HIDE DEF n
  <2> QED BY <1>1
<1>3. Engine!Median(C, f)
        = IF n % 2 = 1 THEN Engine!Ranked(C, f, mid + 1)
          ELSE (Engine!Ranked(C, f, mid) + Engine!Ranked(C, f, mid + 1)) \div 2
  BY Zenon, SameCardinality DEF Engine!Median
<1> HIDE DEF mid
<1>4. CASE n % 2 = 1
  <2>1. Engine!Ranked(C, f, mid + 1) \in Nat
    BY <1>2, <1>4, RankedNat
  <2> QED BY <1>3, <1>4, <2>1
<1>5. CASE n % 2 # 1
  <2>1. Engine!Ranked(C, f, mid) \in Nat /\ Engine!Ranked(C, f, mid + 1) \in Nat
    BY <1>2, <1>5, RankedNat
  <2> HIDE DEF n
  <2> QED BY <1>3, <1>5, <2>1
<1> QED BY <1>4, <1>5

LEMMA Product == \A m, n \in Nat : m * n \in Nat
OBVIOUS

LEMMA Quotient == \A m \in Nat, n \in Nat \ {0} : m \div n \in Nat
OBVIOUS

\* The references that have been measured are counts, of a number of campaigns.
Reference == [campaigns : Nat, cpm : Nat, ctr : Nat, conversion : Nat]

LEMMA CalibrationTyped ==
  ASSUME Engine!TypeOK, NEW p
  PROVE  Engine!Calibration(p) \in Reference \cup {None}
<1> DEFINE rows == {c \in Engine!Campaign :
                      observed[c] # None /\ Owner[c].objective = p.objective}
           Companies(C) == {Owner[c].company : c \in C}
<1>1. ASSUME NEW C \in SUBSET rows, C # {} PROVE Engine!Aggregate(C) \in Reference
  <2>1. IsFiniteSet(C)
    BY MeasuresAssumption, FS_Subset DEF Engine!Campaign
  <2>2. \A c \in C : /\ observed[c]["cpm"] \in Nat /\ observed[c]["ctr"] \in Nat
                     /\ observed[c]["conversion"] \in Nat
    BY MeasuresAssumption DEF Engine!TypeOK
  <2>3. Cardinality(C) \in Nat
    BY <2>1, FS_CardinalityType
  <2>4. /\ Engine!Median(C, "cpm") \in Nat /\ Engine!Median(C, "ctr") \in Nat
        /\ Engine!Median(C, "conversion") \in Nat
    BY <1>1, <2>1, <2>2, MedianNat
  <2> QED BY <2>3, <2>4, SameCardinality DEF Engine!Aggregate, Reference
<1>2. Cardinality({}) = 0
  BY FS_EmptySet
<1>3. ASSUME NEW C \in SUBSET rows, Cardinality(C) >= 2 PROVE C # {}
  BY <1>2, <1>3
<1>4. ASSUME NEW C \in SUBSET rows, Cardinality(Companies(C)) >= 3 PROVE C # {}
  <2> SUFFICES ASSUME C = {} PROVE FALSE
    OBVIOUS
  <2>1. Companies(C) = {}
    OBVIOUS
  <2> QED BY <1>2, <1>4, <2>1
<1> DEFINE own == {c \in rows : Owner[c].company = p.company}
           inCity == {c \in rows : observed[c].city = p.city}
<1>5. Engine!Calibration(p)
        = IF Cardinality(own) >= 2 THEN Engine!Aggregate(own)
          ELSE IF Cardinality(Companies(inCity)) >= 3 THEN Engine!Aggregate(inCity)
          ELSE IF Cardinality(Companies(rows)) >= 3 THEN Engine!Aggregate(rows)
          ELSE None
  BY SameCardinality, Zenon DEF Engine!Calibration
<1>6. own \in SUBSET rows /\ inCity \in SUBSET rows /\ rows \in SUBSET rows
  OBVIOUS
<1> HIDE DEF own, inCity, rows, Companies
<1> QED BY <1>1, <1>3, <1>4, <1>5, <1>6

\* What is blended of counts is a count, and not zero where the market's is not.
LEMMA BlendNat ==
  ASSUME NEW prior \in Nat, NEW reference \in Reference \cup {None},
         NEW f \in {"cpm", "ctr", "conversion"}
  PROVE  /\ Engine!Blend(prior, reference, f) \in Nat
         /\ prior # 0 => Engine!Blend(prior, reference, f) # 0
<1>1. CASE reference # None /\ reference[f] > 0
  <2> DEFINE n == reference.campaigns
             r == reference[f]
  <2>1. n \in Nat /\ r \in Nat \ {0}
    BY <1>1 DEF Reference
  <2>2. Engine!Blend(prior, reference, f) = (prior * 5 + r * n) \div (n + 5)
    BY <1>1 DEF Engine!Blend
  <2> HIDE DEF n, r
  <2>3. r * n \in Nat /\ r * n >= n
    BY <2>1
  <2>4. prior # 0 => prior * 5 + r * n >= n + 5
    BY <2>1, <2>3
  <2>5. \A a \in Nat, b \in Nat \ {0} : a \div b \in Nat /\ (a >= b => a \div b # 0)
    OBVIOUS
  <2>6. prior * 5 + r * n \in Nat /\ n + 5 \in Nat \ {0}
    BY <2>1, <2>3
  <2> QED BY <2>2, <2>4, <2>5, <2>6
<1>2. CASE ~(reference # None /\ reference[f] > 0)
  BY <1>2 DEF Engine!Blend
<1> QED BY <1>1, <1>2

-----------------------------------------------------------------------------
(* The forecast engine: what a channel brings.                             *)

\* How broad an audience is, is a count.
LEMMA BreadthNat ==
  ASSUME NEW a \in [span : Nat \ {0}, all : BOOLEAN, locations : Nat, interests : Nat]
  PROVE  Engine!AudienceBreadth(a) \in Nat
<1> DEFINE years == Engine!Least(130, 70 + (100 * a.span) \div 60)
           gender == IF a.all THEN 115 ELSE 85
           location == Engine!Least(120, 80 + 10 * a.locations)
           interest == IF a.interests > 0 THEN Engine!Least(110, 100 + 2 * a.interests)
                       ELSE 95
<1>1. years \in Nat /\ gender \in Nat /\ location \in Nat /\ interest \in Nat
  <2>1. a.span \in Nat /\ a.locations \in Nat /\ a.interests \in Nat
    OBVIOUS
  <2> QED BY <2>1 DEF Engine!Least
<1>2. \A m, n \in Nat : Engine!Percent(m, n) \in Nat
  <2> TAKE m, n \in Nat
  <2>1. m * n \in Nat
    BY Product
  <2> QED BY <2>1, Quotient DEF Engine!Percent
<1>3. Engine!AudienceBreadth(a)
        = (Engine!Percent(Engine!Percent(years, gender), location) * interest) \div 110
  BY DEF Engine!AudienceBreadth
<1> HIDE DEF years, gender, location, interest
<1>4. Engine!Percent(Engine!Percent(years, gender), location) * interest \in Nat
  BY <1>1, <1>2, Product
<1> QED BY <1>3, <1>4, Quotient

\* The references of the market, moved by a jitter within 8 %, are not zero.
LEMMA MarketNat ==
  ASSUME NEW p \in Params, NEW x \in DOMAIN p.channels,
         NEW f \in {"cpm", "ctr", "conversion"}
  PROVE  Engine!Market(p, x, f) \in Nat \ {0}
<1>1. Engine!Bench[p.objective][f] \in {2000, 65, 100, 2350, 180, 200, 2200, 150, 175,
        3350, 120, 650, 3750, 105, 350, 4150, 95, 400, 2300, 160, 3000}
  <2>1. p.objective \in Engine!Objective
    BY NamesAssumption
  <2> QED BY <2>1 DEF Engine!Objective, Engine!Bench
<1>2. p.jitter[x][f] \in 92..108
  <2>1. p.jitter[x] \in [cpm : 92..108, ctr : 92..108, conversion : 92..108]
    BY ParamsAssumption
  <2> QED BY <2>1
<1>3. \A b \in {2000, 65, 100, 2350, 180, 200, 2200, 150, 175, 3350, 120, 650, 3750, 105,
                350, 4150, 95, 400, 2300, 160, 3000}, j \in 92..108 :
        b * j \in Nat /\ b * j >= 100
  OBVIOUS
<1>4. \A n \in Nat : n >= 100 => n \div 100 \in Nat \ {0}
  OBVIOUS
<1> QED BY <1>1, <1>2, <1>3, <1>4 DEF Engine!Market, Engine!Percent

\* What the budget of a channel brings is a count.
LEMMA BasisNat ==
  ASSUME NEW p \in Params, NEW x \in DOMAIN p.channels, NEW budget \in Nat,
         NEW reference \in Reference \cup {None}
  PROVE  LET basis == Engine!Basis(p, x, budget, reference)
         IN basis.reach \in Nat /\ basis.clicks \in Nat /\ basis.conversions \in Nat
<1> DEFINE metrics == p.channels[x]
           Prior(f) == Engine!Blend(Engine!Market(p, x, f), reference, f)
           cpm == IF Engine!Known(metrics, "cpm") THEN metrics.cpm ELSE Prior("cpm")
           impressions == (budget * 1000) \div cpm
           followers == IF metrics = None THEN 0 ELSE metrics.followers
           people == (impressions * 100) \div 18 + Engine!Percent(followers * 10, 15)
           breadth == Engine!AudienceBreadth(p.audience)
           reach == Engine!Percent(people, breadth)
           ctr == IF Engine!Known(metrics, "cpc") THEN (cpm * 10) \div metrics.cpc
                  ELSE Prior("ctr")
           clicks == (reach * ctr) \div 10000
<1>1. metrics = None \/ metrics \in [followers : Nat, cpm : Nat, cpc : Nat]
  BY ParamsAssumption
<1>2. \A f \in {"cpm", "ctr", "conversion"} : Prior(f) \in Nat /\ Prior(f) # 0
  BY MarketNat, BlendNat
<1>3. cpm \in Nat \ {0}
  BY <1>1, <1>2 DEF Engine!Known
<1>4. followers \in Nat
  BY <1>1
<1>5. breadth \in Nat
  BY BreadthNat, ParamsAssumption
<1>6. Engine!Basis(p, x, budget, reference)
        = [reach |-> reach, clicks |-> clicks,
           conversions |-> (clicks * Prior("conversion")) \div 10000]
  BY DEF Engine!Basis
<1>7. ctr \in Nat
  <2>1. CASE Engine!Known(metrics, "cpc")
    <3>1. metrics.cpc \in Nat \ {0}
      BY <1>1, <2>1 DEF Engine!Known
    <3>2. cpm * 10 \in Nat
      BY <1>3
    <3> HIDE DEF cpm, metrics
    <3> QED BY <2>1, <3>1, <3>2, Quotient
  <2>2. CASE ~Engine!Known(metrics, "cpc")
    BY <1>2, <2>2
  <2> QED BY <2>1, <2>2
<1> HIDE DEF metrics, Prior, cpm, followers, breadth, ctr
<1>8. impressions \in Nat
  BY <1>3, Product, Quotient
<1> HIDE DEF impressions
<1>9. people \in Nat
  <2>1. (impressions * 100) \div 18 \in Nat
    BY <1>8, Product, Quotient
  <2>2. Engine!Percent(followers * 10, 15) \in Nat
    BY <1>4, Product, Quotient DEF Engine!Percent
  <2> QED BY <2>1, <2>2
<1> HIDE DEF people
<1>10. reach \in Nat
  BY <1>5, <1>9, Product, Quotient DEF Engine!Percent
<1> HIDE DEF reach
<1>11. clicks \in Nat
  BY <1>7, <1>10, Product, Quotient
<1> HIDE DEF clicks
<1>12. (clicks * Prior("conversion")) \div 10000 \in Nat
  BY <1>2, <1>11, Product, Quotient
<1> QED BY <1>6, <1>10, <1>11, <1>12

LEMMA WeightNat ==
  ASSUME NEW p \in Params, NEW x \in DOMAIN p.channels
  PROVE  Engine!Weight(p.channels[x]) \in Nat \ {0}
BY ParamsAssumption DEF Engine!Weight, Engine!Known

\* Each channel has its share of the budget.
LEMMA ChannelBudgetNat ==
  ASSUME NEW p \in Params, NEW x \in DOMAIN p.channels
  PROVE  Engine!ChannelBudget(p, x) \in Nat
<1> DEFINE weights == [y \in DOMAIN p.channels |-> Engine!Weight(p.channels[y])]
<1>1. \A y \in DOMAIN p.channels : weights[y] \in Nat \ {0}
  BY WeightNat
<1>2. DOMAIN weights = DOMAIN p.channels /\ DOMAIN p.channels \subseteq Engine!Platform
  BY NamesAssumption
<1>3. Engine!TotalWeight(p) = Engine!SumFunction(weights)
  BY DEF Engine!TotalWeight
<1> HIDE DEF weights
<1>4. Engine!SumFunction(weights) \in Nat \ {0}
  <2>1. Engine!SumFunction(weights)
          = (IF "FACEBOOK" \in DOMAIN weights THEN weights["FACEBOOK"] ELSE 0)
            + (IF "INSTAGRAM" \in DOMAIN weights THEN weights["INSTAGRAM"] ELSE 0)
    BY <1>1, <1>2, SumOfChannels
  <2> QED BY <1>1, <1>2, <2>1 DEF Engine!Platform
<1>5. p.budget \in Nat
  BY ParamsAssumption
<1>6. p.budget * Engine!Weight(p.channels[x]) \in Nat
  BY <1>5, WeightNat, Product
<1> QED BY <1>3, <1>4, <1>6, Quotient DEF Engine!ChannelBudget

-----------------------------------------------------------------------------
(* The forecast engine: the strategies, and the choice.                    *)

LEMMA QuotientAt ==
  \A n \in Nat, d \in Nat \ {0} :
    /\ n \div d \in Nat
    /\ 95 * d <= n /\ n < 96 * d => n \div d = 95
    /\ n < 95 * d => n \div d < 95
<1> TAKE n \in Nat, d \in Nat \ {0}
<1> DEFINE q == n \div d
           r == n % d
<1>1. q \in Nat /\ r \in Nat /\ r < d /\ n = d * q + r
  OBVIOUS
<1> HIDE DEF q, r
<1>2. q >= 96 => d * q >= 96 * d
  BY <1>1
<1>3. q >= 95 => d * q >= 95 * d
  BY <1>1
<1>4. q <= 94 => d * q <= 94 * d
  BY <1>1
<1> QED BY <1>1, <1>2, <1>3, <1>4 DEF q

\* The strategy chosen is the first that none is above.
LEMMA BestOfThree ==
  ASSUME NEW results, NEW metric
  PROVE  Engine!Best(results, metric) \in DOMAIN Engine!Variant
<1> DEFINE best == Engine!Max({results[s][metric] : s \in DOMAIN Engine!Variant} \cup {1})
           Score(s) == (110 * best + 80 * results[s][metric] + best) \div (2 * best)
           Top(s, t) == IF Score(t) > Score(s) THEN t ELSE s
<1>1. Engine!Best(results, metric) = Top(Top("A", "B"), "C")
  BY DEF Engine!Best
<1>2. DOMAIN Engine!Variant = {"A", "B", "C"}
  BY DEF Engine!Variant
<1> HIDE DEF Score
<1>3. Top(Top("A", "B"), "C") \in {"A", "B", "C"}
  OBVIOUS
<1> HIDE DEF Top
<1> QED BY <1>1, <1>2, <1>3

\* The rounded scores set the best strategy apart when the others are a good eightieth
\* behind, or equal it.
LEMMA BestScores ==
  ASSUME NEW results, NEW metric, NEW w \in DOMAIN Engine!Variant,
         \A s \in DOMAIN Engine!Variant :
           /\ results[s][metric] \in Nat
           /\ \/ results[s][metric] = results[w][metric]
              \/ 80 * results[s][metric] < 79 * results[w][metric]
  PROVE  \A s \in DOMAIN Engine!Variant :
           results[s][metric] <= results[Engine!Best(results, metric)][metric]
<1> DEFINE V == DOMAIN Engine!Variant
           R(s) == results[s][metric]
           best == Engine!Max({R(s) : s \in V} \cup {1})
           Score(s) == (110 * best + 80 * R(s) + best) \div (2 * best)
           Top(s, t) == IF Score(t) > Score(s) THEN t ELSE s
<1>1. V = {"A", "B", "C"}
  BY DEF Engine!Variant
<1>2. Engine!Best(results, metric) = Top(Top("A", "B"), "C")
  BY DEF Engine!Best
<1> HIDE DEF V
<1>3. \A s \in V : R(s) \in Nat /\ R(s) <= R(w)
                   /\ (R(s) = R(w) \/ 80 * R(s) < 79 * R(w))
  BY DEF V
<1>4. w \in V
  BY DEF V
<1>5. best = IF R(w) > 0 THEN R(w) ELSE 1
  <2> DEFINE S == {R(s) : s \in V} \cup {1}
             m == IF R(w) > 0 THEN R(w) ELSE 1
  <2>1. m \in S /\ \A y \in S : y \in Nat /\ m >= y
    BY <1>3, <1>4
  <2>2. Engine!Max(S) = CHOOSE x \in S : \A y \in S : x >= y
    BY DEF Engine!Max
  <2> HIDE DEF S, m
  <2>3. \A x \in S : (\A y \in S : x >= y) => x = m
    BY <2>1
  <2>4. Engine!Max(S) = m
    BY <2>1, <2>2, <2>3
  <2> QED BY <2>4 DEF S, m
<1> HIDE DEF best
<1>6. CASE R(w) = 0
  <2>1. \A s \in V : R(s) = 0
    <3> HIDE DEF R
    <3> QED BY <1>3, <1>6
  <2>2. Top(Top("A", "B"), "C") \in V
    <3> HIDE DEF Score
    <3> QED BY <1>1
  <2> HIDE DEF Top, R
  <2> QED BY <1>2, <2>1, <2>2 DEF R, V
<1>7. CASE R(w) > 0
  <2>1. best = R(w)
    BY <1>5, <1>7
  <2>2. \A s \in V : IF R(s) = R(w) THEN Score(s) = 95 ELSE Score(s) \in Nat /\ Score(s) < 95
    <3> TAKE s \in V
    <3> DEFINE n == 110 * best + 80 * R(s) + best
               d == 2 * best
    <3>1. n \in Nat /\ d \in Nat \ {0}
      BY <1>3, <1>7, <2>1
    <3>2. R(s) = R(w) => 95 * d <= n /\ n < 96 * d
      BY <1>3, <1>4, <1>7, <2>1
    <3>3. R(s) # R(w) => n < 95 * d
      BY <1>3, <1>4, <1>7, <2>1
    <3> HIDE DEF R, n, d
    <3>4. n \div d \in Nat /\ (R(s) = R(w) => n \div d = 95) /\ (R(s) # R(w) => n \div d < 95)
      BY <3>1, <3>2, <3>3, QuotientAt
    <3>5. Score(s) = n \div d
      BY DEF n, d
    <3> HIDE DEF Score
    <3> QED BY <3>4, <3>5
  <2> HIDE DEF Score, R
  <2>3. R(Top(Top("A", "B"), "C")) = R(w)
    BY <1>1, <1>4, <2>2
  <2> HIDE DEF Top
  <2> QED BY <1>2, <1>3, <2>3 DEF R, V
<1> QED BY <1>3, <1>4, <1>6, <1>7

\* What k of K parts of q tenths come to, and what two channels come to.
Million == 1000000
Whole == {100, 10000, Million}
Portion(q, k, K) == Engine!Round((q * k) \div K)
Portions(q, r, k, K) == Portion(q, k, K) + Portion(r, k, K)
Shared(q, r, o, k) == (Portions(q, r, k, 100) * o + 50) \div 100
\* What a plan keeps of its reach, in hundredths: channels that overlap, or one alone.
Overlap == {85, 100}

LEMMA PortionOf ==
  ASSUME NEW q \in Nat, NEW k \in Nat, NEW K \in Whole
  PROVE  /\ Portion(q, k, K) \in Nat
         /\ 10 * K * Portion(q, k, K) <= q * k + 5 * K
         /\ q * k + 5 * K < 10 * K * Portion(q, k, K) + 10 * K
<1>1. ASSUME NEW n \in Nat
      PROVE  LET r == (n \div K + 5) \div 10
             IN r \in Nat /\ 10 * K * r <= n + 5 * K /\ n + 5 * K < 10 * K * r + 10 * K
  BY <1>1, SMT DEF Whole, Million
<1>2. q * k \in Nat /\ Portion(q, k, K) = ((q * k) \div K + 5) \div 10
  BY Product DEF Portion, Engine!Round
<1> QED BY <1>1, <1>2

LEMMA PortionsOf ==
  ASSUME NEW q \in Nat, NEW r \in Nat, NEW k \in Nat, NEW K \in Whole
  PROVE  /\ Portions(q, r, k, K) \in Nat
         /\ 10 * K * Portions(q, r, k, K) <= (q + r) * k + 10 * K
         /\ (q + r) * k + 10 * K < 10 * K * Portions(q, r, k, K) + 20 * K
         /\ \A l \in Nat : k <= l => Portions(q, r, k, K) <= Portions(q, r, l, K)
<1>1. /\ K \in Nat /\ K > 0 /\ Portions(q, r, k, K) = Portion(q, k, K) + Portion(r, k, K)
      /\ (q + r) * k = q * k + r * k
  BY SMT DEF Portions, Whole, Million
<1>2. \A x \in {q, r}, l \in Nat :
        /\ Portion(x, l, K) \in Nat
        /\ 10 * K * Portion(x, l, K) <= x * l + 5 * K
        /\ x * l + 5 * K < 10 * K * Portion(x, l, K) + 10 * K
  BY PortionOf
<1>3. ASSUME NEW x \in {q, r}, NEW l \in Nat, k <= l
      PROVE  Portion(x, k, K) <= Portion(x, l, K)
  <2>1. x * k <= x * l /\ x * k \in Nat /\ x * l \in Nat
    BY <1>3
  <2> DEFINE a == Portion(x, k, K)
             b == Portion(x, l, K)
  <2>2. 10 * K * a < 10 * K * b + 10 * K /\ a \in Nat /\ b \in Nat
    <3>1. a \in Nat /\ 10 * K * a <= x * k + 5 * K
      BY <1>2
    <3>2. b \in Nat /\ x * l + 5 * K < 10 * K * b + 10 * K
      BY <1>2, <1>3
    <3> HIDE DEF a, b
    <3>3. 10 * K * a \in Nat /\ 10 * K * b \in Nat
      BY <1>1, <3>1, <3>2
    <3> QED BY <1>1, <2>1, <3>1, <3>2, <3>3
  <2> HIDE DEF a, b
  <2>3. K * a < K * (b + 1)
    BY <1>1, <2>2
  <2>4. a >= b + 1 => K * a >= K * (b + 1)
    BY <1>1, <2>2
  <2> QED BY <1>1, <2>2, <2>3, <2>4 DEF a, b
<1>4. 10 * K * (Portion(q, k, K) + Portion(r, k, K))
        = 10 * K * Portion(q, k, K) + 10 * K * Portion(r, k, K)
  BY <1>1, <1>2
<1> QED BY <1>1, <1>2, <1>3, <1>4 DEF Portions

\* Of l parts and of fewer, k.
LEMMA Lead ==
  ASSUME NEW q \in Nat, NEW r \in Nat, NEW k \in Nat \ {0}, NEW l \in Nat, k <= l,
         NEW K \in Whole
  PROVE  LET a == Portions(q, r, k, K)
             b == Portions(q, r, l, K)
         IN a \in Nat /\ b \in Nat /\ a <= b /\ l * a < k * b + k + l
<1> DEFINE a == Portions(q, r, k, K)
           b == Portions(q, r, l, K)
<1>1. PICK n \in Nat : n = q + r
  OBVIOUS
<1>2. PICK W \in Nat \ {0} : W = 10 * K
  BY SMT DEF Whole, Million
<1>3. a \in Nat /\ W * a <= n * k + W /\ a <= b
  <2>1. 10 * K * a <= (q + r) * k + 10 * K /\ a \in Nat /\ a <= b
    BY PortionsOf
  <2> HIDE DEF a
  <2> QED BY <1>1, <1>2, <2>1
<1>4. b \in Nat /\ n * l < W * b + W
  <2>1. (q + r) * l + 10 * K < 10 * K * b + 20 * K /\ b \in Nat
    BY PortionsOf
  <2>2. K \in Nat
    BY SMT DEF Whole, Million
  <2> HIDE DEF b
  <2> QED BY <1>1, <1>2, <2>1, <2>2
<1> HIDE DEF a, b
<1>5. l * (W * a) <= l * (n * k + W)
  BY <1>3
<1>6. k * (n * l) < k * (W * b + W)
  BY <1>4
<1>7. /\ l * (W * a) = W * (l * a) /\ l * (n * k + W) = k * (n * l) + W * l
      /\ k * (W * b + W) = W * (k * b + k)
  BY <1>3, <1>4
<1>8. W * (l * a) < W * (k * b + k + l)
  BY <1>3, <1>4, <1>5, <1>6, <1>7
<1>9. \A m, o \in Nat : W * m < W * o => m < o
  OBVIOUS
<1>10. l * a \in Nat /\ k * b + k + l \in Nat
  BY <1>3, <1>4
<1> QED BY <1>3, <1>4, <1>8, <1>9, <1>10 DEF a, b

\* The strategies are far enough apart: for the reach B leads, shared or not, for the
\* clicks B, for the conversions C.
Apart(m, n) == m = n \/ 80 * m < 79 * n

LEMMA ReachApart ==
  ASSUME NEW q \in Nat, NEW r \in Nat, NEW o \in Overlap
  PROVE  LET reach(k) == Shared(q, r, o, k)
         IN /\ reach(100) \in Nat /\ reach(135) \in Nat /\ reach(70) \in Nat
            /\ Apart(reach(100), reach(135)) /\ Apart(reach(70), reach(135))
<1> DEFINE P(k) == Portions(q, r, k, 100)
           shared(m) == (m * o + 50) \div 100
<1>1. ASSUME NEW K, K = 100, NEW l, l = 135, NEW k, k \in {100, 70}
      PROVE  /\ P(k) \in Nat /\ P(l) \in Nat /\ P(k) <= P(l)
             /\ l * P(k) < k * P(l) + k + l
  <2>1. K \in Whole /\ k \in Nat \ {0} /\ l \in Nat /\ k <= l
    BY SMT, <1>1 DEF Whole, Million
  <2>2. LET a == Portions(q, r, k, K)
            b == Portions(q, r, l, K)
        IN a \in Nat /\ b \in Nat /\ a <= b /\ l * a < k * b + k + l
    BY SMT, <2>1, Lead
  <2> QED BY SMT, <1>1, <2>2
<1> HIDE DEF P
<1>2. /\ P(100) \in Nat /\ P(70) \in Nat /\ P(135) \in Nat
      /\ P(100) <= P(135) /\ 135 * P(100) < 100 * P(135) + 235
      /\ P(70) <= P(135) /\ 135 * P(70) < 100 * P(135) + 235
  BY <1>1
<1>3. ASSUME NEW a \in Nat, NEW b \in Nat, a <= b, 135 * a < 100 * b + 235
      PROVE  shared(a) \in Nat /\ shared(b) \in Nat /\ Apart(shared(a), shared(b))
  <2>1. CASE o = 85
    BY <1>3, <2>1 DEF Apart
  <2>2. CASE o = 100
    BY <1>3, <2>2 DEF Apart
  <2> QED BY <2>1, <2>2 DEF Overlap
<1> HIDE DEF shared
<1>4. /\ shared(P(100)) \in Nat /\ shared(P(70)) \in Nat /\ shared(P(135)) \in Nat
      /\ Apart(shared(P(100)), shared(P(135))) /\ Apart(shared(P(70)), shared(P(135)))
  BY <1>2, <1>3
<1> QED BY <1>4 DEF P, shared, Shared

LEMMA ClicksApart ==
  ASSUME NEW q \in Nat, NEW r \in Nat
  PROVE  LET clicks(k) == Portions(q, r, k, 10000)
         IN /\ clicks(10000) \in Nat /\ clicks(11475) \in Nat /\ clicks(8400) \in Nat
            /\ Apart(clicks(10000), clicks(11475)) /\ Apart(clicks(8400), clicks(11475))
<1> DEFINE P(k) == Portions(q, r, k, 10000)
<1>1. ASSUME NEW K, K = 10000, NEW l, l = 11475, NEW k, k \in {10000, 8400}
      PROVE  /\ P(k) \in Nat /\ P(l) \in Nat /\ P(k) <= P(l)
             /\ l * P(k) < k * P(l) + k + l
  <2>1. K \in Whole /\ k \in Nat \ {0} /\ l \in Nat /\ k <= l
    BY SMT, <1>1 DEF Whole, Million
  <2>2. LET a == Portions(q, r, k, K)
            b == Portions(q, r, l, K)
        IN a \in Nat /\ b \in Nat /\ a <= b /\ l * a < k * b + k + l
    BY SMT, <2>1, Lead
  <2> QED BY SMT, <1>1, <2>2
<1> HIDE DEF P
<1>2. /\ P(10000) \in Nat /\ P(8400) \in Nat /\ P(11475) \in Nat
      /\ P(10000) <= P(11475) /\ 11475 * P(10000) < 10000 * P(11475) + 21475
      /\ P(8400) <= P(11475) /\ 11475 * P(8400) < 8400 * P(11475) + 19875
  BY SMT, <1>1
<1> QED BY SMT, <1>2 DEF P, Apart

LEMMA ConversionsApart ==
  ASSUME NEW q \in Nat, NEW r \in Nat
  PROVE  LET conversions(k) == Portions(q, r, k, Million)
         IN /\ conversions(1000000) \in Nat /\ conversions(918000) \in Nat
            /\ conversions(1050000) \in Nat
            /\ Apart(conversions(1000000), conversions(1050000))
            /\ Apart(conversions(918000), conversions(1050000))
<1> DEFINE P(k) == Portions(q, r, k, Million)
<1>1. ASSUME NEW K, K = Million, NEW l, l = 1050000, NEW k, k \in {1000000, 918000}
      PROVE  /\ P(k) \in Nat /\ P(l) \in Nat /\ P(k) <= P(l)
             /\ l * P(k) < k * P(l) + k + l
  <2>1. K \in Whole /\ k \in Nat \ {0} /\ l \in Nat /\ k <= l
    BY SMT, <1>1 DEF Whole, Million
  <2>2. LET a == Portions(q, r, k, K)
            b == Portions(q, r, l, K)
        IN a \in Nat /\ b \in Nat /\ a <= b /\ l * a < k * b + k + l
    BY SMT, <2>1, Lead
  <2> QED BY SMT, <1>1, <2>2
<1> HIDE DEF P
<1>2. /\ P(1000000) \in Nat /\ P(918000) \in Nat /\ P(1050000) \in Nat
      /\ P(1000000) <= P(1050000) /\ 1050000 * P(1000000) < 1000000 * P(1050000) + 2050000
      /\ P(918000) <= P(1050000) /\ 1050000 * P(918000) < 918000 * P(1050000) + 1968000
  BY SMT, <1>1
<1> QED BY SMT, <1>2 DEF P, Apart

\* A plan is made of the parts of what its two channels bring.
Brings == [reach : Nat, clicks : Nat, conversions : Nat]

LEMMA PortionOfNothing == \A k \in Nat, K \in Whole : Portion(0, k, K) = 0
<1> TAKE k \in Nat, K \in Whole
<1>1. 0 * k = 0 /\ 0 \div K = 0
  BY SMT DEF Whole, Million
<1> QED BY <1>1 DEF Portion, Engine!Round

PlanOf(q, r, o, v) ==
  [reach |-> Shared(q.reach, r.reach, o, v.breadth),
   clicks |-> Portions(q.clicks, r.clicks, v.breadth * v.ctr, 10000),
   conversions |-> Portions(q.conversions, r.conversions, v.breadth * v.ctr * v.conversion,
                         Million)]

LEMMA PlanPortions ==
  ASSUME NEW p \in Params, NEW reference,
         \A x \in DOMAIN p.channels : reference[x] \in Reference \cup {None}
  PROVE  \E q, r \in Brings, o \in Overlap : \A s \in DOMAIN Engine!Variant :
           Engine!Plan(p, Engine!Variant[s], reference) = PlanOf(q, r, o, Engine!Variant[s])
<1> DEFINE channels == DOMAIN p.channels
           Brought(x) == Engine!Basis(p, x, Engine!ChannelBudget(p, x), reference[x])
           Channel(x) == IF x \in channels
                         THEN [reach |-> Brought(x).reach, clicks |-> Brought(x).clicks,
                               conversions |-> Brought(x).conversions]
                         ELSE [reach |-> 0, clicks |-> 0, conversions |-> 0]
           q == Channel("FACEBOOK")
           r == Channel("INSTAGRAM")
           o == IF Engine!Cardinality(channels) > 1 THEN 85 ELSE 100
           Of(x, v) == Engine!Estimate(p, x, Engine!ChannelBudget(p, x), reference[x], v)
           Sum(f, v) == Engine!SumFunction([x \in channels |-> Of(x, v)[f]])
<1>1. channels \subseteq {"FACEBOOK", "INSTAGRAM"}
  BY NamesAssumption DEF Engine!Platform
<1>2. \A x : Channel(x) \in Brings
  <2> TAKE x
  <2>1. CASE x \in channels
    <3>1. /\ Brought(x).reach \in Nat /\ Brought(x).clicks \in Nat
          /\ Brought(x).conversions \in Nat
      BY <2>1, ChannelBudgetNat, BasisNat
    <3> HIDE DEF Brought, channels
    <3> QED BY <2>1, <3>1 DEF Brings
  <2>2. CASE x \notin channels
    BY <2>2 DEF Brings
  <2> QED BY <2>1, <2>2
<1>3. ASSUME NEW s \in DOMAIN Engine!Variant
      PROVE  Engine!Plan(p, Engine!Variant[s], reference)
               = PlanOf(q, r, o, Engine!Variant[s])
  <2> DEFINE v == Engine!Variant[s]
             Factor(f) == IF f = "reach" THEN v.breadth
                          ELSE IF f = "clicks" THEN v.breadth * v.ctr
                          ELSE v.breadth * v.ctr * v.conversion
             Parted(f) == IF f = "reach" THEN 100 ELSE IF f = "clicks" THEN 10000 ELSE Million
  <2>1. v.breadth \in Nat /\ v.ctr \in Nat /\ v.conversion \in Nat
    BY DEF Engine!Variant
  <2> HIDE DEF v
  <2>2. \A f : Factor(f) \in Nat /\ Parted(f) \in Whole
    BY SMT, <2>1, Product DEF Whole, Million
  <2>3. \A x \in channels :
          Of(x, v) = [reach |-> Portion(Brought(x).reach, v.breadth, 100),
                      clicks |-> Portion(Brought(x).clicks, v.breadth * v.ctr, 10000),
                      conversions |-> Portion(Brought(x).conversions,
                                           v.breadth * v.ctr * v.conversion, Million)]
    BY SMT DEF Engine!Estimate, Portion, Million
  <2> HIDE DEF Of, Brought
  <2>4. \A x \in channels, f \in {"reach", "clicks", "conversions"} :
          Of(x, v)[f] = Portion(Channel(x)[f], Factor(f), Parted(f))
    BY SMT, <2>3
  <2>5. \A x : \A f \in {"reach", "clicks", "conversions"} :
          x \notin channels => Portion(Channel(x)[f], Factor(f), Parted(f)) = 0
    <3>1. \A x : \A f \in {"reach", "clicks", "conversions"} :
            x \notin channels => Channel(x)[f] = 0
      OBVIOUS
    <3> HIDE DEF Channel, Factor, Parted
    <3> QED BY <2>2, <3>1, PortionOfNothing
  <2>6. ASSUME NEW f \in {"reach", "clicks", "conversions"}
        PROVE  Sum(f, v) = Portions(q[f], r[f], Factor(f), Parted(f))
    <3> DEFINE fun == [x \in channels |-> Of(x, v)[f]]
    <3>1. DOMAIN fun = channels /\ channels \subseteq Engine!Platform
      BY NamesAssumption
    <3>2. \A x : Channel(x)[f] \in Nat
      <4> HIDE DEF Channel
      <4> QED BY <1>2 DEF Brings
    <3> HIDE DEF Channel, Factor, Parted
    <3>3. \A x \in DOMAIN fun : fun[x] = Portion(Channel(x)[f], Factor(f), Parted(f))
      BY <2>4
    <3>4. \A x \in DOMAIN fun : fun[x] \in Int
      <4>1. \A x : Portion(Channel(x)[f], Factor(f), Parted(f)) \in Nat
        BY <2>2, <3>2, PortionOf
      <4> HIDE DEF fun
      <4> QED BY <3>3, <4>1
    <3> HIDE DEF fun
    <3>5. Engine!SumFunction(fun)
            = (IF "FACEBOOK" \in DOMAIN fun THEN fun["FACEBOOK"] ELSE 0)
              + (IF "INSTAGRAM" \in DOMAIN fun THEN fun["INSTAGRAM"] ELSE 0)
      BY <3>1, <3>4, SumOfChannels
    <3>6. \A x : (IF x \in DOMAIN fun THEN fun[x] ELSE 0)
                   = Portion(Channel(x)[f], Factor(f), Parted(f))
      <4> TAKE x
      <4>1. CASE x \in DOMAIN fun
        BY <3>3, <4>1
      <4>2. CASE x \notin DOMAIN fun
        BY <2>5, <3>1, <4>2
      <4> QED BY <4>1, <4>2
    <3>7. Engine!SumFunction(fun) = Portions(q[f], r[f], Factor(f), Parted(f))
      BY <3>5, <3>6 DEF Portions
    <3> QED BY <3>7 DEF fun
  <2>7. Engine!Plan(p, v, reference)
          = [reach |-> (Sum("reach", v) * o + 50) \div 100, clicks |-> Sum("clicks", v),
             conversions |-> Sum("conversions", v)]
    BY SMT DEF Engine!Plan, Of
  <2> HIDE DEF Sum, o, q, r
  <2>8. /\ Sum("reach", v) = Portions(q.reach, r.reach, v.breadth, 100)
        /\ Sum("clicks", v) = Portions(q.clicks, r.clicks, v.breadth * v.ctr, 10000)
        /\ Sum("conversions", v) = Portions(q.conversions, r.conversions,
                                         v.breadth * v.ctr * v.conversion, Million)
    BY SMT, <2>6
  <2> QED BY SMT, <2>7, <2>8 DEF v, PlanOf, Shared
<1>4. q \in Brings /\ r \in Brings /\ o \in Overlap
  BY <1>2 DEF Overlap
<1> HIDE DEF q, r, o
<1> QED BY <1>3, <1>4

\* The plans of a simulation are counts, and one of the strategies leads.
LEMMA PlansApart ==
  ASSUME NEW p \in Params, NEW reference,
         \A x \in DOMAIN p.channels : reference[x] \in Reference \cup {None}
  PROVE  /\ \A s \in DOMAIN Engine!Variant :
              Engine!Plan(p, Engine!Variant[s], reference) \in Brings
         /\ \A metric \in {"reach", "clicks", "conversions"} :
              \E w \in DOMAIN Engine!Variant : \A s \in DOMAIN Engine!Variant :
                Apart(Engine!Plan(p, Engine!Variant[s], reference)[metric],
                      Engine!Plan(p, Engine!Variant[w], reference)[metric])
<1> DEFINE V == {"A", "B", "C"}
           P(s) == Engine!Plan(p, Engine!Variant[s], reference)
<1>1. PICK q \in Brings, r \in Brings, o \in Overlap :
        \A s \in DOMAIN Engine!Variant : P(s) = PlanOf(q, r, o, Engine!Variant[s])
  BY PlanPortions
<1>2. /\ q.reach \in Nat /\ r.reach \in Nat /\ q.clicks \in Nat /\ r.clicks \in Nat
      /\ q.conversions \in Nat /\ r.conversions \in Nat
  BY DEF Brings
<1> DEFINE reach(k) == Shared(q.reach, r.reach, o, k)
           clicks(k) == Portions(q.clicks, r.clicks, k, 10000)
           conversions(k) == Portions(q.conversions, r.conversions, k, Million)
<1>3. DOMAIN Engine!Variant = V
  BY DEF Engine!Variant
<1> HIDE DEF P
<1>4. /\ P("A") = [reach |-> reach(100), clicks |-> clicks(10000),
                   conversions |-> conversions(1000000)]
      /\ P("B") = [reach |-> reach(135), clicks |-> clicks(11475),
                   conversions |-> conversions(918000)]
      /\ P("C") = [reach |-> reach(70), clicks |-> clicks(8400),
                   conversions |-> conversions(1050000)]
  BY SMT, <1>1 DEF Engine!Variant, PlanOf
<1>5. /\ reach(100) \in Nat /\ reach(135) \in Nat /\ reach(70) \in Nat
      /\ Apart(reach(100), reach(135)) /\ Apart(reach(70), reach(135))
  <2>1. PICK a \in Nat, b \in Nat : a = q.reach /\ b = r.reach
    BY <1>2
  <2>2. LET R(k) == Shared(a, b, o, k)
        IN /\ R(100) \in Nat /\ R(135) \in Nat /\ R(70) \in Nat
           /\ Apart(R(100), R(135)) /\ Apart(R(70), R(135))
    BY SMT, ReachApart
  <2> QED BY SMT, <2>1, <2>2
<1>6. /\ clicks(10000) \in Nat /\ clicks(11475) \in Nat /\ clicks(8400) \in Nat
      /\ Apart(clicks(10000), clicks(11475)) /\ Apart(clicks(8400), clicks(11475))
  <2>1. PICK a \in Nat, b \in Nat : a = q.clicks /\ b = r.clicks
    BY <1>2
  <2>2. LET R(k) == Portions(a, b, k, 10000)
        IN /\ R(10000) \in Nat /\ R(11475) \in Nat /\ R(8400) \in Nat
           /\ Apart(R(10000), R(11475)) /\ Apart(R(8400), R(11475))
    BY SMT, ClicksApart
  <2> QED BY SMT, <2>1, <2>2
<1>7. /\ conversions(1000000) \in Nat /\ conversions(918000) \in Nat
      /\ conversions(1050000) \in Nat
      /\ Apart(conversions(1000000), conversions(1050000))
      /\ Apart(conversions(918000), conversions(1050000))
  <2>1. PICK a \in Nat, b \in Nat : a = q.conversions /\ b = r.conversions
    BY <1>2
  <2>2. LET R(k) == Portions(a, b, k, Million)
        IN /\ R(1000000) \in Nat /\ R(918000) \in Nat /\ R(1050000) \in Nat
           /\ Apart(R(1000000), R(1050000)) /\ Apart(R(918000), R(1050000))
    BY SMT, ConversionsApart
  <2> QED BY SMT, <2>1, <2>2
<1> HIDE DEF reach, clicks, conversions
<1>8. \A s \in V : P(s) \in Brings
  BY SMT, <1>4, <1>5, <1>6, <1>7 DEF Brings
<1>9. \A n : Apart(n, n)
  BY DEF Apart
<1>10. /\ \A s \in V : Apart(P(s)["reach"], P("B")["reach"])
       /\ \A s \in V : Apart(P(s)["clicks"], P("B")["clicks"])
       /\ \A s \in V : Apart(P(s)["conversions"], P("C")["conversions"])
  BY SMT, <1>4, <1>5, <1>6, <1>7, <1>9
<1>11. \A metric \in {"reach", "clicks", "conversions"} :
         \E w \in V : \A s \in V : Apart(P(s)[metric], P(w)[metric])
  BY <1>10
<1> QED BY <1>3, <1>8, <1>11 DEF P

LEMMA ResultsApart ==
  ASSUME Engine!TypeOK, NEW p \in Params
  PROVE  /\ \A s \in DOMAIN Engine!Variant : Engine!Results(p)[s] \in Brings
         /\ \A metric \in {"reach", "clicks", "conversions"} :
              \E w \in DOMAIN Engine!Variant : \A s \in DOMAIN Engine!Variant :
                Apart(Engine!Results(p)[s][metric], Engine!Results(p)[w][metric])
<1>1. \A x \in DOMAIN p.channels : Engine!Measured(p)[x] \in Reference \cup {None}
  BY CalibrationTyped DEF Engine!Measured, Engine!Reference
<1>2. \A s \in DOMAIN Engine!Variant :
        Engine!Results(p)[s] = Engine!Plan(p, Engine!Variant[s], Engine!Measured(p))
  BY DEF Engine!Results
<1> QED BY <1>1, <1>2, PlansApart

\* The recommended strategy is the best, and one of those there are.
LEMMA RecommendedIsBest ==
  ASSUME Engine!TypeOK, NEW p \in Params
  PROVE  Engine!BestRecommended(p) /\ Engine!WeeksAddUp(p)
<1> DEFINE results == Engine!Results(p)
           metric == Engine!PrimaryMetric(p.objective)
           V == DOMAIN Engine!Variant
<1>1. \A s \in V : results[s] \in Brings
  BY ResultsApart
<1>2. metric \in {"reach", "clicks", "conversions"}
  BY DEF Engine!PrimaryMetric
<1>3. PICK w \in V : \A s \in V : Apart(results[s][metric], results[w][metric])
  <2> HIDE DEF results, metric
  <2> QED BY <1>2, ResultsApart DEF results
<1>4. \A s \in V : results[s][metric] \in Nat
  <2> HIDE DEF results, metric
  <2> QED BY <1>1, <1>2 DEF Brings
<1>5. \A s \in V : results[s][metric] <= results[Engine!Best(results, metric)][metric]
  <2> HIDE DEF results, metric
  <2>1. \A s \in V : \/ results[s][metric] = results[w][metric]
                     \/ 80 * results[s][metric] < 79 * results[w][metric]
    BY <1>3 DEF Apart
  <2> QED BY <1>4, <2>1, BestScores
<1>6. Engine!BestRecommended(p)
  BY <1>5 DEF Engine!BestRecommended, Engine!Recommended
<1>7. Engine!Recommended(p) \in V
  BY BestOfThree DEF Engine!Recommended
<1>8. Engine!WeeksAddUp(p)
  <2> SUFFICES ASSUME NEW f \in {"reach", "clicks", "conversions"}
               PROVE  LET total == results[Engine!Recommended(p)][f]
                      IN Engine!SumFunction(Engine!WeeklySeries(total)) - total \in -2..2
    BY DEF Engine!WeeksAddUp
  <2> HIDE DEF results, V
  <2>1. results[Engine!Recommended(p)][f] \in Nat
    BY <1>1, <1>7 DEF Brings
  <2> QED BY <2>1, WeeksAddUp
<1> QED BY <1>6, <1>8

\* Whatever is measured meanwhile, and on however many campaigns: the strategy that is
\* recommended is the best for the objective, its weeks tell its total, and a reference
\* changes only what no account has measured.
THEOREM ForecastKept == ServicesSpec => []ForecastCoherent
<1>1. Engine!TypeOK => ForecastCoherent
  <2> SUFFICES ASSUME Engine!TypeOK PROVE Engine!ForecastCoherent
    BY DEF ForecastCoherent
  <2>1. eSimulated # None => eSimulated \in Params
    BY DEF Engine!TypeOK
  <2> QED BY <2>1, OwnFiguresFirst, RecommendedIsBest DEF Engine!ForecastCoherent
<1> QED BY <1>1, EnginePart, EngineInit, EngineStep, PTL

-----------------------------------------------------------------------------
(* The simulations.                                                        *)

LEMMA SimLocal ==
  ASSUME Sim!TypeOK, NEW r \in Request
  PROVE  /\ sReq[r] \in Sim!Local
         /\ ~Sim!At(r, "idle") => sReq[r].id \in Sim!Asked
         /\ Sim!At(r, "again") => sReq[r].of \in Sim!Asked
         /\ Sim!At(r, "answers") => sReq[r] \in [pc : {"answers", "engine"}, id : Sim!Asked]
         /\ Sim!At(r, "simulate") => sReq[r] \in [pc : {"simulate", "explain"}, id : Sim!Asked]
         /\ Sim!At(r, "create") => sReq[r].explained \in BOOLEAN
<1>1. sReq[r] \in Sim!Local
  BY DEF Sim!TypeOK
<1> QED BY <1>1 DEF Sim!Local, Sim!Idle, Sim!At

LEMMA SimStepped ==
  ASSUME Sim!TypeOK, NEW r \in Request, NEW q \in Sim!Local, Sim!Becomes(r, q)
  PROVE  /\ sReq' \in [Request -> Sim!Local]
         /\ sReq'[r] = q /\ \A p \in Request \ {r} : sReq'[p] = sReq[p]
BY DEF Sim!TypeOK, Sim!Becomes

\* A request whose answers are written has its questionnaire; one that analyses a
\* simulation again has it.
AnswersWritten == \A r \in Request : Sim!At(r, "engine") => sReq[r].id \in questionnaire
AnalysesOne == \A r \in Request : Sim!At(r, "again") => sReq[r].of \in digital
SimInv == Sim!TypeOK /\ AnswersWritten /\ AnalysesOne

LEMMA SimInit == Sim!Init => SimInv
BY BoundsAssumption
   DEF Sim!Init, SimInv, Sim!TypeOK, AnswersWritten, AnalysesOne, Sim!At, Sim!Idle,
       Sim!Local, Sim!Nothing

\* A step of one request, that only adds rows.
LEMMA SimKept ==
  ASSUME SimInv, NEW r \in Request, NEW q \in Sim!Local, Sim!Becomes(r, q),
         questionnaire \subseteq questionnaire', digital \subseteq digital',
         q.pc = "engine" => q.id \in questionnaire',
         q.pc = "again" => q.of \in digital'
  PROVE  AnswersWritten' /\ AnalysesOne' /\ sReq' \in [Request -> Sim!Local]
<1>1. /\ sReq' \in [Request -> Sim!Local]
      /\ sReq'[r] = q /\ \A p \in Request \ {r} : sReq'[p] = sReq[p]
  BY SimStepped DEF SimInv
<1> QED BY <1>1 DEF SimInv, AnswersWritten, AnalysesOne, Sim!At

\* A request that begins.
LEMMA SimAsked ==
  ASSUME SimInv, NEW r \in Request, NEW q \in Sim!Local, Sim!Ask(r, q),
         q.pc # "engine", q.pc = "again" => q.of \in digital
  PROVE  SimInv'
<1>1. sAsked' \in 0..MaxAsked
  BY BoundsAssumption DEF Sim!Ask, SimInv, Sim!TypeOK
<1>2. AnswersWritten' /\ AnalysesOne' /\ sReq' \in [Request -> Sim!Local]
  BY SimKept DEF Sim!Ask, Sim!campaign, Sim!rows
<1> QED BY <1>1, <1>2 DEF Sim!Ask, Sim!campaign, Sim!rows, SimInv, Sim!TypeOK

LEMMA SimStep ==
  ASSUME SimInv, [Sim!Next]_(Sim!vars) PROVE SimInv'
<1>0. /\ Sim!TypeOK /\ Sim!Idle \in Sim!Local /\ Sim!Idle.pc = "idle"
      /\ sAsked < MaxAsked => sAsked + 1 \in Sim!Asked
  BY BoundsAssumption DEF SimInv, Sim!TypeOK, Sim!Local, Sim!Idle, Sim!Asked
<1>1. ASSUME UNCHANGED Sim!vars PROVE SimInv'
  BY <1>1 DEF Sim!vars, Sim!campaign, Sim!rows, SimInv, Sim!TypeOK, AnswersWritten,
     AnalysesOne, Sim!At
<1>2. ASSUME Sim!Live PROVE SimInv'
  <2>1. sFree' \in BOOLEAN /\ over' \in BOOLEAN /\ ready' \in BOOLEAN
    BY <1>2, <1>0, Zenon DEF Sim!Live, Sim!TypeOK
  <2> QED BY <1>2, <2>1 DEF Sim!Live, Sim!rows, SimInv, Sim!TypeOK, AnswersWritten,
          AnalysesOne, Sim!At
<1>3. ASSUME NEW r \in Request, Sim!CreateSimulation(r) PROVE SimInv'
  <2> DEFINE q == [pc |-> "answers", id |-> sAsked + 1]
  <2>1. Sim!Ask(r, q) /\ sAsked < MaxAsked
    BY <1>3 DEF Sim!CreateSimulation, Sim!Ask
  <2>2. q \in Sim!Local /\ q.pc = "answers"
    BY <1>0, <2>1 DEF Sim!Local
  <2> HIDE DEF q
  <2> QED BY <2>1, <2>2, SimAsked
<1>4. ASSUME NEW r \in Request, Sim!SimulateDigital(r) PROVE SimInv'
  <2> DEFINE q == [pc |-> "simulate", id |-> sAsked + 1]
  <2>1. Sim!Ask(r, q) /\ sAsked < MaxAsked
    BY <1>4 DEF Sim!SimulateDigital, Sim!Ask
  <2>2. q \in Sim!Local /\ q.pc = "simulate"
    BY <1>0, <2>1 DEF Sim!Local
  <2> HIDE DEF q
  <2> QED BY <2>1, <2>2, SimAsked
<1>5. ASSUME NEW r \in Request, NEW i \in Sim!Asked, Sim!AnalyzeExisting(r, i)
      PROVE  SimInv'
  <2> DEFINE q == [pc |-> "again", id |-> sAsked + 1, of |-> i]
  <2>1. Sim!Ask(r, q) /\ sAsked < MaxAsked /\ i \in digital
    BY <1>5 DEF Sim!AnalyzeExisting, Sim!Ask
  <2>2. q \in Sim!Local /\ q.pc = "again" /\ q.of = i
    BY <1>0, <2>1 DEF Sim!Local
  <2> HIDE DEF q
  <2> QED BY <2>1, <2>2, SimAsked
<1>6. ASSUME NEW r \in Request, Sim!WriteAnswers(r) PROVE SimInv'
  <2> DEFINE q == [sReq[r] EXCEPT !.pc = "engine"]
  <2>1. sReq[r] \in [pc : {"answers", "engine"}, id : Sim!Asked]
    BY <1>0, <1>6, SimLocal DEF Sim!WriteAnswers
  <2>2. q \in [pc : {"answers", "engine"}, id : Sim!Asked]
        /\ q.pc = "engine" /\ q.id = sReq[r].id /\ sReq[r].id \in Sim!Asked
    BY <2>1
  <2>3. q \in Sim!Local
    BY <2>2 DEF Sim!Local
  <2>4. Sim!Becomes(r, q) /\ questionnaire' = questionnaire \cup {sReq[r].id}
    BY <1>6 DEF Sim!WriteAnswers, Sim!Goes
  <2> HIDE DEF q
  <2>5. AnswersWritten' /\ AnalysesOne' /\ sReq' \in [Request -> Sim!Local]
    BY <1>6, <2>2, <2>3, <2>4, SimKept DEF Sim!WriteAnswers
  <2> QED BY <1>0, <1>6, <2>2, <2>4, <2>5
          DEF Sim!WriteAnswers, Sim!campaign, SimInv, Sim!TypeOK
<1>7. ASSUME NEW r \in Request, Sim!Persist(r) PROVE SimInv'
  <2>1. AnswersWritten' /\ AnalysesOne' /\ sReq' \in [Request -> Sim!Local]
    BY <1>0, <1>7, SimKept DEF Sim!Persist
  <2>2. sReq[r].id \in questionnaire
    BY <1>7 DEF Sim!Persist, SimInv, AnswersWritten
  <2> QED BY <1>0, <1>7, <2>1, <2>2
          DEF Sim!Persist, Sim!campaign, SimInv, Sim!TypeOK
<1>8. ASSUME NEW r \in Request, Sim!AskPlan(r) PROVE SimInv'
  <2> DEFINE q == IF sFree THEN [pc |-> "create", id |-> sReq[r].id, explained |-> FALSE]
                  ELSE [sReq[r] EXCEPT !.pc = "explain"]
  <2>1. sReq[r] \in [pc : {"simulate", "explain"}, id : Sim!Asked]
    BY <1>0, <1>8, SimLocal DEF Sim!AskPlan
  <2>2. CASE sFree
    <3>1. q \in [pc : {"create"}, id : Sim!Asked, explained : BOOLEAN] /\ q.pc = "create"
      BY <2>1, <2>2
    <3>2. q \in Sim!Local /\ Sim!Becomes(r, q)
      BY <1>8, <3>1 DEF Sim!AskPlan, Sim!Local
    <3> HIDE DEF q
    <3>3. AnswersWritten' /\ AnalysesOne' /\ sReq' \in [Request -> Sim!Local]
      BY <1>8, <3>1, <3>2, SimKept DEF Sim!AskPlan, Sim!rows
    <3> QED BY <1>0, <1>8, <3>3 DEF Sim!AskPlan, Sim!rows, Sim!campaign, SimInv, Sim!TypeOK
  <2>3. CASE ~sFree
    <3>1. q \in [pc : {"simulate", "explain"}, id : Sim!Asked] /\ q.pc = "explain"
      BY <2>1, <2>3
    <3>2. q \in Sim!Local /\ Sim!Becomes(r, q)
      BY <1>8, <3>1 DEF Sim!AskPlan, Sim!Local
    <3> HIDE DEF q
    <3>3. AnswersWritten' /\ AnalysesOne' /\ sReq' \in [Request -> Sim!Local]
      BY <1>8, <3>1, <3>2, SimKept DEF Sim!AskPlan, Sim!rows
    <3> QED BY <1>0, <1>8, <3>3 DEF Sim!AskPlan, Sim!rows, Sim!campaign, SimInv, Sim!TypeOK
  <2> QED BY <2>2, <2>3
<1>9. ASSUME NEW r \in Request, Sim!Explain(r) PROVE SimInv'
  <2>1. sReq[r].id \in Sim!Asked
    BY <1>0, <1>9, SimLocal DEF Sim!Explain, Sim!At
  <2>2. PICK b \in BOOLEAN :
          Sim!Becomes(r, [pc |-> "create", id |-> sReq[r].id, explained |-> b])
    BY <1>9 DEF Sim!Explain
  <2> DEFINE q == [pc |-> "create", id |-> sReq[r].id, explained |-> b]
  <2>3. q \in Sim!Local /\ q.pc = "create"
    BY <2>1 DEF Sim!Local
  <2>4. Sim!Becomes(r, q)
    BY <2>2
  <2> HIDE DEF q
  <2>5. AnswersWritten' /\ AnalysesOne' /\ sReq' \in [Request -> Sim!Local]
    BY <1>9, <2>3, <2>4, SimKept DEF Sim!Explain, Sim!rows
  <2> QED BY <1>0, <1>9, <2>5 DEF Sim!Explain, Sim!rows, Sim!campaign, SimInv, Sim!TypeOK
<1>10. ASSUME NEW r \in Request, Sim!CreateDigital(r) PROVE SimInv'
  <2>1. sReq[r].id \in Sim!Asked
    BY <1>0, <1>10, SimLocal DEF Sim!CreateDigital, Sim!At
  <2>2. AnswersWritten' /\ AnalysesOne' /\ sReq' \in [Request -> Sim!Local]
    BY <1>0, <1>10, SimKept DEF Sim!CreateDigital
  <2> QED BY <1>0, <1>10, <2>1, <2>2
          DEF Sim!CreateDigital, Sim!campaign, SimInv, Sim!TypeOK, Sim!Nothing
<1>11. ASSUME NEW r \in Request, Sim!WriteAnalysis(r) PROVE SimInv'
  <2>1. sReq[r].id \in Sim!Asked /\ sReq[r].of \in digital
    BY <1>0, <1>11, SimLocal DEF Sim!WriteAnalysis, Sim!At, SimInv, AnalysesOne
  <2>2. AnswersWritten' /\ AnalysesOne' /\ sReq' \in [Request -> Sim!Local]
    BY <1>0, <1>11, SimKept DEF Sim!WriteAnalysis
  <2> QED BY <1>0, <1>11, <2>1, <2>2
          DEF Sim!WriteAnalysis, Sim!campaign, SimInv, Sim!TypeOK, Sim!Nothing
<1>12. ASSUME NEW r \in Request, Sim!Fail(r) PROVE SimInv'
  <2>1. sReq[r].id \in Sim!Asked
    BY <1>0, <1>12, SimLocal DEF Sim!Fail
  <2>2. AnswersWritten' /\ AnalysesOne' /\ sReq' \in [Request -> Sim!Local]
    BY <1>0, <1>12, SimKept DEF Sim!Fail, Sim!rows
  <2> QED BY <1>0, <1>12, <2>1, <2>2
          DEF Sim!Fail, Sim!campaign, Sim!rows, SimInv, Sim!TypeOK
<1> QED BY <1>1, <1>2, <1>3, <1>4, <1>5, <1>6, <1>7, <1>8, <1>9, <1>10, <1>11, <1>12
        DEF Sim!Next

-----------------------------------------------------------------------------
(* The assistant: the types, and the advice.                               *)

\* What a request holds where it is.
LEMMA CopilotLocal ==
  ASSUME Copilot!TypeOK, NEW r \in Request
  PROVE  /\ aReq[r] \in Copilot!Local
         /\ ~Copilot!At(r, "idle") => aReq[r].ex \in Copilot!Asked
         /\ Copilot!At(r, "quota") => aReq[r].again \in BOOLEAN
         /\ \A p \in {"quota", "question", "replace"} :
              Copilot!At(r, p) => aReq[r].conv \in Nat
         /\ Copilot!At(r, "answer") => aReq[r].sentAt \in Nat
         /\ Copilot!At(r, "store") => aReq[r].seen \in SUBSET Copilot!Asked
<1>1. aReq[r] \in Copilot!Local
  BY DEF Copilot!TypeOK
<1> QED BY <1>1 DEF Copilot!Local, Copilot!Idle, Copilot!At

LEMMA CopilotStepped ==
  ASSUME Copilot!TypeOK, NEW r \in Request, NEW q \in Copilot!Local, Copilot!Becomes(r, q)
  PROVE  /\ aReq' \in [Request -> Copilot!Local]
         /\ aReq'[r] = q /\ \A p \in Request \ {r} : aReq'[p] = aReq[p]
BY DEF Copilot!TypeOK, Copilot!Becomes

\* Between two generations that do not meet there is the advice of the last one, and
\* what is about to be replaced is that advice.
OneStores ==
  \A r, p \in Request : Copilot!At(r, "store") /\ Copilot!At(p, "store") => r = p
StoreSeesAll == \A r \in Request : Copilot!At(r, "store") => aReq[r].seen = recs
AdviceInv ==
  ~overlapped => /\ OneStores /\ StoreSeesAll
                 /\ recs = IF latest = 0 THEN {} ELSE {latest}

LEMMA AdviceKept ==
  ASSUME AdviceInv, UNCHANGED <<recs, latest, overlapped>>,
         \A p \in Request : Copilot!At(p, "store")' =>
           Copilot!At(p, "store") /\ aReq'[p] = aReq[p]
  PROVE  AdviceInv'
BY DEF AdviceInv, OneStores, StoreSeesAll

-----------------------------------------------------------------------------
(* The assistant: the conversation.                                        *)

\* An exchange whose question is not there yet, and the regeneration of an answer.
New(r) ==
  \/ Copilot!At(r, "quota") /\ ~aReq[r].again
  \/ Copilot!At(r, "question") \/ Copilot!At(r, "answer")
Again(r) == (Copilot!At(r, "quota") /\ aReq[r].again) \/ Copilot!At(r, "replace")

OneTalks == \A r, p \in Request : Copilot!Talking(r) /\ Copilot!Talking(p) => r = p
Timed ==
  \A m \in messages :
    m.sentAt <= mClock /\ \A n \in messages : n.sentAt = m.sentAt => n = m
Numbered ==
  \A m \in messages :
    m.ex <= aAsked /\ \A n \in messages : n.sender = m.sender /\ n.ex = m.ex => n = m
InConversation ==
  \A r \in Request : \A p \in {"quota", "question", "replace"} :
    Copilot!At(r, p) => aReq[r].conv \in 1..convs
NewIsNew ==
  \A r \in Request : New(r) => aReq[r].ex <= aAsked /\ \A m \in messages : m.ex # aReq[r].ex
AnswerNext ==
  \A r \in Request : Copilot!At(r, "answer") =>
    aReq[r].sentAt = mClock /\ \A m \in messages : m.sentAt < mClock

\* Nothing was said after the question numbered e but its answer.
LastIs(e) ==
  \E n \in messages :
    /\ n.sender = "USER" /\ n.ex = e
    /\ \A m \in messages : m.sentAt <= n.sentAt \/ (m.sender = "AI" /\ m.ex = e)
AgainLast ==
  \A r \in Request : Again(r) /\ aReq[r].conv = conv => LastIs(aReq[r].ex)
Paired ==
  \A m \in messages : \E n \in messages : Copilot!Follows(m, n) \/ Copilot!Follows(n, m)

TalkInv ==
  ~aCrossed => /\ OneTalks /\ Timed /\ Numbered /\ InConversation /\ NewIsNew
               /\ AnswerNext /\ AgainLast /\ Paired

CopilotInv == Copilot!TypeOK /\ AdviceInv /\ TalkInv

LEMMA CopilotInit == Copilot!Init => CopilotInv
<1> SUFFICES ASSUME Copilot!Init PROVE CopilotInv
  OBVIOUS
<1>1. Copilot!TypeOK
  <2>1. aFree \in BOOLEAN /\ aCrossed \in BOOLEAN /\ overlapped \in BOOLEAN
    BY DEF Copilot!Init
  <2>2. aReq \in [Request -> Copilot!Local]
    BY DEF Copilot!Init, Copilot!Local
  <2> QED BY <2>1, <2>2, BoundsAssumption DEF Copilot!Init, Copilot!TypeOK
<1>2. \A r \in Request : aReq[r].pc = "idle"
  BY DEF Copilot!Init, Copilot!Idle
<1>3. AdviceInv
  BY <1>2 DEF Copilot!Init, AdviceInv, OneStores, StoreSeesAll, Copilot!At
<1>4. TalkInv
  BY <1>2 DEF Copilot!Init, TalkInv, OneTalks, Timed, Numbered, InConversation, NewIsNew,
     AnswerNext, AgainLast, Paired, Copilot!At, Copilot!Talking, New, Again
<1> QED BY <1>1, <1>3, <1>4 DEF CopilotInv

LEMMA CopilotMessage ==
  ASSUME Copilot!TypeOK, NEW m \in messages
  PROVE  m \in Copilot!Message /\ m.sentAt \in Nat /\ m.ex \in Nat /\ m.sender \in {"USER", "AI"}
         /\ m.ex \in Copilot!Asked
BY DEF Copilot!TypeOK, Copilot!Message, Copilot!Asked

\* A step that leaves what was said, and begins or carries on no exchange.
LEMMA TalkKept ==
  ASSUME Copilot!TypeOK, TalkInv, UNCHANGED <<conv, messages, mClock, aCrossed, convs>>,
         aAsked' \in Nat, aAsked <= aAsked',
         \A p \in Request : Copilot!Talking(p)' =>
           Copilot!Talking(p) /\ aReq'[p] = aReq[p]
  PROVE  TalkInv'
<1> SUFFICES ASSUME ~aCrossed
             PROVE  /\ OneTalks' /\ Timed' /\ Numbered' /\ InConversation' /\ NewIsNew'
                    /\ AnswerNext' /\ AgainLast' /\ Paired'
  BY DEF TalkInv
<1> USE DEF TalkInv
<1>0. aAsked \in Nat /\ MaxAsked \in Nat
  BY BoundsAssumption DEF Copilot!TypeOK
<1>1. OneTalks' /\ Timed'
  BY DEF OneTalks, Timed
<1>2. Numbered'
  BY <1>0, CopilotMessage DEF Numbered
<1>3. InConversation' /\ AnswerNext'
  BY DEF InConversation, AnswerNext, Copilot!Talking, Copilot!At
<1>4. NewIsNew'
  <2> SUFFICES ASSUME NEW r \in Request, New(r)'
               PROVE  aReq'[r].ex <= aAsked' /\ \A m \in messages : m.ex # aReq'[r].ex
    BY DEF NewIsNew
  <2>1. New(r) /\ aReq'[r] = aReq[r]
    BY DEF New, Copilot!Talking, Copilot!At
  <2>2. aReq[r].ex \in Nat
    BY <2>1, CopilotLocal DEF New, Copilot!At, Copilot!Asked
  <2> QED BY <1>0, <2>1, <2>2 DEF NewIsNew
<1>5. AgainLast'
  <2>1. \A e : LastIs(e) => LastIs(e)'
    BY DEF LastIs
  <2>2. \A r \in Request : Again(r)' => Again(r) /\ aReq'[r] = aReq[r]
    BY DEF Again, Copilot!Talking, Copilot!At
  <2>3. \A r \in Request : Again(r)' /\ (aReq[r].conv)' = conv' => LastIs(aReq[r].ex)
    BY <2>2 DEF AgainLast
  <2> SUFFICES ASSUME NEW r \in Request, NEW e, e = (aReq[r].ex)',
                      Again(r)', (aReq[r].conv)' = conv'
               PROVE  LastIs(e)'
    BY DEF AgainLast
  <2> QED BY <2>1, <2>2, <2>3
<1>6. Paired'
  BY DEF Paired, Copilot!Follows
<1> QED BY <1>1, <1>2, <1>3, <1>4, <1>5, <1>6

-----------------------------------------------------------------------------
(* The assistant: every step keeps the types.                              *)

\* A request that begins is numbered within the bound of the model.
LEMMA CopilotAsk ==
  ASSUME Copilot!TypeOK, NEW r \in Request, NEW q, Copilot!Ask(r, q)
  PROVE  /\ Copilot!At(r, "idle") /\ Copilot!Becomes(r, q)
         /\ aAsked' = aAsked + 1 /\ aAsked' \in 0..MaxAsked /\ aAsked' \in Copilot!Asked
         /\ aAsked \in Nat
BY BoundsAssumption DEF Copilot!TypeOK, Copilot!Ask, Copilot!Asked

LEMMA CopilotSent ==
  ASSUME NEW s \in {"USER", "AI"}, NEW e \in Copilot!Asked, NEW t \in Nat
  PROVE  Copilot!Sent(s, e, t) \in Copilot!Message
BY DEF Copilot!Sent, Copilot!Message

LEMMA CopilotTypes == Copilot!TypeOK /\ [Copilot!Next]_(Copilot!vars) => Copilot!TypeOK'
<1> SUFFICES ASSUME Copilot!TypeOK, [Copilot!Next]_(Copilot!vars) PROVE Copilot!TypeOK'
  OBVIOUS
<1> USE DEF Copilot!talk, Copilot!advice
<1>0. Copilot!Idle \in Copilot!Local
  BY DEF Copilot!Local
<1>a. ASSUME NEW r \in Request, Copilot!Becomes(r, Copilot!Idle)
      PROVE  aReq' \in [Request -> Copilot!Local]
  BY <1>0, <1>a, CopilotStepped
<1>1. ASSUME NEW r \in Request, Copilot!CreateConversation(r) PROVE Copilot!TypeOK'
  <2>1. Copilot!Ask(r, Copilot!Idle)
    BY <1>1 DEF Copilot!CreateConversation
  <2>2. aReq' \in [Request -> Copilot!Local] /\ aAsked' = aAsked + 1 /\ aAsked' \in 0..MaxAsked
    BY <1>a, <2>1, CopilotAsk
  <2>3. conv' \in 0..convs' /\ convs' \in 0..aAsked'
    BY <1>1, <2>2 DEF Copilot!TypeOK, Copilot!CreateConversation
  <2> QED BY <1>1, <2>2, <2>3 DEF Copilot!TypeOK, Copilot!CreateConversation
<1>2. ASSUME NEW r \in Request, Copilot!DeleteConversation(r) PROVE Copilot!TypeOK'
  <2>1. Copilot!Ask(r, Copilot!Idle)
    BY <1>2 DEF Copilot!DeleteConversation
  <2>2. aReq' \in [Request -> Copilot!Local] /\ aAsked' = aAsked + 1 /\ aAsked' \in 0..MaxAsked
    BY <1>a, <2>1, CopilotAsk
  <2>3. conv' \in 0..convs' /\ convs' \in 0..aAsked'
    BY <1>2, <2>2 DEF Copilot!TypeOK, Copilot!DeleteConversation
  <2> QED BY <1>2, <2>2, <2>3 DEF Copilot!TypeOK, Copilot!DeleteConversation
<1>3. ASSUME NEW r \in Request, NEW b \in BOOLEAN, NEW e \in Copilot!Asked,
             Copilot!Begin(r, b, e)
      PROVE  Copilot!TypeOK'
  <2> DEFINE q == [pc |-> "quota", conv |-> conv, ex |-> e, again |-> b]
  <2>1. q \in Copilot!Local
    BY DEF Copilot!TypeOK, Copilot!Local
  <2>2. Copilot!Ask(r, q)
    BY <1>3 DEF Copilot!Begin
  <2>3. aReq' \in [Request -> Copilot!Local] /\ aAsked' = aAsked + 1 /\ aAsked' \in 0..MaxAsked
    <3> HIDE DEF q
    <3> QED BY <2>1, <2>2, CopilotAsk, CopilotStepped
  <2>4. aCrossed' \in BOOLEAN
    BY <1>3 DEF Copilot!TypeOK, Copilot!Begin
  <2>5. convs' \in 0..aAsked'
    BY <1>3, <2>3 DEF Copilot!TypeOK, Copilot!Begin
  <2> QED BY <1>3, <2>3, <2>4, <2>5 DEF Copilot!TypeOK, Copilot!Begin
<1>4. ASSUME NEW r \in Request, Copilot!EnvoyerMessage(r) PROVE Copilot!TypeOK'
  <2>1. aAsked + 1 \in Copilot!Asked
    BY <1>4, BoundsAssumption
       DEF Copilot!EnvoyerMessage, Copilot!Begin, Copilot!Ask, Copilot!TypeOK, Copilot!Asked
  <2> QED BY <1>3, <1>4, <2>1 DEF Copilot!EnvoyerMessage
<1>5. ASSUME NEW r \in Request, Copilot!RegenererDerniereReponse(r) PROVE Copilot!TypeOK'
  <2>1. PICK a \in messages : Copilot!Begin(r, TRUE, a.ex)
    BY <1>5 DEF Copilot!RegenererDerniereReponse, Copilot!Last
  <2> QED BY <1>3, <2>1, CopilotMessage
<1>6. ASSUME NEW r \in Request, Copilot!SetMessageFeedback(r) PROVE Copilot!TypeOK'
  <2>1. Copilot!Ask(r, Copilot!Idle)
    BY <1>6 DEF Copilot!SetMessageFeedback
  <2>2. aReq' \in [Request -> Copilot!Local] /\ aAsked' = aAsked + 1 /\ aAsked' \in 0..MaxAsked
    BY <1>a, <2>1, CopilotAsk
  <2>3. PICK m \in messages, b \in BOOLEAN :
          messages' = (messages \ {m}) \cup {[m EXCEPT !.feedback = b]}
    BY <1>6 DEF Copilot!SetMessageFeedback
  <2>4. [m EXCEPT !.feedback = b] \in Copilot!Message
    BY CopilotMessage DEF Copilot!Message
  <2>5. messages' \subseteq Copilot!Message
    BY <2>3, <2>4 DEF Copilot!TypeOK
  <2>6. convs' \in 0..aAsked'
    BY <1>6, <2>2 DEF Copilot!TypeOK, Copilot!SetMessageFeedback
  <2> QED BY <1>6, <2>2, <2>5, <2>6 DEF Copilot!TypeOK, Copilot!SetMessageFeedback
<1>7. ASSUME NEW r \in Request, Copilot!CheckQuota(r) PROVE Copilot!TypeOK'
  <2> DEFINE q == IF aFree /\ Copilot!SentToday >= CopilotLimit THEN Copilot!Idle
                  ELSE [pc |-> IF aReq[r].again THEN "replace" ELSE "question",
                        conv |-> aReq[r].conv, ex |-> aReq[r].ex]
  <2>1. Copilot!At(r, "quota") /\ aReq[r].ex \in Copilot!Asked /\ aReq[r].conv \in Nat
    BY <1>7, CopilotLocal DEF Copilot!CheckQuota, Copilot!At
  <2>2. q \in Copilot!Local
    <3>1. [pc |-> IF aReq[r].again THEN "replace" ELSE "question",
           conv |-> aReq[r].conv, ex |-> aReq[r].ex] \in Copilot!Local
      BY <2>1 DEF Copilot!Local
    <3> QED BY <1>0, <3>1
  <2>3. Copilot!Becomes(r, q)
    BY <1>7 DEF Copilot!CheckQuota
  <2>4. aReq' \in [Request -> Copilot!Local]
    <3> HIDE DEF q
    <3> QED BY <2>2, <2>3, CopilotStepped
  <2> QED BY <1>7, <2>4 DEF Copilot!TypeOK, Copilot!CheckQuota
<1>8. ASSUME NEW r \in Request, Copilot!WriteQuestion(r) PROVE Copilot!TypeOK'
  <2> DEFINE q == [pc |-> "answer", ex |-> aReq[r].ex, sentAt |-> mClock + 1]
  <2>1. aReq[r].ex \in Copilot!Asked
    BY <1>8, CopilotLocal DEF Copilot!WriteQuestion, Copilot!At
  <2>2. q \in Copilot!Local
    BY <2>1 DEF Copilot!Local, Copilot!TypeOK
  <2>3. /\ Copilot!Becomes(r, q) \/ Copilot!Becomes(r, Copilot!Idle)
        /\ mClock' = mClock \/ mClock' = mClock + 1
    BY <1>8 DEF Copilot!WriteQuestion
  <2>4. aReq' \in [Request -> Copilot!Local]
    <3> HIDE DEF q
    <3> QED BY <1>a, <2>2, <2>3, CopilotStepped
  <2>5. mClock' \in Nat
    BY <2>3 DEF Copilot!TypeOK
  <2> QED BY <1>8, <2>4, <2>5 DEF Copilot!TypeOK, Copilot!WriteQuestion
<1>9. ASSUME NEW r \in Request, Copilot!WriteAnswer(r) PROVE Copilot!TypeOK'
  <2>1. aReq[r].ex \in Copilot!Asked /\ aReq[r].sentAt \in Nat
    BY <1>9, CopilotLocal DEF Copilot!WriteAnswer, Copilot!At
  <2>2. aReq' \in [Request -> Copilot!Local]
    BY <1>9, <1>a DEF Copilot!WriteAnswer
  <2>3. mClock' \in Nat /\ mClock + 1 \in Nat
    BY <1>9 DEF Copilot!TypeOK, Copilot!WriteAnswer
  <2>4. messages' \subseteq Copilot!Message
    BY <1>9, <2>1, <2>3, CopilotSent DEF Copilot!TypeOK, Copilot!WriteAnswer
  <2>5. today' \subseteq Copilot!Asked
    BY <1>9, <2>1 DEF Copilot!TypeOK, Copilot!WriteAnswer
  <2> QED BY <1>9, <2>2, <2>3, <2>4, <2>5 DEF Copilot!TypeOK, Copilot!WriteAnswer
<1>10. ASSUME NEW r \in Request, Copilot!ReplaceAnswer(r) PROVE Copilot!TypeOK'
  <2>1. aReq[r].ex \in Copilot!Asked
    BY <1>10, CopilotLocal DEF Copilot!ReplaceAnswer, Copilot!At
  <2>2. aReq' \in [Request -> Copilot!Local]
    BY <1>10, <1>a DEF Copilot!ReplaceAnswer
  <2>3. mClock' \in Nat /\ mClock + 1 \in Nat
    BY <1>10 DEF Copilot!TypeOK, Copilot!ReplaceAnswer
  <2>4. messages' \subseteq Copilot!Message
    BY <1>10, <2>1, <2>3, CopilotSent DEF Copilot!TypeOK, Copilot!ReplaceAnswer
  <2> QED BY <1>10, <2>2, <2>3, <2>4 DEF Copilot!TypeOK, Copilot!ReplaceAnswer
<1>11. ASSUME NEW r \in Request, Copilot!GenererRecommandations(r) PROVE Copilot!TypeOK'
  <2> DEFINE q == [pc |-> "generate", ex |-> aAsked + 1]
  <2>1. Copilot!Ask(r, q)
    BY <1>11 DEF Copilot!GenererRecommandations
  <2>2. aAsked' = aAsked + 1 /\ aAsked' \in 0..MaxAsked /\ aAsked' \in Copilot!Asked
        /\ Copilot!Becomes(r, q)
    <3> HIDE DEF q
    <3> QED BY <2>1, CopilotAsk
  <2>3. q \in Copilot!Local
    BY <2>2 DEF Copilot!Local
  <2>4. aReq' \in [Request -> Copilot!Local]
    <3> HIDE DEF q
    <3> QED BY <2>2, <2>3, CopilotStepped
  <2>5. convs' \in 0..aAsked'
    BY <1>11, <2>2 DEF Copilot!TypeOK, Copilot!GenererRecommandations
  <2> QED BY <1>11, <2>2, <2>4, <2>5 DEF Copilot!TypeOK, Copilot!GenererRecommandations
<1>12. ASSUME NEW r \in Request, Copilot!RemoveFormer(r) PROVE Copilot!TypeOK'
  <2> DEFINE q == [pc |-> "store", ex |-> aReq[r].ex, seen |-> recs]
  <2>1. aReq[r].ex \in Copilot!Asked
    BY <1>12, CopilotLocal DEF Copilot!RemoveFormer, Copilot!At
  <2>2. q \in Copilot!Local
    BY <2>1 DEF Copilot!Local, Copilot!TypeOK
  <2>3. Copilot!Becomes(r, q)
    BY <1>12 DEF Copilot!RemoveFormer
  <2>4. aReq' \in [Request -> Copilot!Local]
    <3> HIDE DEF q
    <3> QED BY <2>2, <2>3, CopilotStepped
  <2>5. overlapped' \in BOOLEAN
    BY <1>12 DEF Copilot!TypeOK, Copilot!RemoveFormer
  <2> QED BY <1>12, <2>4, <2>5 DEF Copilot!TypeOK, Copilot!RemoveFormer
<1>13. ASSUME NEW r \in Request, Copilot!StoreRecommendations(r) PROVE Copilot!TypeOK'
  <2>1. aReq[r].ex \in Copilot!Asked
    BY <1>13, CopilotLocal DEF Copilot!StoreRecommendations, Copilot!At
  <2>2. aReq' \in [Request -> Copilot!Local]
    BY <1>13, <1>a DEF Copilot!StoreRecommendations
  <2>3. latest' \in 0..MaxAsked /\ recs' \subseteq Copilot!Asked
    <3>1. Copilot!Asked \subseteq 0..MaxAsked
      BY BoundsAssumption DEF Copilot!Asked
    <3>2. latest' = aReq[r].ex /\ recs' = (recs \ aReq[r].seen) \cup {aReq[r].ex}
      BY <1>13 DEF Copilot!StoreRecommendations
    <3>3. recs \subseteq Copilot!Asked
      BY DEF Copilot!TypeOK
    <3> QED BY <2>1, <3>1, <3>2, <3>3
  <2> QED BY <1>13, <2>2, <2>3 DEF Copilot!TypeOK, Copilot!StoreRecommendations
<1>14. ASSUME NEW r \in Request, Copilot!Fail(r) PROVE Copilot!TypeOK'
  BY <1>14, <1>a DEF Copilot!TypeOK, Copilot!Fail
<1>15. CASE Copilot!Midnight
  BY <1>15 DEF Copilot!TypeOK, Copilot!Midnight
<1>16. CASE UNCHANGED Copilot!vars
  BY <1>16 DEF Copilot!TypeOK, Copilot!vars
<1> QED BY <1>1, <1>2, <1>4, <1>5, <1>6, <1>7, <1>8, <1>9, <1>10, <1>11, <1>12, <1>13, <1>14,
           <1>15, <1>16 DEF Copilot!Next

-----------------------------------------------------------------------------
(* The assistant: every step keeps the advice.                             *)

LEMMA AdviceStep ==
  Copilot!TypeOK /\ AdviceInv /\ [Copilot!Next]_(Copilot!vars) => AdviceInv'
<1> SUFFICES ASSUME Copilot!TypeOK, AdviceInv, [Copilot!Next]_(Copilot!vars) PROVE AdviceInv'
  OBVIOUS
<1> USE DEF Copilot!talk, Copilot!advice
<1>a. ASSUME NEW r \in Request, NEW q, Copilot!Becomes(r, q), q.pc # "store",
             UNCHANGED <<recs, latest, overlapped>>
      PROVE  AdviceInv'
  <2>1. aReq'[r] = q /\ \A p \in Request \ {r} : aReq'[p] = aReq[p]
    BY <1>a DEF Copilot!TypeOK, Copilot!Becomes
  <2>2. \A p \in Request : Copilot!At(p, "store")' => Copilot!At(p, "store") /\ aReq'[p] = aReq[p]
    BY <1>a, <2>1 DEF Copilot!At
  <2> QED BY <1>a, <2>2, AdviceKept
<1>i. Copilot!Idle.pc # "store"
  BY DEF Copilot!Idle
<1>1. ASSUME NEW r \in Request,
             \/ Copilot!CreateConversation(r) \/ Copilot!DeleteConversation(r)
             \/ Copilot!SetMessageFeedback(r) \/ Copilot!WriteAnswer(r)
             \/ Copilot!ReplaceAnswer(r) \/ Copilot!Fail(r)
      PROVE  AdviceInv'
  <2>1. Copilot!Becomes(r, Copilot!Idle) /\ UNCHANGED <<recs, latest, overlapped>>
    BY <1>1 DEF Copilot!CreateConversation, Copilot!DeleteConversation, Copilot!Ask,
       Copilot!SetMessageFeedback, Copilot!WriteAnswer, Copilot!ReplaceAnswer, Copilot!Fail
  <2> QED BY <1>a, <1>i, <2>1
<1>2. ASSUME NEW r \in Request, NEW b, NEW e, Copilot!Begin(r, b, e) PROVE AdviceInv'
  <2> DEFINE q == [pc |-> "quota", conv |-> conv, ex |-> e, again |-> b]
  <2>1. Copilot!Becomes(r, q) /\ UNCHANGED <<recs, latest, overlapped>> /\ q.pc # "store"
    BY <1>2 DEF Copilot!Begin, Copilot!Ask
  <2> HIDE DEF q
  <2> QED BY <1>a, <2>1
<1>3. ASSUME NEW r \in Request,
             Copilot!EnvoyerMessage(r) \/ Copilot!RegenererDerniereReponse(r)
      PROVE  AdviceInv'
  BY <1>2, <1>3 DEF Copilot!EnvoyerMessage, Copilot!RegenererDerniereReponse
<1>4. ASSUME NEW r \in Request, Copilot!CheckQuota(r) PROVE AdviceInv'
  <2> DEFINE q == IF aFree /\ Copilot!SentToday >= CopilotLimit THEN Copilot!Idle
                  ELSE [pc |-> IF aReq[r].again THEN "replace" ELSE "question",
                        conv |-> aReq[r].conv, ex |-> aReq[r].ex]
  <2>1. Copilot!Becomes(r, q) /\ UNCHANGED <<recs, latest, overlapped>>
    BY <1>4 DEF Copilot!CheckQuota
  <2>2. q.pc # "store"
    BY <1>i
  <2> HIDE DEF q
  <2> QED BY <1>a, <2>1, <2>2
<1>5. ASSUME NEW r \in Request, Copilot!WriteQuestion(r) PROVE AdviceInv'
  <2> DEFINE q == [pc |-> "answer", ex |-> aReq[r].ex, sentAt |-> mClock + 1]
  <2>1. /\ Copilot!Becomes(r, q) \/ Copilot!Becomes(r, Copilot!Idle)
        /\ UNCHANGED <<recs, latest, overlapped>> /\ q.pc # "store"
    BY <1>5 DEF Copilot!WriteQuestion
  <2> HIDE DEF q
  <2> QED BY <1>a, <1>i, <2>1
<1>6. ASSUME NEW r \in Request, Copilot!GenererRecommandations(r) PROVE AdviceInv'
  <2> DEFINE q == [pc |-> "generate", ex |-> aAsked + 1]
  <2>1. Copilot!Becomes(r, q) /\ UNCHANGED <<recs, latest, overlapped>> /\ q.pc # "store"
    BY <1>6 DEF Copilot!GenererRecommandations, Copilot!Ask
  <2> HIDE DEF q
  <2> QED BY <1>a, <2>1
<1>7. ASSUME NEW r \in Request, Copilot!RemoveFormer(r) PROVE AdviceInv'
  <2> SUFFICES ASSUME ~overlapped'
               PROVE  OneStores' /\ StoreSeesAll' /\ recs' = IF latest' = 0 THEN {} ELSE {latest'}
    BY DEF AdviceInv
  <2>1. ~overlapped /\ \A p \in Request \ {r} : ~Copilot!At(p, "store")
    BY <1>7 DEF Copilot!RemoveFormer
  <2>2. recs' = recs /\ latest' = latest
    BY <1>7 DEF Copilot!RemoveFormer
  <2>3. aReq'[r].seen = recs /\ \A p \in Request \ {r} : aReq'[p] = aReq[p]
    BY <1>7 DEF Copilot!RemoveFormer, Copilot!Becomes, Copilot!TypeOK
  <2> QED BY <2>1, <2>2, <2>3 DEF AdviceInv, OneStores, StoreSeesAll, Copilot!At
<1>8. ASSUME NEW r \in Request, Copilot!StoreRecommendations(r) PROVE AdviceInv'
  <2> SUFFICES ASSUME ~overlapped'
               PROVE  OneStores' /\ StoreSeesAll' /\ recs' = IF latest' = 0 THEN {} ELSE {latest'}
    BY DEF AdviceInv
  <2>1. ~overlapped /\ Copilot!At(r, "store")
    BY <1>8 DEF Copilot!StoreRecommendations
  <2>2. aReq[r].seen = recs /\ \A p \in Request : Copilot!At(p, "store") => p = r
    BY <2>1 DEF AdviceInv, OneStores, StoreSeesAll
  <2>3. aReq'[r].pc = "idle" /\ \A p \in Request \ {r} : aReq'[p] = aReq[p]
    BY <1>8 DEF Copilot!StoreRecommendations, Copilot!Becomes, Copilot!TypeOK, Copilot!Idle
  <2>4. \A p \in Request : ~Copilot!At(p, "store")'
    BY <2>2, <2>3 DEF Copilot!At
  <2>5. aReq[r].ex \in 1..MaxAsked
    BY <2>1, CopilotLocal DEF Copilot!At, Copilot!Asked
  <2>6. recs' = {aReq[r].ex} /\ latest' = aReq[r].ex
    BY <1>8, <2>2 DEF Copilot!StoreRecommendations
  <2>7. latest' # 0
    BY <2>5, <2>6, BoundsAssumption
  <2> QED BY <2>4, <2>6, <2>7 DEF OneStores, StoreSeesAll
<1>9. CASE Copilot!Midnight
  BY <1>9, AdviceKept DEF Copilot!Midnight, Copilot!At
<1>10. CASE UNCHANGED Copilot!vars
  BY <1>10, AdviceKept DEF Copilot!vars, Copilot!At
<1> QED BY <1>1, <1>3, <1>4, <1>5, <1>6, <1>7, <1>8, <1>9, <1>10 DEF Copilot!Next

-----------------------------------------------------------------------------
(* The assistant: every step keeps the conversation.                       *)

\* The request that talks has come to its end.
LEMMA NobodyTalks ==
  ASSUME \A p \in Request : ~Copilot!Talking(p)'
  PROVE  OneTalks' /\ InConversation' /\ NewIsNew' /\ AnswerNext' /\ AgainLast'
BY DEF OneTalks, InConversation, NewIsNew, AnswerNext, AgainLast, New, Again,
   Copilot!Talking, Copilot!At

LEMMA TalkEnds ==
  ASSUME Copilot!TypeOK, OneTalks, NEW r \in Request, Copilot!Talking(r),
         Copilot!Becomes(r, Copilot!Idle)
  PROVE  \A p \in Request : ~Copilot!Talking(p)'
BY DEF Copilot!TypeOK, Copilot!Becomes, Copilot!Idle, OneTalks, Copilot!Talking

\* Whoever begins is alone, and what it holds is what the others find.
LEMMA TalkBegins ==
  ASSUME Copilot!TypeOK, TalkInv, NEW r \in Request, NEW b \in BOOLEAN,
         NEW e \in Copilot!Asked, Copilot!Begin(r, b, e), ~aCrossed',
         b => LastIs(e), ~b => e = aAsked + 1
  PROVE  TalkInv'
<1> USE DEF TalkInv
<1>1. ~aCrossed /\ \A p \in Request \ {r} : ~Copilot!Talking(p)
  BY DEF Copilot!Begin
<1>2. /\ aReq'[r] = [pc |-> "quota", conv |-> conv, ex |-> e, again |-> b]
      /\ \A p \in Request \ {r} : aReq'[p] = aReq[p]
  BY DEF Copilot!Begin, Copilot!Ask, Copilot!Becomes, Copilot!TypeOK
<1>3. /\ aReq'[r].pc = "quota" /\ aReq'[r].conv = conv /\ aReq'[r].ex = e
      /\ aReq'[r].again = b
  BY <1>2
<1>4. \A p \in Request : Copilot!Talking(p)' => p = r
  BY <1>1, <1>2 DEF Copilot!Talking
<1>5. UNCHANGED <<messages, mClock, conv, convs>> /\ aAsked' = aAsked + 1 /\ conv # 0
  BY DEF Copilot!Begin, Copilot!Ask
<1>6. aAsked \in Nat /\ conv \in 0..convs /\ convs \in Nat /\ e \in Nat
  BY BoundsAssumption DEF Copilot!TypeOK, Copilot!Asked
<1>7. OneTalks' /\ Timed'
  BY <1>1, <1>4, <1>5 DEF OneTalks, Timed
<1>8. Numbered'
  BY <1>1, <1>5, <1>6, CopilotMessage DEF Numbered
<1>9. InConversation'
  <2> SUFFICES ASSUME NEW p \in Request, Copilot!Talking(p)'
               PROVE  aReq'[p].conv \in 1..convs'
    BY DEF InConversation, Copilot!Talking, Copilot!At
  <2> QED BY <1>3, <1>4, <1>5, <1>6
<1>10. NewIsNew'
  <2> SUFFICES ASSUME NEW p \in Request, New(p)'
               PROVE  aReq'[p].ex <= aAsked' /\ \A m \in messages : m.ex # aReq'[p].ex
    BY <1>5 DEF NewIsNew
  <2>1. p = r /\ ~b
    BY <1>3, <1>4 DEF New, Copilot!Talking, Copilot!At
  <2>2. \A m \in messages : m.ex \in Nat /\ m.ex <= aAsked
    BY <1>1, CopilotMessage DEF Numbered
  <2> QED BY <1>3, <1>5, <1>6, <2>1, <2>2
<1>11. AnswerNext'
  BY <1>3, <1>4 DEF AnswerNext, Copilot!Talking, Copilot!At
<1>12. AgainLast'
  <2>1. \A p \in Request : Again(p)' => p = r /\ b
    BY <1>3, <1>4 DEF Again, Copilot!Talking, Copilot!At
  <2>2. LastIs(e) => LastIs(e)'
    BY <1>5 DEF LastIs
  <2> SUFFICES ASSUME NEW p \in Request, NEW f, f = (aReq[p].ex)', Again(p)'
               PROVE  LastIs(f)'
    BY DEF AgainLast
  <2>3. f = e /\ LastIs(e)
    BY <1>3, <2>1
  <2> QED BY <2>2, <2>3
<1>13. Paired'
  BY <1>1, <1>5 DEF Paired, Copilot!Follows
<1> QED BY <1>7, <1>8, <1>9, <1>10, <1>11, <1>12, <1>13

\* The last answer follows the last question.
LEMMA LastAnswer ==
  ASSUME Copilot!TypeOK, Timed, Paired, NEW a \in Copilot!Last(messages), a.sender = "AI"
  PROVE  LastIs(a.ex)
<1>1. a \in messages /\ \A m \in messages : m.sentAt <= a.sentAt
  BY DEF Copilot!Last
<1>2. PICK n \in messages : Copilot!Follows(a, n)
  BY <1>1 DEF Paired, Copilot!Follows
<1>3. \A m \in messages : m.sentAt \in Nat
  BY CopilotMessage
<1>4. ASSUME NEW m \in messages, ~(m.sentAt <= n.sentAt) PROVE m = a
  <2>1. a.sentAt <= m.sentAt
    BY <1>2, <1>4 DEF Copilot!Follows
  <2>2. m.sentAt = a.sentAt
    BY <1>1, <1>3, <2>1
  <2> QED BY <1>1, <2>2 DEF Timed
<1> QED BY <1>1, <1>2, <1>4 DEF LastIs, Copilot!Follows

LEMMA TalkQuota ==
  ASSUME Copilot!TypeOK, TalkInv, NEW r \in Request, Copilot!CheckQuota(r)
  PROVE  TalkInv'
<1> SUFFICES ASSUME ~aCrossed
             PROVE  /\ OneTalks' /\ Timed' /\ Numbered' /\ InConversation' /\ NewIsNew'
                    /\ AnswerNext' /\ AgainLast' /\ Paired'
  BY DEF TalkInv, Copilot!CheckQuota, Copilot!talk
<1> USE DEF TalkInv
<1>1. UNCHANGED <<messages, mClock, conv, convs, aAsked>> /\ Copilot!At(r, "quota")
  BY DEF Copilot!CheckQuota, Copilot!talk
<1>2. Copilot!Talking(r)
  BY <1>1 DEF Copilot!Talking, Copilot!At
<1>3. Timed' /\ Numbered' /\ Paired'
  BY <1>1 DEF Timed, Numbered, Paired, Copilot!Follows
<1>4. CASE Copilot!Becomes(r, Copilot!Idle)
  BY <1>2, <1>3, <1>4, TalkEnds, NobodyTalks
<1>5. CASE ~Copilot!Becomes(r, Copilot!Idle)
  <2>1. /\ aReq'[r] = [pc |-> IF aReq[r].again THEN "replace" ELSE "question",
                       conv |-> aReq[r].conv, ex |-> aReq[r].ex]
        /\ \A p \in Request \ {r} : aReq'[p] = aReq[p]
    BY <1>5 DEF Copilot!CheckQuota, Copilot!Becomes, Copilot!TypeOK
  <2>2. /\ aReq[r].again => aReq'[r].pc = "replace"
        /\ ~aReq[r].again => aReq'[r].pc = "question"
        /\ aReq'[r].conv = aReq[r].conv /\ aReq'[r].ex = aReq[r].ex
    BY <2>1
  <2>3. aReq[r].again \in BOOLEAN
    BY <1>1, CopilotLocal
  <2>4. \A p \in Request : Copilot!Talking(p)' => p = r
    BY <1>2, <2>1 DEF OneTalks, Copilot!Talking
  <2>5. OneTalks'
    BY <2>4 DEF OneTalks
  <2>6. InConversation'
    <3> SUFFICES ASSUME NEW p \in Request, Copilot!Talking(p)'
                 PROVE  aReq'[p].conv \in 1..convs'
      BY DEF InConversation, Copilot!Talking, Copilot!At
    <3> QED BY <1>1, <2>2, <2>4 DEF InConversation
  <2>7. \A p \in Request : New(p)' => p = r /\ New(r)
    BY <1>1, <2>2, <2>3, <2>4 DEF New, Copilot!Talking, Copilot!At
  <2>8. NewIsNew'
    BY <1>1, <2>2, <2>7 DEF NewIsNew
  <2>9. AnswerNext'
    BY <2>2, <2>3, <2>4 DEF AnswerNext, Copilot!Talking, Copilot!At
  <2>10. \A p \in Request : Again(p)' => p = r /\ Again(r)
    BY <1>1, <2>2, <2>3, <2>4 DEF Again, Copilot!Talking, Copilot!At
  <2>11. AgainLast'
    <3> SUFFICES ASSUME NEW p \in Request, NEW f, f = (aReq[p].ex)', Again(p)',
                        (aReq[p].conv)' = conv'
                 PROVE  LastIs(f)'
      BY DEF AgainLast
    <3>1. LastIs(f) => LastIs(f)'
      BY <1>1 DEF LastIs
    <3>2. f = aReq[r].ex /\ aReq[r].conv = conv /\ Again(r)
      BY <1>1, <2>2, <2>10
    <3> QED BY <3>1, <3>2 DEF AgainLast
  <2> QED BY <1>3, <2>5, <2>6, <2>8, <2>9, <2>11
<1> QED BY <1>4, <1>5

\* The question is kept for the answer, as the next message.
LEMMA TalkQuestion ==
  ASSUME Copilot!TypeOK, TalkInv, NEW r \in Request, Copilot!WriteQuestion(r)
  PROVE  TalkInv'
<1> SUFFICES ASSUME ~aCrossed
             PROVE  /\ OneTalks' /\ Timed' /\ Numbered' /\ InConversation' /\ NewIsNew'
                    /\ AnswerNext' /\ AgainLast' /\ Paired'
  BY DEF TalkInv, Copilot!WriteQuestion
<1> USE DEF TalkInv
<1>1. UNCHANGED <<messages, conv, convs, aAsked>> /\ Copilot!At(r, "question")
  BY DEF Copilot!WriteQuestion
<1>2. Copilot!Talking(r)
  BY <1>1 DEF Copilot!Talking, Copilot!At
<1>3. Numbered' /\ Paired'
  BY <1>1 DEF Numbered, Paired, Copilot!Follows
<1>4. CASE aReq[r].conv # conv
  <2>1. Copilot!Becomes(r, Copilot!Idle) /\ mClock' = mClock
    BY <1>4 DEF Copilot!WriteQuestion
  <2>2. Timed'
    BY <1>1, <2>1 DEF Timed
  <2> QED BY <1>2, <1>3, <2>1, <2>2, TalkEnds, NobodyTalks
<1>5. CASE aReq[r].conv = conv
  <2>1. /\ aReq'[r] = [pc |-> "answer", ex |-> aReq[r].ex, sentAt |-> mClock + 1]
        /\ \A p \in Request \ {r} : aReq'[p] = aReq[p]
        /\ mClock' = mClock + 1
    BY <1>5 DEF Copilot!WriteQuestion, Copilot!Becomes, Copilot!TypeOK
  <2>2. aReq'[r].pc = "answer" /\ aReq'[r].ex = aReq[r].ex /\ aReq'[r].sentAt = mClock'
    BY <2>1
  <2>3. mClock \in Nat /\ \A m \in messages : m.sentAt \in Nat /\ m.sentAt <= mClock
    BY CopilotMessage DEF Copilot!TypeOK, Timed
  <2>4. Timed'
    BY <1>1, <2>1, <2>3 DEF Timed
  <2>5. \A p \in Request : Copilot!Talking(p)' => p = r
    BY <1>2, <2>1 DEF OneTalks, Copilot!Talking
  <2>6. OneTalks'
    BY <2>5 DEF OneTalks
  <2>7. InConversation' /\ AgainLast'
    BY <2>2, <2>5 DEF InConversation, AgainLast, Again, Copilot!Talking, Copilot!At
  <2>8. \A p \in Request : New(p)' => p = r /\ New(r)
    BY <1>1, <2>5 DEF New, Copilot!Talking, Copilot!At
  <2>9. NewIsNew'
    BY <1>1, <2>2, <2>8 DEF NewIsNew
  <2>10. AnswerNext'
    BY <1>1, <2>1, <2>2, <2>3, <2>5 DEF AnswerNext, Copilot!Talking, Copilot!At
  <2> QED BY <1>3, <2>4, <2>6, <2>7, <2>9, <2>10
<1> QED BY <1>4, <1>5

\* The pair comes after all the others.
LEMMA TalkAnswer ==
  ASSUME Copilot!TypeOK, TalkInv, NEW r \in Request, Copilot!WriteAnswer(r)
  PROVE  TalkInv'
<1> SUFFICES ASSUME ~aCrossed
             PROVE  /\ OneTalks' /\ Timed' /\ Numbered' /\ InConversation' /\ NewIsNew'
                    /\ AnswerNext' /\ AgainLast' /\ Paired'
  BY DEF TalkInv, Copilot!WriteAnswer
<1> USE DEF TalkInv
<1>1. Copilot!At(r, "answer") /\ Copilot!Becomes(r, Copilot!Idle)
  BY DEF Copilot!WriteAnswer
<1>2. Copilot!Talking(r)
  BY <1>1 DEF Copilot!Talking, Copilot!At
<1>3. OneTalks' /\ InConversation' /\ NewIsNew' /\ AnswerNext' /\ AgainLast'
  BY <1>1, <1>2, TalkEnds, NobodyTalks
<1>4. PICK e : e = aReq[r].ex
  OBVIOUS
<1>5. PICK q, a : q = Copilot!Sent("USER", e, mClock) /\ a = Copilot!Sent("AI", e, mClock + 1)
  OBVIOUS
<1>6. /\ q.sender = "USER" /\ q.ex = e /\ q.sentAt = mClock
      /\ a.sender = "AI" /\ a.ex = e /\ a.sentAt = mClock + 1
  BY <1>5 DEF Copilot!Sent
<1>7. /\ aReq[r].sentAt = mClock /\ \A m \in messages : m.sentAt < mClock
      /\ e <= aAsked /\ \A m \in messages : m.ex # e
  BY <1>1, <1>4 DEF AnswerNext, NewIsNew, New
<1>8. messages' = messages \cup {q, a} /\ mClock' = mClock + 1 /\ aAsked' = aAsked
  BY <1>4, <1>5, <1>7 DEF Copilot!WriteAnswer
<1>9. mClock \in Nat /\ \A m \in messages : m.sentAt \in Nat
  BY CopilotMessage DEF Copilot!TypeOK
<1>10. Timed'
  BY <1>6, <1>7, <1>8, <1>9 DEF Timed
<1>11. Numbered'
  BY <1>6, <1>7, <1>8 DEF Numbered
<1>12. Paired'
  <2>1. Copilot!Follows(a, q)'
    BY <1>6, <1>7, <1>8, <1>9 DEF Copilot!Follows
  <2>2. ASSUME NEW m \in messages, NEW n \in messages, Copilot!Follows(m, n)
        PROVE  Copilot!Follows(m, n)'
    BY <1>6, <1>7, <1>8, <1>9, <2>2 DEF Copilot!Follows
  <2>3. ASSUME NEW m \in messages PROVE \E n \in messages' : Copilot!Follows(m, n)' \/ Copilot!Follows(n, m)'
    BY <1>8, <2>2 DEF Paired
  <2>4. \A m \in messages' : \E n \in messages' : Copilot!Follows(m, n)' \/ Copilot!Follows(n, m)'
    BY <1>8, <2>1, <2>3
  <2> QED BY <2>4 DEF Paired, Copilot!Follows
<1> QED BY <1>3, <1>10, <1>11, <1>12

\* The new answer takes the place of the former, which was the last message.
LEMMA TalkReplace ==
  ASSUME Copilot!TypeOK, TalkInv, NEW r \in Request, Copilot!ReplaceAnswer(r)
  PROVE  TalkInv'
<1> SUFFICES ASSUME ~aCrossed
             PROVE  /\ OneTalks' /\ Timed' /\ Numbered' /\ InConversation' /\ NewIsNew'
                    /\ AnswerNext' /\ AgainLast' /\ Paired'
  BY DEF TalkInv, Copilot!ReplaceAnswer
<1> USE DEF TalkInv
<1>1. /\ Copilot!At(r, "replace") /\ Copilot!Becomes(r, Copilot!Idle)
      /\ UNCHANGED <<aAsked, conv, convs>>
  BY DEF Copilot!ReplaceAnswer
<1>2. Copilot!Talking(r)
  BY <1>1 DEF Copilot!Talking, Copilot!At
<1>3. OneTalks' /\ InConversation' /\ NewIsNew' /\ AnswerNext' /\ AgainLast'
  BY <1>1, <1>2, TalkEnds, NobodyTalks
<1>4. CASE aReq[r].conv # conv
  <2>1. UNCHANGED <<messages, mClock>>
    BY <1>4 DEF Copilot!ReplaceAnswer
  <2> QED BY <1>1, <1>3, <2>1 DEF Timed, Numbered, Paired, Copilot!Follows
<1>5. CASE aReq[r].conv = conv
  <2>1. PICK e : e = aReq[r].ex
    OBVIOUS
  <2>2. PICK a : a = Copilot!Sent("AI", e, mClock + 1)
    OBVIOUS
  <2>3. a.sender = "AI" /\ a.ex = e /\ a.sentAt = mClock + 1
    BY <2>2 DEF Copilot!Sent
  <2>4. PICK former : former = {m \in messages : m.sender = "AI" /\ m.ex = e}
    OBVIOUS
  <2>5. messages' = (messages \ former) \cup {a} /\ mClock' = mClock + 1
    BY <1>5, <2>1, <2>2, <2>4 DEF Copilot!ReplaceAnswer
  <2>6. LastIs(e)
    BY <1>1, <1>5, <2>1 DEF AgainLast, Again
  <2>7. PICK n \in messages :
          /\ n.sender = "USER" /\ n.ex = e
          /\ \A m \in messages : m.sentAt <= n.sentAt \/ m \in former
    BY <2>4, <2>6 DEF LastIs
  <2>8. mClock \in Nat /\ \A m \in messages : m.sentAt \in Nat /\ m.sentAt <= mClock
    BY CopilotMessage DEF Copilot!TypeOK, Timed
  <2>9. Timed'
    BY <2>3, <2>5, <2>8 DEF Timed
  <2>10. Numbered'
    <3>1. e <= aAsked
      BY <2>7 DEF Numbered
    <3>2. \A m \in messages \ former : ~(m.sender = "AI" /\ m.ex = e)
      BY <2>4
    <3> QED BY <1>1, <2>3, <2>5, <3>1, <3>2 DEF Numbered
  <2>11. Paired'
    <3>1. n \notin former /\ n \in messages'
      BY <2>4, <2>5, <2>7
    <3>2. Copilot!Follows(a, n)'
      BY <2>3, <2>5, <2>7, <2>8 DEF Copilot!Follows
    <3>3. ASSUME NEW m \in messages, NEW k \in messages, Copilot!Follows(m, k)
          PROVE  Copilot!Follows(m, k)'
      BY <2>3, <2>5, <2>8, <3>3 DEF Copilot!Follows
    <3>4. ASSUME NEW m \in messages \ former
          PROVE  \E k \in messages' : Copilot!Follows(m, k)' \/ Copilot!Follows(k, m)'
      <4>1. PICK k \in messages : Copilot!Follows(m, k) \/ Copilot!Follows(k, m)
        BY DEF Paired
      <4>2. CASE k \in former
        <5>1. k.sender = "AI" /\ k.ex = e
          BY <2>4, <4>2
        <5>2. m.sender = "USER" /\ m.ex = e
          BY <4>1, <5>1 DEF Copilot!Follows
        <5>3. m = n
          BY <2>7, <5>2 DEF Numbered
        <5> QED BY <2>5, <3>2, <5>3
      <4>3. CASE k \notin former
        BY <2>5, <3>3, <4>1, <4>3
      <4> QED BY <4>2, <4>3
    <3>5. \A m \in messages' : \E k \in messages' : Copilot!Follows(m, k)' \/ Copilot!Follows(k, m)'
      BY <2>5, <3>1, <3>2, <3>4
    <3> QED BY <3>5 DEF Paired, Copilot!Follows
  <2> QED BY <1>3, <2>9, <2>10, <2>11
<1> QED BY <1>4, <1>5

\* A feedback leaves who said what, and when.
LEMMA TalkFeedback ==
  ASSUME Copilot!TypeOK, TalkInv, NEW r \in Request, Copilot!SetMessageFeedback(r)
  PROVE  TalkInv'
<1> SUFFICES ASSUME ~aCrossed
             PROVE  /\ OneTalks' /\ Timed' /\ Numbered' /\ InConversation' /\ NewIsNew'
                    /\ AnswerNext' /\ AgainLast' /\ Paired'
  BY DEF TalkInv, Copilot!SetMessageFeedback
<1> USE DEF TalkInv
<1>1. UNCHANGED <<conv, convs, mClock>> /\ aAsked' = aAsked + 1 /\ aAsked \in Nat
  BY CopilotAsk DEF Copilot!SetMessageFeedback
<1>2. \A p \in Request : Copilot!Talking(p)' => Copilot!Talking(p) /\ aReq'[p] = aReq[p]
  BY DEF Copilot!SetMessageFeedback, Copilot!Ask, Copilot!Becomes, Copilot!Idle,
     Copilot!TypeOK, Copilot!Talking
<1>3. PICK o \in messages, b \in BOOLEAN :
        messages' = (messages \ {o}) \cup {[o EXCEPT !.feedback = b]}
  BY DEF Copilot!SetMessageFeedback
<1>4. PICK w : w = [o EXCEPT !.feedback = b]
  OBVIOUS
<1>5. w.sender = o.sender /\ w.ex = o.ex /\ w.sentAt = o.sentAt
  BY <1>4, CopilotMessage DEF Copilot!Message
<1>6. messages' = (messages \ {o}) \cup {w}
  BY <1>3, <1>4
<1>7. \A m \in messages : m.ex \in Nat /\ m.sentAt \in Nat
  BY CopilotMessage
<1>8. OneTalks' /\ InConversation' /\ AnswerNext'
  <2>1. OneTalks' /\ InConversation'
    BY <1>1, <1>2 DEF OneTalks, InConversation, Copilot!Talking, Copilot!At
  <2>2. AnswerNext'
    BY <1>1, <1>2, <1>5, <1>6 DEF AnswerNext, Copilot!Talking, Copilot!At
  <2> QED BY <2>1, <2>2
<1>9. Timed'
  BY <1>1, <1>5, <1>6 DEF Timed
<1>10. Numbered'
  BY <1>1, <1>5, <1>6, <1>7 DEF Numbered
<1>11. NewIsNew'
  <2> SUFFICES ASSUME NEW p \in Request, New(p)'
               PROVE  aReq'[p].ex <= aAsked' /\ \A m \in messages' : m.ex # aReq'[p].ex
    BY DEF NewIsNew
  <2>1. New(p) /\ aReq'[p] = aReq[p]
    BY <1>2 DEF New, Copilot!Talking, Copilot!At
  <2>2. aReq[p].ex \in Nat
    BY <2>1, CopilotLocal DEF New, Copilot!At, Copilot!Asked
  <2> QED BY <1>1, <1>5, <1>6, <2>1, <2>2 DEF NewIsNew
<1>12. AgainLast'
  <2> SUFFICES ASSUME NEW p \in Request, NEW f, f = (aReq[p].ex)', Again(p)',
                      (aReq[p].conv)' = conv'
               PROVE  LastIs(f)'
    BY DEF AgainLast
  <2>1. Again(p) /\ f = aReq[p].ex /\ aReq[p].conv = conv
    BY <1>1, <1>2 DEF Again, Copilot!Talking, Copilot!At
  <2>2. PICK n \in messages :
          /\ n.sender = "USER" /\ n.ex = f
          /\ \A m \in messages : m.sentAt <= n.sentAt \/ (m.sender = "AI" /\ m.ex = f)
    BY <2>1 DEF AgainLast, LastIs
  <2>3. PICK v \in messages' : v.sender = n.sender /\ v.ex = n.ex /\ v.sentAt = n.sentAt
    BY <1>5, <1>6
  <2>4. \A m \in messages' : m.sentAt <= v.sentAt \/ (m.sender = "AI" /\ m.ex = f)
    BY <1>5, <1>6, <2>2, <2>3
  <2> QED BY <2>2, <2>3, <2>4 DEF LastIs
<1>13. Paired'
  <2>1. ASSUME NEW m \in messages, NEW n \in messages, NEW u, NEW v,
               Copilot!Follows(m, n),
               u.sender = m.sender, u.ex = m.ex, u.sentAt = m.sentAt,
               v.sender = n.sender, v.ex = n.ex, v.sentAt = n.sentAt
        PROVE  Copilot!Follows(u, v)'
    BY <1>5, <1>6, <2>1 DEF Copilot!Follows
  <2>2. ASSUME NEW n \in messages
        PROVE  \E v \in messages' : v.sender = n.sender /\ v.ex = n.ex /\ v.sentAt = n.sentAt
    BY <1>5, <1>6
  <2>3. ASSUME NEW u \in messages'
        PROVE  \E v \in messages' : Copilot!Follows(u, v)' \/ Copilot!Follows(v, u)'
    <3>1. PICK m \in messages : u.sender = m.sender /\ u.ex = m.ex /\ u.sentAt = m.sentAt
      BY <1>5, <1>6, <2>3
    <3>2. PICK n \in messages : Copilot!Follows(m, n) \/ Copilot!Follows(n, m)
      BY DEF Paired
    <3>3. PICK v \in messages' : v.sender = n.sender /\ v.ex = n.ex /\ v.sentAt = n.sentAt
      BY <2>2
    <3> QED BY <2>1, <3>1, <3>2, <3>3
  <2> QED BY <2>3 DEF Paired, Copilot!Follows
<1> QED BY <1>8, <1>9, <1>10, <1>11, <1>12, <1>13

\* Whoever answers in a conversation that is gone finds another number, or none.
LEMMA TalkCreate ==
  ASSUME Copilot!TypeOK, TalkInv, NEW r \in Request,
         Copilot!CreateConversation(r) \/ Copilot!DeleteConversation(r)
  PROVE  TalkInv'
<1> SUFFICES ASSUME ~aCrossed
             PROVE  /\ OneTalks' /\ Timed' /\ Numbered' /\ InConversation' /\ NewIsNew'
                    /\ AnswerNext' /\ AgainLast' /\ Paired'
  BY DEF TalkInv, Copilot!CreateConversation, Copilot!DeleteConversation
<1> USE DEF TalkInv
<1>1. Copilot!Ask(r, Copilot!Idle)
  BY DEF Copilot!CreateConversation, Copilot!DeleteConversation
<1>2. aAsked' = aAsked + 1 /\ aAsked \in Nat
  BY <1>1, CopilotAsk
<1>3. \A p \in Request : Copilot!Talking(p)' => Copilot!Talking(p) /\ aReq'[p] = aReq[p]
  BY <1>1 DEF Copilot!Ask, Copilot!Becomes, Copilot!Idle, Copilot!TypeOK, Copilot!Talking
<1>4. convs \in Nat /\ convs' \in Nat /\ convs <= convs'
      /\ (conv' = 0 \/ conv' = convs + 1)
  BY <1>2 DEF Copilot!TypeOK, Copilot!CreateConversation, Copilot!DeleteConversation
<1>5. /\ messages' = messages /\ mClock' = mClock
      \/ /\ messages' = {} /\ \A p \in Request : ~Copilot!At(p, "answer")
  BY DEF Copilot!CreateConversation, Copilot!DeleteConversation
<1>6. \A m \in messages : m.ex \in Nat
  BY CopilotMessage
<1>7. OneTalks'
  BY <1>3 DEF OneTalks
<1>8. InConversation'
  BY <1>3, <1>4 DEF InConversation, Copilot!Talking, Copilot!At
<1>9. Timed'
  BY <1>5 DEF Timed
<1>10. Numbered'
  BY <1>2, <1>5, <1>6 DEF Numbered
<1>11. NewIsNew'
  <2> SUFFICES ASSUME NEW p \in Request, New(p)'
               PROVE  aReq'[p].ex <= aAsked' /\ \A m \in messages' : m.ex # aReq'[p].ex
    BY DEF NewIsNew
  <2>1. New(p) /\ aReq'[p] = aReq[p]
    BY <1>3 DEF New, Copilot!Talking, Copilot!At
  <2>2. aReq[p].ex \in Nat
    BY <2>1, CopilotLocal DEF New, Copilot!At, Copilot!Asked
  <2> QED BY <1>2, <1>5, <2>1, <2>2 DEF NewIsNew
<1>12. AnswerNext'
  BY <1>3, <1>5 DEF AnswerNext, Copilot!Talking, Copilot!At
<1>13. AgainLast'
  <2>1. ASSUME NEW p \in Request, Again(p)' PROVE aReq'[p].conv # conv'
    <3>1. Again(p) /\ aReq'[p] = aReq[p]
      BY <1>3, <2>1 DEF Again, Copilot!Talking, Copilot!At
    <3>2. aReq[p].conv \in 1..convs
      BY <3>1 DEF InConversation, Again
    <3> QED BY <1>4, <3>1, <3>2
  <2> QED BY <2>1 DEF AgainLast
<1>14. Paired'
  BY <1>5 DEF Paired, Copilot!Follows
<1> QED BY <1>7, <1>8, <1>9, <1>10, <1>11, <1>12, <1>13, <1>14

\* Every step keeps it.
LEMMA TalkStep ==
  Copilot!TypeOK /\ TalkInv /\ [Copilot!Next]_(Copilot!vars) => TalkInv'
<1> SUFFICES ASSUME Copilot!TypeOK, TalkInv, [Copilot!Next]_(Copilot!vars) PROVE TalkInv'
  OBVIOUS
<1>0. aAsked \in Nat /\ MaxAsked \in Nat
  BY BoundsAssumption DEF Copilot!TypeOK
<1>1. ASSUME NEW r \in Request, Copilot!EnvoyerMessage(r) PROVE TalkInv'
  <2>1. aAsked + 1 \in Copilot!Asked
    BY <1>0, <1>1 DEF Copilot!EnvoyerMessage, Copilot!Begin, Copilot!Ask, Copilot!Asked
  <2>2. CASE ~aCrossed'
    BY <1>1, <2>1, <2>2, TalkBegins DEF Copilot!EnvoyerMessage
  <2> QED BY <2>2 DEF TalkInv
<1>2. ASSUME NEW r \in Request, Copilot!RegenererDerniereReponse(r) PROVE TalkInv'
  <2>1. PICK a \in Copilot!Last(messages) : a.sender = "AI" /\ Copilot!Begin(r, TRUE, a.ex)
    BY <1>2 DEF Copilot!RegenererDerniereReponse
  <2>2. CASE ~aCrossed'
    <3>1. ~aCrossed
      BY <2>1, <2>2 DEF Copilot!Begin
    <3>2. LastIs(a.ex)
      BY <2>1, <3>1, LastAnswer DEF TalkInv
    <3>3. a.ex \in Copilot!Asked
      BY <2>1, CopilotMessage DEF Copilot!Last
    <3> QED BY <2>1, <2>2, <3>2, <3>3, TalkBegins
  <2> QED BY <2>2 DEF TalkInv
<1>3. ASSUME NEW r \in Request, NEW q, Copilot!Becomes(r, q),
             q.pc \notin {"quota", "question", "answer", "replace"},
             UNCHANGED <<conv, messages, mClock, aCrossed, convs>>,
             aAsked' = aAsked \/ aAsked' = aAsked + 1
      PROVE  TalkInv'
  <2>1. aReq'[r] = q /\ \A p \in Request \ {r} : aReq'[p] = aReq[p]
    BY <1>3 DEF Copilot!TypeOK, Copilot!Becomes
  <2>2. \A p \in Request : Copilot!Talking(p)' => Copilot!Talking(p) /\ aReq'[p] = aReq[p]
    BY <1>3, <2>1 DEF Copilot!Talking
  <2>3. aAsked' \in Nat /\ aAsked <= aAsked'
    BY <1>0, <1>3
  <2> QED BY <1>3, <2>2, <2>3, TalkKept
<1>4. ASSUME NEW r \in Request, Copilot!GenererRecommandations(r) PROVE TalkInv'
  <2> DEFINE q == [pc |-> "generate", ex |-> aAsked + 1]
  <2>1. /\ Copilot!Becomes(r, q) /\ aAsked' = aAsked + 1
        /\ UNCHANGED <<conv, messages, mClock, aCrossed, convs>>
        /\ q.pc \notin {"quota", "question", "answer", "replace"}
    BY <1>4 DEF Copilot!GenererRecommandations, Copilot!Ask, Copilot!talk
  <2> HIDE DEF q
  <2> QED BY <1>3, <2>1
<1>5. ASSUME NEW r \in Request, Copilot!RemoveFormer(r) PROVE TalkInv'
  <2> DEFINE q == [pc |-> "store", ex |-> aReq[r].ex, seen |-> recs]
  <2>1. /\ Copilot!Becomes(r, q) /\ aAsked' = aAsked
        /\ UNCHANGED <<conv, messages, mClock, aCrossed, convs>>
        /\ q.pc \notin {"quota", "question", "answer", "replace"}
    BY <1>5 DEF Copilot!RemoveFormer, Copilot!talk
  <2> HIDE DEF q
  <2> QED BY <1>3, <2>1
<1>6. ASSUME NEW r \in Request, Copilot!StoreRecommendations(r) \/ Copilot!Fail(r)
      PROVE  TalkInv'
  <2>1. /\ Copilot!Becomes(r, Copilot!Idle) /\ aAsked' = aAsked
        /\ UNCHANGED <<conv, messages, mClock, aCrossed, convs>>
    BY <1>6 DEF Copilot!StoreRecommendations, Copilot!Fail, Copilot!talk
  <2>2. Copilot!Idle.pc \notin {"quota", "question", "answer", "replace"}
    BY DEF Copilot!Idle
  <2> QED BY <1>3, <2>1, <2>2
<1>7. CASE Copilot!Midnight \/ UNCHANGED Copilot!vars
  <2>1. UNCHANGED <<conv, messages, mClock, aCrossed, convs, aReq, aAsked>>
    BY <1>7 DEF Copilot!Midnight, Copilot!vars, Copilot!talk
  <2>2. \A p \in Request : Copilot!Talking(p)' => Copilot!Talking(p) /\ aReq'[p] = aReq[p]
    BY <2>1 DEF Copilot!Talking
  <2> QED BY <1>0, <2>1, <2>2, TalkKept
<1> QED BY <1>1, <1>2, <1>4, <1>5, <1>6, <1>7, TalkQuota, TalkQuestion, TalkAnswer, TalkReplace,
           TalkFeedback, TalkCreate DEF Copilot!Next

LEMMA CopilotStep ==
  CopilotInv /\ [Copilot!Next]_(Copilot!vars) => CopilotInv'
BY CopilotTypes, AdviceStep, TalkStep DEF CopilotInv

\* A campaign shows the last advice that was stored, all of it and nothing else,
\* unless two generations were replacing it at once (genererRecommandations).  What
\* is about to be removed is then what there is.
THEOREM AdviceReplaced == ServicesSpec => []LatestAdviceOnly
<1>1. CopilotInv => LatestAdviceOnly
  BY DEF CopilotInv, AdviceInv, LatestAdviceOnly, Copilot!LatestAdviceOnly
<1> QED BY <1>1, CopilotPart, CopilotInit, CopilotStep, PTL

\* One exchange or regeneration at a time, every question is followed at once by its
\* answer, also after a regeneration (regenererDerniereReponse), a failure in the
\* middle of an exchange, or a conversation deleted under one: the times of the
\* messages are distinct, and an answer that is replaced was the last message.
THEOREM AnswersFollow == ServicesSpec => []QuestionsThenAnswers
<1>1. CopilotInv => QuestionsThenAnswers
  BY DEF CopilotInv, TalkInv, Paired, QuestionsThenAnswers, Copilot!QuestionsThenAnswers
<1> QED BY <1>1, CopilotPart, CopilotInit, CopilotStep, PTL

-----------------------------------------------------------------------------
(* All of them.                                                            *)

\* The types of every service, through every step of each of them.
THEOREM ServicesTyped == ServicesSpec => []ServicesTypeOK
<1>1. TokenInv => Social!TypeOK
  BY DEF TokenInv, SocialTyped
<1>2. CopilotInv => Copilot!TypeOK
  BY DEF CopilotInv
<1>3. SimInv => Sim!TypeOK
  BY DEF SimInv
<1>4. MediaInv => Files!TypeOK
  BY DEF MediaInv
<1>5. QuotaInv => Quota!TypeOK
  BY DEF QuotaInv
<1>6. DemoInv => Site!TypeOK
  BY DEF DemoInv
<1>7. /\ Social!TypeOK /\ Copilot!TypeOK /\ Sim!TypeOK /\ Files!TypeOK /\ Quota!TypeOK
      /\ Rules!TypeOK /\ Engine!TypeOK /\ Site!TypeOK
      => ServicesTypeOK
  BY DEF ServicesTypeOK
<1>8. ServicesSpec => [](Social!TypeOK /\ Copilot!TypeOK)
  BY <1>1, <1>2, SocialPart, TokenInit, TokenStep, CopilotPart, CopilotInit, CopilotStep, PTL
<1>9. ServicesSpec => [](Sim!TypeOK /\ Files!TypeOK)
  BY <1>3, <1>4, SimPart, SimInit, SimStep, FilesPart, MediaInit, MediaStep, PTL
<1>10. ServicesSpec => [](Quota!TypeOK /\ Rules!TypeOK)
  BY <1>5, QuotaPart, QuotaInit, QuotaStep, RulesPart, RulesInit, RulesStep, PTL
<1>11. ServicesSpec => [](Engine!TypeOK /\ Site!TypeOK)
  BY <1>6, EnginePart, EngineInit, EngineStep, SitePart, DemoInit, DemoStep, PTL
<1> QED BY <1>7, <1>8, <1>9, <1>10, <1>11, PTL

=============================================================================
