# Liyanza backend: TLA+ models, checks and proofs

The Liyanza backend is a NestJS server (PostgreSQL through Prisma, Redis,
BullMQ) for advertising campaigns: companies plan radio, poster and digital
campaigns, launch them, collect proofs of what was installed and broadcast, and
pay for a plan through the Chariow shop. Several instances may run; every
handler is an asynchronous function that gives way at each `await`, so requests
interleave between any two accesses to the database or to Redis. There is
little locking: the code relies on `updateMany` with a condition (optimistic
locks), on unique indexes, on `prisma.$transaction` at READ COMMITTED, and on
Redis `GETDEL`. These are what the models are about.

## Inventory

Paths are under `src/src/modules/` unless they say otherwise.

| Part | State | Operations | Hard behaviours | Modules |
| --- | --- | --- | --- | --- |
| prestations | `Installation.status`, `PublicationProof` (one per installation), `StatusHistory`, link keys in Redis | submit a proof (account or link), review, change status, generate and consume links | two reviewers, stale `previousStatus`, a proof replaced while it is validated, links used twice, links burnt by a failing request | Prestations |
| auth | `User` row, Redis keys `refresh:*`, `password-reset:*`, `oauth-login-state:*`, `oauth-exchange:*` | register, login, demo login, OAuth, refresh, logout, forgot and reset password | concurrent refresh of one token, SCAN against new keys, crash after GETDEL, demo account shared by strangers | AuthSessions |
| campagnes, canaux, diffusions, monitoring | `Campaign`, `AdvertisingChannel`, `Broadcast` | create, update, launch, cancel, add channels and schedule, constat, detection webhook | check-then-write on the status, constats in parallel, replayed webhook, cancellation against a schedule being written | Campaigns |
| digital-campaigns: details, channels, simulations | details, channels, `DigitalSimulation` and its analysis | upsert, select, simulate, analyse later | two analyses of one simulation, an engine that fails between a read and a write | Campaigns, Simulations, DigitalEngine |
| digital-campaigns: performance and alerts | the link to Meta, results kept in Redis, `CampaignAlert`, `AdPerformanceObservation` | link, unlink, read and refresh, evaluate alerts, the morning job | two evaluations at once, a cache written after an unlink, rules that round | AdResults, AdRules, DigitalEngine |
| billing: webhooks | `Subscription`, `ChariowDelivery` | grant a sale, attach a licence, revoke | duplicate, concurrent, reordered and crashed deliveries | Billing |
| billing: plans | none of its own: counts against `PLAN_LIMITS` | `resolvePlan`, `assertCan...`, `requiredPlanFor` | check then create | Plans, Members |
| users, entreprises | `User.companyId`, `role`, `deactivatedAt`, invitation keys | create a company, sub-account, invite, accept, change role, deactivate | two companies for one account, an invitation lost, a plan overrun, a member moved | Members, AuthSessions (deactivate) |
| tasks and their schedulers | `Task.status`, `reminderSentAt` | create, update, close; the hourly overdue and reminder jobs | job against user, crash between the mark and the notices | Jobs |
| notifications, queue, qr-code | `Notification`, `QrCodeScan`, BullMQ jobs | enqueue, process with retries, read, scan | at-least-once delivery, stalled jobs | Jobs |
| social-accounts | `SocialAccount.status`, token, `expiryReminderSentAt`, OAuth state, sync jobs | connect, sync, disconnect, expire, the daily reminder | a sync in flight against a disconnection or a reconnection | SocialAccounts |
| assistant-ia | conversation, messages, recommendations, daily quota | create, delete, exchange, regenerate, feedback, generate advice | seconds-long calls between a read and a write | Assistant |
| simulations | `Questionnaire`, `Simulation` | create | the engine called after the first write | Simulations |
| media | `Media.status`, the object in the storage | presigned upload, confirm | two systems, an upload after the check | Media |
| public assistant, rate limiting | counters of Redis | count, block | requests in flight at the limit | Quotas |
| demo | the demo company and all it contains | reset at start and every night, under an advisory lock | instances that start, stop and fail; dates written relative to the hour of the reset | Demo; Jobs and AuthSessions for its rows and accounts |
| statistiques, social-accounts (page health), checkout | none: they read, or call a service | reads | none | not modelled |
| health, logger, mail, prisma, config | none | wiring and I/O | none | not modelled |

How they interact: by shared rows (`Campaign.status` is read by canaux,
prestations, digital-campaigns, simulations), by calls (monitoring calls
diffusions, then notifications; campagnes and users call plans), by jobs on a
queue (notifications, metrics sync, QR scans), by cron jobs (tasks, social
accounts, performance, demo), and from outside by webhooks (Chariow, the
monitoring service), links sent to people without an account, and OAuth
redirections. `PROJECT.json` lists the hazards line by line.

## Modules

| Module | What it is |
| --- | --- |
| SingleUseToken | what a token "à usage unique" promises: issued once, redeemed by one actor at most, may vanish. Abstract; theorem `RedeemedOnce` |
| Prestations | modules/prestations; its links implement SingleUseToken |
| AuthSessions | modules/auth; all its Redis keys implement SingleUseToken |
| Campaigns | a campaign from draft to end, composing campagnes, canaux, createPrestation, the digital details, diffusions and monitoring |
| Billing | the Chariow webhooks and the subscriptions they create |
| Plans | the limits of a plan and the plan of a company: pure functions of its subscriptions, its trial and the time |
| Members | companies, sub-accounts, invitations, roles, under the limits of Plans; its invitations implement SingleUseToken |
| Jobs | tasks with their two hourly jobs, the queues of notifications and of QR scans with attempts, stalls and crashes, the reset of the demo |
| AdResults | the link to a campaign of Meta, the results in Redis, the alerts and the morning job |
| AdRules | what results amount to: the comparison with the forecast and the rules of the alerts, day after day |
| DigitalEngine | the forecast of a digital campaign: three strategies, the references of the market and those measured |
| SocialAccounts | OAuth, sync, disconnection, expiry and the reminder before it |
| Assistant | the Copilot: exchanges, regeneration, quota, advice |
| Simulations | the two kinds of simulation and their rows |
| Media | presigned uploads and their confirmation |
| Quotas | the public assistant's counters and the rate limit |
| Demo | the resets of the demo and what they write |
| Background | Jobs beside AdResults |
| Services | SocialAccounts, Assistant, Simulations, Media, Quotas, AdRules, DigitalEngine and Demo beside one another |
| ...Proofs | the theorems about a module; those about Plans are in MembersProofs |
| MC... | the values TLC gives to the constants |

Common shape. A request (or a webhook worker) is an element of a set; `req[r]`
(`work[w]`, `actor[x]`) holds a program counter and what the handler has read so
far. One action runs from one `await` on the database, on Redis or on a service
to the next: a transaction is one action, unless READ COMMITTED lets others in
between its statements; a read followed by a write is two. A refusal before
anything is written changes nothing, so the request is either dropped or ends
(`Refuse`, `Abandon`); `Fail`, `Crash`, `Error`, `Throw` stop it between any two
steps. Names are those of the code (`soumettrePreuve` is `Submit`, the others
keep theirs); a `Write...` action is the write of the handler that precedes it.
Variables marked "history" keep what the code does not, to state a property; no
action reads them.

Choices worth knowing:

- Prestations keeps no clock: `Expire` removes a link at any time. Photos,
  coordinates and comments are left out, as no decision depends on them once
  they are well formed. Rights decide only whether a request is refused.
- AuthSessions has no access tokens: `JwtStrategy` reads the account again for
  each, so their content decides nothing. A refresh key carries `root`, the
  request that opened its session, which the code does not store: it is there
  to state that a session has one token. `delByPattern` follows what Redis
  promises of SCAN: keys present from start to end are returned, keys set
  meanwhile may be. The demo accounts exist from the start.
- Campaigns keeps, of the rows that make a campaign complete, only which kinds
  exist (`parts`), since they are never deleted. A detection is `onTime` or
  `late` by the 15-minute threshold. `MISSED` is in the enum and never written
  but by the demo.
- Billing counts time in months, the unit of `addMonthsUtc`; its rounding to
  the last day of a month is left out. Sales are of one company and one
  customer, the case in which they can be confused. A licence is named by the
  sale it comes from. A write that fails has not taken place.
- Members starts each request with what JwtStrategy has read of the caller; the
  role and company it goes by may be stale from then on, as in the code. A
  company's plan changes at any time (`ChangePlan`): Billing says when.
- Jobs is one API process with its workers, as `deploy/aws/docker-compose.yml`
  runs it. A job lost with its worker is given out again once, as BullMQ does
  by default with a stalled job. A job keeps what its addressee is (`to`): an
  account with a mailbox, one of the demo, or one that has been deleted. Nothing
  in src/ deletes an account, but the handler provides for it (P2003), so
  `DeleteRecipient` does. `Addressees` leaves out notifications to an address of
  the demo in another company, which `createSubAccount` lets an ADMIN enter.
- AdResults reduces the results to the problems they raise, which come and go;
  AdRules computes those from rows of days. AdRules compares ratios without
  loss and rounds to thousandths where the code rounds; without a row of Meta
  there are no totals, and clicks and conversions are null. DigitalEngine rounds
  down to tenths where the code computes with doubles; each reference of the
  market has a jitter of its own, per platform and figure.
- Media keeps, as history, which files were put after the last check
  (`replaced`) and which media two confirmations met at (`crossed`).
- SocialAccounts abstracts Meta to success, a refused token or an error, and a
  token's life to fresh, soon, past or null.
- Assistant, Simulations and AdRules leave the texts out. In Assistant a
  conversation is a set of messages with the times they were sent at, which
  `regenererDerniereReponse` orders them by; a time is the rank of a message in
  its conversation, also of one that an open transaction has not shown to the
  others yet.
- Demo is a function of the seed of a reset (its weekday, its minute and one
  draw for each broadcast) and a small state machine of instances; budgets,
  names and coordinates are left out. An instance that starts in the quarter of
  03:30 starts after it. A notice has two dates, its own and that of what it
  tells of. A scan is at the first or the last minute a draw can give.
- DigitalEngine says what a sorted array is used for: a median is a k-th least
  figure (`Ranked`), the best strategy the first one none is above (`Best`).
  `Basis` is what the budget of a channel brings, `Estimate` what a strategy
  makes of it.

## Runs

| Run | Instance | Shows |
| --- | --- | --- |
| prestations | 1 installation, 4 requests | `HistoryExplainsStatus`: the status is the one the last history row announces; `RefusalTraced`: a refused or replaced proof leaves a REJECTED row; `ProofTraced`: the history of an installation with a proof has an INSTALLED row (its present status, which the statistics count, may be another); `LinksAreSingleUse`: refinement of SingleUseToken |
| auth_sessions | a demo account, another one, 4 requests | `OneTokenPerSession`: rotation never forks a session; `RevokedSessionsStayClosed`: a reset or global logout that has answered has closed what was open; `TokensAreSingleUse`; `DemoVisitorsIndependent` |
| campaigns | 1 broadcast, 2 audio proofs, 2 request slots, 3 days | `LifecycleFollowed`, `FrozenAfterDraft`, `LaunchedIsComplete`, `ConstatIsFinal`, `OneDeviationNotice` |
| billing | 2 sales, 3 deliveries, 2 workers, 3 products, 2 months | `PeriodsContiguous`: no hole between renewals; `GrantedOnce`: replayed or duplicated sales move no period and revive nothing; `OneRevocationPerPulse` |
| members | 3 addresses, 2 companies, 2 request slots, 1 token | `OneFoundingPerUser`; `MembersWithinReach`: how far requests that pass the check together overrun a plan; `InvitationsAreSingleUse`: refinement, with the put-back of a full company |
| background | Jobs: 1 task, 1 user, 3 jobs of 2 attempts, 2 faults; AdResults: 2 campaigns of Meta, 1 request beside the morning job, 3 alerts | `OneReminder`; `NothingSilentlyLost`: a job ends done with its effect (a notification, its row and its e-mail) or stays failed, but for a recipient or a code deleted meanwhile and a password for an address of the demo; `ReadStaysRead`: a retry never makes a read notification new; `OneOpenUnlessOverlapped`; `CacheFollowsLink`; and, under fairness, `OverdueNoticed`: an overdue task does not stay open, `OutdatedAlertsClose`: the alerts of a problem that is gone are closed |
| services | the eight modules SocialAccounts, Assistant, Simulations, Media, Quotas, AdRules, DigitalEngine, Demo, 2 requests each | `OneNoticePerToken`, `RevokedUntilReconnected`: a sync on its way does not bring an account back; `LatestAdviceOnly`, `QuestionsThenAnswers`; `ConfirmedWasChecked`: a media confirmed by one request at a time has a file, the one that was checked unless another was put since; `QuotasHold`; `AlertsAgree`: an alert agrees with the page it links to; `ForecastCoherent`: the recommended strategy is the best for the objective and measured figures prevail; `PastIsPast`: whenever the demo is reset, what it writes as done lies before the reset and what it writes as to come after it; `NobodyChased`: its tasks are not chased unless a night had no reset |
| prestations_replaced | as prestations | violated: a proof validated during a resubmission is deleted |
| campaigns_cancelled | as campaigns | violated: a schedule written during a cancellation |
| campaigns_window | as campaigns | violated: two updates leave the end before the start |
| billing_overlap | as billing | violated: two sales of a plan at once overlap |
| billing_lost | as billing | violated: a delivery recorded and not processed is never processed |

Two runs hold several modules that share no state, in Background and Services:
a behaviour takes one of them (`part`) and the others stay at an initial state,
since their interleavings would add nothing. There the properties of a module
are restated under the same name. A behaviour of such a composition is one of
each of its parts (the lemmas `...Part` and `BackgroundParts` of the proofs), so
that a part is proved about by itself.

Each passing run but three has a type invariant; those of Prestations,
Campaigns and Background are theorems instead. Each property has a mutant: a variant of one
definition, next to it in the module (most are headed "Slip"), with which TLC
finds the property violated (`TakeByGet` reads a key without deleting it,
`ApplyConstatUnlocked` forgets the condition of an `updateMany`, and so on).

Bounds. Requests in Prestations and AuthSessions are spent when they end, so
their number bounds the length of a history: four are enough for a submission,
a review, a resubmission and one request racing any of them, and for an
opening, its exchange or refresh, a second refresh and a revocation. The slots
of Campaigns, Members and the services and the workers of Billing are used
again, so two of them give unbounded histories with two requests in flight,
which is what every race of this code takes. `LastDay` is 3, so that the start,
the end and today may be ordered in every way; `LastMonth` is 1, so that a
period can be granted while another runs and after it has ended. Three
deliveries are two of one sale and one of another, or a sale, its licence and
its revocation. `ProMembers` is 2 where the code has 3, and three addresses
overrun it. In Jobs, three jobs may be two in one queue beside one in the
other, two attempts are a first failure and a last one, and the clock of 0 to 2
passes the due date in the middle; `MaxRequests` and `MaxFaults` only bound how
often users and failures disturb the jobs. In AdResults three alerts are one
open, one resolved and reopened, and one in excess. In Quotas, `MaxTime` is
three half days, so that a visitor's day laps over two dates. The days of
AdRules are paused, as forecast, and bad, up to one more than the campaign has;
the figures, parameters and seeds of DigitalEngine and Demo are chosen at both
sides of each comparison of the code (MCServices names them). Symmetry is over
identifiers that the modules only compare, and is not used with liveness.

Deadlock is checked in campaigns and members, where slots come back for ever;
in the other runs the requests, the deliveries or the bounds are used up, and
the system stops.

Fairness. Only in `background`: the cron expressions fire every hour or every
morning and the BullMQ workers run as long as the process does, so the steps of
the jobs (`Find`, `Tell`, `MarkLate`, `MarkReminded`, `FindLinked`,
`Step(Daily)`) and of the workers (`Work`) are weakly fair. Nobody has to send a
request or open a page, a failure may end a job at each of its steps, and the
number of failures is bounded. Everywhere else the properties are safety
properties, and so are the violated ones.

## What does not hold

Five statements of comments, of the schema or of an error message are refuted
by runs of their own (`findings` in PROJECT.json quotes them). Others are kept
as properties with a configuration that reproduces the counterexample:

| Configuration | Property | What happens |
| --- | --- | --- |
| MCMembersMoved | `MembershipKept` | an invitation accepted while its invitee founds a company moves it out of that company, which may lose its only ADMIN (users.service.ts:262) |
| MCBackgroundOverlap | `OneOpenAlert` | two evaluations at once open the same alert twice (campaign-alerts.service.ts:115) |
| MCServicesDisagreements | `NoOrphanQuestionnaire` | the questionnaire is written before the engine is called (simulations.service.ts:89) |
| | `FileNeverLost` | two confirmations and an upload between them: one accepts the file, the other removes it (media.service.ts:114) |
| | `ConfirmedIsGood` | the client puts another file with the same URL after HeadObject: a confirmed media has a file of any size and type (media.service.ts:97-99) |
| | `OneAdvice` | two generations of advice remove the former one and both store theirs (assistant-ia.service.ts:560) |
| | `FreshTokenCanBeReminded` | the daily job marks by id an account that has just been reconnected |
| | `AnalysisStays` | two requests analyse one simulation, the second analysis replaces the first |
| | `DemoNeverChased` | after a night without a reset, an instance that starts later in the morning keeps the data, and the task due that day is chased (demo.service.ts:653-654) |
| | `NoticesFollow` | at the reset of 03:30 the notices of the proof, the refusal and the approval are dated hours before what they tell of (demo.service.ts:459-465, 720-759); from 08:17 on they are not |
| | `ScansFollow` | scans are drawn over the last eight days for each panel, one of which was posed during them (demo.service.ts:550-553); with the draws of the code, five of the 31 scans of Bastos come before |
| | `DemoAnalysisFits` | the analysis written by hand for the demo recommends strategy A, the engine recommends B (demo.service.ts:863-864) |

The last file lists all its properties; keep one line at a time.

## Proofs

`SingleUseToken!RedeemedOnce`: whatever the tokens and the actors, no token is
redeemed twice. The inductive invariant adds `Gone`: a redeemed token has been
issued and is no longer live, so it can neither be redeemed nor issued again.

`PrestationsProofs`, for every set of installations and requests, from the
assumption that `None` is none of the values it stands beside:

- `TypeCorrect`: `TypeOK`, which needs to know (`ReqOK`) that a request past its
  reads has read something.
- `HistoryCorrect`, `RefusalsTraced`, `ProofsTraced`: from one inductive
  invariant `IInv`. The three properties are not inductive: a writer relies on
  a status or a proof it read earlier. What makes them inductive is that history
  only grows, so what was true of it at the read still is: `ReadStatusTraced`
  (the status a request carries was announced by some row, or is PLANNED),
  `ReadProofTraced` (a refused proof it carries has its REJECTED row), and
  `AuthorsDone` (the request that made a proof has ended). The lemmas
  `StepTraces`, `StepProof` and `ChangeStatusTraces` say what any step does to
  history and proofs; the preservation proofs have one case per action.
- `LinksRefine`: every step maps to a step of SingleUseToken or a stutter. With
  `RedeemedOnce` it follows that a `jti` is accepted from one request.

`CampaignsProofs`, for every set of broadcasts, requests and audio proofs and
every calendar of two days or more, from the assumption that `None` is none of
the values it stands beside:

- `TypeCorrect`, `LaunchComplete`, `NoticeOnce`: from one inductive invariant
  `IInv`, in two halves that no action disturbs together. `LaunchInv`: a launch
  in flight asks for a legal transition from the status it read, and one that
  plans a draft has had its parts counted (`LaunchChecked`); parts are never
  lost, so the count still holds when the status is written.
  `ConstatNoticeInv`: a dated row is BROADCASTED (`DatedIsBroadcast`, without
  which a cancellation could take it for one still to come), and a notice is
  owed by one request at most, of a row that is dated late and has had none
  (`NoticeDue`): only the winner of the null date owes one. `LaunchKept` and
  `ConstatKept` are the frame lemmas of the actions that touch neither.
- `Lifecycle`, `ConstatFinal`: action properties, from `IInv` and the guards of
  the two updateMany (`StepLifecycle`, `StepFinal`). `Frozen` needs no
  invariant: the guard is in the write itself.

The two properties of a campaign the code does not have
(`CancelledHasNoPlanned`, `WindowOrdered`) have no theorem, of course.

`MembersProofs`, for every set of addresses, companies, requests and tokens, and
every value of the limits of FREE and PRO that `LimitsAssumption` allows:

- `RequiredPlanLifts` and `PaymentNeverRestricts`, about Plans: the plan that is
  proposed when a limit is reached has more room for what was refused, and a
  subscription more never tightens a limit, by way of `HigherIsWider` and
  `SubscriptionNeverLowers`.
- `TypeCorrect`: a request reads rows of accounts by the addresses it carries,
  so typing needs `NamesKnown`: an account that a request or an invitation names
  has a row. `Locals` says what a request holds where it is; `ReadTyped` and
  `RowTyped` are the frames of the requests that read and of those that write
  one row.
- `FoundedOnce`: two requests in flight are both let in by a null `companyId`;
  the invariant `FoundersBelong` says that a founder belongs to some company for
  good (`RowKept`), and the transaction looks at `companyId` again.
- `InvitationsRefine`: with `HeldOnce` (a token is under its key or in the hands
  of one request), an acceptance and its put-back are stutters, a request that
  ends without effect drops its token, and the write of the member redeems it.
- `WithinReach`: for finite sets of addresses and requests, by counting. A
  request adds a member it was admitted for (`OneForOne`), and is admitted only
  below the limit. `CompaniesKnown` is there for the founding of a company: no
  account, request or invitation names one that has no row yet.

`BillingProofs`, for every set of workers and products and finite sets of sales
and deliveries:

- `TypeCorrect`: with `WorkKnown` (what a worker is about to write goes to a row
  that exists, for a Pulse that was sent). That the row it chose exists is
  `LatestIn`, from `Highest`: finitely many rows have a latest one, by
  well-founded descent on the sets of rows above each of them.
- `OneGrant`: only the three writes touch the rows (`Writers`), and
  `GrantWrites` and `OtherWrites` say what each leaves alone; `RowsKept` follows.
- `Contiguous`: the invariant `Spaced` says of a worker between the aggregate
  and the insertion that its start is the month it read, or still the end of a
  granted period of that plan (`LatestEndFrom`): a revocation in between changes
  a status and no date.
- `OneRevocation`: by counting. `Alone`: one worker at a time holds the row of a
  delivery, thanks to the unique id; `Spent` are the revocations received on
  which nobody will act any more. The worker that revokes spends its delivery
  (`RevocationSpent`), so the revoked rows are no more than the spent Pulses,
  also when a retry follows a failure.

`AuthSessionsProofs`, for every set of addresses, demo accounts and requests:

- `TypeCorrect`: with `Sound` (a request that will write to an account names one
  that exists; one that closes sessions is not about the demo).
- `Shapes` reduces the 27 actions to five: one that only drops keys (`Quiet`),
  one that sets a key, one that takes a key, the issue of a refresh token and
  the start of a SCAN. Everything below has one case for each of them.
- `TokensRefine`: from `TokensIssued` and `KeysNamed` (a key is named by a
  request that is past setting another one, so no key is set twice).
- `NeverForked`: of a session there is either one key or one request on its way
  to the next (`OneLine`). Refresh turns the key into the request and the issue
  turns it back.
- `RevocationFinal`: when a SCAN begins, the keys it sees are all there is of
  their sessions, by `OneLine`; `NothingRevived` says that something else of one
  can only come from a request that took that key.
- `DemoShared`: only DeleteBatch removes several keys, and by `Sound` its user
  is not of the demo.

`BackgroundProofs`, for every set of tasks, users, jobs, campaigns of Meta,
requests and kinds of alerts and every bound on time, attempts and faults, from
the assumption that `None` is no task, job or row. About Jobs:

- `TypeCorrect`: a crash stalls the job under way and ends the runs; `Types`
  and the `...Fields` lemmas say what each step leaves alone.
- `RemindedOnce`: `RunOpen` says that what the run under way still has to tell
  has not been told, and that its tasks, once it has marked them, are marked or
  gone; `Unmarked`, that of a task without a mark nobody has been told. An
  update leaves the mark, and an identifier is never drawn twice, so the tasks
  a later run finds are none of those. After a crash what was left is dropped,
  not told again.
- `NothingLost`: by `EffectInv` a job that is done has had its effect, unless
  there was nothing to do (`NothingToDo`: the recipient is gone, the password is
  for an address of the demo, the code was deleted), and none of these is undone
  later (`GoneFields`, `EffectKept`). The effect of a notification is counted
  with its e-mail, after its row (`EffectDone`), and stays through any stall.
- `ReadForGood`: an action property that needs types only: the one step of
  the queue that writes a row creates it or leaves it (`update: {}`).

About AdResults, by itself in the `Ads!` instance of Background:

- `BackgroundTyped`: the types of both. What an evaluation has read open is of
  its kind until it is resolved (`AdLocal`, `AdActorTyped`), as an identifier
  is drawn again only when nobody holds it.
- `OneAlert`: unless two evaluations overlap, what the one under way has read
  open is what is open (`ReadAsOpen`), and after it has closed what is gone,
  what it will raise is open only if it has read it (`RaisedOnce`).
- `CacheCurrent`: unless a change of the link crossed a reading, whoever goes by
  a link goes by the one there is (`GoesByTheLink`), and results of another
  campaign are about to be deleted (`OthersDeleted`).

`ServicesProofs`, for every set of accounts, tokens, requests, visitors, media
and instances and every value of limits and bounds, from the assumptions of
Services: bounds and limits are natural numbers, the requests and the linked
campaigns are finite, what Meta counts and the forecast are counts, a campaign
has a duration and a budget, the parameters of a simulation are what its dto
lets through (an objective and platforms there are, one channel at least, a
jitter within 8 % for each figure), a seed is a weekday, a minute of a day and draws in
thousandths, and `None` is none of the values it stands beside:

- `ServicesTyped`: the types of the eight services.
- `NoticedOnce`, `RevokedStays`, about SocialAccounts: a token is in the hands
  of one request, then on one account, and comes back neither to a request nor
  to another account (`HeldOnce`, `LinkedOnce`). So the account that still has
  a token users were warned of is marked (`WarnedMarked`), as is the one the
  daily job is about to warn of (`FoundOnce`), and one that users are told has
  expired is active no more (`ToldExpired`): no later run or retry finds it.
  `RevokedStays` is an action property: a new authorization brings a token that
  the account has not had.
- `AdviceReplaced`, about Assistant: `StoreSeesAll`, what is about to be
  removed is all there is, as long as one generation at a time stores.
- `AnswersFollow`: `TalkInv`. Times and numbers of messages name them (`Timed`,
  `Numbered`), the question of an open transaction is the last message
  (`AnswerNext`), nothing follows the question whose answer is being generated
  again but that answer (`AgainLast`, from `LastAnswer`), and a request holds
  the number of the conversation it began in (`InConversation`), so that in one
  created meanwhile it writes nothing. With these, that every message has its
  counterpart (`Paired`) is inductive: one lemma for each kind of step.
- `ConfirmedKept`, about Media: unless two confirmations of it met, what one
  has found good is there, or what the client has put since (`GoodIsThere`), and
  a media somebody confirms is pending (`ConfirmedByNone`): the file of a
  confirmed one is not removed any more, and not replaced but by its client.
- `QuotasKept`, about Quotas, by counting: what a visitor has been given and
  the requests past its counter (`Pending`, finite) stay within the days it has
  begun on that date (`Taken`), the former one counted in the second half of
  the date only; the tracker has passed what it has counted, up to the limit.
- `AlertsTrue`, about AdRules: the totals are counts (`TotalNat`, by the least
  element of a set of indices), a ratio of 0.67 rounded to thousandths is below
  0.85 (`RatioBelow`), so that what an alert finds low is shown behind.
- `ForecastKept`, about DigitalEngine, for any campaigns and any parameters:
  - The strategy recommended is the best for the objective, although the
    choice goes by rounded scores, which are the same for two results of nearly
    the same size. What excludes this is the distance of the
    strategies. Their figures are parts of the same sums (`PlanPortions`), and
    no rounding of two channels brings the leader and another one closer than
    79 to 80 unless they are equal (`Lead`, then `ReachApart`, `ClicksApart`
    and `ConversionsApart`); `BestScores` says that scores tell such results
    apart.
  - The weeks add up to the total but for two units (`WeeksAddUp`).
  - An estimate with the costs of the account uses no reference, and the one
    of Instagram never does (`OwnFiguresFirst`).
  - `SumUnfolds` gives a sum over channels or weeks as the sum of its terms.
    A median of counts is a count (`RankedNat`: among finitely many rows there
    is a k-th least figure), so that an estimate is one (`BasisNat`).
- About Demo, for any seeds and instances:
  - `DemoWritten`: what a reset writes fits its moment (`SeedsHold`). The
    broadcasts of a plan
    follow one another, within the days of the campaign and at least one on
    each (`DaysHold`, day after day by `DaysAppended`, for the whole plan by
    `DaysFlattened`, by way of the shortest plan that would fail), so that
    those heard before the reset come first (`PastFirst`) and the late and the
    missed one have been there before any reset (`PlansKnown`). The notices,
    the posters and the scans follow from the dates (`NoticesHold`, `SitesHold`).
  - `DemoLeftAlone`: nothing is chased without a missed night: then the data
    are as old as the time since midnight (`AgeHolds`), and only an instance
    that is up resets (`UpWorks`).

Every invariant and every action property that a passing run checks is stated by
a theorem, and so are the types of the three modules whose runs check none. Only model-checked are `OverdueNoticed` and `OutdatedAlertsClose`:
liveness under fairness is beyond the prover, like ENABLED. Sums and flattened
sequences are functions on finite sets and lengths, so that facts about all of
them are proved by the least counterexample instead of an induction over data.

## Not modelled

- social-accounts/page-health: scores computed from one answer of Meta when a
  page is opened; nothing is kept.
- statistiques: sums of rows, read once per request.
- the checkout and the usage page of billing: one call to Chariow, or counts;
  neither writes.
- health, logger, mail, prisma, configuration, the exception filter, the
  controllers and their validation: wiring, I/O and formats. What a dto refuses
  bounds the inputs of the models (a non-empty list of assignees, for instance).
- texts: prompts, e-mails, the wording of analyses and of the demo.
- Deleting tasks and comments of tasks, the fields of profiles, distances and
  metadata of photos, ROAS and engagement rate, the drawing of QR codes: nothing
  the modules decide depends on them.
- several API processes at once in Jobs, AdResults and the daily job of
  SocialAccounts: the deployment has one. Two could remind or warn twice.
