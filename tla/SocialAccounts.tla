--------------------------- MODULE SocialAccounts ---------------------------
(***************************************************************************)
(* The Facebook and Instagram accounts a company links: the OAuth flow     *)
(* with Meta (social-accounts.service), the queue `social-metrics-sync'    *)
(* and its processor, and the daily warning before a token expires.        *)
(*                                                                         *)
(* A Grant is one authorization: its `state' key in Redis and, when Meta   *)
(* has exchanged the code, the token it gave.  Meta may refuse a token at  *)
(* any time, whatever its expiry date.  One worker, one job at a time.     *)
(* The metrics decide nothing here; the page statistics read beside them   *)
(* (page-health.service) change no account.                                *)
(***************************************************************************)
EXTENDS Integers, FiniteSets

CONSTANTS Account, Request, Grant, None,
          MaxAttempts,         \* attempts of QueueModule: 3 in the code
          MaxJobs, MaxFaults   \* bounds of the model

\* tokenExpiresAt, seen from now: further than SOCIAL_TOKEN_EXPIRY_WARNING_WINDOW_DAYS,
\* within it, behind, or null.
Life == {"fresh", "soon", "past", "null"}
Status == {"ACTIVE", "EXPIRED", "REVOKED"}
Row == [status : Status, token : Grant, reminded : BOOLEAN]
JobId == 1..MaxJobs
Idle == [pc |-> "idle"]

VARIABLES
  acct,      \* the SocialAccount row, or None
  state,     \* the states that Redis holds
  life,      \* None until Meta has given the token
  dead,      \* the tokens Meta refuses (error 190)
  req,       \* what each request is at
  drawn,     \* the states drawn so far
  sync,      \* the jobs of the queue, or None
  worker,    \* the job it has, with the account and the token it has read
  cron,      \* checkExpiringSocialAccounts
  faults,    \* faults so far: bounds the model
  warned, told   \* history: the notices about a token, before and after it expired

notices == <<warned, told>>
queue == <<sync, worker>>
oauth == <<state, drawn, req>>
tokens == <<life, dead>>
vars == <<acct, oauth, tokens, queue, cron, faults, notices>>

Local ==
  {Idle} \cup [pc : {"exchange"}, grant : Grant]
         \cup [pc : {"upsert"}, grant : Grant, account : Account]
         \cup [pc : {"queue"}, account : Account]

TypeOK ==
  /\ acct \in [Account -> Row \cup {None}]
  /\ state \subseteq drawn /\ drawn \subseteq Grant
  /\ life \in [Grant -> Life \cup {None}]
  /\ dead \subseteq {g \in Grant : life[g] # None}
  /\ req \in [Request -> Local]
  /\ sync \in [JobId -> [account : Account, tries : 0..(MaxAttempts - 1)] \cup {None}]
  /\ worker \in {Idle} \cup [pc : {"call", "expire"}, job : JobId,
                             account : Account, token : Grant]
                       \cup [pc : {"tell"}, job : JobId, account : Account,
                             token : Grant]
  /\ cron \in {Idle} \cup [pc : {"found", "tell"}, left : SUBSET (Account \X Grant)]
  /\ faults \in 0..MaxFaults
  /\ warned \in [Grant -> 0..2] /\ told \in [Grant -> 0..2]
  /\ \A a \in Account : acct[a] # None => life[acct[a].token] # None

Init ==
  /\ acct = [a \in Account |-> None]
  /\ state = {} /\ drawn = {}
  /\ life = [g \in Grant |-> None] /\ dead = {}
  /\ req = [r \in Request |-> Idle]
  /\ sync = [j \in JobId |-> None]
  /\ worker = Idle
  /\ cron = Idle
  /\ faults = 0
  /\ warned = [g \in Grant |-> 0] /\ told = [g \in Grant |-> 0]

-----------------------------------------------------------------------------

At(r, p) == req[r].pc = p
Becomes(r, q) == req' = [req EXCEPT ![r] = q]
Is(a, s) == acct[a] # None /\ acct[a].status = s
Fault == faults < MaxFaults /\ faults' = faults + 1
Twice(n) == IF n < 2 THEN n + 1 ELSE n

\* addJob of the queue, in a slot no job has.
AddJob(a) ==
  \E j \in JobId :
    /\ sync[j] = None
    /\ \A k \in 1..(j - 1) : sync[k] # None
    /\ sync' = [sync EXCEPT ![j] = [account |-> a, tries |-> 0]]

-----------------------------------------------------------------------------
(* The tokens and Meta.                                                    *)

Age(g) ==
  /\ life[g] \in {"fresh", "soon"}
  /\ life' = [life EXCEPT ![g] = IF @ = "fresh" THEN "soon" ELSE "past"]
  /\ UNCHANGED <<acct, oauth, dead, queue, cron, faults, notices>>

Invalidate(g) ==
  /\ life[g] # None /\ g \notin dead
  /\ dead' = dead \cup {g}
  /\ UNCHANGED <<acct, oauth, life, queue, cron, faults, notices>>

-----------------------------------------------------------------------------
(* startOAuth and handleOAuthCallback                                      *)

StartOAuth(g) ==
  /\ g \notin drawn
  /\ state' = state \cup {g}
  /\ drawn' = drawn \cup {g}
  /\ UNCHANGED <<acct, req, tokens, queue, cron, faults, notices>>

\* The TTL of 15 minutes, or a callback without a code, which burns its state.
Expire(g) ==
  /\ g \in state
  /\ state' = state \ {g}
  /\ UNCHANGED <<acct, drawn, req, tokens, queue, cron, faults, notices>>

\* GETDEL of the state, with a code.
Callback(r, g) ==
  /\ At(r, "idle") /\ g \in state
  /\ state' = state \ {g}
  /\ Becomes(r, [pc |-> "exchange", grant |-> g])
  /\ UNCHANGED <<acct, drawn, tokens, queue, cron, faults, notices>>

\* The long-lived token, and the account Meta says it is for.
Exchange(r, a) ==
  LET g == req[r].grant IN
  /\ At(r, "exchange")
  /\ \E l \in {"fresh", "null"} : life' = [life EXCEPT ![g] = l]
  /\ Becomes(r, [pc |-> "upsert", grant |-> g, account |-> a])
  /\ UNCHANGED <<acct, state, drawn, dead, queue, cron, faults, notices>>

\* The row, whatever it was: the token replaced, ACTIVE again, no reminder sent.
Upsert(r) ==
  LET a == req[r].account IN
  /\ At(r, "upsert")
  /\ acct' = [acct EXCEPT ![a] =
       [status |-> "ACTIVE", token |-> req[r].grant, reminded |-> FALSE]]
  /\ Becomes(r, [pc |-> "queue", account |-> a])
  /\ UNCHANGED <<state, drawn, tokens, queue, cron, faults, notices>>

\* The first sync, or that of triggerSync.
QueueSync(r) ==
  /\ At(r, "queue")
  /\ AddJob(req[r].account)
  /\ Becomes(r, Idle)
  /\ UNCHANGED <<acct, state, drawn, tokens, worker, cron, faults, notices>>

\* Meta or the queue fails: the answer is an error, even if the account is linked.
Abandon(r) ==
  /\ ~At(r, "idle")
  /\ Becomes(r, Idle)
  /\ UNCHANGED <<acct, state, drawn, tokens, queue, cron, faults, notices>>

-----------------------------------------------------------------------------
(* revoke and triggerSync                                                  *)

\* The read before decides nothing the condition of the write does not.
Revoke(a) ==
  /\ acct[a] # None /\ acct[a].status # "REVOKED"
  /\ acct' = [acct EXCEPT ![a].status = "REVOKED"]
  /\ UNCHANGED <<oauth, tokens, queue, cron, faults, notices>>

TriggerSync(r, a) ==
  /\ At(r, "idle") /\ Is(a, "ACTIVE")
  /\ Becomes(r, [pc |-> "queue", account |-> a])
  /\ UNCHANGED <<acct, state, drawn, tokens, queue, cron, faults, notices>>

-----------------------------------------------------------------------------
(* SocialMetricsSyncProcessor                                              *)

Done(j) == sync' = [sync EXCEPT ![j] = None] /\ worker' = Idle

\* An account that is no longer ACTIVE: nothing to do.
Process(j) ==
  /\ worker = Idle /\ sync[j] # None
  /\ LET a == sync[j].account IN
       IF Is(a, "ACTIVE")
       THEN /\ worker' = [pc |-> "call", job |-> j, account |-> a,
                          token |-> acct[a].token]
            /\ UNCHANGED sync
       ELSE Done(j)
  /\ UNCHANGED <<acct, oauth, tokens, cron, faults, notices>>

\* Meta answers with the token read before; the metrics are stored.
Store ==
  /\ worker.pc = "call" /\ worker.token \notin dead
  /\ Done(worker.job)
  /\ UNCHANGED <<acct, oauth, tokens, cron, faults, notices>>

Refuse ==
  /\ worker.pc = "call" /\ worker.token \in dead
  /\ worker' = [worker EXCEPT !.pc = "expire"]
  /\ UNCHANGED <<acct, oauth, tokens, sync, cron, faults, notices>>

\* Slip: the update by id alone.
MarkExpiredAlways ==
  /\ worker.pc = "expire"
  /\ acct' = [acct EXCEPT ![worker.account].status = "EXPIRED"]
  /\ worker' = [worker EXCEPT !.pc = "tell", !.token = acct[worker.account].token]
  /\ UNCHANGED <<oauth, tokens, sync, cron, faults, notices>>

\* markExpiredAndNotify: where the status is still ACTIVE, whatever the token is
\* by now.
MarkExpired ==
  LET a == worker.account IN
  /\ worker.pc = "expire"
  /\ IF Is(a, "ACTIVE")
     THEN /\ acct' = [acct EXCEPT ![a].status = "EXPIRED"]
          /\ worker' = [worker EXCEPT !.pc = "tell", !.token = acct[a].token]
          /\ UNCHANGED sync
     ELSE /\ Done(worker.job)
          /\ UNCHANGED acct
  /\ UNCHANGED <<oauth, tokens, cron, faults, notices>>

TellExpired ==
  /\ worker.pc = "tell"
  /\ told' = [told EXCEPT ![worker.token] = Twice(@)]
  /\ Done(worker.job)
  /\ UNCHANGED <<acct, oauth, tokens, cron, faults, warned>>

\* Slip: one attempt too many.
RetryOnceMore(j) == [j EXCEPT !.tries = @ + 1]

\* BullMQ's attempts; a job that has failed is not taken again.
Retry(j) == IF j.tries + 1 < MaxAttempts THEN [j EXCEPT !.tries = @ + 1] ELSE None

\* Any other error is thrown again, and the job retried until it has failed.
Throw ==
  /\ worker # Idle
  /\ Fault
  /\ worker' = Idle
  /\ sync' = [sync EXCEPT ![worker.job] = Retry(@)]
  /\ UNCHANGED <<acct, oauth, tokens, cron, notices>>

-----------------------------------------------------------------------------
(* checkExpiringSocialAccounts, every day                                  *)

Expiring(a) ==
  /\ Is(a, "ACTIVE")
  /\ life[acct[a].token] = "soon"
  /\ ~acct[a].reminded

Find ==
  LET found == {a \in Account : Expiring(a)} IN
  /\ cron = Idle /\ found # {}
  /\ cron' = [pc |-> "found", left |-> {<<a, acct[a].token>> : a \in found}]
  /\ UNCHANGED <<acct, oauth, tokens, queue, faults, notices>>

\* Slip: the accounts are told of, and never marked.
MarkNone ==
  /\ cron.pc = "found"
  /\ cron' = [cron EXCEPT !.pc = "tell"]
  /\ UNCHANGED <<acct, oauth, tokens, queue, faults, notices>>

\* expiryReminderSentAt, by id: an account reconnected since is marked too.
Mark ==
  LET found == {p[1] : p \in cron.left} IN
  /\ cron.pc = "found"
  /\ acct' = [a \in Account |->
                IF a \in found THEN [acct[a] EXCEPT !.reminded = TRUE] ELSE acct[a]]
  /\ cron' = [cron EXCEPT !.pc = "tell"]
  /\ UNCHANGED <<oauth, tokens, queue, faults, notices>>

Warn ==
  /\ cron.pc = "tell"
  /\ \E p \in cron.left :
       /\ warned' = [warned EXCEPT ![p[2]] = Twice(@)]
       /\ cron' = IF cron.left = {p} THEN Idle ELSE [cron EXCEPT !.left = @ \ {p}]
  /\ UNCHANGED <<acct, oauth, tokens, queue, faults, told>>

\* The process stops: the daily job and the requests end there, and the job at
\* work is given out again.
Crash ==
  /\ Fault
  /\ cron' = Idle /\ worker' = Idle
  /\ req' = [r \in Request |-> Idle]
  /\ UNCHANGED <<acct, state, drawn, tokens, sync, notices>>

-----------------------------------------------------------------------------

Next ==
  \/ \E g \in Grant : Age(g) \/ Invalidate(g) \/ StartOAuth(g) \/ Expire(g)
  \/ \E r \in Request :
       \/ Upsert(r) \/ QueueSync(r) \/ Abandon(r)
       \/ \E g \in Grant : Callback(r, g)
       \/ \E a \in Account : Exchange(r, a) \/ TriggerSync(r, a)
  \/ \E a \in Account : Revoke(a)
  \/ \E j \in JobId : Process(j)
  \/ Store \/ Refuse \/ MarkExpired \/ TellExpired \/ Throw
  \/ Find \/ Mark \/ Warn \/ Crash

Spec == Init /\ [][Next]_vars

-----------------------------------------------------------------------------

\* "une seule relance par compte tant qu'il n'est pas reconnecté", and of
\* markExpiredAndNotify: "ne pas notifier une seconde fois".  Whatever crashes or
\* is retried, nobody is told twice that a token will expire, or has.
OneNoticePerToken == \A g \in Grant : warned[g] <= 1 /\ told[g] <= 1

\* A sync that was on its way when the account was disconnected cannot bring it
\* back, as expired: only a new authorization takes an account out of REVOKED.
RevokedUntilReconnected ==
  [][\A a \in Account : Is(a, "REVOKED") =>
       acct'[a].status = "REVOKED" \/ acct'[a].token # acct[a].token]_vars

\* "Remis à `null` lors d'une reconnexion": an account that has just been given a
\* token with its life before it counts as not reminded yet.
FreshTokenCanBeReminded ==
  \A a \in Account : acct[a] # None /\ life[acct[a].token] = "fresh" => ~acct[a].reminded

=============================================================================
