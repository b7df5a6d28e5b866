------------------------------- MODULE Billing -------------------------------
(***************************************************************************)
(* Purchases of a company (modules/billing, ChariowWebhookService).        *)
(* Chariow, the shop, tells of a sale, of its licence and of the licence's *)
(* revocation by signed webhooks (Pulses).  It sends a Pulse again, under  *)
(* the same delivery id, until it gets a 200, and may do so while an       *)
(* earlier attempt is still running; it orders nothing.                    *)
(*                                                                         *)
(* A Worker handles one webhook at a time and is cut where it awaits the   *)
(* database.  The database runs transactions READ COMMITTED, so the read   *)
(* and the write inside grantSale's transaction are two steps.  All sales  *)
(* here are of one company and one customer, which is when they can be     *)
(* mistaken for one another; Pulses without effect (test, bad signature,   *)
(* unknown product or company) are left out.                               *)
(***************************************************************************)
EXTENDS Integers, FiniteSets

CONSTANTS Sale,
          Delivery,      \* delivery ids
          Worker,
          Product,       \* the products on sale
          LastMonth,     \* the bound of the calendar
          None

Months == [PRO_MONTHLY |-> 1, PRO_YEARLY |-> 12, BUSINESS_MONTHLY |-> 1,
           BUSINESS_YEARLY |-> 12]
Plan == [PRO_MONTHLY |-> "PRO", PRO_YEARLY |-> "PRO",
         BUSINESS_MONTHLY |-> "BUSINESS", BUSINESS_YEARLY |-> "BUSINESS"]

ASSUME ProductAssumption == Product \subseteq DOMAIN Months

ASSUME MonthAssumption == LastMonth \in Nat

ASSUME FiniteAssumption == IsFiniteSet(Sale) /\ IsFiniteSet(Delivery)

Event == {"successful.sale", "license.issued", "license.revoked"}
Pulse == [event : Event, sale : Sale]

\* A licence is named by the sale it belongs to.  `rank` orders createdAt,
\* `month` is the month the row was created in.
Row == [status : {"ACTIVE", "REVOKED"}, startsAt : Nat, expiresAt : Nat,
        license : Sale \cup {None}, rank : Nat, month : Nat]

ASSUME NoneAssumption == None \notin Sale \cup Pulse \cup Row

VARIABLES
  product,       \* what each sale bought
  sent,          \* the Pulse behind each delivery id, or None
  acked,         \* the deliveries Chariow has a 200 for
  today,
  delivery,      \* the ChariowDelivery rows
  row,           \* the Subscription row of each sale, or None
  work           \* what each worker has read

chariow == <<product, sent, acked>>
vars == <<product, sent, acked, today, delivery, row, work>>

Idle == [pc |-> "idle"]
Local ==
  {Idle}
  \cup [pc : {"process", "answer", "forget"}, d : Delivery]
  \cup [pc : {"grant"}, d : Delivery, startsAt : Nat, month : Nat]
  \cup [pc : {"attach", "revoke"}, d : Delivery, target : Sale]

TypeOK ==
  /\ product \in [Sale -> Product]
  /\ sent \in [Delivery -> Pulse \cup {None}]
  /\ acked \subseteq Delivery
  /\ today \in Nat
  /\ delivery \subseteq Delivery
  /\ row \in [Sale -> Row \cup {None}]
  /\ work \in [Worker -> Local]

Init ==
  /\ product \in [Sale -> Product]
  /\ sent = [d \in Delivery |-> None]
  /\ acked = {}
  /\ today = 0
  /\ delivery = {}
  /\ row = [s \in Sale |-> None]
  /\ work = [w \in Worker |-> Idle]

-----------------------------------------------------------------------------

At(w, p) == work[w].pc = p

Becomes(w, q) == work' = [work EXCEPT ![w] = q]

GoTo(w, p) == Becomes(w, [pc |-> p, d |-> work[w].d])

PulseOf(w) == sent[work[w].d]

Handles(w, e) == At(w, "process") /\ PulseOf(w).event = e

Granted == {s \in Sale : row[s] # None}

Active == {s \in Granted : row[s].status = "ACTIVE"}

\* orderBy createdAt desc, the first.
Latest(S) == CHOOSE s \in S : \A t \in S : row[t].rank <= row[s].rank

-----------------------------------------------------------------------------
(* handle                                                                  *)

Send(d, p) ==
  /\ sent[d] = None
  /\ sent' = [sent EXCEPT ![d] = p]
  /\ UNCHANGED <<product, acked, today, delivery, row, work>>

ReceiveAlways(w, d) ==
  /\ At(w, "idle") /\ sent[d] # None /\ d \notin acked
  /\ delivery' = delivery \cup {d}
  /\ Becomes(w, [pc |-> "process", d |-> d])
  /\ UNCHANGED <<chariow, today, row>>

\* chariowDelivery.create: an id already there is answered as a duplicate.
Receive(w, d) ==
  /\ At(w, "idle") /\ sent[d] # None /\ d \notin acked
  /\ delivery' = delivery \cup {d}
  /\ Becomes(w, [pc |-> IF d \in delivery THEN "answer" ELSE "process",
                 d |-> d])
  /\ UNCHANGED <<chariow, today, row>>

Answer(w) ==
  /\ At(w, "answer")
  /\ acked' = acked \cup {work[w].d}
  /\ Becomes(w, Idle)
  /\ UNCHANGED <<product, sent, today, delivery, row>>

\* The database answers an error while the Pulse is processed; the write it
\* was asked for has then not taken place.
Error(w) ==
  /\ work[w].pc \in {"process", "grant", "attach", "revoke"}
  /\ GoTo(w, "forget")
  /\ UNCHANGED <<chariow, today, delivery, row>>

\* The catch clause; the deletion's own failure is swallowed (ForgetFails).
Forget(w) ==
  /\ At(w, "forget")
  /\ delivery' = delivery \ {work[w].d}
  /\ Becomes(w, Idle)
  /\ UNCHANGED <<chariow, today, row>>

ForgetFails(w) ==
  /\ At(w, "forget")
  /\ Becomes(w, Idle)
  /\ UNCHANGED <<chariow, today, delivery, row>>

\* The process dies and comes back: the worker forgets, the database does not.
Crash(w) ==
  /\ ~At(w, "idle")
  /\ Becomes(w, Idle)
  /\ UNCHANGED <<chariow, today, delivery, row>>

-----------------------------------------------------------------------------
(* grantSale                                                               *)

LatestEndOfAnyPlan(plan) ==
  LET Ends == {row[s].expiresAt : s \in Active}
  IN  IF Ends = {} THEN 0 ELSE CHOOSE e \in Ends : \A f \in Ends : f <= e

\* The latest end among the active periods of that plan.
LatestEnd(plan) ==
  LET Ends == {row[s].expiresAt : s \in {t \in Active : Plan[product[t]] = plan}}
  IN  IF Ends = {} THEN 0 ELSE CHOOSE e \in Ends : \A f \in Ends : f <= e

\* A sale already granted needs nothing; otherwise the aggregate that opens
\* the transaction decides when the period starts.
ReadLatestEnd(w) ==
  LET s == PulseOf(w).sale
      end == LatestEnd(Plan[product[s]])
  IN
  /\ Handles(w, "successful.sale")
  /\ IF s \in Granted
     THEN GoTo(w, "answer")
     ELSE Becomes(w, [pc |-> "grant", d |-> work[w].d, month |-> today,
                      startsAt |-> IF end > today THEN end ELSE today])
  /\ UNCHANGED <<chariow, today, delivery, row>>

NewRowWithoutNull(w) ==
  [status |-> "ACTIVE", startsAt |-> work[w].startsAt,
   expiresAt |-> work[w].startsAt + Months[product[PulseOf(w).sale]],
   license |-> "", rank |-> Cardinality(Granted), month |-> work[w].month]

NewRow(w) ==
  [status |-> "ACTIVE", startsAt |-> work[w].startsAt,
   expiresAt |-> work[w].startsAt + Months[product[PulseOf(w).sale]],
   license |-> None, rank |-> Cardinality(Granted), month |-> work[w].month]

WriteGrantAgain(w) ==
  /\ At(w, "grant")
  /\ row' = [row EXCEPT ![PulseOf(w).sale] = NewRow(w)]
  /\ GoTo(w, "answer")
  /\ UNCHANGED <<chariow, today, delivery>>

\* chariowSaleId is unique: a sale that another delivery has granted meanwhile
\* is P2002, and done.
WriteGrant(w) ==
  /\ At(w, "grant")
  /\ row' = IF PulseOf(w).sale \in Granted THEN row
            ELSE [row EXCEPT ![PulseOf(w).sale] = NewRow(w)]
  /\ GoTo(w, "answer")
  /\ UNCHANGED <<chariow, today, delivery>>

-----------------------------------------------------------------------------
(* attachLicense (license.issued and license.activated), revokeLicense     *)

HasLicense(k) == {s \in Granted : row[s].license = k}

SameProduct(k) == {s \in Active : product[s] = product[k]}

ReadForLicense(w) ==
  LET k == PulseOf(w).sale
      Targets == {s \in SameProduct(k) : row[s].license = None}
  IN
  /\ Handles(w, "license.issued")
  /\ IF HasLicense(k) # {} \/ Targets = {}
     THEN GoTo(w, "answer")
     ELSE Becomes(w, [pc |-> "attach", d |-> work[w].d, target |-> Latest(Targets)])
  /\ UNCHANGED <<chariow, today, delivery, row>>

\* licenseKey is unique: a key another row carries is P2002, and ignored.
PutLicense(s, k) ==
  row' = IF HasLicense(k) \ {s} # {} THEN row ELSE [row EXCEPT ![s].license = k]

\* Found by id: the row may have got another licence since it was read.
WriteLicense(w) ==
  /\ At(w, "attach")
  /\ PutLicense(work[w].target, PulseOf(w).sale)
  /\ GoTo(w, "answer")
  /\ UNCHANGED <<chariow, today, delivery>>

\* The row of that licence, or else the latest active purchase of the product.
ReadForRevocation(w) ==
  LET k == PulseOf(w).sale
      Targets == IF HasLicense(k) # {} THEN HasLicense(k) ELSE SameProduct(k)
  IN
  /\ Handles(w, "license.revoked")
  /\ IF Targets = {}
     THEN GoTo(w, "answer")
     ELSE Becomes(w, [pc |-> "revoke", d |-> work[w].d, target |-> Latest(Targets)])
  /\ UNCHANGED <<chariow, today, delivery, row>>

WriteRevocation(w) ==
  /\ At(w, "revoke")
  /\ row' = [row EXCEPT ![work[w].target].status = "REVOKED"]
  /\ GoTo(w, "answer")
  /\ UNCHANGED <<chariow, today, delivery>>

-----------------------------------------------------------------------------

Tick ==
  /\ today < LastMonth
  /\ today' = today + 1
  /\ UNCHANGED <<chariow, delivery, row, work>>

Step(w) ==
  \/ ReadLatestEnd(w) \/ WriteGrant(w)
  \/ ReadForLicense(w) \/ WriteLicense(w)
  \/ ReadForRevocation(w) \/ WriteRevocation(w)
  \/ Answer(w) \/ Forget(w)

Next ==
  \/ \E d \in Delivery, p \in Pulse : Send(d, p)
  \/ \E w \in Worker, d \in Delivery : Receive(w, d)
  \/ \E w \in Worker : Step(w) \/ Error(w) \/ ForgetFails(w) \/ Crash(w)
  \/ Tick

Spec == Init /\ [][Next]_vars

-----------------------------------------------------------------------------

\* A renewal leaves no hole: a period starts when it is granted or right where
\* another period of the same plan ends, whatever grants and revocations ran
\* at the same time.
PeriodsContiguous ==
  \A s \in Granted :
    \/ row[s].startsAt = row[s].month
    \/ \E t \in Granted \ {s} :
         /\ Plan[product[t]] = Plan[product[s]]
         /\ row[s].startsAt = row[t].expiresAt

\* "Une livraison rejouée n'est jamais retraitée", nor is a sale told of by
\* two deliveries: the dates of a granted period never move and a revoked
\* subscription never becomes active again.
GrantedOnce ==
  [][\A s \in Granted :
       /\ row'[s].startsAt = row[s].startsAt
       /\ row'[s].expiresAt = row[s].expiresAt
       /\ row[s].status = "REVOKED" => row'[s].status = "REVOKED"]_vars

Revocations == {d \in Delivery : sent[d] # None /\ sent[d].event = "license.revoked"}

\* A revocation Pulse closes one subscription at most, also when it is retried,
\* delivered twice at once, or falls back on the latest purchase.
OneRevocationPerPulse ==
  Cardinality({s \in Granted : row[s].status = "REVOKED"})
    <= Cardinality(Revocations)

\* schema.prisma, Subscription: "des périodes contiguës sans chevauchement".
PeriodsDisjoint ==
  \A s, t \in Active :
    Plan[product[s]] = Plan[product[t]] /\ s # t
      => row[s].expiresAt <= row[t].startsAt \/ row[t].expiresAt <= row[s].startsAt

Handled(d) == \E w \in Worker : ~At(w, "idle") /\ work[w].d = d

\* handle: "on oublie la livraison pour que la nouvelle tentative de Chariow
\* soit bien traitée": no sale is left aside as already received, with nobody
\* working on it.
NoSaleLost ==
  \A d \in delivery :
    sent[d].event = "successful.sale" /\ ~Handled(d) => sent[d].sale \in Granted

=============================================================================
