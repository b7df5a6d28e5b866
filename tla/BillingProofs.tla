--------------------------- MODULE BillingProofs ---------------------------
(***************************************************************************)
(* Billing for every set of sales, deliveries, workers and products: its   *)
(* types, that a sale is granted once, that renewals leave no hole, and    *)
(* that a revocation closes one subscription at most.                      *)
(***************************************************************************)
EXTENDS Billing, FiniteSetTheorems, WellFoundedInduction, TLAPS

\* The latest of finitely many rows exists.
LEMMA Highest ==
  ASSUME NEW S, IsFiniteSet(S), S # {}, NEW f \in [S -> Int]
  PROVE  \E x \in S : \A y \in S : f[y] <= f[x]
<1> DEFINE Above(x) == {y \in S : f[y] >= f[x]}
           T == {Above(x) : x \in S}
           R == StrictSubsetOrdering(S)
<1>1. IsWellFoundedOn(R, FiniteSubsetsOf(S))
  BY FS_StrictSubsetOrderingWellFounded
<1>2. T \subseteq FiniteSubsetsOf(S) /\ T # {}
  <2>1. \A x \in S : Above(x) \in SUBSET S
    OBVIOUS
  <2>2. T \subseteq SUBSET S /\ T # {}
    <3> HIDE DEF Above
    <3> QED BY <2>1
  <2> QED BY <2>2, FS_FiniteSubsetsOfFinite
<1>3. PICK A \in T : \A B \in T : ~(<<B, A>> \in R)
  <2> HIDE DEF T, R
  <2> QED BY <1>1, <1>2, WFMin
<1>4. PICK x \in S : A = Above(x)
  OBVIOUS
<1>5. ASSUME NEW y \in S, ~(f[y] <= f[x])
      PROVE  FALSE
  <2>1. Above(y) \in T
    OBVIOUS
  <2>2. Above(y) \subseteq Above(x) /\ Above(y) \in SUBSET S /\ Above(x) \in SUBSET S
    BY <1>5
  <2>3. x \in Above(x) /\ x \notin Above(y)
    BY <1>5
  <2>4. <<Above(y), Above(x)>> \in R
    <3> HIDE DEF Above
    <3> QED BY <2>2, <2>3 DEF StrictSubsetOrdering
  <2> HIDE DEF Above, R, T
  <2> QED BY <1>3, <1>4, <2>1, <2>4
<1> QED BY <1>5

-----------------------------------------------------------------------------
(* Typing.                                                                 *)

\* What is on the way was sent, and the rows it goes for are there.
WorkKnown ==
  \A w \in Worker :
    /\ work[w].pc # "idle" => PulseOf(w) # None
    /\ At(w, "grant") => PulseOf(w).event = "successful.sale"
    /\ At(w, "attach") => PulseOf(w).event = "license.issued" /\ work[w].target \in Granted
    /\ At(w, "revoke") => PulseOf(w).event = "license.revoked" /\ work[w].target \in Granted

TypedInv == TypeOK /\ WorkKnown

LEMMA Locals ==
  ASSUME TypeOK, NEW w \in Worker
  PROVE  /\ work[w].pc \in {"process", "answer", "forget"}
              => work[w] \in [pc : {"process", "answer", "forget"}, d : Delivery]
         /\ At(w, "grant")
              => work[w] \in [pc : {"grant"}, d : Delivery, startsAt : Nat, month : Nat]
         /\ work[w].pc \in {"attach", "revoke"}
              => work[w] \in [pc : {"attach", "revoke"}, d : Delivery, target : Sale]
         /\ work[w].pc # "idle" => work[w].d \in Delivery
         /\ work[w].pc \in {"idle", "process", "answer", "forget", "grant", "attach", "revoke"}
BY DEF TypeOK, Local, Idle, At

LEMMA PulseTyped ==
  ASSUME TypedInv, NEW w \in Worker, work[w].pc # "idle"
  PROVE  PulseOf(w) \in Pulse /\ PulseOf(w).sale \in Sale /\ PulseOf(w).event \in Event
<1>1. work[w].d \in Delivery
  BY Locals DEF TypedInv
<1>2. PulseOf(w) \in Pulse
  BY <1>1 DEF TypedInv, TypeOK, WorkKnown, PulseOf
<1> QED BY <1>2 DEF Pulse

LEMMA BecomesTyped ==
  ASSUME TypeOK, NEW w \in Worker, NEW q \in Local, Becomes(w, q)
  PROVE  /\ work' \in [Worker -> Local]
         /\ work'[w] = q
         /\ \A v \in Worker \ {w} : work'[v] = work[v]
BY DEF TypeOK, Becomes

\* A worker that goes on, in a world where rows only get richer.
LEMMA WorkKnownStep ==
  ASSUME TypedInv, NEW w \in Worker, NEW q \in Local, Becomes(w, q), sent' = sent,
         \A s \in Sale : row[s] # None => row'[s] # None,
         q.pc # "idle" => sent[q.d] # None,
         q.pc = "grant" => sent[q.d].event = "successful.sale",
         q.pc = "attach" => sent[q.d].event = "license.issued" /\ row'[q.target] # None
                            /\ q.target \in Sale,
         q.pc = "revoke" => sent[q.d].event = "license.revoked" /\ row'[q.target] # None
                            /\ q.target \in Sale
  PROVE  WorkKnown'
<1>1. /\ work'[w] = q /\ \A v \in Worker \ {w} : work'[v] = work[v]
  BY BecomesTyped DEF TypedInv
<1> SUFFICES ASSUME NEW v \in Worker
             PROVE  /\ work'[v].pc # "idle" => sent[work'[v].d] # None
                    /\ work'[v].pc = "grant"
                         => sent[work'[v].d].event = "successful.sale"
                    /\ work'[v].pc = "attach"
                         => /\ sent[work'[v].d].event = "license.issued"
                            /\ work'[v].target \in Sale /\ row'[work'[v].target] # None
                    /\ work'[v].pc = "revoke"
                         => /\ sent[work'[v].d].event = "license.revoked"
                            /\ work'[v].target \in Sale /\ row'[work'[v].target] # None
  BY DEF WorkKnown, PulseOf, At, Granted
<1>2. CASE v = w
  BY <1>1, <1>2
<1>3. CASE v # w
  BY <1>1, <1>3 DEF TypedInv, WorkKnown, PulseOf, At, Granted
<1> QED BY <1>2, <1>3

\* A worker that writes no row.
LEMMA ReadTyped ==
  ASSUME TypedInv, NEW w \in Worker, NEW q \in Local, Becomes(w, q),
         UNCHANGED <<product, sent, today, row>>,
         acked' \subseteq Delivery, delivery' \subseteq Delivery,
         q.pc # "idle" => sent[q.d] # None,
         q.pc = "grant" => sent[q.d].event = "successful.sale",
         q.pc = "attach" => sent[q.d].event = "license.issued" /\ q.target \in Granted,
         q.pc = "revoke" => sent[q.d].event = "license.revoked" /\ q.target \in Granted
  PROVE  TypedInv'
<1>1. TypeOK'
  BY BecomesTyped DEF TypedInv, TypeOK
<1>2. WorkKnown'
  BY WorkKnownStep DEF Granted
<1> QED BY <1>1, <1>2 DEF TypedInv

\* What a worker that ends its Pulse, or gives it up, becomes.
LEMMA Ends ==
  ASSUME TypedInv, NEW w \in Worker, work[w].pc # "idle"
  PROVE  /\ Idle \in Local /\ Idle.pc = "idle"
         /\ \A p \in {"answer", "forget"} :
              /\ [pc |-> p, d |-> work[w].d] \in Local
              /\ sent[work[w].d] # None
BY Locals DEF TypedInv, WorkKnown, PulseOf, Local, Idle

LEMMA RanksFinite ==
  ASSUME TypeOK
  PROVE  /\ IsFiniteSet(Granted) /\ Cardinality(Granted) \in Nat
         /\ Granted \in SUBSET Sale
BY FiniteAssumption, FS_Subset, FS_CardinalityType DEF Granted

LEMMA LatestIn ==
  ASSUME TypeOK, NEW S \in SUBSET Granted, S # {}
  PROVE  Latest(S) \in S
<1> DEFINE f == [s \in S |-> row[s].rank]
<1>1. IsFiniteSet(S)
  BY RanksFinite, FS_Subset
<1>2. \A s \in S : row[s] \in Row /\ row[s].rank \in Int
  BY DEF TypeOK, Granted, Row
<1>3. f \in [S -> Int]
  BY <1>2
<1>4. \E x \in S : \A y \in S : f[y] <= f[x]
  <2> HIDE DEF f
  <2> QED BY <1>1, <1>3, Highest
<1>5. \E x \in S : \A y \in S : row[y].rank <= row[x].rank
  BY <1>4
<1> QED BY <1>5 DEF Latest

\* The latest end is that of a period of the plan, if there is one.
LEMMA LatestEndFrom ==
  ASSUME TypeOK, NEW p
  PROVE  /\ LatestEnd(p) \in Nat
         /\ LatestEnd(p) # 0 => \E t \in Granted :
              Plan[product[t]] = p /\ row[t].expiresAt = LatestEnd(p)
<1> DEFINE S == {t \in Active : Plan[product[t]] = p}
           E == {row[s].expiresAt : s \in S}
           f == [s \in S |-> row[s].expiresAt]
<1>1. S \in SUBSET Granted /\ IsFiniteSet(S)
  BY RanksFinite, FS_Subset DEF Active
<1>2. \A s \in S : row[s] \in Row /\ row[s].expiresAt \in Nat
  BY <1>1 DEF TypeOK, Granted, Row
<1>3. CASE S = {}
  <2>1. E = {}
    BY <1>3
  <2>2. LatestEnd(p) = 0
    BY <2>1 DEF LatestEnd
  <2> QED BY <2>2
<1>4. CASE S # {}
  <2>1. f \in [S -> Int]
    BY <1>2
  <2>2. \E x \in S : \A y \in S : f[y] <= f[x]
    <3> HIDE DEF f, S
    <3> QED BY <1>1, <1>4, <2>1, Highest
  <2>3. \E e \in E : \A g \in E : g <= e
    BY <2>2
  <2>4. E # {}
    BY <1>4
  <2>5. LatestEnd(p) = CHOOSE e \in E : \A g \in E : g <= e
    BY <2>4 DEF LatestEnd
  <2>6. LatestEnd(p) \in E
    <3> HIDE DEF E
    <3> QED BY <2>3, <2>5
  <2>7. PICK t \in S : LatestEnd(p) = row[t].expiresAt
    BY <2>6
  <2> QED BY <1>1, <1>2, <2>7
<1> QED BY <1>3, <1>4

LEMMA NewRowTyped ==
  ASSUME TypedInv, NEW w \in Worker, At(w, "grant")
  PROVE  NewRow(w) \in Row
<1>1. work[w].startsAt \in Nat /\ work[w].month \in Nat
  BY Locals DEF TypedInv
<1>2. PulseOf(w).sale \in Sale
  BY PulseTyped DEF At
<1>3. product[PulseOf(w).sale] \in DOMAIN Months
  BY <1>2, ProductAssumption DEF TypedInv, TypeOK
<1>4. Months[product[PulseOf(w).sale]] \in Nat
  BY <1>3 DEF Months
<1> QED BY <1>1, <1>4, RanksFinite DEF NewRow, Row, TypedInv

\* What the three writes do to the rows.
LEMMA GrantWrites ==
  ASSUME TypedInv, NEW w \in Worker, WriteGrant(w)
  PROVE  LET s == PulseOf(w).sale IN
         /\ s \in Sale
         /\ row' \in [Sale -> Row \cup {None}]
         /\ s \in Granted => row' = row
         /\ s \notin Granted => row'[s] = NewRow(w)
         /\ \A t \in Sale \ {s} : row'[t] = row[t]
<1>1. PulseOf(w).sale \in Sale
  BY PulseTyped DEF WriteGrant, At
<1>2. NewRow(w) \in Row
  BY NewRowTyped DEF WriteGrant
<1> QED BY <1>1, <1>2 DEF WriteGrant, TypedInv, TypeOK

\* A row but for its licence and its status.
SameDates(r, q) ==
  r.startsAt = q.startsAt /\ r.expiresAt = q.expiresAt /\ r.month = q.month

LEMMA OtherWrites ==
  ASSUME TypedInv, NEW w \in Worker, WriteLicense(w) \/ WriteRevocation(w)
  PROVE  LET s == work[w].target IN
         /\ s \in Granted
         /\ row' \in [Sale -> Row \cup {None}]
         /\ row'[s] \in Row /\ SameDates(row'[s], row[s])
         /\ WriteLicense(w) => row'[s].status = row[s].status
         /\ WriteRevocation(w) => row'[s].status = "REVOKED"
         /\ \A t \in Sale \ {s} : row'[t] = row[t]
<1> DEFINE s == work[w].target
           k == PulseOf(w).sale
<1>1. s \in Sale /\ s \in Granted
  BY DEF WriteLicense, WriteRevocation, TypedInv, WorkKnown, Granted
<1>2. row[s] \in Row
  BY <1>1 DEF TypedInv, TypeOK, Granted
<1>3. k \in Sale
  BY PulseTyped DEF WriteLicense, WriteRevocation, At
<1>4. CASE WriteLicense(w)
  <2> DEFINE a == [row[s] EXCEPT !.license = k]
  <2>1. a \in Row /\ SameDates(a, row[s]) /\ a.status = row[s].status
    BY <1>2, <1>3 DEF Row, SameDates
  <2>2. row' = row \/ row' = [row EXCEPT ![s] = a]
    BY <1>1, <1>4 DEF WriteLicense, PutLicense, TypedInv, TypeOK
  <2>3. ~WriteRevocation(w)
    BY <1>4 DEF WriteLicense, WriteRevocation, At
  <2> HIDE DEF a
  <2> QED BY <1>1, <1>2, <2>1, <2>2, <2>3 DEF TypedInv, TypeOK, SameDates
<1>5. CASE WriteRevocation(w)
  <2> DEFINE a == [row[s] EXCEPT !.status = "REVOKED"]
  <2>1. a \in Row /\ SameDates(a, row[s]) /\ a.status = "REVOKED"
    BY <1>2 DEF Row, SameDates
  <2>2. row' = [row EXCEPT ![s] = a]
    BY <1>1, <1>5 DEF WriteRevocation, TypedInv, TypeOK
  <2>3. ~WriteLicense(w)
    BY <1>5 DEF WriteLicense, WriteRevocation, At
  <2> HIDE DEF a
  <2> QED BY <1>1, <1>2, <2>1, <2>2, <2>3 DEF TypedInv, TypeOK, SameDates
<1> QED BY <1>4, <1>5

-----------------------------------------------------------------------------

LEMMA InitTyped == Init => TypedInv
BY DEF Init, TypedInv, TypeOK, WorkKnown, At, PulseOf, Local, Idle

LEMMA StepTyped ==
  ASSUME TypedInv, [Next]_vars
  PROVE  TypedInv'
<1> USE DEF chariow
<1>1. ASSUME NEW d \in Delivery, NEW p \in Pulse, Send(d, p)
      PROVE  TypedInv'
  <2>1. TypeOK'
    BY <1>1 DEF Send, TypedInv, TypeOK
  <2>2. \A v \in Worker : work[v].pc # "idle" => PulseOf(v)' = PulseOf(v)
    BY <1>1, Locals, NoneAssumption DEF Send, TypedInv, TypeOK, WorkKnown, PulseOf
  <2>3. WorkKnown'
    BY <1>1, <2>2, Locals DEF Send, TypedInv, WorkKnown, At, Granted
  <2> QED BY <2>1, <2>3 DEF TypedInv
<1>2. ASSUME NEW w \in Worker, NEW d \in Delivery, Receive(w, d)
      PROVE  TypedInv'
  <2> DEFINE q == [pc |-> IF d \in delivery THEN "answer" ELSE "process", d |-> d]
  <2>1. q \in Local /\ q.pc \in {"answer", "process"} /\ q.d = d
    BY DEF Local
  <2>2. /\ Becomes(w, q) /\ sent[d] # None /\ UNCHANGED <<product, sent, today, row>>
        /\ acked' \subseteq Delivery /\ delivery' \subseteq Delivery
    BY <1>2 DEF Receive, TypedInv, TypeOK
  <2> HIDE DEF q
  <2> QED BY <2>1, <2>2, ReadTyped
<1>3. ASSUME NEW w \in Worker, Answer(w) \/ Forget(w) \/ ForgetFails(w) \/ Crash(w)
      PROVE  TypedInv'
  <2>1. /\ Becomes(w, Idle) /\ UNCHANGED <<product, sent, today, row>>
        /\ acked' \subseteq Delivery /\ delivery' \subseteq Delivery
    BY <1>3, Locals DEF Answer, Forget, ForgetFails, Crash, TypedInv, TypeOK, At
  <2>2. Idle \in Local /\ Idle.pc = "idle"
    BY DEF Local, Idle
  <2> QED BY <2>1, <2>2, ReadTyped
<1>4. ASSUME NEW w \in Worker, Error(w)
      PROVE  TypedInv'
  <2> DEFINE q == [pc |-> "forget", d |-> work[w].d]
  <2>1. q \in Local /\ sent[q.d] # None /\ q.pc = "forget"
    BY <1>4, Ends DEF Error
  <2>2. /\ Becomes(w, q) /\ UNCHANGED <<product, sent, today, row>>
        /\ acked' \subseteq Delivery /\ delivery' \subseteq Delivery
    BY <1>4 DEF Error, GoTo, TypedInv, TypeOK
  <2> HIDE DEF q
  <2> QED BY <2>1, <2>2, ReadTyped
<1>5. ASSUME NEW w \in Worker,
             ReadLatestEnd(w) \/ ReadForLicense(w) \/ ReadForRevocation(w)
      PROVE  TypedInv'
  <2> DEFINE a == [pc |-> "answer", d |-> work[w].d]
  <2>0. work[w].pc = "process" /\ work[w].d \in Delivery /\ sent[work[w].d] # None
    BY <1>5, Locals DEF ReadLatestEnd, ReadForLicense, ReadForRevocation, Handles, At,
         TypedInv, WorkKnown, PulseOf
  <2>1. /\ UNCHANGED <<product, sent, today, row>>
        /\ acked' \subseteq Delivery /\ delivery' \subseteq Delivery
    BY <1>5 DEF ReadLatestEnd, ReadForLicense, ReadForRevocation, TypedInv, TypeOK
  <2>2. CASE Becomes(w, a)
    <3>1. a \in Local /\ sent[a.d] # None /\ a.pc = "answer"
      BY <2>0, Ends
    <3> HIDE DEF a
    <3> QED BY <2>1, <2>2, <3>1, ReadTyped
  <2>3. CASE ReadLatestEnd(w) /\ ~Becomes(w, a)
    <3> DEFINE end == LatestEnd(Plan[product[PulseOf(w).sale]])
               q == [pc |-> "grant", d |-> work[w].d, month |-> today,
                     startsAt |-> IF end > today THEN end ELSE today]
    <3>1. Becomes(w, q) /\ PulseOf(w).event = "successful.sale"
      BY <2>3 DEF ReadLatestEnd, GoTo, Handles
    <3>2. end \in Nat /\ today \in Nat
      BY LatestEndFrom DEF TypedInv, TypeOK
    <3>3. (IF end > today THEN end ELSE today) \in Nat
      <4> HIDE DEF end
      <4> QED BY <3>2
    <3>4. q \in Local /\ q.pc = "grant" /\ sent[q.d].event = "successful.sale"
          /\ sent[q.d] # None
      <4> HIDE DEF end
      <4> QED BY <2>0, <3>1, <3>2, <3>3 DEF Local, PulseOf
    <3> HIDE DEF q
    <3> QED BY <2>1, <3>1, <3>4, ReadTyped
  <2>4. CASE ReadForLicense(w) /\ ~Becomes(w, a)
    <3> DEFINE S == {s \in SameProduct(PulseOf(w).sale) : row[s].license = None}
               q == [pc |-> "attach", d |-> work[w].d, target |-> Latest(S)]
    <3>1. Becomes(w, q) /\ PulseOf(w).event = "license.issued" /\ S # {}
      BY <2>4 DEF ReadForLicense, GoTo, Handles
    <3>2. S \in SUBSET Granted
      BY DEF SameProduct, Active
    <3>3. Latest(S) \in Granted /\ Latest(S) \in Sale
      <4> HIDE DEF S
      <4> QED BY <3>1, <3>2, LatestIn DEF TypedInv, Granted
    <3>4. q \in Local /\ q.pc = "attach" /\ sent[q.d].event = "license.issued"
          /\ sent[q.d] # None /\ q.target \in Granted
      <4> HIDE DEF S
      <4> QED BY <2>0, <3>1, <3>3 DEF Local, PulseOf
    <3> HIDE DEF q
    <3> QED BY <2>1, <3>1, <3>4, ReadTyped
  <2>5. CASE ReadForRevocation(w) /\ ~Becomes(w, a)
    <3> DEFINE k == PulseOf(w).sale
               S == IF HasLicense(k) # {} THEN HasLicense(k) ELSE SameProduct(k)
               q == [pc |-> "revoke", d |-> work[w].d, target |-> Latest(S)]
    <3>1. Becomes(w, q) /\ PulseOf(w).event = "license.revoked" /\ S # {}
      BY <2>5 DEF ReadForRevocation, GoTo, Handles
    <3>2. S \in SUBSET Granted
      BY DEF SameProduct, HasLicense, Active
    <3>3. Latest(S) \in Granted /\ Latest(S) \in Sale
      <4> HIDE DEF S
      <4> QED BY <3>1, <3>2, LatestIn DEF TypedInv, Granted
    <3>4. q \in Local /\ q.pc = "revoke" /\ sent[q.d].event = "license.revoked"
          /\ sent[q.d] # None /\ q.target \in Granted
      <4> HIDE DEF S
      <4> QED BY <2>0, <3>1, <3>3 DEF Local, PulseOf
    <3> HIDE DEF q
    <3> QED BY <2>1, <3>1, <3>4, ReadTyped
  <2> QED BY <1>5, <2>2, <2>3, <2>4, <2>5
<1>6. ASSUME NEW w \in Worker, WriteGrant(w) \/ WriteLicense(w) \/ WriteRevocation(w)
      PROVE  TypedInv'
  <2> DEFINE q == [pc |-> "answer", d |-> work[w].d]
  <2>1. q \in Local /\ sent[q.d] # None /\ q.pc = "answer"
    BY <1>6, Ends DEF WriteGrant, WriteLicense, WriteRevocation, At
  <2>2. Becomes(w, q) /\ UNCHANGED <<product, sent, acked, today, delivery>>
    BY <1>6 DEF WriteGrant, WriteLicense, WriteRevocation, GoTo
  <2>3. /\ row' \in [Sale -> Row \cup {None}]
        /\ \A s \in Sale : row[s] # None => row'[s] # None
    <3>1. CASE WriteGrant(w)
      BY <3>1, GrantWrites DEF Granted
    <3>2. CASE WriteLicense(w) \/ WriteRevocation(w)
      BY <3>2, OtherWrites, NoneAssumption
    <3> QED BY <1>6, <3>1, <3>2
  <2> HIDE DEF q
  <2>4. TypeOK'
    BY <2>1, <2>2, <2>3, BecomesTyped DEF TypedInv, TypeOK
  <2>5. WorkKnown'
    BY <2>1, <2>2, <2>3, WorkKnownStep
  <2> QED BY <2>4, <2>5 DEF TypedInv
<1>7. ASSUME Tick
      PROVE  TypedInv'
  BY <1>7 DEF Tick, TypedInv, TypeOK, WorkKnown, At, PulseOf, Granted
<1>8. ASSUME UNCHANGED vars
      PROVE  TypedInv'
  BY <1>8 DEF vars, TypedInv, TypeOK, WorkKnown, At, PulseOf, Granted
<1> QED BY <1>1, <1>2, <1>3, <1>4, <1>5, <1>6, <1>7, <1>8 DEF Next, Step

LEMMA Typed == Spec => []TypedInv
BY InitTyped, StepTyped, PTL DEF Spec

\* The rows and the workers' notes keep their types; what is about to be
\* written goes to a row that exists.
THEOREM TypeCorrect == Spec => []TypeOK
<1>1. TypedInv => TypeOK
  BY DEF TypedInv
<1> QED BY Typed, <1>1, PTL

-----------------------------------------------------------------------------
(* What happens to a row once it is there.                                 *)

\* Only the three writes touch the rows.
LEMMA Writers ==
  ASSUME [Next]_vars
  PROVE  /\ product' = product
         /\ \/ row' = row
            \/ \E w \in Worker : WriteGrant(w) \/ WriteLicense(w) \/ WriteRevocation(w)
BY DEF Next, Step, vars, chariow, Send, Receive, Answer, Error, Forget, ForgetFails,
   Crash, ReadLatestEnd, WriteGrant, ReadForLicense, WriteLicense, ReadForRevocation,
   WriteRevocation, Tick

LEMMA RowsKept ==
  ASSUME TypedInv, [Next]_vars, NEW s \in Granted
  PROVE  /\ s \in Granted' /\ SameDates(row'[s], row[s])
         /\ row[s].status = "REVOKED" => row'[s].status = "REVOKED"
<1> USE DEF SameDates, Granted
<1>1. CASE row' = row
  BY <1>1
<1>2. ASSUME NEW w \in Worker, WriteGrant(w)
      PROVE  /\ row'[s] # None /\ SameDates(row'[s], row[s])
             /\ row'[s].status = row[s].status
  BY <1>2, GrantWrites
<1>3. ASSUME NEW w \in Worker, WriteLicense(w) \/ WriteRevocation(w)
      PROVE  /\ row'[s] # None /\ SameDates(row'[s], row[s])
             /\ row[s].status = "REVOKED" => row'[s].status = "REVOKED"
  BY <1>3, OtherWrites, NoneAssumption
<1> QED BY <1>1, <1>2, <1>3, Writers

\* A sale is granted once: whatever is delivered again, its dates stay and its
\* revocation too.
THEOREM OneGrant == Spec => GrantedOnce
<1>1. ASSUME TypedInv, [Next]_vars
      PROVE  \A s \in Granted :
               /\ row'[s].startsAt = row[s].startsAt
               /\ row'[s].expiresAt = row[s].expiresAt
               /\ row[s].status = "REVOKED" => row'[s].status = "REVOKED"
  BY <1>1, RowsKept DEF SameDates
<1> QED BY <1>1, Typed, PTL DEF Spec, GrantedOnce

-----------------------------------------------------------------------------
(* Renewals.                                                               *)

\* `start` follows a period of that plan that is granted.
Follows(start, plan) ==
  \E t \in Granted : Plan[product[t]] = plan /\ start = row[t].expiresAt

\* A period about to be granted starts when it was read or follows another.
Spaced ==
  \A w \in Worker : At(w, "grant") =>
    \/ work[w].startsAt = work[w].month
    \/ Follows(work[w].startsAt, Plan[product[PulseOf(w).sale]])

RenewalInv == TypedInv /\ Spaced /\ PeriodsContiguous

LEMMA FollowsKept ==
  ASSUME TypedInv, [Next]_vars, NEW start, NEW plan, Follows(start, plan)
  PROVE  \E t \in Granted' : Plan[product'[t]] = plan /\ start = row'[t].expiresAt
<1>1. PICK t \in Granted : Plan[product[t]] = plan /\ start = row[t].expiresAt
  BY DEF Follows
<1>2. t \in Granted' /\ row'[t].expiresAt = row[t].expiresAt /\ product' = product
  BY <1>1, RowsKept, Writers DEF SameDates
<1> QED BY <1>1, <1>2 DEF Follows

\* Who is about to grant was so already, or has just read the latest end.
LEMMA Granting ==
  ASSUME TypedInv, [Next]_vars, NEW w \in Worker, At(w, "grant")'
  PROVE  \/ work'[w] = work[w] /\ PulseOf(w)' = PulseOf(w)
         \/ ReadLatestEnd(w) /\ work'[w].d = work[w].d /\ sent' = sent
            /\ work'[w].month = today
            /\ LET end == LatestEnd(Plan[product[PulseOf(w).sale]])
               IN  work'[w].startsAt = IF end > today THEN end ELSE today
<1> USE DEF chariow
<1>1. ASSUME NEW d \in Delivery, NEW p \in Pulse, Send(d, p)
      PROVE  work'[w] = work[w] /\ PulseOf(w)' = PulseOf(w)
  BY <1>1, Locals, NoneAssumption
     DEF Send, At, TypedInv, TypeOK, WorkKnown, PulseOf
<1>2. ASSUME NEW v \in Worker, NEW q, Becomes(v, q), q.pc # "grant", sent' = sent
      PROVE  work'[w] = work[w] /\ PulseOf(w)' = PulseOf(w)
  BY <1>2 DEF Becomes, At, TypedInv, TypeOK, PulseOf
<1>3. ASSUME NEW v \in Worker, NEW d \in Delivery, Receive(v, d)
      PROVE  work'[w] = work[w] /\ PulseOf(w)' = PulseOf(w)
  <2> DEFINE q == [pc |-> IF d \in delivery THEN "answer" ELSE "process", d |-> d]
  <2>1. Becomes(v, q) /\ q.pc # "grant" /\ sent' = sent
    BY <1>3 DEF Receive
  <2> HIDE DEF q
  <2> QED BY <2>1, <1>2
<1>4. ASSUME NEW v \in Worker, NEW p \in {"answer", "forget"}, GoTo(v, p), sent' = sent
      PROVE  work'[w] = work[w] /\ PulseOf(w)' = PulseOf(w)
  <2> DEFINE q == [pc |-> p, d |-> work[v].d]
  <2>1. Becomes(v, q) /\ q.pc # "grant"
    BY <1>4 DEF GoTo
  <2> HIDE DEF q
  <2> QED BY <2>1, <1>2, <1>4
<1>5. ASSUME NEW v \in Worker,
             Answer(v) \/ Forget(v) \/ ForgetFails(v) \/ Crash(v)
      PROVE  work'[w] = work[w] /\ PulseOf(w)' = PulseOf(w)
  <2>1. Becomes(v, Idle) /\ Idle.pc # "grant" /\ sent' = sent
    BY <1>5 DEF Answer, Forget, ForgetFails, Crash, Idle
  <2> QED BY <2>1, <1>2
<1>6. ASSUME NEW v \in Worker,
             Error(v) \/ WriteGrant(v) \/ WriteLicense(v) \/ WriteRevocation(v)
      PROVE  work'[w] = work[w] /\ PulseOf(w)' = PulseOf(w)
  BY <1>6, <1>4 DEF Error, WriteGrant, WriteLicense, WriteRevocation
<1>7. ASSUME NEW v \in Worker, ReadForLicense(v) \/ ReadForRevocation(v)
      PROVE  work'[w] = work[w] /\ PulseOf(w)' = PulseOf(w)
  <2>1. sent' = sent
    BY <1>7 DEF ReadForLicense, ReadForRevocation
  <2>2. GoTo(v, "answer")
        \/ (\E x : Becomes(v, [pc |-> "attach", d |-> work[v].d, target |-> x]))
        \/ (\E x : Becomes(v, [pc |-> "revoke", d |-> work[v].d, target |-> x]))
    BY <1>7 DEF ReadForLicense, ReadForRevocation
  <2>3. ASSUME NEW x, NEW p \in {"attach", "revoke"},
               Becomes(v, [pc |-> p, d |-> work[v].d, target |-> x])
        PROVE  work'[w] = work[w] /\ PulseOf(w)' = PulseOf(w)
    <3> DEFINE q == [pc |-> p, d |-> work[v].d, target |-> x]
    <3>1. Becomes(v, q) /\ q.pc # "grant"
      BY <2>3
    <3> HIDE DEF q
    <3> QED BY <3>1, <2>1, <1>2
  <2> QED BY <2>1, <2>2, <2>3, <1>4
<1>8. ASSUME NEW v \in Worker, ReadLatestEnd(v)
      PROVE  \/ work'[w] = work[w] /\ PulseOf(w)' = PulseOf(w)
             \/ /\ v = w /\ work'[w].d = work[w].d /\ sent' = sent
                /\ work'[w].month = today
                /\ LET end == LatestEnd(Plan[product[PulseOf(w).sale]])
                   IN  work'[w].startsAt = IF end > today THEN end ELSE today
  <2>1. CASE GoTo(v, "answer")
    BY <1>8, <1>4, <2>1 DEF ReadLatestEnd
  <2>2. CASE ~GoTo(v, "answer")
    <3> DEFINE end == LatestEnd(Plan[product[PulseOf(v).sale]])
               q == [pc |-> "grant", d |-> work[v].d, month |-> today,
                     startsAt |-> IF end > today THEN end ELSE today]
    <3>1. Becomes(v, q) /\ sent' = sent
      BY <1>8, <2>2 DEF ReadLatestEnd
    <3>2. q.d = work[v].d /\ q.month = today
          /\ q.startsAt = IF end > today THEN end ELSE today
      OBVIOUS
    <3>3. CASE v = w
      <4>1. work'[w] = q
        BY <3>1, <3>3 DEF Becomes, TypedInv, TypeOK
      <4> HIDE DEF q
      <4> QED BY <3>1, <3>2, <3>3, <4>1
    <3>4. CASE v # w
      <4> HIDE DEF q
      <4> QED BY <3>1, <3>4 DEF Becomes, TypedInv, TypeOK, PulseOf
    <3> QED BY <3>3, <3>4
  <2> QED BY <2>1, <2>2
<1>9. CASE Tick \/ UNCHANGED vars
  BY <1>9 DEF Tick, vars, PulseOf
<1> QED BY <1>1, <1>3, <1>5, <1>6, <1>7, <1>8, <1>9 DEF Next, Step

LEMMA StepSpaced ==
  ASSUME RenewalInv, [Next]_vars
  PROVE  Spaced'
<1>0. TypedInv /\ Spaced /\ product' = product
  BY Writers DEF RenewalInv
<1> DEFINE Followed(start, plan) ==
             \E t \in Granted' : Plan[product'[t]] = plan /\ start = row'[t].expiresAt
<1> SUFFICES ASSUME NEW w \in Worker, work'[w].pc = "grant"
             PROVE  \/ work'[w].startsAt = work'[w].month
                    \/ Followed(work'[w].startsAt, Plan[product'[sent'[work'[w].d].sale]])
  BY DEF Spaced, Follows, At, PulseOf
<1>1. CASE work'[w] = work[w] /\ PulseOf(w)' = PulseOf(w)
  <2>1. sent'[work'[w].d] = PulseOf(w) /\ At(w, "grant")
    BY <1>1 DEF PulseOf, At
  <2>2. \/ work[w].startsAt = work[w].month
        \/ Follows(work[w].startsAt, Plan[product[PulseOf(w).sale]])
    BY <1>0, <2>1 DEF Spaced
  <2>3. Follows(work[w].startsAt, Plan[product[PulseOf(w).sale]])
         => Followed(work[w].startsAt, Plan[product[PulseOf(w).sale]])
    BY <1>0, FollowsKept
  <2> HIDE DEF Followed
  <2> QED BY <1>0, <1>1, <2>1, <2>2, <2>3
<1>2. CASE /\ work'[w].d = work[w].d /\ sent' = sent /\ work'[w].month = today
           /\ LET end == LatestEnd(Plan[product[PulseOf(w).sale]])
              IN  work'[w].startsAt = IF end > today THEN end ELSE today
  <2> DEFINE plan == Plan[product[PulseOf(w).sale]]
             end == LatestEnd(plan)
  <2>1. Plan[product'[sent'[work'[w].d].sale]] = plan
    BY <1>0, <1>2 DEF PulseOf
  <2>2. end \in Nat /\ today \in Nat /\ (end # 0 => Follows(end, plan))
    BY <1>0, LatestEndFrom DEF TypedInv, TypeOK, Follows
  <2>3. work'[w].startsAt = today \/ (work'[w].startsAt = end /\ end # 0)
    <3>1. work'[w].startsAt = IF end > today THEN end ELSE today
      BY <1>2
    <3> HIDE DEF end
    <3> QED BY <2>2, <3>1
  <2>4. Follows(end, plan) => Followed(end, plan)
    BY <1>0, FollowsKept
  <2> HIDE DEF end, plan, Followed
  <2> QED BY <1>2, <2>1, <2>2, <2>3, <2>4
<1>3. At(w, "grant")'
  BY DEF At
<1> HIDE DEF Followed
<1> QED BY <1>0, <1>1, <1>2, <1>3, Granting

LEMMA StepContiguous ==
  ASSUME RenewalInv, [Next]_vars
  PROVE  PeriodsContiguous'
<1>0. TypedInv /\ Spaced /\ PeriodsContiguous /\ product' = product
  BY Writers DEF RenewalInv
<1> SUFFICES ASSUME NEW s \in Granted'
             PROVE  \/ row'[s].startsAt = row'[s].month
                    \/ \E t \in Granted' \ {s} :
                         /\ Plan[product[t]] = Plan[product[s]]
                         /\ row'[s].startsAt = row'[t].expiresAt
  BY <1>0 DEF PeriodsContiguous
<1>1. CASE s \in Granted
  <2>1. SameDates(row'[s], row[s])
    BY <1>0, <1>1, RowsKept
  <2>2. CASE row[s].startsAt = row[s].month
    BY <2>1, <2>2 DEF SameDates
  <2>3. CASE row[s].startsAt # row[s].month
    <3>1. PICK t \in Granted \ {s} :
            Plan[product[t]] = Plan[product[s]] /\ row[s].startsAt = row[t].expiresAt
      BY <1>0, <1>1, <2>3 DEF PeriodsContiguous
    <3>2. t \in Granted' \ {s} /\ SameDates(row'[t], row[t])
      BY <1>0, <3>1, RowsKept
    <3> QED BY <2>1, <3>1, <3>2 DEF SameDates
  <2> QED BY <2>2, <2>3
<1>2. CASE s \notin Granted
  <2>0. row'[s] # row[s] /\ s \in Sale
    BY <1>2 DEF Granted
  <2>1. PICK w \in Worker : WriteGrant(w) \/ WriteLicense(w) \/ WriteRevocation(w)
    BY <2>0, Writers
  <2>2. ~(WriteLicense(w) \/ WriteRevocation(w))
    BY <1>0, <1>2, <2>0, OtherWrites DEF Granted
  <2>3. /\ WriteGrant(w) /\ s = PulseOf(w).sale /\ row'[s] = NewRow(w)
    BY <1>0, <1>2, <2>0, <2>1, <2>2, GrantWrites
  <2>4. row'[s].startsAt = work[w].startsAt /\ row'[s].month = work[w].month
    BY <2>3 DEF NewRow
  <2>5. \/ work[w].startsAt = work[w].month
        \/ Follows(work[w].startsAt, Plan[product[s]])
    BY <1>0, <2>3 DEF Spaced, WriteGrant
  <2>6. CASE Follows(work[w].startsAt, Plan[product[s]])
    <3>1. PICK t \in Granted :
            Plan[product[t]] = Plan[product[s]] /\ work[w].startsAt = row[t].expiresAt
      BY <2>6 DEF Follows
    <3>2. t \in Granted' \ {s} /\ SameDates(row'[t], row[t])
      BY <1>0, <1>2, <3>1, RowsKept
    <3> QED BY <2>4, <3>1, <3>2 DEF SameDates
  <2> QED BY <2>4, <2>5, <2>6
<1> QED BY <1>1, <1>2

\* Every period starts when it is granted or where another one of its plan
\* ends, however grants, licences and revocations interleave.
THEOREM Contiguous == Spec => []PeriodsContiguous
<1>1. Init => RenewalInv
  BY InitTyped DEF Init, RenewalInv, Spaced, PeriodsContiguous, Granted, At, Idle
<1>2. RenewalInv /\ [Next]_vars => RenewalInv'
  BY StepTyped, StepSpaced, StepContiguous DEF RenewalInv
<1>3. RenewalInv => PeriodsContiguous
  BY DEF RenewalInv
<1> QED BY <1>1, <1>2, <1>3, PTL DEF Spec

-----------------------------------------------------------------------------
(* Revocations.                                                            *)

\* The workers that hold the row of their delivery, and may still act on it.
Busy(w) == work[w].pc \in {"process", "grant", "attach", "revoke", "forget"}

Alone ==
  /\ \A w \in Worker : Busy(w) => work[w].d \in delivery
  /\ \A v, w \in Worker : Busy(v) /\ Busy(w) /\ work[v].d = work[w].d => v = w

\* The revocations received on which nobody will act any more.
Spent == {d \in Revocations \cap delivery : \A w \in Worker : ~(Busy(w) /\ work[w].d = d)}

Revoked == {s \in Granted : row[s].status = "REVOKED"}

RevocationInv == TypedInv /\ Alone /\ Cardinality(Revoked) <= Cardinality(Spent)

LEMMA FiniteCounts ==
  ASSUME TypedInv
  PROVE  /\ IsFiniteSet(Revoked) /\ Cardinality(Revoked) \in Nat
         /\ IsFiniteSet(Spent) /\ Cardinality(Spent) \in Nat
         /\ IsFiniteSet(Revocations) /\ Cardinality(Revocations) \in Nat
         /\ Cardinality(Spent) <= Cardinality(Revocations)
<1>1. IsFiniteSet(Revoked)
  BY RanksFinite, FS_Subset DEF Revoked, TypedInv
<1>2. IsFiniteSet(Revocations)
  BY FiniteAssumption, FS_Subset DEF Revocations
<1>3. IsFiniteSet(Spent) /\ Cardinality(Spent) <= Cardinality(Revocations)
  BY <1>2, FS_Subset DEF Spent
<1> QED BY <1>1, <1>2, <1>3, FS_CardinalityType

\* A sequence of rows closes another only through WriteRevocation.
LEMMA RevokedStep ==
  ASSUME TypedInv, [Next]_vars
  PROVE  \/ Revoked' \subseteq Revoked
         \/ \E w \in Worker : WriteRevocation(w) /\ Revoked' \subseteq Revoked \cup {work[w].target}
<1> USE DEF Revoked, Granted
<1>1. CASE row' = row
  BY <1>1
<1>2. ASSUME NEW w \in Worker, WriteGrant(w)
      PROVE  Revoked' \subseteq Revoked
  <2>1. NewRow(w).status = "ACTIVE"
    BY DEF NewRow
  <2> QED BY <1>2, <2>1, GrantWrites
<1>3. ASSUME NEW w \in Worker, WriteLicense(w)
      PROVE  Revoked' \subseteq Revoked
  BY <1>3, OtherWrites
<1>4. ASSUME NEW w \in Worker, WriteRevocation(w)
      PROVE  Revoked' \subseteq Revoked \cup {work[w].target}
  BY <1>4, OtherWrites
<1> QED BY <1>1, <1>2, <1>3, <1>4, Writers

\* A worker that goes on with its delivery, or leaves it.
LEMMA BusyStep ==
  ASSUME TypedInv, Alone, NEW w \in Worker, NEW q, Becomes(w, q),
         sent' = sent, delivery' = delivery,
         q.pc \in {"process", "grant", "attach", "revoke", "forget"}
           => Busy(w) /\ q.d = work[w].d
  PROVE  Alone' /\ Spent \subseteq Spent'
<1>1. /\ work'[w] = q /\ \A v \in Worker \ {w} : work'[v] = work[v]
      /\ Revocations' = Revocations
  BY DEF Becomes, TypedInv, TypeOK, Revocations
<1>2. \A v \in Worker : Busy(v)' => Busy(v) /\ work'[v].d = work[v].d
  BY <1>1 DEF Busy
<1>3. Alone'
  BY <1>2 DEF Alone
<1>4. Spent \subseteq Spent'
  BY <1>1, <1>2 DEF Spent
<1> QED BY <1>3, <1>4

\* No step takes a second worker on a delivery, or makes a spent one live again.
LEMMA StepAlone ==
  ASSUME TypedInv, Alone, [Next]_vars
  PROVE  Alone' /\ Spent \subseteq Spent'
<1> USE DEF chariow
<1>1. ASSUME NEW d \in Delivery, NEW p \in Pulse, Send(d, p)
      PROVE  Alone' /\ Spent \subseteq Spent'
  <2>1. Revocations \subseteq Revocations'
    BY <1>1 DEF Send, Revocations, TypedInv, TypeOK
  <2> QED BY <1>1, <2>1 DEF Send, Alone, Spent, Busy
<1>2. ASSUME NEW w \in Worker, NEW d \in Delivery, Receive(w, d)
      PROVE  Alone' /\ Spent \subseteq Spent'
  <2> DEFINE q == [pc |-> IF d \in delivery THEN "answer" ELSE "process", d |-> d]
  <2>1. Becomes(w, q) /\ sent' = sent /\ delivery' = delivery \cup {d} /\ ~Busy(w)
    BY <1>2 DEF Receive, At, Busy
  <2>2. q.d = d /\ q.pc = IF d \in delivery THEN "answer" ELSE "process"
    OBVIOUS
  <2>3. CASE d \in delivery
    <3>1. delivery' = delivery
          /\ ~(q.pc \in {"process", "grant", "attach", "revoke", "forget"})
      BY <2>1, <2>2, <2>3
    <3> HIDE DEF q
    <3> QED BY <2>1, <3>1, BusyStep
  <2>4. CASE d \notin delivery
    <3>1. /\ work'[w].pc = "process" /\ work'[w].d = d
          /\ \A v \in Worker \ {w} : work'[v] = work[v]
          /\ Revocations' = Revocations
      BY <2>1, <2>2, <2>4 DEF Becomes, TypedInv, TypeOK, Revocations
    <3>2. \A v \in Worker \ {w} : Busy(v)' => Busy(v) /\ work'[v].d = work[v].d /\ work[v].d # d
      BY <3>1, <2>4 DEF Busy, Alone
    <3>3. Alone'
      BY <2>1, <3>1, <3>2 DEF Alone
    <3>4. Spent \subseteq Spent'
      <4>1. SUFFICES ASSUME NEW e \in Spent, NEW v \in Worker, Busy(v)', work'[v].d = e
                     PROVE  FALSE
        BY <2>1, <3>1 DEF Spent
      <4> QED BY <4>1, <2>4, <3>1, <3>2 DEF Spent
    <3> QED BY <3>3, <3>4
  <2> QED BY <2>3, <2>4
<1>3. ASSUME NEW w \in Worker, Forget(w)
      PROVE  Alone' /\ Spent \subseteq Spent'
  <2>1. /\ Busy(w) /\ delivery' = delivery \ {work[w].d} /\ sent' = sent
        /\ work'[w].pc = "idle" /\ \A v \in Worker \ {w} : work'[v] = work[v]
        /\ Revocations' = Revocations
    BY <1>3 DEF Forget, At, Busy, Becomes, Idle, TypedInv, TypeOK, Revocations
  <2>2. \A v \in Worker : Busy(v)' => Busy(v) /\ v # w /\ work'[v] = work[v]
    BY <2>1 DEF Busy
  <2>3. Alone'
    BY <2>1, <2>2 DEF Alone
  <2>4. Spent \subseteq Spent'
    BY <2>1, <2>2 DEF Spent
  <2> QED BY <2>3, <2>4
<1>4. ASSUME NEW w \in Worker, NEW p \in {"answer", "forget"}, GoTo(w, p), Busy(w),
             sent' = sent, delivery' = delivery
      PROVE  Alone' /\ Spent \subseteq Spent'
  <2> DEFINE q == [pc |-> p, d |-> work[w].d]
  <2>1. Becomes(w, q) /\ q.d = work[w].d
    BY <1>4 DEF GoTo
  <2> HIDE DEF q
  <2> QED BY <1>4, <2>1, BusyStep
<1>5. ASSUME NEW w \in Worker,
             \/ Error(w) \/ WriteGrant(w) \/ WriteLicense(w) \/ WriteRevocation(w)
      PROVE  Alone' /\ Spent \subseteq Spent'
  BY <1>5, <1>4 DEF Error, WriteGrant, WriteLicense, WriteRevocation, Busy, At
<1>6. ASSUME NEW w \in Worker, Answer(w) \/ ForgetFails(w) \/ Crash(w)
      PROVE  Alone' /\ Spent \subseteq Spent'
  <2>1. Becomes(w, Idle) /\ Idle.pc = "idle" /\ sent' = sent /\ delivery' = delivery
    BY <1>6 DEF Answer, ForgetFails, Crash, Idle
  <2> QED BY <2>1, BusyStep
<1>7. ASSUME NEW w \in Worker,
             ReadLatestEnd(w) \/ ReadForLicense(w) \/ ReadForRevocation(w)
      PROVE  Alone' /\ Spent \subseteq Spent'
  <2>1. Busy(w) /\ sent' = sent /\ delivery' = delivery
    BY <1>7 DEF ReadLatestEnd, ReadForLicense, ReadForRevocation, Handles, At, Busy
  <2>2. CASE GoTo(w, "answer")
    BY <2>1, <2>2, <1>4
  <2>3. ASSUME NEW x, NEW p \in {"attach", "revoke"},
               Becomes(w, [pc |-> p, d |-> work[w].d, target |-> x])
        PROVE  Alone' /\ Spent \subseteq Spent'
    <3> DEFINE q == [pc |-> p, d |-> work[w].d, target |-> x]
    <3>1. Becomes(w, q) /\ q.d = work[w].d
      BY <2>3
    <3> HIDE DEF q
    <3> QED BY <2>1, <3>1, BusyStep
  <2>4. ASSUME NEW x, NEW m,
               Becomes(w, [pc |-> "grant", d |-> work[w].d, month |-> m, startsAt |-> x])
        PROVE  Alone' /\ Spent \subseteq Spent'
    <3> DEFINE q == [pc |-> "grant", d |-> work[w].d, month |-> m, startsAt |-> x]
    <3>1. Becomes(w, q) /\ q.d = work[w].d
      BY <2>4
    <3> HIDE DEF q
    <3> QED BY <2>1, <3>1, BusyStep
  <2> QED BY <1>7, <2>2, <2>3, <2>4 DEF ReadLatestEnd, ReadForLicense, ReadForRevocation
<1>8. CASE Tick \/ UNCHANGED vars
  BY <1>8 DEF Tick, vars, Alone, Spent, Busy, Revocations
<1> QED BY <1>1, <1>2, <1>3, <1>5, <1>6, <1>7, <1>8 DEF Next, Step

\* The worker that revokes spends its delivery.
LEMMA RevocationSpent ==
  ASSUME TypedInv, Alone, NEW w \in Worker, WriteRevocation(w)
  PROVE  work[w].d \in Spent' /\ work[w].d \notin Spent
<1>1. /\ Busy(w) /\ work[w].d \in Delivery /\ PulseOf(w).event = "license.revoked"
      /\ PulseOf(w) # None
  BY Locals DEF WriteRevocation, At, Busy, TypedInv, WorkKnown
<1>2. /\ work'[w].pc = "answer" /\ \A v \in Worker \ {w} : work'[v] = work[v]
      /\ sent' = sent /\ delivery' = delivery
  BY DEF WriteRevocation, GoTo, Becomes, TypedInv, TypeOK, chariow
<1>3. work[w].d \in Revocations' /\ work[w].d \in delivery'
  BY <1>1, <1>2 DEF Revocations, PulseOf, Alone
<1>4. \A v \in Worker : Busy(v)' => v # w /\ Busy(v) /\ work'[v].d # work[w].d
  BY <1>1, <1>2 DEF Busy, Alone
<1>5. work[w].d \in Spent'
  BY <1>3, <1>4 DEF Spent
<1> QED BY <1>1, <1>5 DEF Spent

LEMMA StepRevocation ==
  ASSUME RevocationInv, [Next]_vars
  PROVE  RevocationInv'
<1>1. TypedInv /\ TypedInv' /\ Alone /\ Alone' /\ Spent \subseteq Spent'
  BY StepTyped, StepAlone DEF RevocationInv
<1>2. /\ IsFiniteSet(Revoked) /\ IsFiniteSet(Spent) /\ IsFiniteSet(Spent')
      /\ Cardinality(Revoked) \in Nat /\ Cardinality(Spent) \in Nat
      /\ Cardinality(Revoked') \in Nat /\ Cardinality(Spent') \in Nat
  <2>1. Spent' \in SUBSET Delivery /\ Revoked' \in SUBSET Sale
    BY DEF Spent, Revocations, Revoked, Granted
  <2>2. IsFiniteSet(Spent') /\ IsFiniteSet(Revoked')
    BY <2>1, FiniteAssumption, FS_Subset
  <2> QED BY <1>1, <2>2, FiniteCounts, FS_CardinalityType
<1>3. Cardinality(Revoked) <= Cardinality(Spent)
  BY DEF RevocationInv
<1>4. CASE Revoked' \subseteq Revoked
  <2>1. Cardinality(Revoked') <= Cardinality(Revoked)
    BY <1>2, <1>4, FS_Subset
  <2>2. Cardinality(Spent) <= Cardinality(Spent')
    BY <1>1, <1>2, FS_Subset
  <2> QED BY <1>1, <1>2, <1>3, <2>1, <2>2 DEF RevocationInv
<1>5. ASSUME NEW w \in Worker, WriteRevocation(w),
             Revoked' \subseteq Revoked \cup {work[w].target}
      PROVE  RevocationInv'
  <2> DEFINE R == Revoked \cup {work[w].target}
             S == Spent \cup {work[w].d}
  <2>1. IsFiniteSet(R) /\ Cardinality(R) <= Cardinality(Revoked) + 1
        /\ Cardinality(R) \in Nat
    <3>1. CASE work[w].target \in Revoked
      <4>1. R = Revoked
        BY <3>1
      <4> HIDE DEF R
      <4> QED BY <1>2, <4>1
    <3>2. CASE work[w].target \notin Revoked
      <4>1. IsFiniteSet(R) /\ Cardinality(R) = Cardinality(Revoked) + 1
        BY <1>2, <3>2, FS_AddElement
      <4> HIDE DEF R
      <4> QED BY <1>2, <4>1
    <3> QED BY <3>1, <3>2
  <2>2. Cardinality(Revoked') <= Cardinality(R)
    BY <1>5, <2>1, FS_Subset
  <2>3. IsFiniteSet(S) /\ Cardinality(S) = Cardinality(Spent) + 1
    BY <1>1, <1>2, <1>5, RevocationSpent, FS_AddElement
  <2>4. Cardinality(S) <= Cardinality(Spent')
    BY <1>1, <1>2, <1>5, RevocationSpent, FS_Subset
  <2> HIDE DEF R, S
  <2>5. Cardinality(Revoked') <= Cardinality(Spent')
    BY <1>2, <1>3, <2>1, <2>2, <2>3, <2>4
  <2> QED BY <1>1, <2>5 DEF RevocationInv
<1> QED BY <1>1, <1>4, <1>5, RevokedStep

\* A revocation closes one subscription at most, however often its Pulse is
\* delivered, fails or is handled at once by several workers.
THEOREM OneRevocation == Spec => []OneRevocationPerPulse
<1>1. Init => RevocationInv
  <2> SUFFICES ASSUME Init PROVE RevocationInv
    OBVIOUS
  <2>1. TypedInv /\ Alone
    BY InitTyped DEF Init, Alone, Busy, Idle
  <2>2. Revoked = {}
    BY DEF Init, Revoked, Granted
  <2>3. Cardinality(Revoked) = 0
    BY <2>2, FS_EmptySet
  <2> QED BY <2>1, <2>3, FiniteCounts DEF RevocationInv
<1>2. RevocationInv /\ [Next]_vars => RevocationInv'
  BY StepRevocation
<1>3. RevocationInv => OneRevocationPerPulse
  <2> SUFFICES ASSUME RevocationInv PROVE OneRevocationPerPulse
    OBVIOUS
  <2>1. Cardinality(Revoked) <= Cardinality(Revocations)
    BY FiniteCounts DEF RevocationInv
  <2> QED BY <2>1 DEF Revoked, OneRevocationPerPulse
<1> QED BY <1>1, <1>2, <1>3, PTL DEF Spec

=============================================================================
