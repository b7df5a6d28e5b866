-------------------------- MODULE PrestationsProofs --------------------------
(***************************************************************************)
(* Prestations for every set of installations and of requests: its type    *)
(* invariant, the three trace invariants, and that its links implement     *)
(* SingleUseToken.                                                         *)
(***************************************************************************)
EXTENDS Prestations, TLAPS

\* What a request in flight knows: its installation, and what it has read.
ReqOK ==
  \A r \in Request :
    /\ req[r].pc \notin {"idle", "done"} => req[r].inst \in Installation
    /\ req[r].pc \in {"existingProof", "writeProof", "writeStatus", "writeReview"}
         => req[r].status \in Status
    /\ At(r, "writeStatus") => req[r].target \in Status
    /\ At(r, "writeReview") => req[r].target \in Decision
    /\ At(r, "writeValidated") => proof[req[r].inst] # None

\* A status that was read is PLANNED or has its row in the history, however
\* old the reading.
ReadStatusTraced ==
  \A r \in Request :
    req[r].pc \in {"existingProof", "writeProof", "writeStatus", "writeReview"}
      => req[r].status = "PLANNED" \/ Traced(req[r].inst, req[r].status)

\* A submission about to replace a proof found it refused.
ReadProofTraced ==
  \A r \in Request :
    At(r, "writeProof") /\ req[r].proof # None
      => Traced(req[r].inst, "REJECTED")

\* The request that created a proof is over: what it had read is settled.
AuthorsDone ==
  \A i \in Installation :
    proof[i] # None => proof[i].id \in Request /\ At(proof[i].id, "done")

TraceInv ==
  /\ HistoryExplainsStatus
  /\ ReadStatusTraced
  /\ ReadProofTraced
  /\ AuthorsDone
  /\ RefusalTraced
  /\ ProofTraced

IInv == TypeOK /\ ReqOK /\ TraceInv

-----------------------------------------------------------------------------
(* Typing.                                                                 *)

\* Appending keeps a sequence in its Seq.
LEMMA AppendTyped ==
  ASSUME NEW S, NEW s \in Seq(S), NEW e \in S
  PROVE  Append(s, e) \in Seq(S)
OBVIOUS

\* The change of status every writer makes keeps the two columns typed.
LEMMA ChangeStatusTyped ==
  ASSUME TypeOK, NEW i \in Installation, NEW from \in Status, NEW to \in Status,
         ChangeStatusIfRead(i, from, to) \/ ChangeStatus(i, from, to)
  PROVE  /\ status' \in [Installation -> Status]
         /\ history' \in [Installation -> Seq([from : Status, to : Status])]
<1>1. CASE ChangeStatus(i, from, to)
  <2>1. history[i] \in Seq([from : Status, to : Status])
    BY DEF TypeOK
  <2>2. [from |-> from, to |-> to] \in [from : Status, to : Status]
    OBVIOUS
  <2>3. Append(history[i], [from |-> from, to |-> to])
          \in Seq([from : Status, to : Status])
    BY <2>1, <2>2, AppendTyped
  <2> QED
    BY <1>1, <2>3 DEF TypeOK, ChangeStatus
<1>2. CASE UNCHANGED <<status, history>>
  BY <1>2 DEF TypeOK
<1> QED
  BY <1>1, <1>2 DEF ChangeStatusIfRead

\* A request record that is typed stays so with another pc, ...
LEMMA BecomesTyped ==
  ASSUME TypeOK, NEW r \in Request, NEW q \in Local, Becomes(r, q)
  PROVE  req' \in [Request -> Local]
BY DEF TypeOK, Becomes

\* ... in particular when it only moves on.
LEMMA GoToTyped ==
  ASSUME TypeOK, NEW r \in Request, NEW p \in PC, GoTo(r, p)
  PROVE  req' \in [Request -> Local]
<1>1. [req[r] EXCEPT !.pc = p] \in Local
  BY DEF TypeOK, Local
<1> QED
  BY <1>1, BecomesTyped DEF GoTo

\* Every step keeps the types ...
LEMMA StepTypeOK == TypeOK /\ ReqOK /\ [Next]_vars => TypeOK'
<1> SUFFICES ASSUME TypeOK, ReqOK, [Next]_vars
             PROVE  TypeOK'
  OBVIOUS
<1> USE NoneAssumption
<1>1. ASSUME NEW r \in Request, NEW i \in Installation, Submit(r, i)
      PROVE  TypeOK'
  <2>1. req[r] \in Local /\ status[i] \in Status
    BY DEF TypeOK
  <2>2. req' \in [Request -> Local]
    BY <1>1, <2>1, BecomesTyped DEF Submit, Local, PC
  <2> QED
    BY <1>1, <2>2 DEF TypeOK, Submit, dbVars
<1>2. ASSUME NEW r \in Request, NEW l \in issued, SubmitViaLink(r, l)
      PROVE  TypeOK'
  <2>1. req[r] \in Local /\ l \in Link
    BY DEF TypeOK
  <2>2. l.inst \in Installation
    BY <2>1 DEF Link
  <2>3. req' \in [Request -> Local]
    BY <1>2, <2>1, <2>2, BecomesTyped DEF SubmitViaLink, Local, PC
  <2> QED
    BY <1>2, <2>3 DEF TypeOK, SubmitViaLink, Take, dbVars
<1>3. ASSUME NEW r \in Request, ReadInstallation(r)
      PROVE  TypeOK'
  <2>1. req[r] \in Local /\ status[req[r].inst] \in Status
    BY <1>3 DEF TypeOK, ReqOK, ReadInstallation, At
  <2>2. req' \in [Request -> Local]
    BY <1>3, <2>1, BecomesTyped DEF ReadInstallation, Local, PC
  <2> QED
    BY <1>3, <2>2 DEF TypeOK, ReadInstallation, dbVars
<1>4. ASSUME NEW r \in Request, ReadExistingProof(r)
      PROVE  TypeOK'
  <2>1. req[r] \in Local /\ proof[req[r].inst] \in ProofRow \cup {None}
    BY <1>4 DEF TypeOK, ReqOK, ReadExistingProof, At
  <2>2. req' \in [Request -> Local]
    BY <1>4, <2>1, BecomesTyped DEF ReadExistingProof, Local, PC
  <2> QED
    BY <1>4, <2>2 DEF TypeOK, ReadExistingProof, dbVars
<1>5. ASSUME NEW r \in Request, WriteProof(r)
      PROVE  TypeOK'
  <2>1. req[r].inst \in Installation /\ req[r].status \in Status
    BY <1>5 DEF ReqOK, WriteProof, At
  <2>2. [id |-> r, status |-> "PENDING"] \in ProofRow
    BY DEF ProofRow, ProofStatus
  <2>3. /\ status' \in [Installation -> Status]
        /\ history' \in [Installation -> Seq([from : Status, to : Status])]
    BY <1>5, <2>1, ChangeStatusTyped DEF WriteProof, Status
  <2>4. req' \in [Request -> Local]
    BY <1>5, GoToTyped DEF WriteProof, PC
  <2> QED
    BY <1>5, <2>2, <2>3, <2>4 DEF TypeOK, WriteProof
<1>6. ASSUME NEW r \in Request, NEW i \in Installation, UpdateStatus(r, i)
      PROVE  TypeOK'
  <2>1. req[r] \in Local /\ status[i] \in Status
    BY DEF TypeOK
  <2>2. req' \in [Request -> Local]
    BY <1>6, <2>1, BecomesTyped DEF UpdateStatus, DtoStatus, Local, PC
  <2> QED
    BY <1>6, <2>2 DEF TypeOK, UpdateStatus, dbVars
<1>7. ASSUME NEW r \in Request, WriteStatus(r)
      PROVE  TypeOK'
  <2>1. /\ req[r].inst \in Installation
        /\ req[r].status \in Status /\ req[r].target \in Status
    BY <1>7 DEF ReqOK, WriteStatus, At
  <2>2. /\ status' \in [Installation -> Status]
        /\ history' \in [Installation -> Seq([from : Status, to : Status])]
    BY <1>7, <2>1, ChangeStatusTyped DEF WriteStatus
  <2>3. req' \in [Request -> Local]
    BY <1>7, GoToTyped DEF WriteStatus, PC
  <2> QED
    BY <1>7, <2>2, <2>3 DEF TypeOK, WriteStatus
<1>8. ASSUME NEW r \in Request, NEW i \in Installation, ReviewProof(r, i)
      PROVE  TypeOK'
  <2>1. /\ req[r] \in Local /\ status[i] \in Status
        /\ proof[i] \in ProofRow \cup {None}
    BY DEF TypeOK
  <2>2. req' \in [Request -> Local]
    BY <1>8, <2>1, BecomesTyped DEF ReviewProof, Decision, Status, Local, PC
  <2> QED
    BY <1>8, <2>2 DEF TypeOK, ReviewProof, dbVars
<1>9. ASSUME NEW r \in Request, WriteReview(r)
      PROVE  TypeOK'
  <2>1. /\ req[r].inst \in Installation
        /\ req[r].status \in Status /\ req[r].target \in Decision
    BY <1>9 DEF ReqOK, WriteReview, At
  <2>2. [proof[req[r].inst] EXCEPT !.status = req[r].target] \in ProofRow
    BY <1>9, <2>1 DEF TypeOK, WriteReview, ProofRow, ProofStatus
  <2>3. /\ status' \in [Installation -> Status]
        /\ history' \in [Installation -> Seq([from : Status, to : Status])]
    BY <1>9, <2>1, ChangeStatusTyped DEF WriteReview, Decision, Status
  <2>4. req' \in [Request -> Local]
    BY <1>9, GoToTyped DEF WriteReview, PC
  <2> QED
    BY <1>9, <2>2, <2>3, <2>4 DEF TypeOK, WriteReview
<1>10. ASSUME NEW r \in Request, NEW i \in Installation, NEW type \in LinkType,
              GenerateLink(r, i, type)
       PROVE  TypeOK'
  <2>1. [jti |-> r, type |-> type, inst |-> i] \in Link
    BY DEF Link
  <2>2. req' \in [Request -> Local]
    BY <1>10, GoToTyped DEF GenerateLink, PC
  <2> QED
    BY <1>10, <2>1, <2>2 DEF TypeOK, GenerateLink, dbVars
<1>11. ASSUME NEW r \in Request, NEW l \in issued, ConsumeValidationLink(r, l)
       PROVE  TypeOK'
  <2>1. req[r] \in Local /\ l \in Link
    BY DEF TypeOK
  <2>2. l.inst \in Installation
    BY <2>1 DEF Link
  <2>3. req' \in [Request -> Local]
    BY <1>11, <2>1, <2>2, BecomesTyped DEF ConsumeValidationLink, Local, PC
  <2> QED
    BY <1>11, <2>3 DEF TypeOK, ConsumeValidationLink, Take, dbVars
<1>12. ASSUME NEW r \in Request, ReadForValidation(r)
       PROVE  TypeOK'
  <2>1. req[r] \in Local /\ proof[req[r].inst] \in ProofRow \cup {None}
    BY <1>12 DEF TypeOK, ReqOK, ReadForValidation, At
  <2>2. req' \in [Request -> Local]
    BY <1>12, <2>1, BecomesTyped DEF ReadForValidation, Local, PC
  <2> QED
    BY <1>12, <2>2 DEF TypeOK, ReadForValidation, dbVars
<1>13. ASSUME NEW r \in Request, WriteValidated(r)
       PROVE  TypeOK'
  <2>1. req[r].inst \in Installation /\ proof[req[r].inst] # None
    BY <1>13 DEF ReqOK, WriteValidated, At
  <2>2. [proof[req[r].inst] EXCEPT !.status = "VALIDATED"] \in ProofRow
    BY <2>1 DEF TypeOK, ProofRow, ProofStatus, Decision
  <2>3. req' \in [Request -> Local]
    BY <1>13, GoToTyped DEF WriteValidated, PC
  <2> QED
    BY <1>13, <2>2, <2>3 DEF TypeOK, WriteValidated
<1>14. ASSUME NEW l \in unused, Expire(l)
       PROVE  TypeOK'
  BY <1>14 DEF TypeOK, Expire, dbVars
<1>15. ASSUME NEW r \in Request, Refuse(r) \/ Fail(r)
       PROVE  TypeOK'
  <2>1. req' \in [Request -> Local]
    BY <1>15, GoToTyped DEF Refuse, Fail, PC
  <2> QED
    BY <1>15, <2>1 DEF TypeOK, Refuse, Fail, dbVars
<1>16. CASE UNCHANGED vars
  BY <1>16 DEF TypeOK, vars
<1> QED
  BY <1>1, <1>2, <1>3, <1>4, <1>5, <1>6, <1>7, <1>8, <1>9, <1>10, <1>11, <1>12,
     <1>13, <1>14, <1>15, <1>16
  DEF Next, Step

\* A request that ends relies on nothing, and the others on proofs that stay.
LEMMA EndReqOK ==
  ASSUME TypeOK, ReqOK, NEW r \in Request, GoTo(r, "done"),
         \A k \in Installation : proof[k] # None => proof'[k] # None
  PROVE  ReqOK'
<1>1. \A x \in Request : x # r => req'[x] = req[x]
  BY DEF TypeOK, GoTo, Becomes
<1>2. req'[r].pc = "done"
  BY DEF TypeOK, Local, GoTo, Becomes
<1>3. \A x \in Request :
        At(x, "writeValidated") => req[x].inst \in Installation
  BY DEF ReqOK, At
<1> QED
  BY <1>1, <1>2, <1>3 DEF ReqOK, At

\* ... and what requests in flight rely on.
LEMMA StepReqOK == TypeOK /\ ReqOK /\ [Next]_vars => ReqOK'
<1> SUFFICES ASSUME TypeOK, ReqOK, [Next]_vars
             PROVE  ReqOK'
  OBVIOUS
<1>1. ASSUME NEW r \in Request, NEW i \in Installation, Submit(r, i)
      PROVE  ReqOK'
  BY <1>1 DEF TypeOK, ReqOK, Submit, Becomes, Local, At, dbVars
<1>2. ASSUME NEW r \in Request, NEW l \in issued, SubmitViaLink(r, l)
      PROVE  ReqOK'
  BY <1>2 DEF TypeOK, ReqOK, SubmitViaLink, Becomes, Local, At, Take, Link, dbVars
<1>3. ASSUME NEW r \in Request, ReadInstallation(r)
      PROVE  ReqOK'
  BY <1>3 DEF TypeOK, ReqOK, ReadInstallation, Becomes, Local, At, dbVars
<1>4. ASSUME NEW r \in Request, ReadExistingProof(r)
      PROVE  ReqOK'
  BY <1>4 DEF TypeOK, ReqOK, ReadExistingProof, Becomes, Local, At, dbVars
<1>5. ASSUME NEW r \in Request, WriteProof(r)
      PROVE  ReqOK'
  <2>1. \A k \in Installation : proof[k] # None => proof'[k] # None
    BY <1>5, NoneAssumption DEF TypeOK, ReqOK, WriteProof, At, ProofRow, ProofStatus
  <2> QED
    BY <1>5, <2>1, EndReqOK DEF WriteProof
<1>6. ASSUME NEW r \in Request, NEW i \in Installation, UpdateStatus(r, i)
      PROVE  ReqOK'
  BY <1>6 DEF TypeOK, ReqOK, UpdateStatus, Becomes, Local, At, DtoStatus, dbVars
<1>7. ASSUME NEW r \in Request, WriteStatus(r)
      PROVE  ReqOK'
  BY <1>7 DEF TypeOK, ReqOK, WriteStatus, Becomes, Local, At, GoTo
<1>8. ASSUME NEW r \in Request, NEW i \in Installation, ReviewProof(r, i)
      PROVE  ReqOK'
  BY <1>8 DEF TypeOK, ReqOK, ReviewProof, Becomes, Local, At, Decision, Status, dbVars
<1>9. ASSUME NEW r \in Request, WriteReview(r)
      PROVE  ReqOK'
  <2>1. [proof[req[r].inst] EXCEPT !.status = req[r].target] \in ProofRow
    BY <1>9 DEF TypeOK, ReqOK, WriteReview, At, ProofRow, ProofStatus
  <2>2. \A k \in Installation : proof[k] # None => proof'[k] # None
    BY <1>9, <2>1, NoneAssumption DEF TypeOK, ReqOK, WriteReview, At, ProofRow
  <2> QED
    BY <1>9, <2>2, EndReqOK DEF WriteReview
<1>10. ASSUME NEW r \in Request, NEW i \in Installation, NEW type \in LinkType, GenerateLink(r, i, type)
       PROVE  ReqOK'
  BY <1>10 DEF TypeOK, ReqOK, GenerateLink, Becomes, Local, At, GoTo, Link, dbVars
<1>11. ASSUME NEW r \in Request, NEW l \in issued, ConsumeValidationLink(r, l)
       PROVE  ReqOK'
  BY <1>11 DEF TypeOK, ReqOK, ConsumeValidationLink, Becomes, Local, At, Take, Link, dbVars
<1>12. ASSUME NEW r \in Request, ReadForValidation(r)
       PROVE  ReqOK'
  BY <1>12 DEF TypeOK, ReqOK, ReadForValidation, Becomes, Local, At, dbVars
<1>13. ASSUME NEW r \in Request, WriteValidated(r)
       PROVE  ReqOK'
  <2>1. [proof[req[r].inst] EXCEPT !.status = "VALIDATED"] \in ProofRow
    BY <1>13 DEF TypeOK, ReqOK, WriteValidated, At, ProofRow, ProofStatus, Decision
  <2>2. \A k \in Installation : proof[k] # None => proof'[k] # None
    BY <1>13, <2>1, NoneAssumption DEF TypeOK, ReqOK, WriteValidated, At, ProofRow
  <2> QED
    BY <1>13, <2>2, EndReqOK DEF WriteValidated
<1>14. ASSUME NEW l \in unused, Expire(l)
       PROVE  ReqOK'
  BY <1>14 DEF TypeOK, ReqOK, Expire, Becomes, Local, At, dbVars
<1>15. ASSUME NEW r \in Request, Refuse(r) \/ Fail(r)
       PROVE  ReqOK'
  BY <1>15 DEF TypeOK, ReqOK, Refuse, Fail, GoTo, Becomes, Local, At, dbVars
<1>16. CASE UNCHANGED vars
  BY <1>16 DEF ReqOK, At, vars, dbVars
<1> QED
  BY <1>1, <1>2, <1>3, <1>4, <1>5, <1>6, <1>7, <1>8, <1>9, <1>10, <1>11, <1>12, <1>13, <1>14, <1>15, <1>16
  DEF Next, Step

LEMMA InitTyped == Init => TypeOK /\ ReqOK
BY NoneAssumption DEF Init, TypeOK, ReqOK, Local, PC, Status, At

\* Every state of the specification is well typed.
THEOREM TypeCorrect == Spec => []TypeOK
<1>1. Spec => [](TypeOK /\ ReqOK)
  BY InitTyped, StepTypeOK, StepReqOK, PTL DEF Spec
<1> QED
  BY <1>1, PTL

-----------------------------------------------------------------------------
(* The history.                                                            *)

\* What one pair of writes does: the row it adds announces the new status,
\* and the rows before it stay.
LEMMA ChangeStatusTraces ==
  ASSUME TypeOK, NEW i \in Installation, NEW from \in Status, NEW to \in Status,
         ChangeStatus(i, from, to)
  PROVE  /\ Traced(i, to)'
         /\ \A k \in Installation, s \in Status : Traced(k, s) => Traced(k, s)'
         /\ HistoryExplainsStatus => HistoryExplainsStatus'
<1> DEFINE row == [from |-> from, to |-> to]
<1>1. /\ history[i] \in Seq([from : Status, to : Status])
      /\ row \in [from : Status, to : Status]
      /\ row.to = to
  BY DEF TypeOK
<1>2. /\ history'[i] = Append(history[i], row)
      /\ status'[i] = to
      /\ \A k \in Installation \ {i} : history'[k] = history[k] /\ status'[k] = status[k]
  BY DEF ChangeStatus, TypeOK
<1> HIDE DEF row
<1>3. /\ Len(history'[i]) = Len(history[i]) + 1
      /\ history'[i][Len(history[i]) + 1] = row
      /\ \A n \in DOMAIN history[i] : n \in DOMAIN history'[i] /\ history'[i][n] = history[i][n]
      /\ Len(history[i]) + 1 \in DOMAIN history'[i]
      /\ history'[i] # <<>>
  BY <1>1, <1>2
<1>4. Traced(i, to)'
  BY <1>1, <1>3 DEF Traced
<1>5. ASSUME NEW k \in Installation, NEW s \in Status, Traced(k, s)
      PROVE  Traced(k, s)'
  BY <1>2, <1>3, <1>5 DEF Traced
<1>6. HistoryExplainsStatus => HistoryExplainsStatus'
  BY <1>1, <1>2, <1>3 DEF HistoryExplainsStatus
<1> QED
  BY <1>4, <1>5, <1>6

\* The guarded pair: the status written is traced afterwards either way.
LEMMA ChangeStatusIfReadTraces ==
  ASSUME TypeOK, NEW i \in Installation, NEW from \in Status, NEW to \in Status,
         to # "PLANNED", from = "PLANNED" \/ Traced(i, from),
         ChangeStatusIfRead(i, from, to)
  PROVE  /\ Traced(i, to)'
         /\ \A k \in Installation, s \in Status : Traced(k, s) => Traced(k, s)'
         /\ HistoryExplainsStatus => HistoryExplainsStatus'
<1>1. CASE from = to
  BY <1>1 DEF ChangeStatusIfRead, Traced, HistoryExplainsStatus
<1>2. CASE from # to
  BY <1>2, ChangeStatusTraces DEF ChangeStatusIfRead
<1> QED
  BY <1>1, <1>2

\* A status is PLANNED or announced by the history.
LEMMA StatusTraced ==
  ASSUME TypeOK, HistoryExplainsStatus, NEW i \in Installation
  PROVE  status[i] = "PLANNED" \/ Traced(i, status[i])
<1>1. history[i] \in Seq([from : Status, to : Status])
  BY DEF TypeOK
<1>2. history[i] # <<>> => Len(history[i]) \in DOMAIN history[i]
  BY <1>1
<1> QED
  BY <1>2 DEF HistoryExplainsStatus, Traced

\* No step loses a row of the history or lets it fall behind the status.
LEMMA StepTraces ==
  IInv /\ [Next]_vars =>
    /\ HistoryExplainsStatus'
    /\ \A k \in Installation, s \in Status : Traced(k, s) => Traced(k, s)'
<1> SUFFICES ASSUME IInv, [Next]_vars
             PROVE  /\ HistoryExplainsStatus'
                    /\ \A k \in Installation, s \in Status :
                         Traced(k, s) => Traced(k, s)'
  OBVIOUS
<1> USE DEF IInv, TraceInv
<1>1. ASSUME NEW r \in Request, WriteProof(r)
      PROVE  /\ HistoryExplainsStatus'
             /\ \A k \in Installation, s \in Status : Traced(k, s) => Traced(k, s)'
  <2>1. /\ req[r].inst \in Installation /\ req[r].status \in Status
        /\ req[r].status = "PLANNED" \/ Traced(req[r].inst, req[r].status)
    BY <1>1 DEF WriteProof, ReqOK, ReadStatusTraced, At
  <2>2. ChangeStatusIfRead(req[r].inst, req[r].status, "INSTALLED")
    BY <1>1 DEF WriteProof
  <2> QED
    BY <2>1, <2>2, ChangeStatusIfReadTraces DEF Status
<1>2. ASSUME NEW r \in Request, WriteStatus(r)
      PROVE  /\ HistoryExplainsStatus'
             /\ \A k \in Installation, s \in Status : Traced(k, s) => Traced(k, s)'
  <2>1. /\ req[r].inst \in Installation
        /\ req[r].status \in Status /\ req[r].target \in Status
    BY <1>2 DEF WriteStatus, ReqOK, At
  <2> QED
    BY <1>2, <2>1, ChangeStatusTraces DEF WriteStatus
<1>3. ASSUME NEW r \in Request, WriteReview(r)
      PROVE  /\ HistoryExplainsStatus'
             /\ \A k \in Installation, s \in Status : Traced(k, s) => Traced(k, s)'
  <2>1. /\ req[r].inst \in Installation /\ req[r].status \in Status
        /\ req[r].target \in Status /\ req[r].target # "PLANNED"
        /\ req[r].status = "PLANNED" \/ Traced(req[r].inst, req[r].status)
    BY <1>3 DEF WriteReview, ReqOK, ReadStatusTraced, At, Decision, Status
  <2>2. ChangeStatusIfRead(req[r].inst, req[r].status, req[r].target)
    BY <1>3 DEF WriteReview
  <2> QED
    BY <2>1, <2>2, ChangeStatusIfReadTraces
<1>4. CASE UNCHANGED <<status, history>>
  BY <1>4 DEF HistoryExplainsStatus, Traced
<1> QED
  BY <1>1, <1>2, <1>3, <1>4
  DEF Next, Step, vars, dbVars, Submit, SubmitViaLink, ReadInstallation,
      ReadExistingProof, UpdateStatus, ReviewProof, GenerateLink,
      ConsumeValidationLink, ReadForValidation, WriteValidated, Expire, Refuse, Fail

-----------------------------------------------------------------------------
(* What requests and proofs remember is in the history.                    *)

\* Statuses read, now or long ago, are traced.
LEMMA StepReadStatus == IInv /\ [Next]_vars => ReadStatusTraced'
<1> SUFFICES ASSUME IInv, [Next]_vars
             PROVE  ReadStatusTraced'
  OBVIOUS
<1> USE DEF IInv, TraceInv
<1>1. /\ \A k \in Installation, s \in Status : Traced(k, s) => Traced(k, s)'
      /\ \A k \in Installation : status[k] = "PLANNED" \/ Traced(k, status[k])
      /\ \A k \in Installation : status[k] \in Status
      /\ TypeOK' /\ ReqOK'
  BY StepTraces, StatusTraced, StepTypeOK, StepReqOK DEF TypeOK
<1> SUFFICES ASSUME NEW q \in Request,
                    req'[q].pc \in {"existingProof", "writeProof", "writeStatus",
                                    "writeReview"}
             PROVE  (req[q].status = "PLANNED" \/ Traced(req[q].inst, req[q].status))'
  BY DEF ReadStatusTraced
<1>2. CASE /\ req[q].pc \in {"existingProof", "writeProof", "writeStatus", "writeReview"}
           /\ req'[q].inst = req[q].inst /\ req'[q].status = req[q].status
  BY <1>1, <1>2 DEF ReadStatusTraced, ReqOK
<1>3. ASSUME NEW i \in Installation, req'[q].inst = i, req'[q].status = status[i]
      PROVE  (req[q].status = "PLANNED" \/ Traced(req[q].inst, req[q].status))'
  <2>1. PICK s \in Status : s = status[i]
    BY <1>1
  <2>2. s = "PLANNED" \/ Traced(i, s)'
    BY <1>1, <2>1
  <2> QED
    BY <1>3, <2>1, <2>2 DEF Traced
<1> QED
  <2>1. req'[q] = req[q] => req[q].pc \in {"existingProof", "writeProof",
                                           "writeStatus", "writeReview"}
    OBVIOUS
  <2>2. CASE req'[q] # req[q]
    <3>1. ASSUME NEW i \in Installation,
                 Submit(q, i) \/ UpdateStatus(q, i) \/ ReviewProof(q, i)
          PROVE  req'[q].inst = i /\ req'[q].status = status[i]
      <4>1. req[q] \in Local
        BY DEF TypeOK
      <4>2. CASE Submit(q, i)
        BY <4>1, <4>2 DEF Submit, Becomes, TypeOK, Local
      <4>3. CASE UpdateStatus(q, i)
        BY <4>1, <4>3 DEF UpdateStatus, Becomes, TypeOK, Local
      <4>4. CASE ReviewProof(q, i)
        BY <4>1, <4>4 DEF ReviewProof, Becomes, TypeOK, Local
      <4> QED
        BY <3>1, <4>2, <4>3, <4>4
    <3>2. ASSUME ReadInstallation(q)
          PROVE  /\ req[q].inst \in Installation /\ req'[q].inst = req[q].inst
                 /\ req'[q].status = status[req[q].inst]
      BY <3>2 DEF ReadInstallation, Becomes, TypeOK, Local, ReqOK, At
    <3>3. ASSUME ReadExistingProof(q)
          PROVE  /\ At(q, "existingProof") /\ req'[q].inst = req[q].inst
                 /\ req'[q].status = req[q].status
      BY <3>3 DEF ReadExistingProof, Becomes, TypeOK, Local
    <3>4. ASSUME NEW r \in Request, NEW l \in issued, SubmitViaLink(r, l) \/
                                                     ConsumeValidationLink(r, l)
          PROVE  FALSE
      BY <2>2, <3>4 DEF SubmitViaLink, ConsumeValidationLink, Becomes, TypeOK, Local
    <3>5. ASSUME NEW r \in Request, ReadForValidation(r)
          PROVE  FALSE
      BY <2>2, <3>5 DEF ReadForValidation, Becomes, TypeOK, Local
    <3>6. ASSUME NEW r \in Request, GoTo(r, "done")
          PROVE  FALSE
      BY <2>2, <3>6 DEF GoTo, Becomes, TypeOK, Local
    <3>7. ASSUME NEW r \in Request, r # q, Step(r) \/ \E i \in Installation :
                   Submit(r, i) \/ UpdateStatus(r, i) \/ ReviewProof(r, i)
          PROVE  FALSE
      BY <2>2, <3>7
      DEF Step, Submit, UpdateStatus, ReviewProof, ReadInstallation,
          ReadExistingProof, WriteProof, WriteStatus, WriteReview,
          ReadForValidation, WriteValidated, Refuse, Fail, GoTo, Becomes, TypeOK
    <3> QED
      BY <1>2, <1>3, <2>2, <3>1, <3>2, <3>3, <3>4, <3>5, <3>6, <3>7
      DEF Next, Step, WriteProof, WriteStatus, WriteReview, WriteValidated, Refuse,
          Fail, GenerateLink, Expire, At, vars
  <2> QED
    BY <1>2, <2>1, <2>2

\* A proof read before replacing it had its refusal traced.
LEMMA StepReadProof == IInv /\ [Next]_vars => ReadProofTraced'
<1> SUFFICES ASSUME IInv, [Next]_vars
             PROVE  ReadProofTraced'
  OBVIOUS
<1> USE DEF IInv, TraceInv
<1>1. \A k \in Installation, s \in Status : Traced(k, s) => Traced(k, s)'
  BY StepTraces
<1> SUFFICES ASSUME NEW q \in Request,
                    req'[q].pc = "writeProof", req'[q].proof # None
             PROVE  Traced(req[q].inst, "REJECTED")'
  BY DEF ReadProofTraced, At
<1>2. CASE req'[q] = req[q]
  BY <1>1, <1>2 DEF ReadProofTraced, ReqOK, At, Status
<1>3. CASE ReadExistingProof(q)
  <2>1. /\ req[q].inst \in Installation /\ req'[q].inst = req[q].inst
        /\ req'[q].proof = proof[req[q].inst]
        /\ Replaceable(proof[req[q].inst])
    BY <1>3 DEF ReadExistingProof, ReqOK, Becomes, TypeOK, Local, At
  <2>2. Traced(req[q].inst, "REJECTED")
    BY <2>1 DEF Replaceable, RefusalTraced
  <2> QED
    BY <1>1, <2>1, <2>2 DEF Status
<1>4. CASE req'[q] # req[q]
  <2>2. ASSUME NEW r \in Request, NEW i \in Installation,
               Submit(r, i) \/ UpdateStatus(r, i) \/ ReviewProof(r, i)
        PROVE  FALSE
    <3>1. req[r] \in Local
      BY DEF TypeOK
    <3>2. CASE Submit(r, i)
      BY <1>4, <3>1, <3>2 DEF Submit, Becomes, TypeOK, Local
    <3>3. CASE UpdateStatus(r, i)
      BY <1>4, <3>1, <3>3 DEF UpdateStatus, Becomes, TypeOK, Local
    <3>4. CASE ReviewProof(r, i)
      BY <1>4, <3>1, <3>4 DEF ReviewProof, Becomes, TypeOK, Local
    <3> QED
      BY <2>2, <3>2, <3>3, <3>4
  <2>3. ASSUME NEW r \in Request, NEW l \in issued,
               SubmitViaLink(r, l) \/ ConsumeValidationLink(r, l)
        PROVE  FALSE
    BY <1>4, <2>3 DEF SubmitViaLink, ConsumeValidationLink, Becomes, TypeOK, Local
  <2>4. ASSUME NEW r \in Request, ReadInstallation(r) \/ ReadForValidation(r)
        PROVE  FALSE
    BY <1>4, <2>4 DEF ReadInstallation, ReadForValidation, Becomes, TypeOK, Local
  <2>5. ASSUME NEW r \in Request, GoTo(r, "done")
        PROVE  FALSE
    BY <1>4, <2>5 DEF GoTo, Becomes, TypeOK, Local
  <2>6. ASSUME NEW r \in Request, r # q, ReadExistingProof(r)
        PROVE  FALSE
    BY <1>4, <2>6 DEF ReadExistingProof, Becomes, TypeOK
  <2> QED
    BY <1>3, <1>4, <2>2, <2>3, <2>4, <2>5, <2>6
    DEF Next, Step, WriteProof, WriteStatus, WriteReview, WriteValidated, Refuse,
        Fail, GenerateLink, Expire, vars
<1> QED
  BY <1>2, <1>4

\* A request that has answered does nothing more.
LEMMA DoneStays ==
  TypeOK /\ [Next]_vars => \A r \in Request : At(r, "done") => req'[r] = req[r]
BY DEF Next, Step, Submit, SubmitViaLink, ReadInstallation, ReadExistingProof,
       WriteProof, UpdateStatus, WriteStatus, ReviewProof, WriteReview, GenerateLink,
       ConsumeValidationLink, ReadForValidation, WriteValidated, Expire, Refuse,
       Fail, GoTo, Becomes, TypeOK, vars, At

\* The author of a proof is done when the proof appears and stays so.
LEMMA StepAuthors == IInv /\ [Next]_vars => AuthorsDone'
<1> SUFFICES ASSUME IInv, [Next]_vars, NEW i \in Installation, proof'[i] # None
             PROVE  proof'[i].id \in Request /\ req'[proof'[i].id].pc = "done"
  BY DEF AuthorsDone, At
<1> USE DEF IInv, TraceInv
<1>1. \A r \in Request : At(r, "done") => req'[r] = req[r]
  BY DoneStays
<1>2. CASE proof[i] # None /\ proof'[i].id = proof[i].id
  BY <1>1, <1>2 DEF AuthorsDone, At
<1>3. ASSUME NEW r \in Request, WriteProof(r), i = req[r].inst
      PROVE  proof'[i].id = r /\ req'[r].pc = "done"
  BY <1>3 DEF WriteProof, GoTo, Becomes, TypeOK, Local
<1>4. ASSUME NEW r \in Request, WriteReview(r) \/ WriteValidated(r), i = req[r].inst
      PROVE  proof[i] # None /\ proof'[i].id = proof[i].id
  BY <1>4 DEF WriteReview, WriteValidated, ReqOK, At, TypeOK, ProofRow
<1>5. ASSUME NEW r \in Request, WriteProof(r) \/ WriteReview(r) \/ WriteValidated(r),
             i # req[r].inst
      PROVE  proof'[i] = proof[i]
  BY <1>5 DEF WriteProof, WriteReview, WriteValidated, TypeOK
<1> QED
  BY <1>2, <1>3, <1>4, <1>5
  DEF Next, Step, Submit, SubmitViaLink, ReadInstallation, ReadExistingProof,
      UpdateStatus, WriteStatus, ReviewProof, GenerateLink, ConsumeValidationLink,
      ReadForValidation, Expire, Refuse, Fail, dbVars, vars

\* A proof keeps its author unless a submission replaces it.
LEMMA StepProof ==
  ASSUME TypeOK, ReqOK, [Next]_vars, NEW i \in Installation, proof'[i] # None
  PROVE  \/ proof'[i] = proof[i]
         \/ \E r \in Request : WriteProof(r) /\ i = req[r].inst
         \/ /\ proof[i] # None /\ proof'[i].id = proof[i].id
            /\ \/ proof'[i].status = "VALIDATED"
               \/ \E r \in Request :
                    /\ WriteReview(r) /\ i = req[r].inst
                    /\ proof'[i].status = req[r].target
<1>1. ASSUME NEW r \in Request, WriteReview(r), i = req[r].inst
      PROVE  /\ proof[i] # None /\ proof'[i].id = proof[i].id
             /\ proof'[i].status = req[r].target
  BY <1>1 DEF WriteReview, TypeOK, ProofRow
<1>2. ASSUME NEW r \in Request, WriteValidated(r), i = req[r].inst
      PROVE  /\ proof[i] # None /\ proof'[i].id = proof[i].id
             /\ proof'[i].status = "VALIDATED"
  BY <1>2 DEF WriteValidated, ReqOK, At, TypeOK, ProofRow
<1>3. ASSUME NEW r \in Request, WriteProof(r) \/ WriteReview(r) \/ WriteValidated(r),
             i # req[r].inst
      PROVE  proof'[i] = proof[i]
  BY <1>3 DEF WriteProof, WriteReview, WriteValidated, TypeOK
<1> QED
  BY <1>1, <1>2, <1>3
  DEF Next, Step, Submit, SubmitViaLink, ReadInstallation, ReadExistingProof,
      UpdateStatus, WriteStatus, ReviewProof, GenerateLink, ConsumeValidationLink,
      ReadForValidation, Expire, Refuse, Fail, dbVars, vars

\* Refusals, and replacements of refused proofs, are traced.
LEMMA StepRefusal == IInv /\ [Next]_vars => RefusalTraced'
<1> SUFFICES ASSUME IInv, [Next]_vars, NEW i \in Installation, proof'[i] # None,
                    proof'[i].status = "REJECTED" \/ req'[proof'[i].id].proof # None
             PROVE  Traced(i, "REJECTED")'
  BY DEF RefusalTraced
<1> USE DEF IInv, TraceInv
<1>1. "REJECTED" \in Status /\ (Traced(i, "REJECTED") => Traced(i, "REJECTED")')
  BY StepTraces DEF Status
<1>2. CASE proof'[i] = proof[i]
  BY <1>1, <1>2, DoneStays DEF RefusalTraced, AuthorsDone
<1>3. ASSUME NEW r \in Request, WriteProof(r), i = req[r].inst
      PROVE  Traced(i, "REJECTED")'
  <2>1. /\ proof'[i] = [id |-> r, status |-> "PENDING"]
        /\ req'[r].proof = req[r].proof
    BY <1>3 DEF WriteProof, GoTo, Becomes, TypeOK, Local
  <2>2. req[r].proof # None
    BY <2>1
  <2> QED
    BY <1>1, <1>3, <2>2 DEF ReadProofTraced, WriteProof
<1>4. ASSUME NEW r \in Request, WriteReview(r), i = req[r].inst,
             req[r].target = "REJECTED"
      PROVE  Traced(i, "REJECTED")'
  <2>1. /\ req[r].status \in Status
        /\ req[r].status = "PLANNED" \/ Traced(i, req[r].status)
    BY <1>4 DEF WriteReview, ReqOK, ReadStatusTraced, At
  <2> QED
    BY <1>1, <1>4, <2>1, ChangeStatusIfReadTraces DEF WriteReview
<1>5. CASE /\ proof[i] # None /\ proof'[i].id = proof[i].id
           /\ proof'[i].status # "REJECTED"
  BY <1>1, <1>5, DoneStays DEF RefusalTraced, AuthorsDone
<1> QED
  BY <1>2, <1>3, <1>4, <1>5, StepProof

\* A proof means the installation has been INSTALLED.
LEMMA StepInstalled == IInv /\ [Next]_vars => ProofTraced'
<1> SUFFICES ASSUME IInv, [Next]_vars, NEW i \in Installation, proof'[i] # None
             PROVE  Traced(i, "INSTALLED")'
  BY DEF ProofTraced
<1> USE DEF IInv, TraceInv
<1>1. "INSTALLED" \in Status /\ (Traced(i, "INSTALLED") => Traced(i, "INSTALLED")')
  BY StepTraces DEF Status
<1>2. CASE proof[i] # None
  BY <1>1, <1>2 DEF ProofTraced
<1>3. ASSUME NEW r \in Request, WriteProof(r), i = req[r].inst
      PROVE  Traced(i, "INSTALLED")'
  <2>1. /\ req[r].status \in Status
        /\ req[r].status = "PLANNED" \/ Traced(i, req[r].status)
    BY <1>3 DEF WriteProof, ReqOK, ReadStatusTraced, At
  <2> QED
    BY <1>1, <1>3, <2>1, ChangeStatusIfReadTraces DEF WriteProof
<1> QED
  BY <1>2, <1>3, StepProof

\* The inductive invariant holds at the start.
LEMMA InitIInv == Init => IInv
BY InitTyped
DEF Init, IInv, TraceInv, HistoryExplainsStatus, ReadStatusTraced, ReadProofTraced,
    AuthorsDone, RefusalTraced, ProofTraced, At

\* Every state of the specification satisfies it.
THEOREM Inductive == Spec => []IInv
<1>1. IInv /\ [Next]_vars => IInv'
  BY StepTypeOK, StepReqOK, StepTraces, StepReadStatus, StepReadProof, StepAuthors,
     StepRefusal, StepInstalled
  DEF IInv, TraceInv
<1> QED
  BY InitIInv, <1>1, PTL DEF Spec

\* The status is always the one the last row of the history announces.
THEOREM HistoryCorrect == Spec => []HistoryExplainsStatus
<1>1. IInv => HistoryExplainsStatus
  BY DEF IInv, TraceInv
<1> QED
  BY Inductive, <1>1, PTL

\* Every refusal, and every replaced proof, leaves its row in the history.
THEOREM RefusalsTraced == Spec => []RefusalTraced
<1>1. IInv => RefusalTraced
  BY DEF IInv, TraceInv
<1> QED
  BY Inductive, <1>1, PTL

\* The history of an installation with a proof has an INSTALLED row.
THEOREM ProofsTraced == Spec => []ProofTraced
<1>1. IInv => ProofTraced
  BY DEF IInv, TraceInv
<1> QED
  BY Inductive, <1>1, PTL

-----------------------------------------------------------------------------
(* The links are single-use tokens.                                        *)

\* An idle request has taken no link, and whoever generated a link is not
\* idle any more: its jti cannot be drawn again.
LinkInv ==
  /\ \A r \in Request : At(r, "idle") => req[r].link = None
  /\ \A l \in issued : ~At(l.jti, "idle")

Redeemed == {e \in Link \X Request : req[e[2]].link = e[1]}

\* What the steps that touch no link do to this.
LEMMA LinkUntouched ==
  ASSUME TypeOK, LinkInv, NEW r \in Request, NEW u \in Local, Becomes(r, u),
         u.link = req[r].link, u.pc # "idle", UNCHANGED issued
  PROVE  LinkInv' /\ Redeemed' = Redeemed
<1>1. \A s \in Request : req'[s].link = req[s].link
  BY DEF Becomes, TypeOK
<1>2. LinkInv'
  BY DEF LinkInv, Becomes, TypeOK, At, Link
<1>3. Redeemed' = Redeemed
  BY <1>1 DEF Redeemed
<1> QED
  BY <1>2, <1>3

\* A request that takes a link is its one redeemer.
LEMMA LinkTaken ==
  ASSUME TypeOK, LinkInv, NEW r \in Request, NEW l \in issued, NEW u \in Local,
         At(r, "idle"), Take(l), Becomes(r, u), u.link = l, u.pc # "idle",
         UNCHANGED issued
  PROVE  LinkInv' /\ Links!Redeem(l, r)
<1>1. l \in Link /\ l # None /\ None \notin Link
  BY NoneAssumption DEF TypeOK, Link
<1>2. /\ req'[r].link = l /\ req[r].link = None
      /\ \A s \in Request \ {r} : req'[s].link = req[s].link
  BY DEF Becomes, TypeOK, LinkInv, At
<1>3. LinkInv'
  BY DEF LinkInv, Becomes, TypeOK, At, Link
<1>4. Redeemed' = Redeemed \cup {<<l, r>>}
  BY <1>1, <1>2 DEF Redeemed
<1> QED
  BY <1>3, <1>4 DEF Links!Redeem, Take, Redeemed

\* Every step is a step of SingleUseToken or leaves the links alone.
LEMMA StepLinks ==
  ASSUME TypeOK, TypeOK', ReqOK, LinkInv, [Next]_vars
  PROVE  LinkInv' /\ [Links!Next]_Links!vars
<1> USE NoneAssumption
<1>1. ASSUME NEW r \in Request, NEW l \in issued, SubmitViaLink(r, l)
      PROVE  LinkInv' /\ Links!Redeem(l, r)
  <2>1. req[r] \in Local /\ req'[r] \in Local
    BY DEF TypeOK
  <2>2. Becomes(r, req'[r])
    BY <1>1 DEF SubmitViaLink, Becomes, TypeOK
  <2>3. req'[r].link = l /\ req'[r].pc # "idle"
    BY <1>1, <2>1 DEF SubmitViaLink, Becomes, TypeOK, Local
  <2> QED
    BY <1>1, <2>1, <2>2, <2>3, LinkTaken DEF SubmitViaLink
<1>2. ASSUME NEW r \in Request, NEW l \in issued, ConsumeValidationLink(r, l)
      PROVE  LinkInv' /\ Links!Redeem(l, r)
  <2>1. req[r] \in Local /\ req'[r] \in Local
    BY DEF TypeOK
  <2>2. Becomes(r, req'[r])
    BY <1>2 DEF ConsumeValidationLink, Becomes, TypeOK
  <2>3. req'[r].link = l /\ req'[r].pc # "idle"
    BY <1>2, <2>1 DEF ConsumeValidationLink, Becomes, TypeOK, Local
  <2> QED
    BY <1>2, <2>1, <2>2, <2>3, LinkTaken DEF ConsumeValidationLink
<1>3. ASSUME NEW r \in Request, NEW i \in Installation, NEW type \in LinkType,
             GenerateLink(r, i, type)
      PROVE  /\ LinkInv'
             /\ [jti |-> r, type |-> type, inst |-> i] \in Link
             /\ Links!Issue([jti |-> r, type |-> type, inst |-> i])
  <2> DEFINE l == [jti |-> r, type |-> type, inst |-> i]
  <2>1. l \in Link /\ l.jti = r
    BY DEF Link
  <2>2. l \notin issued
    BY <1>3, <2>1 DEF LinkInv, GenerateLink
  <2>3. /\ \A s \in Request : req'[s].link = req[s].link
        /\ req'[r].pc = "done" /\ \A s \in Request \ {r} : req'[s] = req[s]
    BY <1>3 DEF GenerateLink, GoTo, Becomes, TypeOK, Local
  <2>4. LinkInv'
    <3>1. \A k \in issued : k.jti \in Request
      BY DEF TypeOK, Link
    <3>2. issued' = issued \cup {l}
      BY <1>3 DEF GenerateLink
    <3> HIDE DEF l
    <3> QED
      BY <2>1, <2>3, <3>1, <3>2 DEF LinkInv, At
  <2>5. Redeemed' = Redeemed
    BY <2>3 DEF Redeemed
  <2> QED
    BY <1>3, <2>1, <2>2, <2>4, <2>5 DEF GenerateLink, Links!Issue, Redeemed
<1>4. ASSUME NEW l \in unused, Expire(l)
      PROVE  LinkInv' /\ Links!Drop({l})
  BY <1>4 DEF Expire, LinkInv, At, Links!Drop
<1>5. ASSUME NEW r \in Request, NEW u \in Local, Becomes(r, u),
             u.link = req[r].link, u.pc # "idle", UNCHANGED <<issued, unused>>
      PROVE  LinkInv' /\ UNCHANGED Links!vars
  BY <1>5, LinkUntouched DEF Links!vars, Redeemed
<1>6. ASSUME NEW r \in Request, GoTo(r, "done"), UNCHANGED <<issued, unused>>
      PROVE  LinkInv' /\ UNCHANGED Links!vars
  <2>1. /\ [req[r] EXCEPT !.pc = "done"] \in Local
        /\ [req[r] EXCEPT !.pc = "done"].link = req[r].link
        /\ [req[r] EXCEPT !.pc = "done"].pc # "idle"
    BY DEF TypeOK, Local, PC
  <2> QED
    BY <1>6, <2>1, <1>5 DEF GoTo
<1>7. ASSUME NEW r \in Request,
             \/ ReadInstallation(r) \/ ReadExistingProof(r) \/ ReadForValidation(r)
             \/ \E i \in Installation :
                  Submit(r, i) \/ UpdateStatus(r, i) \/ ReviewProof(r, i)
      PROVE  LinkInv' /\ UNCHANGED Links!vars
  <2>1. req[r] \in Local /\ req'[r] \in Local /\ Becomes(r, req'[r])
    BY <1>7
    DEF TypeOK, ReadInstallation, ReadExistingProof, ReadForValidation, Submit,
        UpdateStatus, ReviewProof, Becomes
  <2>2. req'[r].link = req[r].link /\ req'[r].pc # "idle"
    <3>1. CASE ReadInstallation(r)
      BY <2>1, <3>1 DEF TypeOK, Local, ReadInstallation, Becomes
    <3>5. CASE ReadExistingProof(r)
      BY <2>1, <3>5 DEF TypeOK, Local, ReadExistingProof, Becomes
    <3>6. CASE ReadForValidation(r)
      BY <2>1, <3>6 DEF TypeOK, Local, ReadForValidation, Becomes
    <3>2. ASSUME NEW i \in Installation, Submit(r, i)
          PROVE  req'[r].link = req[r].link /\ req'[r].pc # "idle"
      BY <2>1, <3>2 DEF TypeOK, Local, Submit, Becomes
    <3>3. ASSUME NEW i \in Installation, UpdateStatus(r, i)
          PROVE  req'[r].link = req[r].link /\ req'[r].pc # "idle"
      BY <2>1, <3>3 DEF TypeOK, Local, UpdateStatus, Becomes
    <3>4. ASSUME NEW i \in Installation, ReviewProof(r, i)
          PROVE  req'[r].link = req[r].link /\ req'[r].pc # "idle"
      BY <2>1, <3>4 DEF TypeOK, Local, ReviewProof, Becomes
    <3> QED
      BY <1>7, <3>1, <3>2, <3>3, <3>4, <3>5, <3>6
  <2>3. UNCHANGED <<issued, unused>>
    BY <1>7
    DEF ReadInstallation, ReadExistingProof, ReadForValidation, Submit,
        UpdateStatus, ReviewProof
  <2> QED
    BY <2>1, <2>2, <2>3, <1>5
<1>8. CASE UNCHANGED vars
  BY <1>8 DEF vars, LinkInv, At, Links!vars
<1>9. ASSUME NEW r \in Request,
             \/ WriteProof(r) \/ WriteStatus(r) \/ WriteReview(r)
             \/ WriteValidated(r) \/ Refuse(r) \/ Fail(r)
      PROVE  LinkInv' /\ UNCHANGED Links!vars
  BY <1>6, <1>9
  DEF WriteProof, WriteStatus, WriteReview, WriteValidated, Refuse, Fail
<1>10. \A l \in issued : l \in Link
  BY DEF TypeOK
<1>11. ASSUME NEW r \in Request, NEW l \in issued,
              SubmitViaLink(r, l) \/ ConsumeValidationLink(r, l)
       PROVE  LinkInv' /\ Links!Next
  BY <1>1, <1>2, <1>10, <1>11 DEF Links!Next
<1>12. ASSUME NEW r \in Request, NEW i \in Installation, NEW type \in LinkType,
              GenerateLink(r, i, type)
       PROVE  LinkInv' /\ Links!Next
  BY <1>3, <1>12 DEF Links!Next
<1>13. ASSUME NEW l \in unused, Expire(l)
       PROVE  LinkInv' /\ Links!Next
  BY <1>4, <1>13 DEF Links!Next
<1> QED
  BY <1>7, <1>8, <1>9, <1>11, <1>12, <1>13 DEF Next, Step

\* Prestations implements SingleUseToken with its external links.
THEOREM LinksRefine == Spec => LinksAreSingleUse
<1>1. Init => Links!Init /\ LinkInv
  BY NoneAssumption DEF Init, Links!Init, LinkInv, At, Link
<1>2. Spec => [](TypeOK /\ ReqOK)
  BY InitTyped, StepTypeOK, StepReqOK, PTL DEF Spec
<1> QED
  BY <1>1, <1>2, StepLinks, PTL DEF Spec, LinksAreSingleUse, Links!Spec

=============================================================================
