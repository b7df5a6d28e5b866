---------------------------- MODULE Prestations ----------------------------
(***************************************************************************)
(* Proofs of installation (modules/prestations).  A field installation     *)
(* waits for one PublicationProof, sent by its provider or through an      *)
(* external link; the company validates or rejects it; every change of     *)
(* Installation.status leaves a StatusHistory row.                         *)
(*                                                                         *)
(* Each Request is one HTTP request.  It is cut where the handler awaits   *)
(* the database or Redis, and what it has read so far is in req[r].  A     *)
(* prisma.$transaction is one step: its writes lock the rows they share,   *)
(* and a transaction that loses such a race aborts (Fail).                 *)
(*                                                                         *)
(* The rows of installations are there from the start; Campaigns models    *)
(* their creation.  Rights (company, role, assigned provider) decide       *)
(* whether a request is refused before it changes anything (Refuse).       *)
(***************************************************************************)
EXTENDS Sequences, Naturals

CONSTANTS Installation, Request, None

\* enum InstallationStatus; Installation.status is a plain String column.
Status == {"PLANNED", "IN_PROGRESS", "INSTALLED", "VALIDATED", "REJECTED",
           "CANCELLED"}
Decision == {"VALIDATED", "REJECTED"}
ProofStatus == Decision \cup {"PENDING"}
LinkType == {"validation", "proof"}

ASSUME NoneAssumption ==
  None \notin Installation \cup Status \cup
              [id : Request, status : ProofStatus] \cup
              [jti : Request, type : LinkType, inst : Installation]

\* A proof row is identified by the request that created it, a link by the
\* request that generated it.
ProofRow == [id : Request, status : ProofStatus]
Link == [jti : Request, type : LinkType, inst : Installation]

VARIABLES
  status,    \* Installation.status
  proof,     \* the PublicationProof row of an installation, or None
  history,   \* its StatusHistory rows, oldest first
  issued,    \* the signed link tokens handed out
  unused,    \* the links whose Redis key still says 'unused'
  req        \* what each request has read and where it stands

dbVars == <<status, proof, history>>
vars == <<status, proof, history, issued, unused, req>>

PC == {"idle", "installation", "existingProof", "writeProof", "writeStatus",
       "writeReview", "consumed", "writeValidated", "done"}

Local == [pc : PC,
          inst : Installation \cup {None},
          link : Link \cup {None},          \* the link it has consumed
          status : Status \cup {None},      \* Installation.status as read
          proof : ProofRow \cup {None},     \* the proof row as read
          target : Status \cup {None}]      \* dto.status or dto.decision

TypeOK ==
  /\ status \in [Installation -> Status]
  /\ proof \in [Installation -> ProofRow \cup {None}]
  /\ history \in [Installation -> Seq([from : Status, to : Status])]
  /\ issued \subseteq Link
  /\ unused \subseteq issued
  /\ req \in [Request -> Local]

Init ==
  /\ status = [i \in Installation |-> "PLANNED"]
  /\ proof = [i \in Installation |-> None]
  /\ history = [i \in Installation |-> <<>>]
  /\ issued = {}
  /\ unused = {}
  /\ req = [r \in Request |->
              [pc |-> "idle", inst |-> None, link |-> None, status |-> None,
               proof |-> None, target |-> None]]

-----------------------------------------------------------------------------

At(r, p) == req[r].pc = p

Becomes(r, q) == req' = [req EXCEPT ![r] = q]

GoTo(r, p) == Becomes(r, [req[r] EXCEPT !.pc = p])

\* A plausible slip: the column changes and the trace does not.
ChangeStatusUntraced(i, from, to) ==
  /\ status' = [status EXCEPT ![i] = to]
  /\ UNCHANGED history

\* The pair of writes that every change of status makes in its transaction;
\* `from` is the status the request had READ, not the one it overwrites.
ChangeStatus(i, from, to) ==
  /\ status' = [status EXCEPT ![i] = to]
  /\ history' = [history EXCEPT ![i] = Append(@, [from |-> from, to |-> to])]

\* `if (read !== next)` around that pair.
ChangeStatusIfRead(i, from, to) ==
  IF from = to THEN UNCHANGED <<status, history>> ELSE ChangeStatus(i, from, to)

ReplaceableAny(p) == TRUE

\* A submission is accepted when there is no proof or a refused one.
Replaceable(p) == p = None \/ p.status = "REJECTED"

TakeWithoutDelete(l) == l \in unused /\ UNCHANGED unused

\* RedisService.getDel of the link's key, when it returns 'unused'.
Take(l) == l \in unused /\ unused' = unused \ {l}

-----------------------------------------------------------------------------
(* Submitting a proof: soumettrePreuve, soumettrePreuveViaLien and the     *)
(* createProofRecord they share.                                           *)

Submit(r, i) ==
  /\ At(r, "idle")
  /\ Becomes(r, [req[r] EXCEPT !.pc = "existingProof", !.inst = i,
                               !.status = status[i]])
  /\ UNCHANGED <<dbVars, issued, unused>>

SubmitViaLink(r, l) ==
  /\ At(r, "idle")
  /\ l \in issued /\ l.type = "proof"
  /\ Take(l)
  /\ Becomes(r, [req[r] EXCEPT !.pc = "installation", !.inst = l.inst,
                               !.link = l])
  /\ UNCHANGED <<dbVars, issued>>

ReadInstallation(r) ==
  /\ At(r, "installation")
  /\ Becomes(r, [req[r] EXCEPT !.pc = "existingProof",
                               !.status = status[req[r].inst]])
  /\ UNCHANGED <<dbVars, issued, unused>>

\* Outside the transaction; a proof that stands ends the request (409).
ReadExistingProof(r) ==
  LET p == proof[req[r].inst] IN
  /\ At(r, "existingProof")
  /\ Becomes(r, [req[r] EXCEPT !.pc = IF Replaceable(p) THEN "writeProof" ELSE "done",
                               !.proof = p])
  /\ UNCHANGED <<dbVars, issued, unused>>

WriteProofKeepingStatus(r) ==
  LET i == req[r].inst IN
  /\ At(r, "writeProof")
  /\ (proof[i] = None) = (req[r].proof = None)
  /\ proof' = [proof EXCEPT ![i] = [id |-> r, status |-> "PENDING"]]
  /\ GoTo(r, "done")
  /\ UNCHANGED <<status, history, issued, unused>>

\* The transaction deletes the proof row by installationId if the request had
\* read one (none left: P2025, it aborts), creates the new row (one already
\* there: P2002, it aborts) and marks the installation INSTALLED.
WriteProof(r) ==
  LET i == req[r].inst IN
  /\ At(r, "writeProof")
  /\ (proof[i] = None) = (req[r].proof = None)
  /\ proof' = [proof EXCEPT ![i] = [id |-> r, status |-> "PENDING"]]
  /\ ChangeStatusIfRead(i, req[r].status, "INSTALLED")
  /\ GoTo(r, "done")
  /\ UNCHANGED <<issued, unused>>

-----------------------------------------------------------------------------
(* The company's side: updateStatus and reviewProof.                       *)

DtoStatus == Status

UpdateStatus(r, i) ==
  /\ At(r, "idle")
  /\ \E s \in DtoStatus \ {status[i]} :
       Becomes(r, [req[r] EXCEPT !.pc = "writeStatus", !.inst = i,
                                 !.status = status[i], !.target = s])
  /\ UNCHANGED <<dbVars, issued, unused>>

WriteStatus(r) ==
  /\ At(r, "writeStatus")
  /\ ChangeStatus(req[r].inst, req[r].status, req[r].target)
  /\ GoTo(r, "done")
  /\ UNCHANGED <<proof, issued, unused>>

ReviewProof(r, i) ==
  /\ At(r, "idle")
  /\ proof[i] # None /\ proof[i].status = "PENDING"
  /\ \E d \in Decision :
       Becomes(r, [req[r] EXCEPT !.pc = "writeReview", !.inst = i,
                                 !.status = status[i], !.proof = proof[i],
                                 !.target = d])
  /\ UNCHANGED <<dbVars, issued, unused>>

\* The proof is found by installationId: it may no longer be the row, nor
\* have the status, that the reviewer had read.
WriteReview(r) ==
  LET i == req[r].inst IN
  /\ At(r, "writeReview")
  /\ proof[i] # None
  /\ proof' = [proof EXCEPT ![i].status = req[r].target]
  /\ ChangeStatusIfRead(i, req[r].status, req[r].target)
  /\ GoTo(r, "done")
  /\ UNCHANGED <<issued, unused>>

-----------------------------------------------------------------------------
(* External links: signSingleUseLink, consumeValidationLink.               *)

\* The key is written before the token is returned.  A validation link needs
\* a proof; proofs are replaced but never withdrawn, so reading it and
\* writing the key are one step.
GenerateLink(r, i, type) ==
  LET l == [jti |-> r, type |-> type, inst |-> i] IN
  /\ At(r, "idle")
  /\ type = "validation" => proof[i] # None
  /\ issued' = issued \cup {l}
  /\ unused' = unused \cup {l}
  /\ GoTo(r, "done")
  /\ UNCHANGED dbVars

ConsumeValidationLink(r, l) ==
  /\ At(r, "idle")
  /\ l \in issued /\ l.type = "validation"
  /\ Take(l)
  /\ Becomes(r, [req[r] EXCEPT !.pc = "consumed", !.inst = l.inst,
                               !.link = l])
  /\ UNCHANGED <<dbVars, issued>>

ReadForValidation(r) ==
  LET p == proof[req[r].inst] IN
  /\ At(r, "consumed")
  /\ Becomes(r, [req[r] EXCEPT !.pc = IF p = None THEN "done" ELSE "writeValidated",
                               !.proof = p])
  /\ UNCHANGED <<dbVars, issued, unused>>

\* The proof becomes VALIDATED whatever it was; Installation.status and
\* StatusHistory are left as they are.
WriteValidated(r) ==
  /\ At(r, "writeValidated")
  /\ proof' = [proof EXCEPT ![req[r].inst].status = "VALIDATED"]
  /\ GoTo(r, "done")
  /\ UNCHANGED <<status, history, issued, unused>>

\* The key's TTL (jwt.validationExpiration) runs out.
Expire(l) ==
  /\ l \in unused
  /\ unused' = unused \ {l}
  /\ UNCHANGED <<dbVars, issued, req>>

-----------------------------------------------------------------------------

\* Any 400, 401, 403, 404 or 409 answered before the request has changed
\* anything, and the early return of updateStatus.
Refuse(r) ==
  /\ At(r, "idle")
  /\ GoTo(r, "done")
  /\ UNCHANGED <<dbVars, issued, unused>>

\* The database or Redis answers with an error, the transaction aborts, or
\* the process dies: what was not yet written never is.
Fail(r) ==
  /\ req[r].pc \notin {"idle", "done"}
  /\ GoTo(r, "done")
  /\ UNCHANGED <<dbVars, issued, unused>>

Step(r) ==
  \/ ReadInstallation(r) \/ ReadExistingProof(r) \/ WriteProof(r)
  \/ WriteStatus(r) \/ WriteReview(r)
  \/ ReadForValidation(r) \/ WriteValidated(r)
  \/ Refuse(r) \/ Fail(r)

Next ==
  \/ \E r \in Request : Step(r)
  \/ \E r \in Request, i \in Installation :
       Submit(r, i) \/ UpdateStatus(r, i) \/ ReviewProof(r, i)
  \/ \E r \in Request, i \in Installation, type \in LinkType :
       GenerateLink(r, i, type)
  \/ \E r \in Request, l \in issued :
       SubmitViaLink(r, l) \/ ConsumeValidationLink(r, l)
  \/ \E l \in unused : Expire(l)

Spec == Init /\ [][Next]_vars

-----------------------------------------------------------------------------

Traced(i, s) == \E k \in DOMAIN history[i] : history[i][k].to = s

\* Installation.status and StatusHistory never drift apart: the status is the
\* one the last history row announces, or PLANNED before any row.  It holds
\* although every writer passes on a status it read before its transaction.
HistoryExplainsStatus ==
  \A i \in Installation :
    status[i] = IF history[i] = <<>> THEN "PLANNED"
                                     ELSE history[i][Len(history[i])].to

\* "Une preuve refusée par l'entreprise peut être remplacée par un nouvel
\* envoi (le refus reste tracé dans StatusHistory)": a refused proof, and a
\* proof that replaced an earlier one, leave a REJECTED row in the history,
\* whatever status changes and reviews ran beside it.
RefusalTraced ==
  \A i \in Installation :
    /\ proof[i] # None
    /\ proof[i].status = "REJECTED" \/ req[proof[i].id].proof # None
    => Traced(i, "REJECTED")

\* The history of an installation with a proof has an INSTALLED row, although a
\* submission writes none when the status it read before its transaction was
\* INSTALLED.  It says nothing of the present status, which a review or
\* updateStatus moves on and which alone the statistics count.
ProofTraced ==
  \A i \in Installation : proof[i] # None => Traced(i, "INSTALLED")

\* The links implement single-use tokens: a jti is accepted from one request.
Links == INSTANCE SingleUseToken WITH
  Token <- Link,
  Actor <- Request,
  live <- unused,
  redeemed <- {e \in Link \X Request : req[e[2]].link = e[1]}

LinksAreSingleUse == Links!Spec

\* "[une preuve refusée] peut être remplacée par un nouvel envoi ; les autres
\* non": the row a submission removes is a refused one.
OnlyRejectedReplaced ==
  [][\A i \in Installation :
       proof[i] # None /\ proof'[i].id # proof[i].id
         => proof[i].status = "REJECTED"]_vars

=============================================================================
