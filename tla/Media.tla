------------------------------- MODULE Media -------------------------------
(***************************************************************************)
(* The files of a company (media.service): a row and a presigned URL are   *)
(* given, the client puts the file straight into the storage, then asks    *)
(* for a confirmation.  The storage and the database are two systems: what *)
(* HeadObject says is used after others may have acted.                    *)
(*                                                                         *)
(* A file is good, or not (too large, or of another type than declared).   *)
(***************************************************************************)
EXTENDS Naturals, FiniteSets

CONSTANTS MediaId, Request, None,
          MaxPuts       \* bound of the model: puts of files

Idle == [pc |-> "idle"]

VARIABLES
  status,    \* the row of a media, or None
  object,    \* what the storage has under its key, or None
  url,       \* the media whose upload URL has not expired
  req, puts,
  crossed,   \* history: two confirmations of the media were under way at once
  replaced   \* history: a file was put after the last check of the media

vars == <<status, object, url, req, puts, crossed, replaced>>

TypeOK ==
  /\ status \in [MediaId -> {None, "PENDING", "CONFIRMED"}]
  /\ object \in [MediaId -> {None, "good", "bad"}]
  /\ url \subseteq {m \in MediaId : status[m] # None}
  /\ req \in [Request -> {Idle} \cup [pc : {"head", "delete", "update"}, media : MediaId]]
  /\ puts \in 0..MaxPuts
  /\ crossed \subseteq MediaId /\ replaced \subseteq MediaId

Init ==
  /\ status = [m \in MediaId |-> None] /\ object = [m \in MediaId |-> None]
  /\ url = {} /\ crossed = {} /\ replaced = {} /\ puts = 0
  /\ req = [r \in Request |-> Idle]

At(r, p) == req[r].pc = p
Becomes(r, q) == req' = [req EXCEPT ![r] = q]
Goes(r, p) == Becomes(r, [req[r] EXCEPT !.pc = p])

\* createPresignedUpload, under a key no other media has.
CreatePresignedUpload(m) ==
  /\ status[m] = None
  /\ status' = [status EXCEPT ![m] = "PENDING"]
  /\ url' = url \cup {m}
  /\ UNCHANGED <<object, req, puts, crossed, replaced>>

\* A confirmation has accepted the file, whether it has written so or not.
Checked(m) ==
  \/ status[m] = "CONFIRMED"
  \/ \E r \in Request : At(r, "update") /\ req[r].media = m

\* The client, as often as it wants to, until the URL expires.
Put(m) ==
  /\ m \in url /\ puts < MaxPuts
  /\ puts' = puts + 1
  /\ \E f \in {"good", "bad"} : object' = [object EXCEPT ![m] = f]
  /\ replaced' = IF Checked(m) THEN replaced \cup {m} ELSE replaced
  /\ UNCHANGED <<status, url, req, crossed>>

ExpireUrl(m) ==
  /\ m \in url
  /\ url' = url \ {m}
  /\ UNCHANGED <<status, object, req, puts, crossed, replaced>>

\* Slip: a confirmed media is looked at again.
ConfirmAgain(r, m) ==
  /\ At(r, "idle") /\ status[m] # None
  /\ Becomes(r, [pc |-> "head", media |-> m])
  /\ crossed' = IF \E q \in Request : req[q] # Idle /\ req[q].media = m
                THEN crossed \cup {m} ELSE crossed
  /\ UNCHANGED <<status, object, url, puts, replaced>>

\* confirmUpload: a confirmed media is given as it is.
ConfirmUpload(r, m) ==
  /\ At(r, "idle") /\ status[m] = "PENDING"
  /\ Becomes(r, [pc |-> "head", media |-> m])
  /\ crossed' = IF \E q \in Request : req[q] # Idle /\ req[q].media = m
                THEN crossed \cup {m} ELSE crossed
  /\ UNCHANGED <<status, object, url, puts, replaced>>

HeadObject(r) ==
  /\ At(r, "head")
  /\ LET o == object[req[r].media] IN
       \/ o = None /\ Becomes(r, Idle)
       \/ o = "bad" /\ Goes(r, "delete")
       \/ o = "good" /\ Goes(r, "update")
  /\ replaced' = replaced \ {req[r].media}
  /\ UNCHANGED <<status, object, url, puts, crossed>>

\* Whatever is there by now.
DeleteObject(r) ==
  /\ At(r, "delete")
  /\ object' = [object EXCEPT ![req[r].media] = None]
  /\ Becomes(r, Idle)
  /\ UNCHANGED <<status, url, puts, crossed, replaced>>

\* Where it is still PENDING: a second confirmation gets a 409.
Update(r) ==
  /\ At(r, "update")
  /\ status' = [status EXCEPT ![req[r].media] = "CONFIRMED"]
  /\ Becomes(r, Idle)
  /\ UNCHANGED <<object, url, puts, crossed, replaced>>

\* The storage or the database fails, or the process stops.
Fail(r) ==
  /\ ~At(r, "idle")
  /\ Becomes(r, Idle)
  /\ UNCHANGED <<status, object, url, puts, crossed, replaced>>

Next ==
  \/ \E m \in MediaId : CreatePresignedUpload(m) \/ Put(m) \/ ExpireUrl(m)
  \/ \E r \in Request :
       \/ HeadObject(r) \/ DeleteObject(r) \/ Update(r) \/ Fail(r)
       \/ \E m \in MediaId : ConfirmUpload(r, m)

Spec == Init /\ [][Next]_vars

-----------------------------------------------------------------------------

\* Confirmed by one request at a time, a media has a file in the storage, whatever
\* the client puts there and whatever fails: the refusal of one file never removes
\* another that was accepted.  That file is of the size and the type declared, unless
\* the client has put another since HeadObject, as its URL lets it until it expires.
ConfirmedWasChecked ==
  \A m \in MediaId : status[m] = "CONFIRMED" /\ m \notin crossed =>
    /\ object[m] # None
    /\ m \notin replaced => object[m] = "good"

\* "Vérifie la présence réelle de l'objet et sa taille/type": what is in the storage
\* is what was looked at, also when the URL is used again after HeadObject.
ConfirmedIsGood == \A m \in MediaId : status[m] = "CONFIRMED" => object[m] = "good"

\* "Vérifie la présence réelle de l'objet", for any number of confirmations at
\* once: one that refuses removes the file the other has accepted.
FileNeverLost == \A m \in MediaId : status[m] = "CONFIRMED" => object[m] # None

=============================================================================
