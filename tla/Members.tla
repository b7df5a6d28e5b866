------------------------------ MODULE Members ------------------------------
(***************************************************************************)
(* Who belongs to which company (modules/users and modules/entreprises),   *)
(* and how many may, under the plan of the company (billing/plan.service). *)
(*                                                                         *)
(* A Request is a slot for one HTTP request at a time.  It starts with     *)
(* what JwtStrategy reads of the caller, and RolesGuard and the services   *)
(* go by that, however the caller's row changes meanwhile.  Subscriptions  *)
(* come and go as Billing lets them.  Names, e-mails and passwords decide  *)
(* nothing here; the notifications that are sent are in Jobs.              *)
(***************************************************************************)
EXTENDS Plans, FiniteSets

CONSTANTS User,        \* the e-mail addresses
          Company,     \* the identifiers a Company row may get
          Request, Token

ASSUME NoneAssumption == None \notin User \cup Company \cup Token \cup Nat

\* The other roles have no right over members.
Role == {"ADMIN", "OTHER"}
Account == [company : Company \cup {None}, role : Role, active : BOOLEAN]
Invitation == [user : User, company : Company, role : Role]

ASSUME FiniteAssumption == IsFiniteSet(User) /\ IsFiniteSet(Request)

ASSUME AccountAssumption == None \notin Account \cup Invitation

VARIABLES
  user,        \* the User row of an address, or None
  founder,     \* the account that created a company, None before
  plan,        \* the plan getEffectivePlan finds a company has (ResolvePlan)
  invitation,  \* the invitation a key of Redis holds, or None
  spent,       \* the tokens drawn so far
  req,         \* what each request has read
  unlimited,   \* history: the companies that have had BUSINESS
  joined       \* history: <<token, request>> whose acceptance was written

rows == <<user, founder>>
plans == <<plan, unlimited>>
links == <<invitation, spent, joined>>
vars == <<user, founder, plan, invitation, spent, req, unlimited, joined>>

Idle == [pc |-> "idle"]
Local ==
  {Idle}
  \cup [pc : {"found"}, user : User]
  \cup [pc : {"admin"}, user : User, company : Company]
  \cup [pc : {"count", "write"}, then : {"create", "invite"}, user : User,
        company : Company, role : Role]
  \cup [pc : {"accept", "acceptCount", "join"}, token : Token, held : Invitation]
  \cup [pc : {"role"}, user : User, role : Role]
  \cup [pc : {"deactivate"}, user : User]

TypeOK ==
  /\ user \in [User -> Account \cup {None}]
  /\ founder \in [Company -> User \cup {None}]
  /\ plan \in [Company -> PlanName]
  /\ invitation \in [Token -> Invitation \cup {None}]
  /\ spent \subseteq Token
  /\ req \in [Request -> Local]
  /\ unlimited \subseteq Company
  /\ joined \subseteq Token \X Request

\* Some addresses have registered, without a company.
Init ==
  /\ \E R \in SUBSET User \ {{}} :
       user = [u \in User |->
                 IF u \in R
                 THEN [company |-> None, role |-> "OTHER", active |-> TRUE]
                 ELSE None]
  /\ founder = [c \in Company |-> None]
  /\ plan = [c \in Company |-> "FREE"]
  /\ invitation = [t \in Token |-> None]
  /\ spent = {}
  /\ req = [r \in Request |-> Idle]
  /\ unlimited = {}
  /\ joined = {}

-----------------------------------------------------------------------------

At(r, p) == req[r].pc = p

Becomes(r, q) == req' = [req EXCEPT ![r] = q]

Exists(u) == user[u] # None

\* countMembers.
Members(c) == {u \in User : Exists(u) /\ user[u].company = c /\ user[u].active}

\* Slip: the last place is counted as free.
RoomAtLimit(c) ==
  LET limit == PlanLimits[plan[c]].members
  IN limit # None => Cardinality(Members(c)) <= limit

\* assertCanAddMember.  The plan and the count are read one after the other; a
\* plan that changes in between is as one that changes after.
Room(c) ==
  LET limit == PlanLimits[plan[c]].members
  IN ~Reached(limit, Cardinality(Members(c)))

\* JwtStrategy, then RolesGuard, let in an active ADMIN.  Its company is the one
\* the services go by from here on.
AdminCalls(r, u) ==
  /\ At(r, "idle")
  /\ Exists(u) /\ user[u].active
  /\ user[u].role = "ADMIN" /\ user[u].company # None
  /\ Becomes(r, [pc |-> "admin", user |-> u, company |-> user[u].company])
  /\ UNCHANGED <<rows, plans, links>>

-----------------------------------------------------------------------------
(* Companies and plans.                                                    *)

\* create, up to its transaction: companyId as JwtStrategy has read it.
Create(r, u) ==
  /\ At(r, "idle")
  /\ Exists(u) /\ user[u].active /\ user[u].company = None
  /\ Becomes(r, [pc |-> "found", user |-> u])
  /\ UNCHANGED <<rows, plans, links>>

Found(u, c) ==
  /\ founder' = [founder EXCEPT ![c] = u]
  /\ plan' = [plan EXCEPT ![c] = "PRO"]
  /\ user' = [user EXCEPT ![u].company = c, ![u].role = "ADMIN"]

\* Slip: the link is written whatever companyId has become.
WriteCompanyAlways(r, c) ==
  /\ At(r, "found") /\ founder[c] = None
  /\ Found(req[r].user, c)
  /\ Becomes(r, Idle)
  /\ UNCHANGED <<unlimited, links>>

\* create: the row, with a PRO trial, and its founder's link where companyId is still
\* null, in one transaction.  Otherwise nothing is written (Abandon).
WriteCompany(r, c) ==
  /\ At(r, "found") /\ founder[c] = None
  /\ user[req[r].user].company = None
  /\ Found(req[r].user, c)
  /\ Becomes(r, Idle)
  /\ UNCHANGED <<unlimited, links>>

\* A sale is granted, a period ends or is revoked, the trial ends.
ChangePlan(c) ==
  /\ founder[c] # None
  /\ \E p \in PlanName \ {plan[c]} :
       /\ plan' = [plan EXCEPT ![c] = p]
       /\ unlimited' = IF p = "BUSINESS" THEN unlimited \cup {c} ELSE unlimited
  /\ UNCHANGED <<rows, links, req>>

-----------------------------------------------------------------------------
(* createSubAccount, and inviteExistingUser when the address is known      *)

CreateSubAccount(r, u, role) ==
  /\ At(r, "admin")
  /\ Exists(u) => user[u].company = None /\ user[u].active
  /\ Becomes(r, [pc |-> "count", then |-> IF Exists(u) THEN "invite" ELSE "create",
                 user |-> u, company |-> req[r].company, role |-> role])
  /\ UNCHANGED <<rows, plans, links>>

AssertCanAddMember(r) ==
  /\ At(r, "count") /\ Room(req[r].company)
  /\ Becomes(r, [req[r] EXCEPT !.pc = "write"])
  /\ UNCHANGED <<rows, plans, links>>

\* An address taken meanwhile is refused by its unique index (Abandon).
WriteSubAccount(r) ==
  /\ At(r, "write") /\ req[r].then = "create"
  /\ ~Exists(req[r].user)
  /\ user' = [user EXCEPT ![req[r].user] =
                [company |-> req[r].company, role |-> req[r].role, active |-> TRUE]]
  /\ Becomes(r, Idle)
  /\ UNCHANGED <<founder, plans, links>>

\* Slip: the invitation forgets the company it is for.
WriteInvitationBare(r, t) ==
  /\ At(r, "write") /\ req[r].then = "invite"
  /\ t \notin spent
  /\ spent' = spent \cup {t}
  /\ invitation' = [invitation EXCEPT ![t] =
       [user |-> req[r].user, company |-> None, role |-> req[r].role]]
  /\ Becomes(r, Idle)
  /\ UNCHANGED <<rows, plans, joined>>

\* The key stays, also if the e-mail then fails.
WriteInvitation(r, t) ==
  /\ At(r, "write") /\ req[r].then = "invite"
  /\ t \notin spent
  /\ spent' = spent \cup {t}
  /\ invitation' = [invitation EXCEPT ![t] =
       [user |-> req[r].user, company |-> req[r].company, role |-> req[r].role]]
  /\ Becomes(r, Idle)
  /\ UNCHANGED <<rows, plans, joined>>

ExpireInvitation(t) ==
  /\ invitation[t] # None
  /\ invitation' = [invitation EXCEPT ![t] = None]
  /\ UNCHANGED <<rows, plans, spent, joined, req>>

-----------------------------------------------------------------------------
(* acceptInvitation, by whoever has the link                               *)

\* Slip: GET in place of GETDEL.
AcceptByGet(r, t) ==
  /\ At(r, "idle") /\ invitation[t] # None
  /\ Becomes(r, [pc |-> "accept", token |-> t, held |-> invitation[t]])
  /\ UNCHANGED <<rows, plans, links>>

Accept(r, t) ==
  /\ At(r, "idle") /\ invitation[t] # None
  /\ invitation' = [invitation EXCEPT ![t] = None]
  /\ Becomes(r, [pc |-> "accept", token |-> t, held |-> invitation[t]])
  /\ UNCHANGED <<rows, plans, spent, joined>>

\* The invitee, still active and of no company: otherwise the request ends, in
\* success if the company is the same, and the key is gone either way.
ReadInvitee(r) ==
  LET u == req[r].held.user IN
  /\ At(r, "accept")
  /\ Becomes(r, IF user[u].active /\ user[u].company = None
                THEN [req[r] EXCEPT !.pc = "acceptCount"] ELSE Idle)
  /\ UNCHANGED <<rows, plans, links>>

\* A full company puts the invitation back under its key.
AcceptCount(r) ==
  /\ At(r, "acceptCount")
  /\ IF Room(req[r].held.company)
     THEN /\ Becomes(r, [req[r] EXCEPT !.pc = "join"])
          /\ UNCHANGED invitation
     ELSE /\ Becomes(r, Idle)
          /\ invitation' = [invitation EXCEPT ![req[r].token] = req[r].held]
  /\ UNCHANGED <<rows, plans, spent, joined>>

\* By id, with no condition on the company it has by now.
Join(r) ==
  LET i == req[r].held IN
  /\ At(r, "join")
  /\ user' = [user EXCEPT ![i.user].company = i.company, ![i.user].role = i.role]
  /\ joined' = joined \cup {<<req[r].token, r>>}
  /\ Becomes(r, Idle)
  /\ UNCHANGED <<founder, plans, invitation, spent>>

-----------------------------------------------------------------------------
(* updateRole and deactivate                                               *)

MemberOf(u, c) == Exists(u) /\ user[u].company = c

UpdateRole(r, u, role) ==
  /\ At(r, "admin") /\ u # req[r].user
  /\ MemberOf(u, req[r].company)
  /\ Becomes(r, [pc |-> "role", user |-> u, role |-> role])
  /\ UNCHANGED <<rows, plans, links>>

WriteRole(r) ==
  /\ At(r, "role")
  /\ user' = [user EXCEPT ![req[r].user].role = req[r].role]
  /\ Becomes(r, Idle)
  /\ UNCHANGED <<founder, plans, links>>

\* An ADMIN may name itself.
Deactivate(r, u) ==
  /\ At(r, "admin")
  /\ MemberOf(u, req[r].company)
  /\ Becomes(r, [pc |-> "deactivate", user |-> u])
  /\ UNCHANGED <<rows, plans, links>>

WriteDeactivated(r) ==
  /\ At(r, "deactivate")
  /\ user' = [user EXCEPT ![req[r].user].active = FALSE]
  /\ Becomes(r, Idle)
  /\ UNCHANGED <<founder, plans, links>>

-----------------------------------------------------------------------------

\* A refusal, an error or a crash; an invitation in hand is lost with it.
Abandon(r) ==
  /\ ~At(r, "idle")
  /\ Becomes(r, Idle)
  /\ UNCHANGED <<rows, plans, links>>

Step(r) ==
  \/ AssertCanAddMember(r) \/ WriteSubAccount(r)
  \/ ReadInvitee(r) \/ AcceptCount(r) \/ Join(r)
  \/ WriteRole(r) \/ WriteDeactivated(r)
  \/ Abandon(r)

Next ==
  \/ \E r \in Request : Step(r)
  \/ \E r \in Request, u \in User :
       \/ AdminCalls(r, u) \/ Create(r, u)
       \/ Deactivate(r, u)
       \/ \E role \in Role : CreateSubAccount(r, u, role) \/ UpdateRole(r, u, role)
  \/ \E r \in Request, c \in Company : WriteCompany(r, c)
  \/ \E r \in Request, t \in Token : WriteInvitation(r, t) \/ Accept(r, t)
  \/ \E t \in Token : ExpireInvitation(t)
  \/ \E c \in Company : ChangePlan(c)

Spec == Init /\ [][Next]_vars

-----------------------------------------------------------------------------

\* "Deux requêtes concurrentes du même utilisateur le passaient toutes deux et
\* créaient deux entreprises": an account founds one company at most.
OneFoundingPerUser ==
  \A c, d \in Company : founder[c] # None /\ founder[c] = founder[d] => c = d

\* The limit is checked before the row is written, so requests at the same time
\* pass it together: how far they can take a company, counting those about to
\* write, through every plan it may have had short of BUSINESS.
Admitted(c) ==
  {r \in Request : \/ At(r, "write") /\ req[r].then = "create" /\ req[r].company = c
                   \/ At(r, "join") /\ req[r].held.company = c}

MembersWithinReach ==
  \A c \in Company \ unlimited :
    Cardinality(Members(c)) + Cardinality(Admitted(c))
      <= ProMembers - 1 + Cardinality(Request)

\* "Usage unique (GETDEL)", although a full company puts the link back: seen
\* as redeemed when it has made someone a member, the invitation implements
\* SingleUseToken.
Held == {req[r].token : r \in {q \in Request : req[q].pc \in {"accept", "acceptCount", "join"}}}

SingleUse == INSTANCE SingleUseToken WITH
  Actor <- Request, issued <- spent, redeemed <- joined,
  live <- {t \in Token : invitation[t] # None} \cup Held

InvitationsAreSingleUse == SingleUse!Spec

\* "Un compte ne peut appartenir qu'à une seule entreprise : on refuse s'il fait
\* déjà partie d'une autre (le retirer pourrait laisser celle-ci sans
\* administrateur)": an account never leaves its company for another.
MembershipKept ==
  [][\A u \in User : Exists(u) /\ user[u].company # None =>
       user'[u].company = user[u].company]_vars

=============================================================================
