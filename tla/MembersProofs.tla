--------------------------- MODULE MembersProofs ---------------------------
(***************************************************************************)
(* Members for every set of addresses, companies, requests and tokens: its *)
(* types, that an account founds one company, that an invitation is used   *)
(* once, and how far a company may exceed its plan.                        *)
(***************************************************************************)
EXTENDS Members, FiniteSetTheorems, TLAPS

Carries == {"accept", "acceptCount", "join"}

\* The accounts that requests and invitations name have a row, for good.
NamesKnown ==
  /\ \A r \in Request :
       /\ req[r].pc \in {"found", "role", "deactivate"} => Exists(req[r].user)
       /\ req[r].pc \in {"count", "write"} /\ req[r].then = "invite"
            => Exists(req[r].user)
       /\ req[r].pc \in Carries => Exists(req[r].held.user)
  /\ \A t \in Token : invitation[t] # None => Exists(invitation[t].user)

TypedInv == TypeOK /\ NamesKnown

-----------------------------------------------------------------------------
(* Typing.                                                                 *)

\* What a request has read, by where it is.
LEMMA Locals ==
  ASSUME TypeOK, NEW r \in Request
  PROVE  /\ At(r, "found") => req[r] \in [pc : {"found"}, user : User]
         /\ At(r, "admin")
              => req[r] \in [pc : {"admin"}, user : User, company : Company]
         /\ req[r].pc \in {"count", "write"}
              => req[r] \in [pc : {"count", "write"}, then : {"create", "invite"},
                             user : User, company : Company, role : Role]
         /\ req[r].pc \in Carries
              => req[r] \in [pc : Carries, token : Token, held : Invitation]
         /\ At(r, "role") => req[r] \in [pc : {"role"}, user : User, role : Role]
         /\ At(r, "deactivate") => req[r] \in [pc : {"deactivate"}, user : User]
BY DEF TypeOK, Local, Idle, At, Carries

LEMMA BecomesTyped ==
  ASSUME TypeOK, NEW r \in Request, NEW q \in Local, Becomes(r, q)
  PROVE  /\ req' \in [Request -> Local]
         /\ req'[r] = q
         /\ \A x \in Request \ {r} : req'[x] = req[x]
BY DEF TypeOK, Becomes

LEMMA InitTyped == Init => TypedInv
<1> SUFFICES ASSUME Init PROVE TypedInv
  OBVIOUS
<1>1. user \in [User -> Account \cup {None}]
  BY DEF Init, Account, Role
<1>2. req \in [Request -> Local]
  BY DEF Init, Local
<1>3. TypeOK
  BY <1>1, <1>2 DEF Init, TypeOK, PlanName
<1>4. NamesKnown
  BY DEF Init, NamesKnown, Idle, Carries
<1> QED BY <1>3, <1>4 DEF TypedInv

\* A request that only reads.
LEMMA ReadTyped ==
  ASSUME TypedInv, NEW r \in Request, NEW q \in Local, Becomes(r, q),
         UNCHANGED <<rows, plans, links>>,
         q.pc \in {"found", "role", "deactivate"} => Exists(q.user),
         q.pc \in {"count", "write"} /\ q.then = "invite" => Exists(q.user),
         q.pc \in Carries => Exists(q.held.user)
  PROVE  TypedInv'
<1>1. TypeOK'
  BY BecomesTyped DEF TypedInv, TypeOK, rows, plans, links
<1>2. NamesKnown'
  BY BecomesTyped DEF TypedInv, NamesKnown, Exists, rows, links
<1> QED BY <1>1, <1>2 DEF TypedInv

\* A write of one row: an account of an address.
LEMMA RowTyped ==
  ASSUME TypedInv, NEW r \in Request, NEW u \in User, NEW a \in Account,
         user' = [user EXCEPT ![u] = a], Becomes(r, Idle)
  PROVE  /\ user' \in [User -> Account \cup {None}]
         /\ req' \in [Request -> Local]
         /\ \A x \in User : Exists(x) => user'[x] # None
         /\ invitation' = invitation => NamesKnown'
<1>1. user' \in [User -> Account \cup {None}]
  BY DEF TypedInv, TypeOK
<1>2. \A x \in User : Exists(x) => user'[x] # None
  BY AccountAssumption DEF TypedInv, TypeOK, Exists
<1>3. Idle \in Local
  BY DEF Local
<1>4. /\ req' \in [Request -> Local] /\ req'[r] = Idle
      /\ \A x \in Request \ {r} : req'[x] = req[x]
  BY <1>3, BecomesTyped DEF TypedInv
<1>5. ASSUME invitation' = invitation
      PROVE  NamesKnown'
  <2>1. ASSUME NEW x \in Request
        PROVE  /\ req'[x].pc \in {"found", "role", "deactivate"} => user'[req'[x].user] # None
               /\ req'[x].pc \in {"count", "write"} /\ req'[x].then = "invite"
                    => user'[req'[x].user] # None
               /\ req'[x].pc \in Carries => user'[req'[x].held.user] # None
    <3>1. CASE x = r
      BY <3>1, <1>4 DEF Idle, Carries
    <3>2. CASE x # r
      <4>1. req'[x] = req[x]
        BY <3>2, <1>4
      <4>2. /\ req[x].pc \in {"found", "role", "deactivate", "count", "write"}
                 => req[x].user \in User
            /\ req[x].pc \in Carries => req[x].held.user \in User
        BY Locals DEF TypedInv, At, Invitation
      <4> QED BY <4>1, <4>2, <1>2 DEF TypedInv, NamesKnown
    <3> QED BY <3>1, <3>2
  <2>2. ASSUME NEW t \in Token, invitation[t] # None
        PROVE  user'[invitation[t].user] # None
    <3>1. invitation[t].user \in User
      BY <2>2 DEF TypedInv, TypeOK, Invitation
    <3>2. Exists(invitation[t].user)
      BY <2>2 DEF TypedInv, NamesKnown
    <3> QED BY <3>1, <3>2, <1>2, <1>5
  <2> QED BY <2>1, <2>2, <1>5 DEF NamesKnown, Exists
<1> QED BY <1>1, <1>2, <1>4, <1>5

\* Every step keeps the types and the names known.
LEMMA StepTyped ==
  ASSUME TypedInv, [Next]_vars
  PROVE  TypedInv'
<1> USE DEF At, Carries, Exists
<1>1. ASSUME NEW r \in Request, NEW u \in User, AdminCalls(r, u)
      PROVE  TypedInv'
  <2>1. user[u].company \in Company
    BY <1>1 DEF AdminCalls, TypedInv, TypeOK, Account
  <2>2. [pc |-> "admin", user |-> u, company |-> user[u].company] \in Local
    BY <2>1 DEF Local
  <2> QED BY <1>1, <2>2, ReadTyped DEF AdminCalls
<1>2. ASSUME NEW r \in Request, NEW u \in User, Create(r, u)
      PROVE  TypedInv'
  <2>1. [pc |-> "found", user |-> u] \in Local
    BY DEF Local
  <2> QED BY <1>2, <2>1, ReadTyped DEF Create
<1>3. ASSUME NEW r \in Request, NEW u \in User, Deactivate(r, u)
      PROVE  TypedInv'
  <2>1. [pc |-> "deactivate", user |-> u] \in Local
    BY DEF Local
  <2> QED BY <1>3, <2>1, ReadTyped DEF Deactivate, MemberOf
<1>4. ASSUME NEW r \in Request, NEW u \in User, NEW role \in Role,
             CreateSubAccount(r, u, role)
      PROVE  TypedInv'
  <2> DEFINE q == [pc |-> "count", then |-> IF Exists(u) THEN "invite" ELSE "create",
                   user |-> u, company |-> req[r].company, role |-> role]
  <2>1. req[r].company \in Company
    BY <1>4, Locals DEF CreateSubAccount, TypedInv
  <2>2. q \in Local
    BY <2>1 DEF Local
  <2> QED BY <1>4, <2>2, ReadTyped DEF CreateSubAccount
<1>5. ASSUME NEW r \in Request, NEW u \in User, NEW role \in Role,
             UpdateRole(r, u, role)
      PROVE  TypedInv'
  <2>1. [pc |-> "role", user |-> u, role |-> role] \in Local
    BY DEF Local
  <2> QED BY <1>5, <2>1, ReadTyped DEF UpdateRole, MemberOf
<1>6. ASSUME NEW r \in Request, AssertCanAddMember(r)
      PROVE  TypedInv'
  <2> DEFINE q == [req[r] EXCEPT !.pc = "write"]
  <2>1. q \in [pc : {"count", "write"}, then : {"create", "invite"}, user : User,
               company : Company, role : Role]
    BY <1>6, Locals DEF AssertCanAddMember, TypedInv
  <2>2. q \in Local
    BY <2>1 DEF Local
  <2>3. q.pc = "write" /\ q.then = req[r].then /\ q.user = req[r].user
    BY <1>6, Locals DEF AssertCanAddMember, TypedInv
  <2>4. q.then = "invite" => Exists(q.user)
    BY <1>6, <2>3 DEF AssertCanAddMember, TypedInv, NamesKnown
  <2>5. Becomes(r, q) /\ UNCHANGED <<rows, plans, links>>
    BY <1>6 DEF AssertCanAddMember
  <2> HIDE DEF q
  <2> QED BY <2>2, <2>3, <2>4, <2>5, ReadTyped
<1>7. ASSUME NEW r \in Request, WriteSubAccount(r)
      PROVE  TypedInv'
  <2> DEFINE a == [company |-> req[r].company, role |-> req[r].role, active |-> TRUE]
  <2>1. a \in Account /\ req[r].user \in User
    BY <1>7, Locals DEF WriteSubAccount, TypedInv, Account
  <2> QED BY <1>7, <2>1, RowTyped DEF WriteSubAccount, TypedInv, TypeOK, plans, links
<1>8. ASSUME NEW r \in Request, ReadInvitee(r)
      PROVE  TypedInv'
  <2> DEFINE q == [req[r] EXCEPT !.pc = "acceptCount"]
  <2>1. q \in [pc : Carries, token : Token, held : Invitation]
    BY <1>8, Locals DEF ReadInvitee, TypedInv
  <2>2. q \in Local /\ Idle \in Local
    BY <2>1 DEF Local
  <2>3. q.pc = "acceptCount" /\ q.held = req[r].held
    BY <1>8, Locals DEF ReadInvitee, TypedInv
  <2>4. Exists(q.held.user)
    BY <1>8, <2>3 DEF ReadInvitee, TypedInv, NamesKnown
  <2>5. (Becomes(r, q) \/ Becomes(r, Idle)) /\ UNCHANGED <<rows, plans, links>>
    BY <1>8 DEF ReadInvitee
  <2>6. CASE Becomes(r, Idle)
    BY <2>2, <2>5, <2>6, ReadTyped DEF Idle
  <2>7. CASE Becomes(r, q)
    <3> HIDE DEF q
    <3> QED BY <2>2, <2>3, <2>4, <2>5, <2>7, ReadTyped
  <2> QED BY <2>5, <2>6, <2>7
<1>9. ASSUME NEW r \in Request, Join(r)
      PROVE  TypedInv'
  <2> DEFINE i == req[r].held
             a == [user[i.user] EXCEPT !.company = i.company, !.role = i.role]
  <2>1. i \in Invitation /\ req[r].token \in Token
    BY <1>9, Locals DEF Join, TypedInv
  <2>2. user[i.user] \in Account
    BY <1>9, <2>1 DEF Join, TypedInv, TypeOK, NamesKnown, Invitation
  <2>3. a \in Account /\ i.user \in User
    BY <2>1, <2>2 DEF Account, Invitation
  <2>4. user' = [user EXCEPT ![i.user] = a]
    BY <1>9, <2>1, <2>2 DEF Join, TypedInv, TypeOK, Account
  <2>5. joined' \subseteq Token \X Request
    BY <1>9, <2>1 DEF Join, TypedInv, TypeOK
  <2> HIDE DEF a
  <2> QED BY <1>9, <2>3, <2>4, <2>5, RowTyped DEF Join, TypedInv, TypeOK, plans
<1>10. ASSUME NEW r \in Request, WriteRole(r)
       PROVE  TypedInv'
  <2> DEFINE u == req[r].user
             a == [user[u] EXCEPT !.role = req[r].role]
  <2>1. u \in User /\ req[r].role \in Role
    BY <1>10, Locals DEF WriteRole, TypedInv
  <2>2. user[u] \in Account
    BY <1>10, <2>1 DEF WriteRole, TypedInv, TypeOK, NamesKnown
  <2>3. a \in Account
    BY <2>1, <2>2 DEF Account
  <2>4. user' = [user EXCEPT ![u] = a]
    BY <1>10, <2>1, <2>2 DEF WriteRole, TypedInv, TypeOK, Account
  <2> HIDE DEF a
  <2> QED BY <1>10, <2>1, <2>3, <2>4, RowTyped
          DEF WriteRole, TypedInv, TypeOK, plans, links
<1>11. ASSUME NEW r \in Request, WriteDeactivated(r)
       PROVE  TypedInv'
  <2> DEFINE u == req[r].user
             a == [user[u] EXCEPT !.active = FALSE]
  <2>1. u \in User
    BY <1>11, Locals DEF WriteDeactivated, TypedInv
  <2>2. user[u] \in Account
    BY <1>11, <2>1 DEF WriteDeactivated, TypedInv, TypeOK, NamesKnown
  <2>3. a \in Account
    BY <2>2 DEF Account
  <2>4. user' = [user EXCEPT ![u] = a]
    BY <1>11, <2>1, <2>2 DEF WriteDeactivated, TypedInv, TypeOK, Account
  <2> HIDE DEF a
  <2> QED BY <1>11, <2>1, <2>3, <2>4, RowTyped
          DEF WriteDeactivated, TypedInv, TypeOK, plans, links
<1>12. ASSUME NEW r \in Request, Abandon(r)
       PROVE  TypedInv'
  <2>1. Idle \in Local
    BY DEF Local
  <2> QED BY <1>12, <2>1, ReadTyped DEF Abandon, Idle
<1>13. ASSUME NEW r \in Request, AcceptCount(r)
       PROVE  TypedInv'
  <2> DEFINE q == [req[r] EXCEPT !.pc = "join"]
  <2>1. q \in [pc : Carries, token : Token, held : Invitation]
        /\ req[r].token \in Token /\ req[r].held \in Invitation
    BY <1>13, Locals DEF AcceptCount, TypedInv
  <2>2. q \in Local /\ Idle \in Local
    BY <2>1 DEF Local
  <2>3. q.pc = "join" /\ q.held = req[r].held /\ Exists(req[r].held.user)
    BY <1>13, Locals DEF AcceptCount, TypedInv, NamesKnown
  <2>4. CASE Room(req[r].held.company)
    <3>1. Becomes(r, q) /\ UNCHANGED <<rows, plans, links>>
      BY <1>13, <2>4 DEF AcceptCount, links
    <3> HIDE DEF q
    <3> QED BY <2>2, <2>3, <3>1, ReadTyped
  <2>5. CASE ~Room(req[r].held.company)
    <3>1. /\ Becomes(r, Idle)
          /\ invitation' = [invitation EXCEPT ![req[r].token] = req[r].held]
      BY <1>13, <2>5 DEF AcceptCount
    <3>2. TypeOK'
      BY <1>13, <2>1, <2>2, <3>1, BecomesTyped
         DEF AcceptCount, TypedInv, TypeOK, rows, plans
    <3>3. NamesKnown'
      BY <1>13, <2>1, <2>2, <2>3, <3>1, BecomesTyped
         DEF AcceptCount, TypedInv, TypeOK, NamesKnown, rows, Idle
    <3> QED BY <3>2, <3>3 DEF TypedInv
  <2> QED BY <2>4, <2>5
<1>14. ASSUME NEW r \in Request, NEW c \in Company, WriteCompany(r, c)
       PROVE  TypedInv'
  <2> DEFINE u == req[r].user
             a == [user[u] EXCEPT !.company = c, !.role = "ADMIN"]
  <2>1. u \in User
    BY <1>14, Locals DEF WriteCompany, TypedInv
  <2>2. user[u] \in Account
    BY <1>14, <2>1 DEF WriteCompany, TypedInv, TypeOK, NamesKnown
  <2>3. a \in Account
    BY <2>2 DEF Account, Role
  <2>4. user' = [user EXCEPT ![u] = a]
    BY <1>14, <2>1, <2>2 DEF WriteCompany, Found, TypedInv, TypeOK, Account
  <2>5. founder' \in [Company -> User \cup {None}] /\ plan' \in [Company -> PlanName]
    BY <1>14, <2>1 DEF WriteCompany, Found, TypedInv, TypeOK, PlanName
  <2> HIDE DEF a
  <2> QED BY <1>14, <2>1, <2>3, <2>4, <2>5, RowTyped
          DEF WriteCompany, TypedInv, TypeOK, links
<1>15. ASSUME NEW r \in Request, NEW t \in Token, WriteInvitation(r, t)
       PROVE  TypedInv'
  <2> DEFINE i == [user |-> req[r].user, company |-> req[r].company,
                   role |-> req[r].role]
  <2>1. i \in Invitation
    BY <1>15, Locals DEF WriteInvitation, TypedInv, Invitation
  <2>2. Exists(req[r].user)
    BY <1>15 DEF WriteInvitation, TypedInv, NamesKnown
  <2>3. Idle \in Local
    BY DEF Local
  <2>4. TypeOK'
    BY <1>15, <2>1, <2>3, BecomesTyped
       DEF WriteInvitation, TypedInv, TypeOK, rows, plans
  <2>5. NamesKnown'
    BY <1>15, <2>1, <2>2, <2>3, BecomesTyped
       DEF WriteInvitation, TypedInv, TypeOK, NamesKnown, rows, Idle
  <2> QED BY <2>4, <2>5 DEF TypedInv
<1>16. ASSUME NEW r \in Request, NEW t \in Token, Accept(r, t)
       PROVE  TypedInv'
  <2> DEFINE q == [pc |-> "accept", token |-> t, held |-> invitation[t]]
  <2>1. invitation[t] \in Invitation /\ Exists(invitation[t].user)
    BY <1>16 DEF Accept, TypedInv, TypeOK, NamesKnown
  <2>2. q \in Local
    BY <2>1 DEF Local
  <2>3. TypeOK'
    BY <1>16, <2>2, BecomesTyped DEF Accept, TypedInv, TypeOK, rows, plans
  <2>4. NamesKnown'
    BY <1>16, <2>1, <2>2, BecomesTyped
       DEF Accept, TypedInv, TypeOK, NamesKnown, rows
  <2> QED BY <2>3, <2>4 DEF TypedInv
<1>17. ASSUME NEW t \in Token, ExpireInvitation(t)
       PROVE  TypedInv'
  BY <1>17 DEF ExpireInvitation, TypedInv, TypeOK, NamesKnown, rows, plans
<1>18. ASSUME NEW c \in Company, ChangePlan(c)
       PROVE  TypedInv'
  BY <1>18 DEF ChangePlan, TypedInv, TypeOK, NamesKnown, rows, links
<1>19. CASE UNCHANGED vars
  BY <1>19 DEF TypedInv, TypeOK, NamesKnown, vars
<1> QED
  BY <1>1, <1>2, <1>3, <1>4, <1>5, <1>6, <1>7, <1>8, <1>9, <1>10, <1>11, <1>12, <1>13,
     <1>14, <1>15, <1>16, <1>17, <1>18, <1>19
     DEF Next, Step

\* The module keeps its types, whatever the addresses, companies, requests and
\* tokens are.
THEOREM TypeCorrect == Spec => []TypeOK
<1>1. TypedInv => TypeOK
  BY DEF TypedInv
<1> QED BY <1>1, InitTyped, StepTyped, PTL DEF Spec

-----------------------------------------------------------------------------
(* Founding.                                                               *)

\* Who writes a row.
LEMMA RowWriters ==
  ASSUME [Next]_vars, ~UNCHANGED rows
  PROVE  \E r \in Request :
           \/ WriteSubAccount(r) \/ Join(r) \/ WriteRole(r) \/ WriteDeactivated(r)
           \/ \E c \in Company : WriteCompany(r, c)
BY DEF Next, Step, vars, AdminCalls, Create, Deactivate, CreateSubAccount, UpdateRole,
       AssertCanAddMember, ReadInvitee, AcceptCount, Abandon, WriteInvitation, Accept,
       ExpireInvitation, ChangePlan, rows

\* A row is written for an account that exists or is new, and keeps a company.
LEMMA RowKept ==
  ASSUME TypedInv, [Next]_vars, NEW u \in User, Exists(u), user[u].company # None
  PROVE  user'[u] # None /\ user'[u].company # None
<1> USE DEF At, Carries
<1>1. user[u] \in Account
  BY DEF TypedInv, TypeOK, Exists
<1>2. CASE UNCHANGED rows
  BY <1>2 DEF rows, Exists
<1>3. ASSUME NEW r \in Request,
             \/ WriteSubAccount(r) \/ Join(r) \/ WriteRole(r) \/ WriteDeactivated(r)
             \/ \E c \in Company : WriteCompany(r, c)
      PROVE  user'[u] # None /\ user'[u].company # None
  <2>1. user'[u] # None
    <3>1. user' \in [User -> Account \cup {None}]
      BY StepTyped DEF TypedInv, TypeOK
    <3>2. CASE WriteSubAccount(r)
      BY <1>1, <3>2, AccountAssumption DEF WriteSubAccount, TypedInv, TypeOK, Exists
    <3>3. CASE Join(r)
      <4> DEFINE i == req[r].held
                 a == [user[u] EXCEPT !.company = i.company, !.role = i.role]
      <4>1. i \in Invitation
        BY <3>3, Locals DEF Join, TypedInv
      <4>2. a \in Account
        BY <1>1, <4>1 DEF Account, Invitation
      <4>3. user'[u] = user[u] \/ user'[u] = a
        BY <1>1, <3>3 DEF Join, TypedInv, TypeOK, Account
      <4> HIDE DEF a
      <4> QED BY <1>1, <4>2, <4>3, AccountAssumption
    <3>4. CASE WriteRole(r)
      <4> DEFINE a == [user[u] EXCEPT !.role = req[r].role]
      <4>1. a \in Account
        BY <1>1, <3>4, Locals DEF WriteRole, TypedInv, Account
      <4>2. user'[u] = user[u] \/ user'[u] = a
        BY <1>1, <3>4 DEF WriteRole, TypedInv, TypeOK
      <4> HIDE DEF a
      <4> QED BY <1>1, <4>1, <4>2, AccountAssumption
    <3>5. CASE WriteDeactivated(r)
      <4> DEFINE a == [user[u] EXCEPT !.active = FALSE]
      <4>1. a \in Account
        BY <1>1 DEF Account
      <4>2. user'[u] = user[u] \/ user'[u] = a
        BY <1>1, <3>5 DEF WriteDeactivated, TypedInv, TypeOK
      <4> HIDE DEF a
      <4> QED BY <1>1, <4>1, <4>2, AccountAssumption
    <3>6. ASSUME NEW c \in Company, WriteCompany(r, c)
          PROVE  user'[u] # None
      <4>1. user'[u] = user[u]
        BY <3>6, Locals DEF WriteCompany, Found, TypedInv, TypeOK
      <4> QED BY <1>1, <4>1, AccountAssumption
    <3> QED BY <1>3, <3>2, <3>3, <3>4, <3>5, <3>6
  <2>2. user'[u].company # None
    <3>1. CASE WriteSubAccount(r)
      BY <1>1, <3>1 DEF WriteSubAccount, TypedInv, TypeOK, Exists
    <3>2. CASE Join(r)
      <4>1. req[r].held.company \in Company
        BY <3>2, Locals DEF Join, TypedInv, Invitation
      <4>2. req[r].held.company # None
        BY <4>1, NoneAssumption
      <4> QED BY <1>1, <3>2, <4>2 DEF Join, TypedInv, TypeOK, Account
    <3>3. CASE WriteRole(r) \/ WriteDeactivated(r)
      BY <1>1, <3>3 DEF WriteRole, WriteDeactivated, TypedInv, TypeOK, Account
    <3>4. ASSUME NEW c \in Company, WriteCompany(r, c)
          PROVE  user'[u].company # None
      BY <3>4, Locals DEF WriteCompany, Found, TypedInv, TypeOK
    <3> QED BY <1>3, <3>1, <3>2, <3>3, <3>4
  <2> QED BY <2>1, <2>2
<1> QED BY <1>2, <1>3, RowWriters

\* Whoever has founded a company belongs to one, this or another.
FoundersBelong ==
  \A c \in Company : founder[c] # None =>
    Exists(founder[c]) /\ user[founder[c]].company # None

LEMMA StepFounding ==
  ASSUME TypedInv, FoundersBelong, OneFoundingPerUser, [Next]_vars
  PROVE  FoundersBelong' /\ OneFoundingPerUser'
<1>1. \A c \in Company : founder[c] \in User \cup {None}
  BY DEF TypedInv, TypeOK
<1>2. CASE founder' = founder
  <2>1. ASSUME NEW c \in Company, founder[c] # None
        PROVE  user'[founder[c]] # None /\ user'[founder[c]].company # None
    BY <1>1, <2>1, RowKept DEF FoundersBelong
  <2> QED BY <1>2, <2>1 DEF FoundersBelong, OneFoundingPerUser, Exists
<1>3. ASSUME NEW r \in Request, NEW d \in Company, WriteCompany(r, d)
      PROVE  FoundersBelong' /\ OneFoundingPerUser'
  <2> DEFINE v == req[r].user
  <2>1. v \in User /\ Exists(v)
    BY <1>3, Locals DEF WriteCompany, TypedInv, NamesKnown, At
  <2>2. user[v] \in Account /\ user[v].company = None
    BY <1>3, <2>1 DEF WriteCompany, TypedInv, TypeOK, Exists
  <2>3. founder' = [founder EXCEPT ![d] = v]
    BY <1>3 DEF WriteCompany, Found
  <2>4. \A c \in Company : founder[c] # v
    BY <1>1, <2>1, <2>2, NoneAssumption DEF FoundersBelong
  <2>5. user'[v] = [company |-> d, role |-> "ADMIN", active |-> user[v].active]
    BY <1>3, <2>1, <2>2 DEF WriteCompany, Found, TypedInv, TypeOK, Account
  <2>6. user'[v] # None /\ user'[v].company # None
    <3>1. user'[v] \in Account
      BY <2>2, <2>5 DEF Account, Role
    <3> QED BY <2>5, <3>1, AccountAssumption, NoneAssumption
  <2>7. ASSUME NEW c \in Company, founder'[c] # None
        PROVE  user'[founder'[c]] # None /\ user'[founder'[c]].company # None
    <3>1. CASE c = d
      BY <2>3, <2>6, <3>1 DEF TypedInv, TypeOK
    <3>2. CASE c # d
      <4>1. founder'[c] = founder[c]
        BY <2>3, <3>2 DEF TypedInv, TypeOK
      <4> QED BY <1>1, <2>7, <4>1, RowKept DEF FoundersBelong
    <3> QED BY <3>1, <3>2
  <2>8. OneFoundingPerUser'
    <3> HIDE DEF v
    <3> QED BY <2>3, <2>4 DEF OneFoundingPerUser, TypedInv, TypeOK
  <2> QED BY <2>7, <2>8 DEF FoundersBelong, Exists
<1>4. founder' = founder \/ \E r \in Request, d \in Company : WriteCompany(r, d)
  BY RowWriters DEF rows, WriteSubAccount, Join, WriteRole, WriteDeactivated
<1> QED BY <1>2, <1>3, <1>4

\* However many creations an account sends at once, and whatever company an
\* invitation has given it meanwhile, it founds one company at most.
THEOREM FoundedOnce == Spec => []OneFoundingPerUser
<1>1. Init => FoundersBelong /\ OneFoundingPerUser
  BY DEF Init, FoundersBelong, OneFoundingPerUser
<1> QED BY <1>1, InitTyped, StepTyped, StepFounding, PTL DEF Spec

-----------------------------------------------------------------------------
(* Invitations.                                                            *)

Redeemable == {t \in Token : invitation[t] # None} \cup Held

\* A token is under its key or in the hands of one request, and has been drawn.
HeldOnce ==
  /\ \A r, s \in Request :
       req[r].pc \in Carries /\ req[s].pc \in Carries /\ req[r].token = req[s].token
         => r = s
  /\ \A r \in Request : req[r].pc \in Carries =>
       invitation[req[r].token] = None /\ req[r].token \in spent
  /\ \A t \in Token : invitation[t] # None => t \in spent

\* A request goes on with the token in its hands, if it has one, or drops it.
LEMMA GoesOn ==
  ASSUME TypedInv, HeldOnce, NEW r \in Request, NEW q \in Local, Becomes(r, q),
         UNCHANGED links,
         q.pc \in Carries => req[r].pc \in Carries /\ q.token = req[r].token
  PROVE  HeldOnce' /\ [SingleUse!Next]_(SingleUse!vars)
<1>1. /\ req'[r] = q /\ \A x \in Request \ {r} : req'[x] = req[x]
  BY BecomesTyped DEF TypedInv
<1>2. HeldOnce'
  BY <1>1 DEF HeldOnce, links
<1>3. invitation' = invitation /\ spent' = spent /\ joined' = joined
  BY DEF links
<1>4. CASE q.pc \in Carries \/ req[r].pc \notin Carries
  <2>1. Held' = Held
    BY <1>1, <1>4 DEF Held, Carries
  <2>2. UNCHANGED SingleUse!vars
    BY <1>3, <2>1 DEF SingleUse!vars
  <2> QED BY <1>2, <2>2
<1>5. CASE q.pc \notin Carries /\ req[r].pc \in Carries
  <2> DEFINE t == req[r].token
  <2>1. Held' = Held \ {t}
    BY <1>1, <1>5 DEF Held, HeldOnce, Carries
  <2>2. invitation[t] = None
    BY <1>5 DEF HeldOnce
  <2>3. t \in Held
    BY <1>5 DEF Held, Carries
  <2>4. Redeemable' = Redeemable \ {t}
    BY <1>3, <2>1, <2>2 DEF Redeemable
  <2>5. SingleUse!Drop({t})
    BY <1>3, <2>4 DEF SingleUse!Drop, Redeemable
  <2>6. {t} \in SUBSET Redeemable
    BY <2>3 DEF Redeemable
  <2>7. SingleUse!Next
    BY <2>5, <2>6 DEF SingleUse!Next, SingleUse!Drop, Redeemable
  <2> QED BY <1>2, <2>7
<1> QED BY <1>4, <1>5

LEMMA StepInvitations ==
  ASSUME TypedInv, HeldOnce, [Next]_vars
  PROVE  HeldOnce' /\ [SingleUse!Next]_(SingleUse!vars)
<1> USE DEF At, Carries
<1>1. ASSUME NEW r \in Request, NEW t \in Token, Accept(r, t)
      PROVE  HeldOnce' /\ UNCHANGED SingleUse!vars
  <2> DEFINE q == [pc |-> "accept", token |-> t, held |-> invitation[t]]
  <2>1. q \in Local
    BY <1>1 DEF Accept, TypedInv, TypeOK, Local
  <2>2. /\ req'[r] = q /\ \A x \in Request \ {r} : req'[x] = req[x]
    BY <1>1, <2>1, BecomesTyped DEF Accept, TypedInv
  <2>3. /\ invitation'[t] = None
        /\ \A k \in Token \ {t} : invitation'[k] = invitation[k]
    BY <1>1 DEF Accept, TypedInv, TypeOK
  <2>4. \A s \in Request : req[s].pc \in Carries => req[s].token # t
    BY <1>1 DEF Accept, HeldOnce
  <2>5. \A s \in Request : req[s].pc \in Carries => req[s].token \in Token
    BY Locals DEF TypedInv
  <2>6. HeldOnce'
    BY <1>1, <2>2, <2>3, <2>4, <2>5 DEF Accept, HeldOnce
  <2>7. Held' = Held \cup {t}
    BY <1>1, <2>2 DEF Accept, Held
  <2>8. Redeemable' = Redeemable
    BY <1>1, <2>3, <2>7 DEF Accept, Redeemable
  <2> QED BY <1>1, <2>6, <2>8 DEF Accept, SingleUse!vars, Redeemable
<1>2. ASSUME NEW r \in Request, Join(r)
      PROVE  HeldOnce' /\ SingleUse!Next
  <2> DEFINE t == req[r].token
  <2>1. Idle \in Local
    BY DEF Local
  <2>2. /\ req'[r] = Idle /\ \A x \in Request \ {r} : req'[x] = req[x]
    BY <1>2, <2>1, BecomesTyped DEF Join, TypedInv
  <2>3. t \in Token /\ t \in Held /\ invitation[t] = None
    BY <1>2, Locals DEF Join, TypedInv, HeldOnce, Held
  <2>4. HeldOnce'
    BY <1>2, <2>2 DEF Join, HeldOnce, Idle
  <2>5. Held' = Held \ {t}
    BY <1>2, <2>2 DEF Join, Held, HeldOnce, Idle
  <2>6. Redeemable' = Redeemable \ {t}
    BY <1>2, <2>3, <2>5 DEF Join, Redeemable
  <2>7. SingleUse!Redeem(t, r)
    BY <1>2, <2>3, <2>6 DEF Join, SingleUse!Redeem, Redeemable
  <2> QED BY <2>3, <2>4, <2>7 DEF SingleUse!Next
<1>3. ASSUME NEW r \in Request, NEW t \in Token, WriteInvitation(r, t)
      PROVE  HeldOnce' /\ SingleUse!Next
  <2> DEFINE i == [user |-> req[r].user, company |-> req[r].company,
                   role |-> req[r].role]
  <2>1. Idle \in Local
    BY DEF Local
  <2>2. /\ req'[r] = Idle /\ \A x \in Request \ {r} : req'[x] = req[x]
    BY <1>3, <2>1, BecomesTyped DEF WriteInvitation, TypedInv
  <2>3. i \in Invitation
    BY <1>3, Locals DEF WriteInvitation, TypedInv, Invitation
  <2>4. /\ invitation'[t] # None
        /\ \A k \in Token \ {t} : invitation'[k] = invitation[k]
    <3>1. invitation' = [invitation EXCEPT ![t] = i]
      BY <1>3 DEF WriteInvitation
    <3> HIDE DEF i
    <3> QED BY <2>3, <3>1, AccountAssumption DEF TypedInv, TypeOK
  <2>5. \A s \in Request : req[s].pc \in Carries => req[s].token \in Token \ {t}
    BY <1>3, Locals DEF WriteInvitation, TypedInv, HeldOnce
  <2>6. HeldOnce'
    BY <1>3, <2>2, <2>4, <2>5 DEF WriteInvitation, HeldOnce, Idle
  <2>7. Held' = Held
    BY <1>3, <2>2 DEF WriteInvitation, Held, Idle
  <2>8. Redeemable' = Redeemable \cup {t}
    BY <2>4, <2>7 DEF Redeemable
  <2>9. SingleUse!Issue(t)
    BY <1>3, <2>8 DEF WriteInvitation, SingleUse!Issue, Redeemable
  <2> QED BY <2>6, <2>9 DEF SingleUse!Next
<1>4. ASSUME NEW t \in Token, ExpireInvitation(t)
      PROVE  HeldOnce' /\ SingleUse!Next
  <2>1. HeldOnce'
    BY <1>4 DEF ExpireInvitation, HeldOnce, TypedInv, TypeOK
  <2>2. t \notin Held
    BY <1>4 DEF ExpireInvitation, Held, HeldOnce
  <2>3. Held' = Held
    BY <1>4 DEF ExpireInvitation, Held
  <2>4. Redeemable' = Redeemable \ {t}
    BY <1>4, <2>2, <2>3 DEF ExpireInvitation, Redeemable, TypedInv, TypeOK
  <2>5. SingleUse!Drop({t})
    BY <1>4, <2>4 DEF ExpireInvitation, SingleUse!Drop, Redeemable
  <2>6. {t} \in SUBSET Redeemable
    BY <1>4 DEF ExpireInvitation, Redeemable
  <2> QED BY <2>1, <2>5, <2>6 DEF SingleUse!Next, Redeemable
<1>5. ASSUME NEW r \in Request, AcceptCount(r)
      PROVE  HeldOnce' /\ [SingleUse!Next]_(SingleUse!vars)
  <2> DEFINE t == req[r].token
             q == [req[r] EXCEPT !.pc = "join"]
  <2>1. q \in [pc : Carries, token : Token, held : Invitation]
        /\ t \in Token /\ req[r].held \in Invitation
    BY <1>5, Locals DEF AcceptCount, TypedInv
  <2>2. q \in Local /\ Idle \in Local
    BY <2>1 DEF Local
  <2>3. q.token = t /\ req[r].pc \in Carries
    BY <1>5, <2>1, Locals DEF AcceptCount, TypedInv
  <2>4. CASE Room(req[r].held.company)
    <3>1. Becomes(r, q) /\ UNCHANGED links
      BY <1>5, <2>4 DEF AcceptCount, links
    <3> HIDE DEF q, t
    <3> QED BY <2>2, <2>3, <3>1, GoesOn DEF t
  <2>5. CASE ~Room(req[r].held.company)
    <3>1. /\ Becomes(r, Idle)
          /\ invitation' = [invitation EXCEPT ![t] = req[r].held]
      BY <1>5, <2>5 DEF AcceptCount
    <3>2. /\ req'[r] = Idle /\ \A x \in Request \ {r} : req'[x] = req[x]
      BY <2>2, <3>1, BecomesTyped DEF TypedInv
    <3>3. /\ invitation'[t] # None
          /\ \A k \in Token \ {t} : invitation'[k] = invitation[k]
      BY <2>1, <3>1, AccountAssumption DEF TypedInv, TypeOK
    <3>4. spent' = spent /\ joined' = joined
      BY <1>5 DEF AcceptCount
    <3>5. \A s \in Request \ {r} : req[s].pc \in Carries => req[s].token \in Token \ {t}
      BY <2>3, Locals DEF TypedInv, HeldOnce
    <3>6. t \in spent
      BY <2>3 DEF HeldOnce
    <3>7. HeldOnce'
      BY <3>2, <3>3, <3>4, <3>5, <3>6 DEF HeldOnce, Idle
    <3>8. Held' = Held \ {t} /\ t \in Held
      BY <2>3, <3>2, <3>5 DEF Held, Idle
    <3>9. Redeemable' = Redeemable
      BY <2>1, <3>3, <3>8 DEF Redeemable
    <3> QED BY <3>4, <3>7, <3>9 DEF SingleUse!vars, Redeemable
  <2> QED BY <2>4, <2>5
<1>6. ASSUME NEW r \in Request, ReadInvitee(r)
      PROVE  HeldOnce' /\ [SingleUse!Next]_(SingleUse!vars)
  <2> DEFINE q == [req[r] EXCEPT !.pc = "acceptCount"]
  <2>1. q \in [pc : Carries, token : Token, held : Invitation]
    BY <1>6, Locals DEF ReadInvitee, TypedInv
  <2>2. q \in Local /\ Idle \in Local
    BY <2>1 DEF Local
  <2>3. q.token = req[r].token /\ req[r].pc \in Carries
    BY <1>6, <2>1, Locals DEF ReadInvitee, TypedInv
  <2>4. (Becomes(r, q) \/ Becomes(r, Idle)) /\ UNCHANGED links
    BY <1>6 DEF ReadInvitee
  <2>5. Idle.pc \notin Carries
    BY DEF Idle
  <2> HIDE DEF q
  <2> QED BY <2>2, <2>3, <2>4, <2>5, GoesOn
<1>7. ASSUME NEW r \in Request,
             \/ AssertCanAddMember(r) \/ WriteSubAccount(r) \/ WriteRole(r)
             \/ WriteDeactivated(r) \/ Abandon(r)
             \/ \E u \in User :
                  \/ AdminCalls(r, u) \/ Create(r, u) \/ Deactivate(r, u)
                  \/ \E role \in Role : CreateSubAccount(r, u, role) \/ UpdateRole(r, u, role)
             \/ \E c \in Company : WriteCompany(r, c)
      PROVE  HeldOnce' /\ [SingleUse!Next]_(SingleUse!vars)
  <2>1. TypedInv'
    BY <1>7, StepTyped DEF Next, Step
  <2>2. req'[r] \in Local /\ Becomes(r, req'[r])
    BY <1>7, <2>1
       DEF TypedInv, TypeOK, Becomes, AssertCanAddMember, WriteSubAccount, WriteRole,
           WriteDeactivated, Abandon, AdminCalls, Create, Deactivate, CreateSubAccount,
           UpdateRole, WriteCompany
  <2>3. req'[r].pc \notin Carries
    <3>1. CASE AssertCanAddMember(r)
      BY <3>1, Locals DEF AssertCanAddMember, Becomes, TypedInv, TypeOK
    <3>2. CASE ~AssertCanAddMember(r)
      BY <1>7, <3>2
         DEF TypedInv, TypeOK, Becomes, WriteSubAccount, WriteRole, WriteDeactivated,
             Abandon, AdminCalls, Create, Deactivate, CreateSubAccount, UpdateRole,
             WriteCompany, Idle
    <3> QED BY <3>1, <3>2
  <2>4. UNCHANGED links
    BY <1>7 DEF AssertCanAddMember, WriteSubAccount, WriteRole, WriteDeactivated, Abandon,
                AdminCalls, Create, Deactivate, CreateSubAccount, UpdateRole, WriteCompany
  <2> QED BY <2>2, <2>3, <2>4, GoesOn
<1>8. ASSUME NEW c \in Company, ChangePlan(c)
      PROVE  HeldOnce' /\ UNCHANGED SingleUse!vars
  BY <1>8 DEF ChangePlan, HeldOnce, links, Held, SingleUse!vars
<1>9. CASE UNCHANGED vars
  BY <1>9 DEF vars, HeldOnce, Held, SingleUse!vars
<1> QED BY <1>1, <1>2, <1>3, <1>4, <1>5, <1>6, <1>7, <1>8, <1>9 DEF Next, Step

\* "Usage unique (GETDEL)": with the link put back when the company is full, an
\* invitation still implements SingleUseToken, so it makes one request's invitee a
\* member at most.
THEOREM InvitationsRefine == Spec => InvitationsAreSingleUse
<1>1. Init => SingleUse!Init /\ HeldOnce
  BY DEF Init, SingleUse!Init, HeldOnce, Held, Idle, Carries
<1> QED
  BY <1>1, InitTyped, StepTyped, StepInvitations,
     PTL DEF Spec, InvitationsAreSingleUse, SingleUse!Spec

-----------------------------------------------------------------------------
(* How far a company may exceed its plan.                                  *)

Founded(c) == founder[c] # None

\* The companies that accounts, requests and invitations name have a row, for good,
\* and those that have BUSINESS are remembered.
CompaniesKnown ==
  /\ \A u \in User : Exists(u) /\ user[u].company # None => Founded(user[u].company)
  /\ \A r \in Request :
       /\ req[r].pc \in {"admin", "count", "write"} => Founded(req[r].company)
       /\ req[r].pc \in Carries => Founded(req[r].held.company)
  /\ \A t \in Token : invitation[t] # None => Founded(invitation[t].company)
  /\ \A c \in Company : plan[c] = "BUSINESS" => c \in unlimited

\* A request that only reads.
LEMMA ReadKnown ==
  ASSUME TypedInv, CompaniesKnown, NEW r \in Request, NEW q \in Local, Becomes(r, q),
         UNCHANGED <<rows, plans>>,
         \A t \in Token : invitation'[t] # None =>
           invitation[t] # None /\ invitation'[t] = invitation[t],
         q.pc \in {"admin", "count", "write"} => Founded(q.company),
         q.pc \in Carries => Founded(q.held.company)
  PROVE  CompaniesKnown'
BY BecomesTyped DEF TypedInv, CompaniesKnown, rows, plans, Founded, Exists

\* A write of one row, by a request that ends.
LEMMA RowKnown ==
  ASSUME TypedInv, CompaniesKnown, NEW r \in Request, NEW u \in User, NEW a \in Account,
         user' = [user EXCEPT ![u] = a], Becomes(r, Idle),
         UNCHANGED <<founder, plans, invitation>>,
         a.company # None => Founded(a.company)
  PROVE  CompaniesKnown'
<1>1. Idle \in Local
  BY DEF Local
<1>2. /\ req'[r] = Idle /\ \A x \in Request \ {r} : req'[x] = req[x]
  BY <1>1, BecomesTyped DEF TypedInv
<1>3. /\ user'[u] = a /\ \A x \in User \ {u} : user'[x] = user[x]
  BY DEF TypedInv, TypeOK
<1> QED BY <1>2, <1>3 DEF CompaniesKnown, plans, Founded, Exists, Idle, Carries

LEMMA StepKnown ==
  ASSUME TypedInv, CompaniesKnown, [Next]_vars
  PROVE  CompaniesKnown'
<1> USE DEF At, Carries
<1>1. ASSUME NEW r \in Request, NEW u \in User, AdminCalls(r, u)
      PROVE  CompaniesKnown'
  <2>1. user[u].company \in Company /\ Founded(user[u].company)
    BY <1>1 DEF AdminCalls, TypedInv, TypeOK, Account, CompaniesKnown, Exists
  <2>2. [pc |-> "admin", user |-> u, company |-> user[u].company] \in Local
    BY <2>1 DEF Local
  <2> QED BY <1>1, <2>1, <2>2, ReadKnown DEF AdminCalls, links
<1>2. ASSUME NEW r \in Request, NEW u \in User, Create(r, u) \/ Deactivate(r, u)
      PROVE  CompaniesKnown'
  <2>1. [pc |-> "found", user |-> u] \in Local /\ [pc |-> "deactivate", user |-> u] \in Local
    BY DEF Local
  <2> QED BY <1>2, <2>1, ReadKnown DEF Create, Deactivate, links
<1>3. ASSUME NEW r \in Request, NEW u \in User, NEW role \in Role,
             CreateSubAccount(r, u, role)
      PROVE  CompaniesKnown'
  <2> DEFINE q == [pc |-> "count", then |-> IF Exists(u) THEN "invite" ELSE "create",
                   user |-> u, company |-> req[r].company, role |-> role]
  <2>1. req[r].company \in Company /\ Founded(req[r].company)
    BY <1>3, Locals DEF CreateSubAccount, TypedInv, CompaniesKnown
  <2>2. q \in Local
    BY <2>1 DEF Local
  <2> QED BY <1>3, <2>1, <2>2, ReadKnown DEF CreateSubAccount, links
<1>4. ASSUME NEW r \in Request, NEW u \in User, NEW role \in Role,
             UpdateRole(r, u, role)
      PROVE  CompaniesKnown'
  <2>1. [pc |-> "role", user |-> u, role |-> role] \in Local
    BY DEF Local
  <2> QED BY <1>4, <2>1, ReadKnown DEF UpdateRole, links
<1>5. ASSUME NEW r \in Request, AssertCanAddMember(r)
      PROVE  CompaniesKnown'
  <2> DEFINE q == [req[r] EXCEPT !.pc = "write"]
  <2>1. q \in [pc : {"count", "write"}, then : {"create", "invite"}, user : User,
               company : Company, role : Role]
    BY <1>5, Locals DEF AssertCanAddMember, TypedInv
  <2>2. q \in Local
    BY <2>1 DEF Local
  <2>3. q.pc = "write" /\ q.company = req[r].company /\ Founded(q.company)
    BY <1>5, Locals DEF AssertCanAddMember, TypedInv, CompaniesKnown
  <2>4. Becomes(r, q) /\ UNCHANGED <<rows, plans, links>>
    BY <1>5 DEF AssertCanAddMember
  <2> HIDE DEF q
  <2> QED BY <2>2, <2>3, <2>4, ReadKnown DEF links
<1>6. ASSUME NEW r \in Request, WriteSubAccount(r)
      PROVE  CompaniesKnown'
  <2> DEFINE a == [company |-> req[r].company, role |-> req[r].role, active |-> TRUE]
  <2>1. a \in Account /\ req[r].user \in User
    BY <1>6, Locals DEF WriteSubAccount, TypedInv, Account
  <2>2. Founded(a.company)
    BY <1>6 DEF WriteSubAccount, CompaniesKnown
  <2> QED BY <1>6, <2>1, <2>2, RowKnown DEF WriteSubAccount, links
<1>7. ASSUME NEW r \in Request, NEW t \in Token, WriteInvitation(r, t)
      PROVE  CompaniesKnown'
  <2> DEFINE i == [user |-> req[r].user, company |-> req[r].company,
                   role |-> req[r].role]
  <2>1. i \in Invitation /\ Founded(i.company)
    BY <1>7, Locals DEF WriteInvitation, TypedInv, Invitation, CompaniesKnown
  <2>2. Idle \in Local
    BY DEF Local
  <2>3. /\ req'[r] = Idle /\ \A x \in Request \ {r} : req'[x] = req[x]
    BY <1>7, <2>2, BecomesTyped DEF WriteInvitation, TypedInv
  <2>4. invitation' = [invitation EXCEPT ![t] = i]
    BY <1>7 DEF WriteInvitation
  <2>5. /\ invitation'[t] = i
        /\ \A k \in Token \ {t} : invitation'[k] = invitation[k]
    BY <2>4 DEF TypedInv, TypeOK
  <2> HIDE DEF i
  <2> QED BY <1>7, <2>1, <2>3, <2>5
          DEF WriteInvitation, CompaniesKnown, rows, plans, Founded, Exists, Idle
<1>8. ASSUME NEW t \in Token, ExpireInvitation(t)
      PROVE  CompaniesKnown'
  BY <1>8 DEF ExpireInvitation, CompaniesKnown, rows, plans, Founded, Exists, TypedInv, TypeOK
<1>9. ASSUME NEW r \in Request, NEW t \in Token, Accept(r, t)
      PROVE  CompaniesKnown'
  <2> DEFINE q == [pc |-> "accept", token |-> t, held |-> invitation[t]]
  <2>1. q \in Local /\ Founded(q.held.company)
    BY <1>9 DEF Accept, TypedInv, TypeOK, Local, CompaniesKnown
  <2>2. \A k \in Token : invitation'[k] # None =>
           invitation[k] # None /\ invitation'[k] = invitation[k]
    BY <1>9 DEF Accept, TypedInv, TypeOK
  <2>3. Becomes(r, q) /\ UNCHANGED <<rows, plans>>
    BY <1>9 DEF Accept
  <2>4. q.pc \notin {"admin", "count", "write"}
    OBVIOUS
  <2> HIDE DEF q
  <2> QED BY <2>1, <2>2, <2>3, <2>4, ReadKnown
<1>10. ASSUME NEW r \in Request, ReadInvitee(r)
       PROVE  CompaniesKnown'
  <2> DEFINE q == [req[r] EXCEPT !.pc = "acceptCount"]
  <2>1. q \in [pc : Carries, token : Token, held : Invitation]
    BY <1>10, Locals DEF ReadInvitee, TypedInv
  <2>2. q \in Local /\ Idle \in Local
    BY <2>1 DEF Local
  <2>3. q.pc = "acceptCount" /\ Founded(q.held.company)
    BY <1>10, <2>1, Locals DEF ReadInvitee, TypedInv, CompaniesKnown
  <2>4. (Becomes(r, q) \/ Becomes(r, Idle)) /\ UNCHANGED <<rows, plans, links>>
    BY <1>10 DEF ReadInvitee
  <2>5. Idle.pc = "idle"
    BY DEF Idle
  <2> HIDE DEF q
  <2> QED BY <2>2, <2>3, <2>4, <2>5, ReadKnown DEF links
<1>11. ASSUME NEW r \in Request, AcceptCount(r)
       PROVE  CompaniesKnown'
  <2> DEFINE t == req[r].token
             q == [req[r] EXCEPT !.pc = "join"]
  <2>1. /\ q \in [pc : Carries, token : Token, held : Invitation]
        /\ t \in Token /\ req[r].held \in Invitation
    BY <1>11, Locals DEF AcceptCount, TypedInv
  <2>2. q \in Local /\ Idle \in Local
    BY <2>1 DEF Local
  <2>3. q.pc = "join" /\ q.held = req[r].held /\ Founded(req[r].held.company)
    BY <1>11, <2>1, Locals DEF AcceptCount, TypedInv, CompaniesKnown
  <2>4. CASE Room(req[r].held.company)
    <3>1. Becomes(r, q) /\ UNCHANGED <<rows, plans, links>>
      BY <1>11, <2>4 DEF AcceptCount, links
    <3> HIDE DEF q
    <3> QED BY <2>2, <2>3, <3>1, ReadKnown DEF links
  <2>5. CASE ~Room(req[r].held.company)
    <3>1. /\ Becomes(r, Idle)
          /\ invitation' = [invitation EXCEPT ![t] = req[r].held]
      BY <1>11, <2>5 DEF AcceptCount
    <3>2. /\ req'[r] = Idle /\ \A x \in Request \ {r} : req'[x] = req[x]
      BY <2>2, <3>1, BecomesTyped DEF TypedInv
    <3>3. /\ invitation'[t] = req[r].held
          /\ \A k \in Token \ {t} : invitation'[k] = invitation[k]
      BY <2>1, <3>1 DEF TypedInv, TypeOK
    <3> QED BY <1>11, <2>3, <3>2, <3>3
            DEF AcceptCount, CompaniesKnown, rows, plans, Founded, Exists, Idle
  <2> QED BY <2>4, <2>5
<1>12. ASSUME NEW r \in Request, Join(r)
       PROVE  CompaniesKnown'
  <2> DEFINE i == req[r].held
             a == [user[i.user] EXCEPT !.company = i.company, !.role = i.role]
  <2>1. i \in Invitation /\ Founded(i.company) /\ Exists(i.user)
    BY <1>12, Locals DEF Join, TypedInv, CompaniesKnown, NamesKnown
  <2>2. user[i.user] \in Account
    BY <2>1 DEF TypedInv, TypeOK, Invitation, Exists
  <2>3. a \in Account /\ i.user \in User /\ a.company = i.company
    BY <2>1, <2>2 DEF Account, Invitation
  <2>4. user' = [user EXCEPT ![i.user] = a]
    BY <1>12, <2>1, <2>2 DEF Join, TypedInv, TypeOK, Account
  <2> HIDE DEF a
  <2> QED BY <1>12, <2>1, <2>3, <2>4, RowKnown DEF Join
<1>13. ASSUME NEW r \in Request, WriteRole(r)
       PROVE  CompaniesKnown'
  <2> DEFINE u == req[r].user
             a == [user[u] EXCEPT !.role = req[r].role]
  <2>1. u \in User /\ req[r].role \in Role /\ Exists(u)
    BY <1>13, Locals DEF WriteRole, TypedInv, NamesKnown
  <2>2. user[u] \in Account
    BY <2>1 DEF TypedInv, TypeOK, Exists
  <2>3. a \in Account /\ a.company = user[u].company
    BY <2>1, <2>2 DEF Account
  <2>4. user' = [user EXCEPT ![u] = a]
    BY <1>13, <2>1, <2>2 DEF WriteRole, TypedInv, TypeOK, Account
  <2>5. a.company # None => Founded(a.company)
    BY <2>1, <2>3 DEF CompaniesKnown
  <2> HIDE DEF a
  <2> QED BY <1>13, <2>1, <2>3, <2>4, <2>5, RowKnown DEF WriteRole, links
<1>14. ASSUME NEW r \in Request, WriteDeactivated(r)
       PROVE  CompaniesKnown'
  <2> DEFINE u == req[r].user
             a == [user[u] EXCEPT !.active = FALSE]
  <2>1. u \in User /\ Exists(u)
    BY <1>14, Locals DEF WriteDeactivated, TypedInv, NamesKnown
  <2>2. user[u] \in Account
    BY <2>1 DEF TypedInv, TypeOK, Exists
  <2>3. a \in Account /\ a.company = user[u].company
    BY <2>1, <2>2 DEF Account
  <2>4. user' = [user EXCEPT ![u] = a]
    BY <1>14, <2>1, <2>2 DEF WriteDeactivated, TypedInv, TypeOK, Account
  <2>5. a.company # None => Founded(a.company)
    BY <2>1, <2>3 DEF CompaniesKnown
  <2> HIDE DEF a
  <2> QED BY <1>14, <2>1, <2>3, <2>4, <2>5, RowKnown DEF WriteDeactivated, links
<1>15. ASSUME NEW r \in Request, NEW c \in Company, WriteCompany(r, c)
       PROVE  CompaniesKnown'
  <2> DEFINE u == req[r].user
  <2>1. u \in User /\ user[u] \in Account
    BY <1>15, Locals DEF WriteCompany, TypedInv, TypeOK, NamesKnown, Exists
  <2>2. Idle \in Local
    BY DEF Local
  <2>3. /\ req'[r] = Idle /\ \A x \in Request \ {r} : req'[x] = req[x]
    BY <1>15, <2>2, BecomesTyped DEF WriteCompany, TypedInv
  <2>4. /\ founder'[c] = u /\ \A d \in Company \ {c} : founder'[d] = founder[d]
        /\ plan'[c] = "PRO" /\ \A d \in Company \ {c} : plan'[d] = plan[d]
        /\ user'[u].company = c /\ \A v \in User \ {u} : user'[v] = user[v]
    BY <1>15, <2>1 DEF WriteCompany, Found, TypedInv, TypeOK, Account
  <2>5. founder'[c] # None
    BY <2>1, <2>4, NoneAssumption
  <2>6. \A d \in Company : Founded(d) => founder'[d] # None
    BY <2>4, <2>5 DEF Founded
  <2>7. \A v \in User : user[v] # None => user[v].company \in Company \cup {None}
    BY DEF TypedInv, TypeOK, Account
  <2>8. \A v \in User : user'[v] # None /\ user'[v].company # None
                          => founder'[user'[v].company] # None
    BY <2>4, <2>5, <2>6, <2>7 DEF CompaniesKnown, Exists
  <2>9. \A x \in Request :
          /\ req'[x].pc \in {"admin", "count", "write"} => founder'[req'[x].company] # None
          /\ req'[x].pc \in Carries => founder'[req'[x].held.company] # None
    <3>1. \A x \in Request :
            /\ req[x].pc \in {"admin", "count", "write"} => req[x].company \in Company
            /\ req[x].pc \in Carries => req[x].held.company \in Company
      BY Locals DEF TypedInv, Invitation
    <3> QED BY <2>3, <2>6, <3>1 DEF CompaniesKnown, Idle
  <2>10. \A t \in Token : invitation'[t] # None => founder'[invitation'[t].company] # None
    BY <1>15, <2>6 DEF WriteCompany, links, CompaniesKnown, TypedInv, TypeOK, Invitation
  <2>11. \A d \in Company : plan'[d] = "BUSINESS" => d \in unlimited'
    BY <1>15, <2>4 DEF WriteCompany, CompaniesKnown
  <2> QED BY <2>8, <2>9, <2>10, <2>11 DEF CompaniesKnown, Founded, Exists
<1>16. ASSUME NEW r \in Request, Abandon(r)
       PROVE  CompaniesKnown'
  <2>1. Idle \in Local
    BY DEF Local
  <2> QED BY <1>16, <2>1, ReadKnown DEF Abandon, Idle, links
<1>17. ASSUME NEW c \in Company, ChangePlan(c)
       PROVE  CompaniesKnown'
  <2>1. \A d \in Company : plan'[d] = "BUSINESS" => d \in unlimited'
    BY <1>17 DEF ChangePlan, CompaniesKnown, TypedInv, TypeOK
  <2> QED BY <1>17, <2>1 DEF ChangePlan, CompaniesKnown, rows, links, Founded, Exists
<1>18. CASE UNCHANGED vars
  BY <1>18 DEF vars, CompaniesKnown, Founded, Exists
<1> QED
  BY <1>1, <1>2, <1>3, <1>4, <1>5, <1>6, <1>7, <1>8, <1>9, <1>10, <1>11, <1>12, <1>13,
     <1>14, <1>15, <1>16, <1>17, <1>18
     DEF Next, Step

LEMMA Sizes ==
  ASSUME NEW M \in SUBSET User, NEW A \in SUBSET Request
  PROVE  /\ IsFiniteSet(M) /\ Cardinality(M) \in Nat
         /\ IsFiniteSet(A) /\ Cardinality(A) \in Nat
         /\ Cardinality(Request) \in Nat
         /\ Cardinality(A) <= Cardinality(Request)
BY FiniteAssumption, FS_Subset, FS_CardinalityType

LEMMA NoMore ==
  ASSUME NEW M \in SUBSET User, NEW N \in SUBSET M,
         NEW A \in SUBSET Request, NEW B \in SUBSET A
  PROVE  Cardinality(N) + Cardinality(B) <= Cardinality(M) + Cardinality(A)
<1>1. Cardinality(N) <= Cardinality(M) /\ Cardinality(B) <= Cardinality(A)
  BY Sizes, FS_Subset
<1> QED BY <1>1, Sizes

\* One request writes the member it was admitted for.
LEMMA OneForOne ==
  ASSUME NEW M \in SUBSET User, NEW N \in SUBSET User, NEW u \in User,
         NEW A \in SUBSET Request, NEW B \in SUBSET Request, NEW r \in A,
         N \subseteq M \cup {u}, B \subseteq A \ {r}
  PROVE  Cardinality(N) + Cardinality(B) <= Cardinality(M) + Cardinality(A)
<1>1. Cardinality(M \cup {u}) <= Cardinality(M) + 1
  BY Sizes, FS_AddElement
<1>2. Cardinality(A \ {r}) = Cardinality(A) - 1
  BY Sizes, FS_RemoveElement
<1>3. M \cup {u} \in SUBSET User /\ A \ {r} \in SUBSET Request
  OBVIOUS
<1>4. Cardinality(N) <= Cardinality(M \cup {u}) /\ Cardinality(B) <= Cardinality(A \ {r})
  BY <1>3, Sizes, FS_Subset
<1> QED BY <1>1, <1>2, <1>3, <1>4, Sizes

LEMMA StepReach ==
  ASSUME TypedInv, CompaniesKnown, MembersWithinReach, [Next]_vars
  PROVE  MembersWithinReach'
<1> USE DEF At, Carries
<1> DEFINE Reach == ProMembers - 1 + Cardinality(Request)
<1> SUFFICES ASSUME NEW c \in Company, c \notin unlimited'
             PROVE  Cardinality(Members(c)') + Cardinality(Admitted(c)') <= Reach
  BY DEF MembersWithinReach
<1>1. /\ Members(c) \in SUBSET User /\ Members(c)' \in SUBSET User
      /\ Admitted(c) \in SUBSET Request /\ Admitted(c)' \in SUBSET Request
  BY DEF Members, Admitted
<1>2. c \notin unlimited
  BY DEF Next, Step, vars, AdminCalls, Create, Deactivate, CreateSubAccount, UpdateRole,
         AssertCanAddMember, WriteSubAccount, ReadInvitee, AcceptCount, Join, WriteRole,
         WriteDeactivated, Abandon, WriteCompany, WriteInvitation, Accept,
         ExpireInvitation, ChangePlan, plans
<1>3. Cardinality(Members(c)) + Cardinality(Admitted(c)) <= Reach
  BY <1>2 DEF MembersWithinReach
<1>4. Reach \in Int
  BY <1>1, Sizes, LimitsAssumption
<1> HIDE DEF Reach
\* The ways a step may count.
<1>5. ASSUME Members(c)' \subseteq Members(c), Admitted(c)' \subseteq Admitted(c)
      PROVE  Cardinality(Members(c)') + Cardinality(Admitted(c)') <= Reach
  <2>1. Cardinality(Members(c)') + Cardinality(Admitted(c)')
          <= Cardinality(Members(c)) + Cardinality(Admitted(c))
    BY <1>1, <1>5, NoMore
  <2> QED BY <2>1, <1>1, <1>3, <1>4, Sizes
<1>6. ASSUME NEW u \in User, NEW r \in Request, r \in Admitted(c),
             Members(c)' \subseteq Members(c) \cup {u},
             Admitted(c)' \subseteq Admitted(c) \ {r}
      PROVE  Cardinality(Members(c)') + Cardinality(Admitted(c)') <= Reach
  <2>1. Cardinality(Members(c)') + Cardinality(Admitted(c)')
          <= Cardinality(Members(c)) + Cardinality(Admitted(c))
    BY <1>1, <1>6, OneForOne
  <2> QED BY <2>1, <1>1, <1>3, <1>4, Sizes
<1>7. ASSUME Room(c), Members(c)' = Members(c)
      PROVE  Cardinality(Members(c)') + Cardinality(Admitted(c)') <= Reach
  <2>1. plan[c] \in {"FREE", "PRO"}
    BY <1>2 DEF CompaniesKnown, TypedInv, TypeOK, PlanName
  <2>2. PlanLimits[plan[c]].members \in {1, ProMembers}
    BY <2>1 DEF PlanLimits
  <2>3. PlanLimits[plan[c]].members # None
    BY <2>2, LimitsAssumption
  <2>4. Cardinality(Members(c)) < PlanLimits[plan[c]].members
    BY <1>1, <1>7, <2>2, <2>3, Sizes, LimitsAssumption DEF Room, Reached
  <2>5. Cardinality(Members(c)) <= ProMembers - 1
    BY <1>1, <2>2, <2>4, Sizes, LimitsAssumption
  <2>6. Cardinality(Admitted(c)') <= Cardinality(Request)
    BY <1>1, Sizes
  <2>7. Cardinality(Members(c)') = Cardinality(Members(c))
    BY <1>7
  <2> QED BY <1>1, <2>5, <2>6, <2>7, Sizes, LimitsAssumption DEF Reach
\* A request that does not come to be admitted, and writes no row.
<1>8. ASSUME NEW r \in Request, \A x \in Request \ {r} : req'[x] = req[x], UNCHANGED rows,
             ~(/\ req'[r].pc = "write" /\ req'[r].then = "create"
               /\ req'[r].company = c),
             ~(req'[r].pc = "join" /\ req'[r].held.company = c)
      PROVE  Cardinality(Members(c)') + Cardinality(Admitted(c)') <= Reach
  <2>1. Admitted(c)' \subseteq Admitted(c)
    BY <1>8 DEF Admitted
  <2>2. Members(c)' = Members(c)
    BY <1>8 DEF Members, rows, Exists
  <2> QED BY <1>5, <2>1, <2>2
<1>9. Idle \in Local
  BY DEF Local
<1>10. ASSUME NEW r \in Request,
              \/ ReadInvitee(r) \/ Abandon(r)
              \/ \E u \in User :
                   \/ AdminCalls(r, u) \/ Create(r, u) \/ Deactivate(r, u)
                   \/ \E role \in Role :
                        CreateSubAccount(r, u, role) \/ UpdateRole(r, u, role)
              \/ \E t \in Token : WriteInvitation(r, t) \/ Accept(r, t)
       PROVE  Cardinality(Members(c)') + Cardinality(Admitted(c)') <= Reach
  <2>1. /\ \A x \in Request \ {r} : req'[x] = req[x]
        /\ UNCHANGED rows
    BY <1>10
       DEF TypedInv, TypeOK, Becomes, ReadInvitee, Abandon, AdminCalls, Create, Deactivate,
           CreateSubAccount, UpdateRole, WriteInvitation, Accept
  <2>2. req'[r].pc \notin {"write", "join"}
    <3>1. CASE ReadInvitee(r)
      <4>1. req[r] \in [pc : Carries, token : Token, held : Invitation]
        BY <3>1, Locals DEF ReadInvitee, TypedInv
      <4>2. req'[r] \in {[req[r] EXCEPT !.pc = "acceptCount"], Idle}
        BY <3>1 DEF ReadInvitee, Becomes, TypedInv, TypeOK
      <4> QED BY <4>1, <4>2 DEF Idle
    <3>2. CASE ~ReadInvitee(r)
      BY <1>10, <3>2
         DEF TypedInv, TypeOK, Becomes, Abandon, AdminCalls, Create, Deactivate,
             CreateSubAccount, UpdateRole, WriteInvitation, Accept, Idle
    <3> QED BY <3>1, <3>2
  <2> QED BY <1>8, <2>1, <2>2
<1>11. ASSUME NEW r \in Request, AssertCanAddMember(r)
       PROVE  Cardinality(Members(c)') + Cardinality(Admitted(c)') <= Reach
  <2>1. Members(c)' = Members(c)
    BY <1>11 DEF AssertCanAddMember, Members, rows, Exists
  <2>2. CASE req[r].company = c
    BY <1>7, <1>11, <2>1, <2>2 DEF AssertCanAddMember
  <2>3. CASE req[r].company # c
    <3>1. /\ req[r] \in [pc : {"count", "write"}, then : {"create", "invite"},
                         user : User, company : Company, role : Role]
          /\ req'[r] = [req[r] EXCEPT !.pc = "write"]
          /\ \A x \in Request \ {r} : req'[x] = req[x]
          /\ UNCHANGED rows
      BY <1>11, Locals DEF AssertCanAddMember, Becomes, TypedInv, TypeOK
    <3>2. req'[r].pc = "write" /\ req'[r].company # c
      BY <2>3, <3>1
    <3> QED BY <1>8, <3>1, <3>2
  <2> QED BY <2>2, <2>3
<1>12. ASSUME NEW r \in Request, AcceptCount(r)
       PROVE  Cardinality(Members(c)') + Cardinality(Admitted(c)') <= Reach
  <2>1. Members(c)' = Members(c)
    BY <1>12 DEF AcceptCount, Members, rows, Exists
  <2>2. CASE Room(c) /\ req[r].held.company = c
    BY <1>7, <2>1, <2>2
  <2>3. CASE ~(Room(c) /\ req[r].held.company = c)
    <3>1. req[r] \in [pc : Carries, token : Token, held : Invitation]
      BY <1>12, Locals DEF AcceptCount, TypedInv
    <3>2. /\ \A x \in Request \ {r} : req'[x] = req[x]
          /\ UNCHANGED rows
          /\ \/ req'[r] = Idle
             \/ /\ req'[r] = [req[r] EXCEPT !.pc = "join"]
                /\ Room(req[r].held.company)
      BY <1>12 DEF AcceptCount, Becomes, TypedInv, TypeOK
    <3>3. CASE req'[r] = Idle
      BY <1>8, <3>2, <3>3 DEF Idle
    <3>4. CASE req'[r] = [req[r] EXCEPT !.pc = "join"] /\ Room(req[r].held.company)
      <4>1. req'[r].pc = "join" /\ req'[r].held = req[r].held
        BY <3>1, <3>4
      <4>2. req[r].held.company # c
        BY <2>3, <3>4
      <4> QED BY <1>8, <3>2, <4>1, <4>2
    <3> QED BY <3>2, <3>3, <3>4
  <2> QED BY <2>2, <2>3
<1>13. ASSUME NEW r \in Request, WriteSubAccount(r)
       PROVE  Cardinality(Members(c)') + Cardinality(Admitted(c)') <= Reach
  <2> DEFINE u == req[r].user
  <2>1. /\ u \in User
        /\ user'[u] = [company |-> req[r].company, role |-> req[r].role, active |-> TRUE]
        /\ \A v \in User \ {u} : user'[v] = user[v]
    BY <1>13, Locals DEF WriteSubAccount, TypedInv, TypeOK
  <2>2. req'[r] = Idle /\ \A x \in Request \ {r} : req'[x] = req[x]
    BY <1>13 DEF WriteSubAccount, Becomes, TypedInv, TypeOK
  <2>3. Admitted(c)' \subseteq Admitted(c) \ {r}
    BY <2>2 DEF Admitted, Idle
  <2>4. CASE req[r].company = c
    <3>1. r \in Admitted(c)
      BY <1>13, <2>4 DEF WriteSubAccount, Admitted
    <3>2. Members(c)' \subseteq Members(c) \cup {u}
      BY <2>1 DEF Members, Exists
    <3> QED BY <1>6, <2>1, <2>3, <3>1, <3>2
  <2>5. CASE req[r].company # c
    <3>1. Members(c)' \subseteq Members(c)
      BY <2>1, <2>5 DEF Members, Exists
    <3> QED BY <1>5, <2>3, <3>1
  <2> QED BY <2>4, <2>5
<1>14. ASSUME NEW r \in Request, Join(r)
       PROVE  Cardinality(Members(c)') + Cardinality(Admitted(c)') <= Reach
  <2> DEFINE i == req[r].held
             u == i.user
  <2>1. /\ i \in Invitation /\ u \in User
        /\ user[u] \in Account
    BY <1>14, Locals DEF Join, TypedInv, TypeOK, NamesKnown, Invitation, Exists
  <2>2. /\ user'[u].company = i.company
        /\ \A v \in User \ {u} : user'[v] = user[v]
    BY <1>14, <2>1 DEF Join, TypedInv, TypeOK, Account
  <2>3. req'[r] = Idle /\ \A x \in Request \ {r} : req'[x] = req[x]
    BY <1>14 DEF Join, Becomes, TypedInv, TypeOK
  <2>4. Admitted(c)' \subseteq Admitted(c) \ {r}
    BY <2>3 DEF Admitted, Idle
  <2>5. CASE i.company = c
    <3>1. r \in Admitted(c)
      BY <1>14, <2>5 DEF Join, Admitted
    <3>2. Members(c)' \subseteq Members(c) \cup {u}
      BY <2>2 DEF Members, Exists
    <3> QED BY <1>6, <2>1, <2>4, <3>1, <3>2
  <2>6. CASE i.company # c
    <3>1. Members(c)' \subseteq Members(c)
      BY <2>1, <2>2, <2>6 DEF Members, Exists
    <3> QED BY <1>5, <2>4, <3>1
  <2> QED BY <2>5, <2>6
<1>15. ASSUME NEW r \in Request, WriteRole(r) \/ WriteDeactivated(r)
       PROVE  Cardinality(Members(c)') + Cardinality(Admitted(c)') <= Reach
  <2> DEFINE u == req[r].user
  <2>1. u \in User /\ user[u] \in Account /\ Exists(u)
    BY <1>15, Locals DEF WriteRole, WriteDeactivated, TypedInv, TypeOK, NamesKnown, Exists
  <2>2. /\ user'[u].company = user[u].company
        /\ user'[u].active => user[u].active
        /\ \A v \in User \ {u} : user'[v] = user[v]
    BY <1>15, <2>1 DEF WriteRole, WriteDeactivated, TypedInv, TypeOK, Account
  <2>3. req'[r] = Idle /\ \A x \in Request \ {r} : req'[x] = req[x]
    BY <1>15 DEF WriteRole, WriteDeactivated, Becomes, TypedInv, TypeOK
  <2>4. Admitted(c)' \subseteq Admitted(c)
    BY <2>3 DEF Admitted, Idle
  <2>5. Members(c)' \subseteq Members(c)
    BY <2>1, <2>2 DEF Members, Exists
  <2> QED BY <1>5, <2>4, <2>5
<1>16. ASSUME NEW r \in Request, NEW d \in Company, WriteCompany(r, d)
       PROVE  Cardinality(Members(c)') + Cardinality(Admitted(c)') <= Reach
  <2> DEFINE u == req[r].user
  <2>1. u \in User /\ user[u] \in Account
    BY <1>16, Locals DEF WriteCompany, TypedInv, TypeOK, NamesKnown, Exists
  <2>2. /\ user'[u].company = d
        /\ \A v \in User \ {u} : user'[v] = user[v]
    BY <1>16, <2>1 DEF WriteCompany, Found, TypedInv, TypeOK, Account
  <2>3. req'[r] = Idle /\ \A x \in Request \ {r} : req'[x] = req[x]
    BY <1>16 DEF WriteCompany, Becomes, TypedInv, TypeOK
  <2>4. Admitted(c)' \subseteq Admitted(c)
    BY <2>3 DEF Admitted, Idle
  <2>5. CASE d # c
    <3>1. Members(c)' \subseteq Members(c)
      BY <2>2, <2>5 DEF Members, Exists
    <3> QED BY <1>5, <2>4, <3>1
  <2>6. CASE d = c
    <3>1. founder[c] = None
      BY <1>16, <2>6 DEF WriteCompany
    <3>2. Members(c) = {} /\ Admitted(c) = {}
      BY <3>1, NoneAssumption DEF CompaniesKnown, Members, Admitted, Founded
    <3>3. Members(c)' \subseteq {u}
      BY <2>2, <3>2 DEF Members, Exists
    <3>4. Cardinality({u}) = 1 /\ Cardinality({r}) = 1
      BY FS_Singleton
    <3>5. Cardinality(Members(c)') <= 1
      <4> HIDE DEF u
      <4>1. IsFiniteSet({u}) /\ Members(c)' \in SUBSET {u}
        BY <3>3, FS_Singleton
      <4> QED BY <3>4, <4>1, FS_Subset
    <3>6. Cardinality(Admitted(c)') = 0
      BY <2>4, <3>2, FS_EmptySet
    <3>7. Cardinality(Request) >= 1
      BY <3>4, FiniteAssumption, FS_Subset
    <3> QED BY <1>1, <3>5, <3>6, <3>7, Sizes, LimitsAssumption DEF Reach
  <2> QED BY <2>5, <2>6
<1>17. ASSUME UNCHANGED <<rows, req>>
       PROVE  Cardinality(Members(c)') + Cardinality(Admitted(c)') <= Reach
  BY <1>5, <1>17 DEF rows, Members, Admitted, Exists
<1>18. UNCHANGED vars => UNCHANGED <<rows, req>>
  BY DEF vars, rows
<1>19. \A t \in Token : ExpireInvitation(t) => UNCHANGED <<rows, req>>
  BY DEF ExpireInvitation
<1>20. \A d \in Company : ChangePlan(d) => UNCHANGED <<rows, req>>
  BY DEF ChangePlan
<1> QED
  BY <1>10, <1>11, <1>12, <1>13, <1>14, <1>15, <1>16, <1>17, <1>18, <1>19, <1>20
     DEF Next, Step

\* "assertCanAddMember" counts before the row is written: whatever the plans a company
\* has had short of BUSINESS, the requests that pass together take it past the limit
\* of PRO by fewer than there are of them.
THEOREM WithinReach == Spec => []MembersWithinReach
<1>1. Init => CompaniesKnown /\ MembersWithinReach
  <2> SUFFICES ASSUME Init PROVE CompaniesKnown /\ MembersWithinReach
    OBVIOUS
  <2>1. CompaniesKnown
    BY DEF Init, CompaniesKnown, Exists, Idle, Carries
  <2>2. ASSUME NEW c \in Company
        PROVE  Members(c) = {} /\ Admitted(c) = {}
    <3>1. \A u \in User : Exists(u) => user[u].company = None
      BY DEF Init, Exists
    <3>2. Members(c) = {}
      BY <3>1, NoneAssumption DEF Members
    <3>3. Admitted(c) = {}
      BY DEF Init, Admitted, At, Idle
    <3> QED BY <3>2, <3>3
  <2>3. Cardinality(Request) \in Nat /\ Cardinality({}) = 0
    BY FiniteAssumption, FS_CardinalityType, FS_EmptySet
  <2>4. ASSUME NEW c \in Company
        PROVE  Cardinality(Members(c)) + Cardinality(Admitted(c))
                 <= ProMembers - 1 + Cardinality(Request)
    <3>1. Cardinality(Members(c)) = 0 /\ Cardinality(Admitted(c)) = 0
      BY <2>2, <2>3
    <3> QED BY <2>3, <3>1, LimitsAssumption
  <2> QED BY <2>1, <2>4 DEF MembersWithinReach
<1> QED BY <1>1, InitTyped, StepTyped, StepKnown, StepReach, PTL DEF Spec

-----------------------------------------------------------------------------
(* The limits of the plans, for any limits and any subscriptions.          *)

\* A plan of a higher rank is at least as wide, feature by feature.
LEMMA HigherIsWider ==
  ASSUME NEW p \in PlanName, NEW q \in PlanName, NEW f \in Feature,
         PlanRank[p] <= PlanRank[q], PlanLimits[q][f] # None
  PROVE  PlanLimits[p][f] # None /\ PlanLimits[p][f] <= PlanLimits[q][f]
<1>1. CASE p = q
  <2>1. PlanLimits[q][f] \in Nat
    BY LimitsAssumption DEF PlanLimits, PlanName, Feature
  <2> QED BY <1>1, <2>1
<1>2. CASE p # q
  <2>1. (q = "PRO" /\ p = "FREE") \/ q = "BUSINESS"
    BY <1>2 DEF PlanName, PlanRank
  <2>2. CASE q = "BUSINESS"
    BY <2>2 DEF PlanLimits, Feature
  <2>3. CASE q = "PRO" /\ p = "FREE"
    BY <2>3, LimitsAssumption DEF PlanLimits, Feature
  <2> QED BY <2>1, <2>2, <2>3
<1> QED BY <1>1, <1>2

\* The plan the web proposes when a limit is reached has more room for what was
\* refused (requiredPlanFor), whatever the limits of FREE and PRO are.
THEOREM RequiredPlanLifts ==
  ASSUME NEW f \in Feature, NEW p \in PlanName, NEW n \in Nat,
         Reached(PlanLimits[p][f], n)
  PROVE  IsMorePermissive(PlanLimits[RequiredPlanFor(f, p)][f], PlanLimits[p][f])
<1>1. PlanLimits[p][f] # None
  BY DEF Reached
<1>2. PlanLimits["BUSINESS"][f] = None
  BY DEF PlanLimits, Feature
<1>3. RequiredPlanFor(f, p) = "BUSINESS" \/
        IsMorePermissive(PlanLimits[RequiredPlanFor(f, p)][f], PlanLimits[p][f])
  BY DEF RequiredPlanFor
<1> QED BY <1>1, <1>2, <1>3 DEF IsMorePermissive

\* A subscription more never lowers the plan of a company, whatever its period and
\* its plan are: a sale during the trial, a PRO bought under BUSINESS.
LEMMA SubscriptionNeverLowers ==
  ASSUME NEW held \in SUBSET Subscription, NEW s \in Subscription,
         NEW now \in Int, NEW trial
  PROVE  PlanRank[ResolvePlan(held, trial, now).plan]
           <= PlanRank[ResolvePlan(held \cup {s}, trial, now).plan]
<1> DEFINE before == Current(held, now)
           after == Current(held \cup {s}, now)
           from == ResolvePlan(held, trial, now).plan
           to == ResolvePlan(held \cup {s}, trial, now).plan
<1>1. before \subseteq after
  BY DEF Current, Standing
<1>2. from \in PlanName /\ to \in PlanName
  BY DEF ResolvePlan, PlanName
<1>3. CASE from = "FREE"
  BY <1>2, <1>3 DEF PlanRank, PlanName
<1>4. CASE from = "PRO"
  <2>1. CASE before # {}
    <3>1. after # {}
      BY <2>1, <1>1
    <3> QED BY <3>1, <1>4, <1>2 DEF ResolvePlan, PlanRank, PlanName
  <2>2. CASE before = {}
    <3>1. trial # None /\ trial > now
      BY <2>2, <1>4 DEF ResolvePlan
    <3>2. to # "FREE"
      BY <3>1 DEF ResolvePlan
    <3> QED BY <3>2, <1>4, <1>2 DEF PlanRank, PlanName
  <2> QED BY <2>1, <2>2
<1>5. CASE from = "BUSINESS"
  <2>1. \E x \in before : x.plan = "BUSINESS"
    BY <1>5 DEF ResolvePlan
  <2>2. \E x \in after : x.plan = "BUSINESS"
    BY <2>1, <1>1
  <2>3. to = "BUSINESS"
    BY <2>2 DEF ResolvePlan
  <2> QED BY <2>3, <1>5 DEF PlanRank
<1> QED BY <1>2, <1>3, <1>4, <1>5 DEF PlanName

\* "un paiement doit débloquer l'entreprise": a subscription more never tightens a
\* limit of the company, in the demo or not.
THEOREM PaymentNeverRestricts ==
  ASSUME NEW held \in SUBSET Subscription, NEW s \in Subscription,
         NEW now \in Int, NEW trial, NEW isDemo \in BOOLEAN, NEW f \in Feature,
         NEW n \in Nat,
         ~Reached(Limits(ResolvePlan(held, trial, now).plan, isDemo)[f], n)
  PROVE  ~Reached(Limits(ResolvePlan(held \cup {s}, trial, now).plan, isDemo)[f], n)
<1> DEFINE from == ResolvePlan(held, trial, now).plan
           to == ResolvePlan(held \cup {s}, trial, now).plan
<1>1. from \in PlanName /\ to \in PlanName
  BY DEF ResolvePlan, PlanName
<1>2. PlanRank[from] <= PlanRank[to]
  BY SubscriptionNeverLowers
<1>3. CASE isDemo /\ f = "copilot"
  <2>1. \A p \in PlanName : Limits(p, TRUE)["copilot"] = DemoCopilot
    BY DEF Limits, PlanLimits, PlanName
  <2> QED BY <1>1, <1>3, <2>1
<1>4. CASE ~(isDemo /\ f = "copilot")
  <2>1. \A p \in PlanName : Limits(p, isDemo)[f] = PlanLimits[p][f]
    BY <1>4 DEF Limits, PlanLimits, PlanName, Feature
  <2>2. CASE PlanLimits[to][f] = None
    BY <1>1, <2>1, <2>2 DEF Reached
  <2>3. CASE PlanLimits[to][f] # None
    <3>1. PlanLimits[from][f] # None /\ PlanLimits[from][f] <= PlanLimits[to][f]
      BY <1>1, <1>2, <2>3, HigherIsWider
    <3>2. PlanLimits[from][f] \in Nat /\ PlanLimits[to][f] \in Nat
      BY <1>1, <2>3, <3>1, LimitsAssumption DEF PlanLimits, PlanName, Feature
    <3>3. ~(n >= PlanLimits[from][f])
      BY <1>1, <2>1, <3>1 DEF Reached
    <3> QED BY <1>1, <2>1, <3>1, <3>2, <3>3 DEF Reached
  <2> QED BY <2>2, <2>3
<1> QED BY <1>3, <1>4

=============================================================================
