------------------------- MODULE AuthSessionsProofs -------------------------
(***************************************************************************)
(* AuthSessions for every set of addresses, demo accounts and requests:    *)
(* its types, that its keys are single-use tokens, that a session is never *)
(* forked, that a revocation is final, and that the visitors of the demo   *)
(* do not close one another's sessions.                                    *)
(***************************************************************************)
EXTENDS AuthSessions, TLAPS

-----------------------------------------------------------------------------
(* Typing.                                                                 *)

Closing == {"writePassword", "revoke", "scan"}

HasUser == Closing \cup {"create", "issue", "reread", "profile", "link",
                         "createOAuth", "setExchange"}

\* The account a request is about; the one it is to write is there, and the
\* one whose sessions it closes is not of the demo.
Sound(q) ==
  /\ q.pc \in HasUser => q.user \in User
  /\ q.pc \in {"link", "writePassword"} => Exists(q.user)
  /\ q.pc \in Closing => q.user \notin Demo

SoundReset(k) == k.kind = "reset" => Exists(k.user) /\ k.user \notin Demo

TypedInv ==
  /\ TypeOK
  /\ \A r \in Request : Sound(req[r])
  /\ \A k \in issued : SoundReset(k)

LEMMA Keys ==
  ASSUME NEW k \in Key
  PROVE  /\ k # None /\ k.id \in Request
         /\ k.kind \in {"refresh", "reset", "exchange", "state"}
         /\ k.kind # "state" => k.user \in User
         /\ k.kind = "refresh" => k \in RefreshKey /\ k.root \in Request
BY NoneAssumption DEF Key, RefreshKey

\* What a request becomes, field by field.
LEMMA BecomesFields ==
  ASSUME TypeOK, NEW r \in Request, NEW q \in Local, Becomes(r, q)
  PROVE  /\ req' \in [Request -> Local]
         /\ req'[r] = q
         /\ \A v \in Request \ {r} : req'[v] = req[v]
BY DEF TypeOK, Becomes

LEMMA GoToFields ==
  ASSUME TypeOK, NEW r \in Request, NEW p \in PC
  PROVE  LET q == [req[r] EXCEPT !.pc = p] IN
         /\ q \in Local /\ q.pc = p /\ q.user = req[r].user
         /\ q.token = req[r].token /\ q.session = req[r].session /\ q.scan = req[r].scan
<1>1. req[r] \in Local
  BY DEF TypeOK
<1> QED BY <1>1 DEF Local

LEMMA TypedStep ==
  ASSUME TypedInv, NEW r \in Request, NEW q \in Local, Becomes(r, q),
         row' \in [User -> Row \cup {None}],
         \A u \in User : row[u] # None => row'[u] # None,
         live' \subseteq issued', issued' \subseteq Key,
         \A k \in issued' \ issued :
           k.kind = "reset" => row'[k.user] # None /\ k.user \notin Demo,
         q.pc \in HasUser => q.user \in User,
         q.pc \in {"link", "writePassword"} => row'[q.user] # None,
         q.pc \in Closing => q.user \notin Demo
  PROVE  TypedInv'
<1>1. /\ req' \in [Request -> Local] /\ req'[r] = q
      /\ \A v \in Request \ {r} : req'[v] = req[v]
  BY BecomesFields DEF TypedInv
<1>2. TypeOK'
  BY <1>1 DEF TypeOK
<1>3. ASSUME NEW v \in Request
      PROVE  Sound(req[v])'
  <2>1. CASE v = r
    BY <1>1, <2>1 DEF Sound, Exists
  <2>2. CASE v # r
    <3>1. req'[v] = req[v] /\ Sound(req[v])
      BY <1>1, <2>2 DEF TypedInv
    <3> QED BY <3>1 DEF Sound, Exists, HasUser, Closing
  <2> QED BY <2>1, <2>2
<1>4. ASSUME NEW k \in issued'
      PROVE  SoundReset(k)'
  <2>1. CASE k \in issued
    <3>1. SoundReset(k) /\ (k.kind = "reset" => k.user \in User)
      BY <2>1, Keys DEF TypedInv, TypeOK
    <3> QED BY <3>1 DEF SoundReset, Exists
  <2>2. CASE k \notin issued
    BY <2>2 DEF SoundReset, Exists
  <2> QED BY <2>1, <2>2
<1> QED BY <1>2, <1>3, <1>4 DEF TypedInv

LEMMA InitTyped == Init => TypedInv
<1> SUFFICES ASSUME Init PROVE TypedInv
  OBVIOUS
<1>1. PICK G \in SUBSET (User \ Demo) :
        row = [u \in User |->
                IF u \in Demo \cup G
                THEN [password |-> u \notin Demo, active |-> TRUE, linked |-> FALSE]
                ELSE None]
  BY DEF Init
<1>2. row \in [User -> Row \cup {None}]
  BY <1>1 DEF Row
<1>3. req \in [Request -> Local] /\ \A r \in Request : req[r].pc = "idle"
  BY DEF Init, Local, PC
<1> QED BY <1>2, <1>3 DEF Init, TypedInv, TypeOK, Sound, HasUser, Closing

\* Keys are added or taken; the account stays.
LEMMA GoToTyped ==
  ASSUME TypedInv, NEW r \in Request, NEW p \in PC, GoTo(r, p),
         row' \in [User -> Row \cup {None}],
         \A u \in User : row[u] # None => row'[u] # None,
         live' \subseteq issued', issued' \subseteq Key,
         \A k \in issued' \ issued :
           k.kind = "reset" => row'[k.user] # None /\ k.user \notin Demo,
         p \in HasUser => req[r].user \in User,
         p \in {"link", "writePassword"} => row'[req[r].user] # None,
         p \in Closing => req[r].user \notin Demo
  PROVE  TypedInv'
<1> DEFINE q == [req[r] EXCEPT !.pc = p]
<1>1. q \in Local /\ q.pc = p /\ q.user = req[r].user
  BY GoToFields DEF TypedInv
<1>2. Becomes(r, q)
  BY DEF GoTo
<1> HIDE DEF q
<1> QED BY <1>1, <1>2, TypedStep

\* A request that begins, or reads, for a user it is given.
LEMMA UserTyped ==
  ASSUME TypedInv, NEW r \in Request, NEW p \in PC, NEW u \in User,
         Becomes(r, [req[r] EXCEPT !.pc = p, !.user = u]),
         UNCHANGED <<row, issued, live>>,
         p \notin {"link", "writePassword"}, p \in Closing => u \notin Demo
  PROVE  TypedInv'
<1> DEFINE q == [req[r] EXCEPT !.pc = p, !.user = u]
<1>1. q \in Local /\ q.pc = p /\ q.user = u
  <2>1. req[r] \in Local
    BY DEF TypedInv, TypeOK
  <2> QED BY <2>1 DEF Local
<1>2. Becomes(r, q)
  OBVIOUS
<1> HIDE DEF q
<1> QED BY <1>1, <1>2, TypedStep DEF TypedInv, TypeOK

LEMMA TakeTyped ==
  ASSUME TypedInv, NEW r \in Request, NEW p \in PC, NEW u \in User, NEW k \in live,
         Becomes(r, [req[r] EXCEPT !.pc = p, !.user = u, !.token = k]),
         live' = live \ {k}, UNCHANGED <<row, issued>>,
         p \in {"link", "writePassword"} => row[u] # None,
         p \in Closing => u \notin Demo
  PROVE  TypedInv'
<1> DEFINE q == [req[r] EXCEPT !.pc = p, !.user = u, !.token = k]
<1>1. k \in Key
  BY DEF TypedInv, TypeOK
<1>2. q \in Local /\ q.pc = p /\ q.user = u
  <2>1. req[r] \in Local
    BY DEF TypedInv, TypeOK
  <2> QED BY <1>1, <2>1 DEF Local
<1>3. Becomes(r, q)
  OBVIOUS
<1> HIDE DEF q
<1> QED BY <1>2, <1>3, TypedStep DEF TypedInv, TypeOK

\* Nothing but keys that go.
LEMMA DropTyped ==
  ASSUME TypedInv, live' \subseteq live, UNCHANGED <<issued, req>>,
         row' \in [User -> Row \cup {None}],
         \A u \in User : row[u] # None => row'[u] # None
  PROVE  TypedInv'
<1>1. TypeOK'
  BY DEF TypedInv, TypeOK
<1>2. \A r \in Request : Sound(req[r])'
  BY DEF TypedInv, Sound, Exists, HasUser, Closing
<1>3. ASSUME NEW k \in issued'
      PROVE  SoundReset(k)'
  <2>1. SoundReset(k) /\ (k.kind = "reset" => k.user \in User)
    BY Keys DEF TypedInv, TypeOK
  <2> QED BY <2>1 DEF SoundReset, Exists
<1> QED BY <1>1, <1>2, <1>3 DEF TypedInv

\* What becomes of an account: it may be created, linked, given a password or
\* deactivated.
LEMMA RowWrites ==
  ASSUME TypedInv, NEW u \in User
  PROVE  /\ \A n \in Row :
              /\ [row EXCEPT ![u] = n] \in [User -> Row \cup {None}]
              /\ \A v \in User : row[v] # None => [row EXCEPT ![u] = n][v] # None
         /\ row[u] # None => /\ [row[u] EXCEPT !.linked = TRUE] \in Row
                             /\ [row[u] EXCEPT !.password = TRUE] \in Row
                             /\ [row[u] EXCEPT !.active = FALSE] \in Row
BY NoneAssumption DEF TypedInv, TypeOK, Row

\* The refresh token a request hands out.
NewSession(r) ==
  [kind |-> "refresh", id |-> r, user |-> req[r].user,
   root |-> IF req[r].token # None /\ req[r].token.kind = "refresh"
            THEN req[r].token.root ELSE r]

LEMMA IssueFields ==
  ASSUME TypedInv, NEW r \in Request, IssueRefreshToken(r)
  PROVE  LET k == NewSession(r) IN
         /\ At(r, "issue") /\ Put({k}) /\ row' = row
         /\ k \in RefreshKey /\ k \in Key
         /\ req' \in [Request -> Local]
         /\ \A v \in Request \ {r} : req'[v] = req[v]
         /\ req'[r].pc = IF req[r].token # None /\ req[r].token.kind = "state"
                         THEN "setExchange" ELSE "reply"
         /\ req'[r].user = req[r].user /\ req'[r].user \in User
         /\ req'[r].token = req[r].token /\ req'[r].scan = req[r].scan
<1> DEFINE k == NewSession(r)
           p == IF req[r].token # None /\ req[r].token.kind = "state"
                THEN "setExchange" ELSE "reply"
           q == [req[r] EXCEPT !.pc = p, !.session = k]
<1>1. At(r, "issue") /\ Put({k}) /\ row' = row /\ Becomes(r, q)
  BY DEF IssueRefreshToken, NewSession
<1>2. req[r] \in Local /\ req[r].user \in User
  BY <1>1 DEF TypedInv, TypeOK, Sound, At, HasUser
<1>3. (IF req[r].token # None /\ req[r].token.kind = "refresh"
       THEN req[r].token.root ELSE r) \in Request
  BY <1>2, Keys DEF Local
<1>4. k \in RefreshKey
  BY <1>2, <1>3 DEF NewSession, RefreshKey
<1>5. k \in Key
  BY <1>4 DEF Key
<1>6. p \in PC
  BY DEF PC
<1>7. /\ q \in Local /\ q.pc = p /\ q.user = req[r].user
      /\ q.token = req[r].token /\ q.scan = req[r].scan
  <2> HIDE DEF k, p
  <2> QED BY <1>2, <1>4, <1>6 DEF Local
<1> HIDE DEF q
<1>8. /\ req' \in [Request -> Local] /\ req'[r] = q
      /\ \A v \in Request \ {r} : req'[v] = req[v]
  BY <1>1, <1>7, BecomesFields DEF TypedInv
<1> QED BY <1>1, <1>2, <1>4, <1>5, <1>7, <1>8

LEMMA StepTyped ==
  ASSUME TypedInv, [Next]_vars
  PROVE  TypedInv'
<1>0. /\ row \in [User -> Row \cup {None}] /\ live \subseteq issued /\ issued \subseteq Key
      /\ \A r \in Request : req[r] \in Local /\ Sound(req[r])
  BY DEF TypedInv, TypeOK
<1>1. ASSUME NEW r \in Request, NEW u \in User,
             \/ Register(r, u) \/ Login(r, u) \/ LoginDemo(r, u)
             \/ LoginWithGoogleIdToken(r, u) \/ LogoutAll(r, u)
      PROVE  TypedInv'
  <2>1. PICK p \in {"create", "issue", "profile", "revoke"} :
          /\ Becomes(r, [req[r] EXCEPT !.pc = p, !.user = u])
          /\ UNCHANGED <<row, issued, live>> /\ (p = "revoke" => u \notin Demo)
    BY <1>1 DEF Register, Login, LoginDemo, LoginWithGoogleIdToken, LogoutAll
  <2> QED BY <2>1, UserTyped DEF PC, Closing
<1>2. ASSUME NEW r \in Request, CreateUser(r) \/ CreateOAuthUser(r) \/ LinkOAuthUser(r)
                                \/ WritePassword(r)
      PROVE  TypedInv'
  <2> DEFINE u == req[r].user
  <2>1. u \in User /\ UNCHANGED <<issued, live>>
    BY <1>0, <1>2 DEF CreateUser, CreateOAuthUser, LinkOAuthUser, WritePassword, At, Sound,
         HasUser, Closing
  <2>2. row' = row \/ \E n \in Row : row' = [row EXCEPT ![u] = n]
    <3>1. CASE CreateUser(r)
      BY <3>1 DEF CreateUser, Row
    <3>2. CASE CreateOAuthUser(r)
      BY <3>2 DEF CreateOAuthUser, Row
    <3>3. CASE LinkOAuthUser(r)
      <4>1. row[u] # None
        BY <1>0, <3>3 DEF LinkOAuthUser, At, Sound, Exists
      <4>2. row' = [row EXCEPT ![u] = [row[u] EXCEPT !.linked = TRUE]]
        BY <1>0, <2>1, <3>3 DEF LinkOAuthUser
      <4> QED BY <2>1, <4>1, <4>2, RowWrites
    <3>4. CASE WritePassword(r)
      <4>1. row[u] # None
        BY <1>0, <3>4 DEF WritePassword, At, Sound, Exists
      <4>2. row' = [row EXCEPT ![u] = [row[u] EXCEPT !.password = TRUE]]
        BY <1>0, <2>1, <3>4 DEF WritePassword
      <4> QED BY <2>1, <4>1, <4>2, RowWrites
    <3> QED BY <1>2, <3>1, <3>2, <3>3, <3>4
  <2>3. /\ row' \in [User -> Row \cup {None}]
        /\ \A v \in User : row[v] # None => row'[v] # None
    <3> HIDE DEF u
    <3> QED BY <1>0, <2>1, <2>2, RowWrites
  <2>4. PICK p \in {"done", "failed", "issue", "revoke"} :
          GoTo(r, p) /\ (p = "revoke" => req[r].user \notin Demo)
    BY <1>0, <1>2 DEF CreateUser, CreateOAuthUser, LinkOAuthUser, WritePassword, At, Sound,
         Closing
  <2> QED BY <1>0, <2>1, <2>3, <2>4, GoToTyped DEF PC, Closing
<1>3. ASSUME NEW r \in Request, FindOAuthUser(r) \/ Reply(r) \/ RereadUser(r) \/ EndScan(r)
                                \/ Fail(r)
      PROVE  TypedInv'
  <2>1. PICK p \in {"createOAuth", "link", "issue", "failed", "done"} :
          /\ GoTo(r, p) /\ UNCHANGED <<row, issued, live>>
          /\ (p \in HasUser => req[r].user \in User)
          /\ (p = "link" => row[req[r].user] # None)
    BY <1>0, <1>3 DEF FindOAuthUser, Reply, RereadUser, EndScan, Fail, At, Sound, Exists,
         HasUser, Closing
  <2> QED BY <1>0, <2>1, GoToTyped DEF PC, Closing
<1>4. ASSUME NEW r \in Request, StartOAuthLogin(r)
      PROVE  TypedInv'
  <2> DEFINE k == [kind |-> "state", id |-> r]
  <2>1. k \in Key /\ k.kind = "state"
    BY DEF Key
  <2>2. /\ issued' = issued \cup {k} /\ live' = live \cup {k} /\ row' = row
        /\ GoTo(r, "redirected")
    BY <1>4 DEF StartOAuthLogin, Put
  <2> HIDE DEF k
  <2> QED BY <1>0, <2>1, <2>2, GoToTyped DEF PC, HasUser, Closing
<1>5. ASSUME NEW r \in Request, SetExchangeCode(r)
      PROVE  TypedInv'
  <2> DEFINE k == [kind |-> "exchange", id |-> r, user |-> req[r].user]
  <2>1. req[r].user \in User
    BY <1>0, <1>5 DEF SetExchangeCode, At, Sound, HasUser
  <2>2. k \in Key /\ k.kind = "exchange"
    BY <2>1 DEF Key
  <2>3. /\ issued' = issued \cup {k} /\ live' = live \cup {k} /\ row' = row
        /\ GoTo(r, "redirected")
    BY <1>5 DEF SetExchangeCode, Put
  <2> HIDE DEF k
  <2> QED BY <1>0, <2>2, <2>3, GoToTyped DEF PC, HasUser, Closing
<1>6. ASSUME NEW r \in Request, NEW u \in User, ForgotPassword(r, u)
      PROVE  TypedInv'
  <2> DEFINE k == [kind |-> "reset", id |-> r, user |-> u]
  <2>1. k \in Key /\ k.kind = "reset" /\ k.user = u
    BY DEF Key
  <2>2. /\ issued' = issued \cup {k} /\ live' = live \cup {k} /\ row' = row
        /\ GoTo(r, "done") /\ row[u] # None /\ u \notin Demo
    BY <1>6 DEF ForgotPassword, Put, Active, Exists
  <2> HIDE DEF k
  <2> QED BY <1>0, <2>1, <2>2, GoToTyped DEF PC, HasUser, Closing
<1>7. ASSUME NEW r \in Request, IssueRefreshToken(r)
      PROVE  TypedInv'
  <2> DEFINE k == NewSession(r)
             q == req'[r]
  <2>1. /\ q \in Local /\ Becomes(r, q) /\ q.pc \in {"setExchange", "reply"}
        /\ q.user \in User
    BY <1>0, <1>7, IssueFields DEF IssueRefreshToken, Becomes, TypedInv, TypeOK
  <2>2. /\ issued' = issued \cup {k} /\ live' = live \cup {k} /\ row' = row /\ k \in Key
        /\ k.kind = "refresh"
    BY <1>7, IssueFields DEF Put, NewSession
  <2> HIDE DEF k
  <2>3. /\ live' \subseteq issued' /\ issued' \subseteq Key
        /\ \A m \in issued' \ issued : m.kind # "reset"
    BY <1>0, <2>2
  <2>4. /\ req' \in [Request -> Local] /\ \A v \in Request \ {r} : req'[v] = req[v]
    BY <1>7, IssueFields
  <2>5. \A v \in Request : Sound(req[v])'
    BY <1>0, <2>1, <2>2, <2>4 DEF Sound, Exists, HasUser, Closing
  <2>6. \A m \in issued' : SoundReset(m)'
    BY <2>2, <2>3 DEF TypedInv, SoundReset, Exists
  <2> QED BY <1>0, <2>2, <2>3, <2>4, <2>5, <2>6 DEF TypedInv, TypeOK
<1>8. ASSUME NEW r \in Request, NEW k \in live, NEW u \in User, OAuthCallback(r, k, u)
      PROVE  TypedInv'
  BY <1>8, TakeTyped DEF OAuthCallback, Take, PC, Closing
<1>9. ASSUME NEW r \in Request, NEW k \in live, ResetPassword(r, k)
      PROVE  TypedInv'
  <2>1. k \in Key /\ k.user \in User /\ row[k.user] # None /\ k.user \notin Demo
    BY <1>0, <1>9, Keys DEF ResetPassword, TypedInv, SoundReset, Exists
  <2> QED BY <1>9, <2>1, TakeTyped DEF ResetPassword, Take, PC
<1>10. ASSUME NEW r \in Request, NEW k \in Delivered, Refresh(r, k)
       PROVE  TypedInv'
  <2>1. k \in live /\ k.user \in User
    <3>1. k \in RefreshKey
      BY <1>0 DEF Delivered, Local
    <3> QED BY <1>10, <3>1 DEF Refresh, Take, RefreshKey
  <2> QED BY <1>10, <2>1, TakeTyped DEF Refresh, Take, PC, Closing
<1>11. ASSUME NEW r \in Request, NEW k \in live, ExchangeOAuthCode(r, k)
       PROVE  TypedInv'
  <2> DEFINE q == [req[r] EXCEPT !.pc = "reply", !.user = k.user, !.token = k,
                                 !.session = req[k.id].session]
  <2>1. k \in Key /\ k.user \in User /\ k.id \in Request
    BY <1>0, <1>11, Keys DEF ExchangeOAuthCode
  <2>2. req[r] \in Local /\ req[k.id].session \in RefreshKey \cup {None}
    BY <1>0, <2>1 DEF Local
  <2>3. q \in Local /\ q.pc = "reply"
    BY <2>1, <2>2 DEF Local, PC
  <2>4. /\ Becomes(r, q) /\ row' = row /\ issued' = issued /\ live' \subseteq live
    BY <1>11 DEF ExchangeOAuthCode, Take
  <2> HIDE DEF q
  <2> QED BY <1>0, <2>3, <2>4, TypedStep DEF HasUser, Closing
<1>12. ASSUME NEW r \in Request, NEW k \in Delivered, Logout(r, k)
       PROVE  TypedInv'
  <2>1. /\ GoTo(r, "done") /\ UNCHANGED <<row, issued>> /\ live' \subseteq live
    BY <1>12 DEF Logout
  <2> QED BY <1>0, <2>1, GoToTyped DEF PC, HasUser, Closing
<1>13. ASSUME NEW r \in Request, StartScan(r)
       PROVE  TypedInv'
  <2> DEFINE S == SessionsOf(req[r].user)
             q == [req[r] EXCEPT !.pc = "scan", !.scan = S]
  <2>1. S \in SUBSET RefreshKey
    BY <1>0, Keys DEF SessionsOf
  <2>2. q \in Local /\ q.pc = "scan" /\ q.user = req[r].user
    <3> HIDE DEF S
    <3> QED BY <1>0, <2>1 DEF Local, PC
  <2>3. Becomes(r, q) /\ UNCHANGED <<row, issued, live>>
    BY <1>13 DEF StartScan
  <2>4. req[r].user \in User /\ req[r].user \notin Demo
    BY <1>0, <1>13 DEF StartScan, At, Sound, HasUser, Closing
  <2> HIDE DEF q
  <2> QED BY <1>0, <2>2, <2>3, <2>4, TypedStep
<1>14. ASSUME NEW r \in Request, DeleteBatch(r)
       PROVE  TypedInv'
  BY <1>0, <1>14, DropTyped DEF DeleteBatch
<1>15. ASSUME NEW k \in live, Expire(k)
       PROVE  TypedInv'
  BY <1>0, <1>15, DropTyped DEF Expire
<1>16. ASSUME NEW u \in User, Deactivate(u)
       PROVE  TypedInv'
  <2>1. row' = [row EXCEPT ![u] = [row[u] EXCEPT !.active = FALSE]] /\ row[u] # None
        /\ UNCHANGED <<issued, live, req>>
    BY <1>0, <1>16 DEF Deactivate, Active, Exists
  <2>2. /\ row' \in [User -> Row \cup {None}]
        /\ \A v \in User : row[v] # None => row'[v] # None
    BY <2>1, RowWrites
  <2> QED BY <2>1, <2>2, DropTyped
<1>17. CASE UNCHANGED vars
  BY <1>0, <1>17, DropTyped DEF vars
<1> QED
  BY <1>1, <1>2, <1>3, <1>4, <1>5, <1>6, <1>7, <1>8, <1>9, <1>10, <1>11, <1>12, <1>13,
     <1>14, <1>15, <1>16, <1>17 DEF Next, Step

LEMMA Typed == Spec => []TypedInv
BY InitTyped, StepTyped, PTL DEF Spec

\* The module keeps its types: in particular no request writes to an account
\* that is not there.
THEOREM TypeCorrect == Spec => []TypeOK
<1>1. TypedInv => TypeOK
  BY DEF TypedInv
<1> QED BY Typed, <1>1, PTL

-----------------------------------------------------------------------------
(* Keys and the requests that set and take them.                           *)

\* Where a request may still issue a refresh token.
Opening == {"idle", "create", "issue", "reread", "profile", "link", "createOAuth"}

\* A request that has begun nothing has taken nothing, and takes keys that
\* were set.
TokensIssued ==
  \A r \in Request :
    /\ At(r, "idle") => req[r].token = None
    /\ req[r].token # None => req[r].token \in issued

\* A key is there because the request it is named by has set it, and is past
\* setting another one of that kind; so is the request that opened a session.
KeysNamed ==
  \A k \in issued :
    /\ req[k.id].pc # "idle"
    /\ k.kind \in {"refresh", "exchange"} => req[k.id].pc \notin Opening
    /\ k.kind = "exchange" => req[k.id].pc # "setExchange"
    /\ k.kind = "refresh" => req[k.root].pc \notin Opening

\* The keys a revocation looked at; none is there when it has answered.
ScansEnd ==
  \A r \in Request :
    /\ req[r].scan # {} => req[r].pc \in {"scan", "done", "failed"}
    /\ req[r].scan \subseteq issued
    /\ At(r, "done") => req[r].scan \cap live = {}

\* A request on its way from a session's token to the next one.
Carries(r, root) ==
  /\ req[r].pc \in Opening
  /\ req[r].token # None /\ req[r].token.kind = "refresh" /\ req[r].token.root = root

KeysInv == TypedInv /\ TokensIssued /\ KeysNamed /\ ScansEnd

\* No key is set and what requests have taken and seen stays.
Kept(v) ==
  /\ req'[v].token = req[v].token /\ req'[v].scan = req[v].scan
  /\ req'[v].pc \in Opening => req[v].pc \in Opening
  /\ req'[v].pc = "idle" => req[v].pc = "idle"
  /\ req'[v].pc = "setExchange" => req[v].pc = "setExchange"
  /\ req[v].scan # {} => req'[v].pc \in {"scan", "done", "failed"}
  /\ req'[v].pc = "done" => req[v].scan \cap live' = {}

Quiet ==
  /\ issued' = issued /\ live' \subseteq live
  /\ \A v \in Request : Kept(v)

Others(r) == \A v \in Request \ {r} : req'[v] = req[v]

\* Setting a key that carries no session.
Sets(r, k) ==
  /\ k \in Key \ issued /\ k.kind # "refresh" /\ k.id = r
  /\ issued' = issued \cup {k} /\ live' = live \cup {k}
  /\ req[r].pc \in {"idle", "setExchange"} /\ req'[r].pc \in {"redirected", "done"}
  /\ req'[r].token = req[r].token /\ req'[r].scan = req[r].scan /\ req[r].scan = {}
  /\ Others(r)

\* GETDEL.
Takes(r, k) ==
  /\ k \in live /\ live' = live \ {k} /\ issued' = issued
  /\ req[r].pc = "idle"
  /\ req'[r].pc \in {"profile", "reply", "writePassword", "reread"}
  /\ req'[r].token = k /\ req'[r].scan = req[r].scan /\ req[r].scan = {}
  /\ Others(r)

Scans(r) ==
  /\ UNCHANGED <<issued, live>>
  /\ req[r].pc = "revoke" /\ req'[r].pc = "scan"
  /\ req'[r].token = req[r].token /\ req'[r].scan = SessionsOf(req[r].user)
  /\ Others(r)

LEMMA KeptOthers ==
  ASSUME ScansEnd, NEW v \in Request, req'[v] = req[v], live' \subseteq live
  PROVE  Kept(v)
BY DEF ScansEnd, Kept, At

LEMMA GoToQuiet ==
  ASSUME KeysInv, NEW r \in Request, NEW p \in PC, GoTo(r, p),
         issued' = issued, live' \subseteq live,
         p \in Opening => req[r].pc \in Opening, p \notin {"idle", "setExchange"},
         req[r].scan # {} => p \in {"done", "failed"},
         p = "done" => req[r].scan \cap live' = {}
  PROVE  Quiet
<1> DEFINE q == [req[r] EXCEPT !.pc = p]
<1>1. q \in Local /\ q.pc = p /\ q.token = req[r].token /\ q.scan = req[r].scan
  BY GoToFields DEF KeysInv, TypedInv
<1>2. Becomes(r, q)
  BY DEF GoTo
<1> HIDE DEF q
<1>3. req'[r] = q /\ \A v \in Request \ {r} : req'[v] = req[v]
  BY <1>1, <1>2, BecomesFields DEF KeysInv, TypedInv
<1>4. Kept(r)
  BY <1>1, <1>3 DEF Kept
<1> QED BY <1>3, <1>4, KeptOthers DEF Quiet, KeysInv

LEMMA UserQuiet ==
  ASSUME KeysInv, NEW r \in Request, NEW p \in PC, NEW u \in User, At(r, "idle"),
         Becomes(r, [req[r] EXCEPT !.pc = p, !.user = u]),
         UNCHANGED <<issued, live>>, p \notin {"idle", "setExchange", "done"}
  PROVE  Quiet
<1> DEFINE q == [req[r] EXCEPT !.pc = p, !.user = u]
<1>1. q \in Local /\ q.pc = p /\ q.token = req[r].token /\ q.scan = req[r].scan
  <2>1. req[r] \in Local
    BY DEF KeysInv, TypedInv, TypeOK
  <2> QED BY <2>1 DEF Local
<1>2. Becomes(r, q)
  OBVIOUS
<1> HIDE DEF q
<1>3. req'[r] = q /\ \A v \in Request \ {r} : req'[v] = req[v]
  BY <1>1, <1>2, BecomesFields DEF KeysInv, TypedInv
<1>4. Kept(r)
  BY <1>1, <1>3 DEF Kept, Opening, At, KeysInv, ScansEnd
<1> QED BY <1>3, <1>4, KeptOthers DEF Quiet, KeysInv

LEMMA SetsKey ==
  ASSUME KeysInv, NEW r \in Request, NEW k \in Key, Put({k}), k.kind # "refresh", k.id = r,
         NEW p \in {"redirected", "done"}, GoTo(r, p),
         k.kind \in {"state", "reset"} => At(r, "idle"),
         k.kind = "exchange" => At(r, "setExchange")
  PROVE  Sets(r, k)
<1> DEFINE q == [req[r] EXCEPT !.pc = p]
<1>1. q \in Local /\ q.pc = p /\ q.token = req[r].token /\ q.scan = req[r].scan
  <2>1. p \in PC
    BY DEF PC
  <2> QED BY <2>1, GoToFields DEF KeysInv, TypedInv
<1>2. Becomes(r, q)
  BY DEF GoTo
<1> HIDE DEF q
<1>3. req'[r] = q /\ Others(r)
  BY <1>1, <1>2, BecomesFields DEF KeysInv, TypedInv, Others
<1>4. req[r].pc \in {"idle", "setExchange"} /\ k \notin issued
  BY Keys DEF KeysInv, KeysNamed, At
<1>5. req[r].scan = {}
  BY <1>4 DEF KeysInv, ScansEnd
<1> QED BY <1>1, <1>3, <1>4, <1>5 DEF Sets, Put

LEMMA TakesKey ==
  ASSUME KeysInv, NEW r \in Request, NEW k \in live, NEW q \in Local, Becomes(r, q),
         live' = live \ {k}, issued' = issued, At(r, "idle"),
         q.pc \in {"profile", "reply", "writePassword", "reread"},
         q.token = k, q.scan = req[r].scan
  PROVE  Takes(r, k)
<1>1. req'[r] = q /\ Others(r)
  BY BecomesFields DEF KeysInv, TypedInv, Others
<1>2. req[r].scan = {}
  BY DEF KeysInv, ScansEnd, At
<1> QED BY <1>1, <1>2 DEF Takes, At

\* Every step is one of these.
LEMMA Shapes ==
  ASSUME KeysInv, [Next]_vars
  PROVE  \/ Quiet
         \/ \E r \in Request : Scans(r) \/ IssueRefreshToken(r)
         \/ \E r \in Request, k \in Key : Sets(r, k) \/ Takes(r, k)
<1>0. /\ live \subseteq issued /\ issued \subseteq Key
      /\ \A r \in Request : req[r] \in Local /\ Sound(req[r])
      /\ \A r \in Request : At(r, "idle") => req[r].scan = {}
      /\ \A r \in Request : req[r].pc \notin {"scan", "done", "failed"} => req[r].scan = {}
  BY DEF KeysInv, TypedInv, TypeOK, ScansEnd, At
<1>1. ASSUME NEW r \in Request, NEW u \in User,
             \/ Register(r, u) \/ Login(r, u) \/ LoginDemo(r, u)
             \/ LoginWithGoogleIdToken(r, u) \/ LogoutAll(r, u)
      PROVE  Quiet
  <2>1. PICK p \in {"create", "issue", "profile", "revoke"} :
          /\ Becomes(r, [req[r] EXCEPT !.pc = p, !.user = u]) /\ At(r, "idle")
          /\ UNCHANGED <<issued, live>>
    BY <1>1 DEF Register, Login, LoginDemo, LoginWithGoogleIdToken, LogoutAll
  <2> QED BY <2>1, UserQuiet DEF PC
<1>2. ASSUME NEW r \in Request,
             \/ CreateUser(r) \/ CreateOAuthUser(r) \/ LinkOAuthUser(r) \/ WritePassword(r)
             \/ FindOAuthUser(r) \/ Reply(r) \/ RereadUser(r)
      PROVE  Quiet
  <2>1. PICK p \in {"createOAuth", "link", "issue", "failed", "done", "revoke"} :
          /\ GoTo(r, p) /\ UNCHANGED <<issued, live>>
          /\ (p \in Opening => req[r].pc \in Opening)
          /\ req[r].pc \notin {"scan", "done", "failed"}
    BY <1>2 DEF CreateUser, CreateOAuthUser, LinkOAuthUser, WritePassword, FindOAuthUser,
       Reply, RereadUser, At, Opening
  <2> QED BY <1>0, <2>1, GoToQuiet DEF PC
<1>3. ASSUME NEW r \in Request, EndScan(r) \/ Fail(r)
      PROVE  Quiet
  <2>1. PICK p \in {"failed", "done"} :
          /\ GoTo(r, p) /\ UNCHANGED <<issued, live>>
          /\ (p = "done" => req[r].scan \cap live = {})
    BY <1>3 DEF EndScan, Fail
  <2> QED BY <2>1, GoToQuiet DEF PC, Opening
<1>4. ASSUME NEW r \in Request, NEW k \in Delivered, Logout(r, k)
      PROVE  Quiet
  BY <1>0, <1>4, GoToQuiet DEF Logout, PC, Opening
<1>5. CASE \/ \E r \in Request : DeleteBatch(r)
           \/ \E k \in live : Expire(k)
           \/ \E u \in User : Deactivate(u)
           \/ UNCHANGED vars
  <2>1. issued' = issued /\ live' \subseteq live /\ req' = req
    BY <1>5 DEF DeleteBatch, Expire, Deactivate, vars
  <2> QED BY <2>1, KeptOthers DEF Quiet, KeysInv
<1>6. ASSUME NEW r \in Request, StartOAuthLogin(r)
      PROVE  \E k \in Key : Sets(r, k)
  <2> DEFINE k == [kind |-> "state", id |-> r]
  <2>1. k \in Key /\ k.kind = "state" /\ k.id = r
    BY DEF Key
  <2>2. Put({k}) /\ GoTo(r, "redirected") /\ At(r, "idle")
    BY <1>6 DEF StartOAuthLogin
  <2> HIDE DEF k
  <2> QED BY <2>1, <2>2, SetsKey
<1>7. ASSUME NEW r \in Request, SetExchangeCode(r)
      PROVE  \E k \in Key : Sets(r, k)
  <2> DEFINE k == [kind |-> "exchange", id |-> r, user |-> req[r].user]
  <2>1. req[r].user \in User
    BY <1>0, <1>7 DEF SetExchangeCode, At, Sound, HasUser
  <2>2. k \in Key /\ k.kind = "exchange" /\ k.id = r
    BY <2>1 DEF Key
  <2>3. Put({k}) /\ GoTo(r, "redirected") /\ At(r, "setExchange")
    BY <1>7 DEF SetExchangeCode
  <2> HIDE DEF k
  <2> QED BY <2>2, <2>3, SetsKey
<1>8. ASSUME NEW r \in Request, NEW u \in User, ForgotPassword(r, u)
      PROVE  \E k \in Key : Sets(r, k)
  <2> DEFINE k == [kind |-> "reset", id |-> r, user |-> u]
  <2>1. k \in Key /\ k.kind = "reset" /\ k.id = r
    BY DEF Key
  <2>2. Put({k}) /\ GoTo(r, "done") /\ At(r, "idle")
    BY <1>8 DEF ForgotPassword
  <2> HIDE DEF k
  <2> QED BY <2>1, <2>2, SetsKey
<1>9. ASSUME NEW r \in Request, NEW p \in PC, NEW u \in User, NEW k \in live,
             p \in {"profile", "writePassword", "reread"}, At(r, "idle"), Take(k),
             Becomes(r, [req[r] EXCEPT !.pc = p, !.user = u, !.token = k])
      PROVE  Takes(r, k)
  <2> DEFINE q == [req[r] EXCEPT !.pc = p, !.user = u, !.token = k]
  <2>1. q \in Local /\ q.pc = p /\ q.token = k /\ q.scan = req[r].scan
    <3>1. req[r] \in Local /\ k \in Key
      BY <1>0
    <3> QED BY <3>1 DEF Local
  <2>2. Becomes(r, q) /\ live' = live \ {k} /\ issued' = issued
    BY <1>9 DEF Take
  <2> HIDE DEF q
  <2> QED BY <1>9, <2>1, <2>2, TakesKey
<1>10. ASSUME NEW r \in Request, NEW k \in live, NEW u \in User, OAuthCallback(r, k, u)
       PROVE  Takes(r, k)
  BY <1>9, <1>10 DEF OAuthCallback, PC
<1>11. ASSUME NEW r \in Request, NEW k \in live, ResetPassword(r, k)
       PROVE  Takes(r, k)
  <2>1. k.user \in User
    BY <1>0, <1>11, Keys DEF ResetPassword
  <2> QED BY <1>9, <1>11, <2>1 DEF ResetPassword, PC
<1>12. ASSUME NEW r \in Request, NEW k \in Delivered, Refresh(r, k)
       PROVE  Takes(r, k) /\ k \in live
  <2>1. k \in RefreshKey
    BY <1>0 DEF Delivered, Local
  <2>2. k.user \in User /\ k \in live
    BY <1>12, <2>1 DEF Refresh, Take, RefreshKey
  <2> QED BY <1>9, <1>12, <2>2 DEF Refresh, PC
<1>13. ASSUME NEW r \in Request, NEW k \in live, ExchangeOAuthCode(r, k)
       PROVE  Takes(r, k)
  <2> DEFINE q == [req[r] EXCEPT !.pc = "reply", !.user = k.user, !.token = k,
                                 !.session = req[k.id].session]
  <2>1. k \in Key /\ k.user \in User /\ k.id \in Request
    BY <1>0, <1>13, Keys DEF ExchangeOAuthCode
  <2>2. req[r] \in Local /\ req[k.id].session \in RefreshKey \cup {None}
    BY <1>0, <2>1 DEF Local
  <2>3. q \in Local /\ q.pc = "reply" /\ q.token = k /\ q.scan = req[r].scan
    BY <2>1, <2>2 DEF Local, PC
  <2>4. Becomes(r, q) /\ At(r, "idle") /\ live' = live \ {k} /\ issued' = issued
    BY <1>13 DEF ExchangeOAuthCode, Take
  <2> HIDE DEF q
  <2> QED BY <2>3, <2>4, TakesKey
<1>14. ASSUME NEW r \in Request, StartScan(r)
       PROVE  Scans(r)
  <2> DEFINE S == SessionsOf(req[r].user)
             q == [req[r] EXCEPT !.pc = "scan", !.scan = S]
  <2>1. S \in SUBSET RefreshKey
    BY <1>0, Keys DEF SessionsOf
  <2>2. q \in Local /\ q.pc = "scan" /\ q.token = req[r].token /\ q.scan = S
    <3> HIDE DEF S
    <3> QED BY <1>0, <2>1 DEF Local, PC
  <2>3. Becomes(r, q) /\ UNCHANGED <<issued, live>> /\ At(r, "revoke")
    BY <1>14 DEF StartScan
  <2> HIDE DEF q
  <2>4. req'[r] = q /\ Others(r)
    BY <2>2, <2>3, BecomesFields DEF KeysInv, TypedInv, Others
  <2> QED BY <2>2, <2>3, <2>4 DEF Scans, At
<1>15. live \subseteq Key
  BY <1>0
<1> QED
  BY <1>1, <1>2, <1>3, <1>4, <1>5, <1>6, <1>7, <1>8, <1>10, <1>11, <1>12, <1>13, <1>14,
     <1>15 DEF Next, Step

\* A new refresh token, its session either the one it continues or a new one.
LEMMA IssueNew ==
  ASSUME KeysInv, NEW r \in Request, IssueRefreshToken(r)
  PROVE  LET k == NewSession(r) IN
         /\ k \in Key \ issued /\ k.kind = "refresh" /\ k.id = r /\ k.root \in Request
         /\ issued' = issued \cup {k} /\ live' = live \cup {k}
         /\ req[r].pc = "issue" /\ req'[r].pc \in {"setExchange", "reply"}
         /\ req'[r].token = req[r].token /\ req'[r].scan = req[r].scan /\ req[r].scan = {}
         /\ Others(r)
         /\ k.root = r \/ Carries(r, k.root)
<1> DEFINE k == NewSession(r)
<1>1. /\ At(r, "issue") /\ Put({k}) /\ k \in RefreshKey /\ k \in Key
      /\ \A v \in Request \ {r} : req'[v] = req[v]
      /\ req'[r].pc \in {"setExchange", "reply"}
      /\ req'[r].token = req[r].token /\ req'[r].scan = req[r].scan
  BY IssueFields DEF KeysInv
<1>2. k.kind = "refresh" /\ k.id = r
      /\ k.root = IF req[r].token # None /\ req[r].token.kind = "refresh"
                  THEN req[r].token.root ELSE r
  BY DEF NewSession
<1>3. k.root \in Request
  BY <1>1 DEF RefreshKey
<1> HIDE DEF k
<1>4. k \notin issued
  BY <1>1, <1>2 DEF KeysInv, KeysNamed, At, Opening
<1>5. req[r].scan = {}
  BY <1>1 DEF KeysInv, ScansEnd, At
<1>6. k.root = r \/ Carries(r, k.root)
  BY <1>1, <1>2 DEF Carries, At, Opening
<1> QED BY <1>1, <1>2, <1>3, <1>4, <1>5, <1>6 DEF Put, Others, At, k

LEMMA StepKeys ==
  ASSUME KeysInv, [Next]_vars
  PROVE  KeysInv'
<1>0. /\ TypedInv' /\ live \subseteq issued /\ issued \subseteq Key
      /\ \A k \in issued : k.id \in Request /\ (k.kind = "refresh" => k.root \in Request)
      /\ None \notin issued
  BY StepTyped, Keys, NoneAssumption DEF KeysInv, TypedInv, TypeOK
<1>1. CASE Quiet
  <2>1. TokensIssued'
    BY <1>1 DEF Quiet, Kept, KeysInv, TokensIssued, At
  <2>2. KeysNamed'
    BY <1>0, <1>1 DEF Quiet, Kept, KeysInv, KeysNamed
  <2>3. ScansEnd'
    BY <1>1 DEF Quiet, Kept, KeysInv, ScansEnd, At
  <2> QED BY <1>0, <2>1, <2>2, <2>3 DEF KeysInv
<1>2. ASSUME NEW r \in Request, Scans(r)
      PROVE  KeysInv'
  <2>1. TokensIssued'
    BY <1>2 DEF Scans, Others, KeysInv, TokensIssued, At
  <2>2. KeysNamed'
    BY <1>0, <1>2 DEF Scans, Others, KeysInv, KeysNamed, Opening
  <2>3. ScansEnd'
    BY <1>0, <1>2 DEF Scans, Others, KeysInv, ScansEnd, At, SessionsOf
  <2> QED BY <1>0, <2>1, <2>2, <2>3 DEF KeysInv
<1>3. ASSUME NEW r \in Request, IssueRefreshToken(r)
      PROVE  KeysInv'
  <2> DEFINE k == NewSession(r)
  <2>0. /\ k \in Key \ issued /\ k.kind = "refresh" /\ k.id = r /\ k.root \in Request
        /\ issued' = issued \cup {k} /\ live' = live \cup {k}
        /\ req[r].pc = "issue" /\ req'[r].pc \in {"setExchange", "reply"}
        /\ req'[r].token = req[r].token /\ req'[r].scan = req[r].scan /\ req[r].scan = {}
        /\ Others(r) /\ (k.root = r \/ Carries(r, k.root))
    BY <1>3, IssueNew
  <2> HIDE DEF k
  <2>1. TokensIssued'
    BY <2>0 DEF Others, KeysInv, TokensIssued, At
  <2>2. k.root = r \/ req[k.root].pc \notin Opening
    BY <2>0 DEF Carries, KeysInv, TokensIssued, KeysNamed
  <2>3. KeysNamed'
    <3>1. ASSUME NEW m \in issued
          PROVE  /\ req'[m.id].pc # "idle"
                 /\ m.kind \in {"refresh", "exchange"} => req'[m.id].pc \notin Opening
                 /\ m.kind = "exchange" => req'[m.id].pc # "setExchange"
                 /\ m.kind = "refresh" => req'[m.root].pc \notin Opening
      BY <1>0, <2>0 DEF Others, KeysInv, KeysNamed, Opening
    <3>2. req'[k.root].pc \notin Opening
      BY <2>0, <2>2 DEF Others, Opening
    <3> QED BY <2>0, <3>1, <3>2 DEF KeysNamed, Opening
  <2>4. ScansEnd'
    <3>1. ASSUME NEW v \in Request
          PROVE  /\ req'[v].scan = req[v].scan
                 /\ req[v].scan # {} => req'[v].pc = req[v].pc
                 /\ req'[v].pc = "done" => req[v].pc = "done"
      BY <2>0 DEF Others
    <3> QED BY <2>0, <3>1 DEF KeysInv, ScansEnd, At
  <2> QED BY <1>0, <2>1, <2>3, <2>4 DEF KeysInv
<1>4. ASSUME NEW r \in Request, NEW k \in Key, Sets(r, k)
      PROVE  KeysInv'
  <2>1. TokensIssued'
    BY <1>4 DEF Sets, Others, KeysInv, TokensIssued, At
  <2>2. KeysNamed'
    <3>1. ASSUME NEW m \in issued
          PROVE  /\ req'[m.id].pc # "idle"
                 /\ m.kind \in {"refresh", "exchange"} => req'[m.id].pc \notin Opening
                 /\ m.kind = "exchange" => req'[m.id].pc # "setExchange"
                 /\ m.kind = "refresh" => req'[m.root].pc \notin Opening
      BY <1>0, <1>4 DEF Sets, Others, KeysInv, KeysNamed, Opening
    <3> QED BY <1>4, <3>1 DEF Sets, KeysNamed, Opening
  <2>3. ScansEnd'
    <3>1. ASSUME NEW v \in Request
          PROVE  /\ req'[v].scan = req[v].scan
                 /\ req[v].scan # {} => req'[v].pc = req[v].pc
                 /\ req'[v].pc = "done" => req[v].pc = "done" \/ req[v].scan = {}
      BY <1>4 DEF Sets, Others
    <3> QED BY <1>4, <3>1 DEF Sets, KeysInv, ScansEnd, At
  <2> QED BY <1>0, <2>1, <2>2, <2>3 DEF KeysInv
<1>5. ASSUME NEW r \in Request, NEW k \in Key, Takes(r, k)
      PROVE  KeysInv'
  <2>1. TokensIssued'
    BY <1>0, <1>5 DEF Takes, Others, KeysInv, TokensIssued, At
  <2>2. KeysNamed'
    BY <1>0, <1>5 DEF Takes, Others, KeysInv, KeysNamed, Opening
  <2>3. ScansEnd'
    <3>1. ASSUME NEW v \in Request
          PROVE  /\ req'[v].scan = req[v].scan
                 /\ req[v].scan # {} => req'[v].pc = req[v].pc
                 /\ req'[v].pc = "done" => req[v].pc = "done"
      BY <1>5 DEF Takes, Others
    <3> QED BY <1>5, <3>1 DEF Takes, KeysInv, ScansEnd, At
  <2> QED BY <1>0, <2>1, <2>2, <2>3 DEF KeysInv
<1> QED BY <1>1, <1>2, <1>3, <1>4, <1>5, Shapes

LEMMA InitKeys == Init => KeysInv
<1> SUFFICES ASSUME Init PROVE KeysInv
  OBVIOUS
<1>1. /\ issued = {} /\ live = {}
      /\ \A r \in Request : At(r, "idle") /\ req[r].token = None /\ req[r].scan = {}
  BY DEF Init, At
<1> QED BY <1>1, InitTyped DEF KeysInv, TokensIssued, KeysNamed, ScansEnd, At

-----------------------------------------------------------------------------
(* One token per session.                                                  *)

\* Of a session there is one key, or one request that carries it.
OneLine ==
  /\ OneTokenPerSession
  /\ \A k \in live, r \in Request : k.kind = "refresh" => ~Carries(r, k.root)
  /\ \A q, r, t \in Request : Carries(q, t) /\ Carries(r, t) => q = r

LineInv == KeysInv /\ OneLine

\* Who carries a session has taken its key or did so before.
LEMMA CarriesStep ==
  ASSUME KeysInv, [Next]_vars, NEW r \in Request, NEW t, Carries(r, t)'
  PROVE  \/ Carries(r, t)
         \/ \E k \in live : k.kind = "refresh" /\ k.root = t /\ Takes(r, k)
<1> USE DEF Carries
<1>1. CASE Quiet
  BY <1>1 DEF Quiet, Kept
<1>2. ASSUME NEW q \in Request, Scans(q)
      PROVE  Carries(r, t)
  BY <1>2 DEF Scans, Others, Opening
<1>3. ASSUME NEW q \in Request, IssueRefreshToken(q)
      PROVE  Carries(r, t)
  BY <1>3, IssueNew DEF Others, Opening
<1>4. ASSUME NEW q \in Request, NEW k \in Key, Sets(q, k)
      PROVE  Carries(r, t)
  BY <1>4 DEF Sets, Others, Opening
<1>5. ASSUME NEW q \in Request, NEW k \in Key, Takes(q, k)
      PROVE  \/ Carries(r, t)
             \/ q = r /\ k \in live /\ k.kind = "refresh" /\ k.root = t
  BY <1>5 DEF Takes, Others
<1> QED BY <1>1, <1>2, <1>3, <1>4, <1>5, Shapes

\* A refresh key that was not there has just been issued.
LEMMA LiveStep ==
  ASSUME KeysInv, [Next]_vars, NEW k \in live', k \notin live, k.kind = "refresh"
  PROVE  \E r \in Request : IssueRefreshToken(r) /\ k = NewSession(r)
<1>1. CASE Quiet
  BY <1>1 DEF Quiet
<1>2. ASSUME NEW q \in Request, Scans(q)
      PROVE  FALSE
  BY <1>2 DEF Scans
<1>3. ASSUME NEW q \in Request, IssueRefreshToken(q)
      PROVE  k = NewSession(q)
  BY <1>3, IssueNew
<1>4. ASSUME NEW q \in Request, NEW m \in Key, Sets(q, m) \/ Takes(q, m)
      PROVE  FALSE
  BY <1>4 DEF Sets, Takes
<1> QED BY <1>1, <1>2, <1>3, <1>4, Shapes

\* A new key follows the only trace of its session.
LEMMA IssueLine ==
  ASSUME LineInv, NEW r \in Request, IssueRefreshToken(r)
  PROVE  LET t == NewSession(r).root IN
         /\ \A k \in live : k.kind = "refresh" => k.root # t
         /\ \A q \in Request : Carries(q, t) => q = r
         /\ req'[r].pc \notin Opening
<1> DEFINE t == NewSession(r).root
<1>1. /\ t \in Request /\ req[r].pc = "issue" /\ req'[r].pc \in {"setExchange", "reply"}
      /\ t = r \/ Carries(r, t)
  BY IssueNew DEF LineInv
<1> HIDE DEF t
<1>2. req'[r].pc \notin Opening
  BY <1>1 DEF Opening
<1>3. CASE Carries(r, t)
  BY <1>1, <1>2, <1>3 DEF LineInv, OneLine, t
<1>4. CASE t = r
  <2>1. \A k \in issued : k.kind = "refresh" => k.root # r
    BY <1>1 DEF LineInv, KeysInv, KeysNamed, Opening
  <2>2. \A q \in Request : ~Carries(q, r)
    BY <2>1 DEF Carries, LineInv, KeysInv, TokensIssued
  <2>3. live \subseteq issued
    BY DEF LineInv, KeysInv, TypedInv, TypeOK
  <2> QED BY <1>2, <1>4, <2>1, <2>2, <2>3 DEF t
<1> QED BY <1>1, <1>3, <1>4

LEMMA StepLine ==
  ASSUME LineInv, [Next]_vars
  PROVE  OneLine'
<1>0. KeysInv /\ OneLine
  BY DEF LineInv
<1>1. ASSUME NEW k \in live', NEW l \in live', k.kind = "refresh", l.kind = "refresh",
             k.root = l.root
      PROVE  k = l
  <2>1. CASE k \in live /\ l \in live
    BY <1>0, <1>1, <2>1 DEF OneLine, OneTokenPerSession
  <2>2. ASSUME NEW m \in live', NEW n \in live', m.kind = "refresh", n.kind = "refresh",
               m.root = n.root, m \notin live
        PROVE  m = n
    <3>1. PICK r \in Request : IssueRefreshToken(r) /\ m = NewSession(r)
      BY <1>0, <2>2, LiveStep
    <3>2. n \notin live
      BY <2>2, <3>1, IssueLine
    <3> QED BY <1>0, <3>1, <3>2, IssueNew
  <2> QED BY <1>1, <2>1, <2>2
<1>2. ASSUME NEW k \in live', NEW r \in Request, k.kind = "refresh", Carries(r, k.root)'
      PROVE  FALSE
  <2>1. CASE k \in live
    <3>1. ~Carries(r, k.root)
      BY <1>0, <1>2, <2>1 DEF OneLine
    <3>2. PICK m \in live : m.kind = "refresh" /\ m.root = k.root /\ Takes(r, m)
      BY <1>0, <1>2, <3>1, CarriesStep
    <3>3. m = k
      BY <1>0, <1>2, <2>1, <3>2 DEF OneLine, OneTokenPerSession
    <3> QED BY <3>2, <3>3 DEF Takes
  <2>2. CASE k \notin live
    <3>1. PICK q \in Request : IssueRefreshToken(q) /\ k = NewSession(q)
      BY <1>0, <1>2, <2>2, LiveStep
    <3>2. r # q
      BY <1>2, <3>1, IssueLine DEF Carries
    <3>3. ~Carries(r, k.root)
      BY <3>1, <3>2, IssueLine
    <3>4. PICK m \in live : m.kind = "refresh" /\ m.root = k.root
      BY <1>0, <1>2, <3>3, CarriesStep
    <3> QED BY <3>1, <3>4, IssueLine
  <2> QED BY <2>1, <2>2
<1>3. ASSUME NEW q \in Request, NEW r \in Request, NEW t \in Request, Carries(q, t)', Carries(r, t)'
      PROVE  q = r
  <2>1. CASE Carries(q, t) /\ Carries(r, t)
    BY <1>0, <2>1 DEF OneLine
  <2>2. ASSUME NEW a \in Request, NEW b \in Request, Carries(a, t)', Carries(b, t)',
               ~Carries(a, t)
        PROVE  a = b
    <3>1. PICK k \in live : k.kind = "refresh" /\ k.root = t /\ Takes(a, k)
      BY <1>0, <2>2, CarriesStep
    <3>2. ~Carries(b, t)
      BY <1>0, <3>1 DEF OneLine
    <3>3. PICK l \in live : Takes(b, l)
      BY <1>0, <2>2, <3>2, CarriesStep
    <3> QED BY <3>1, <3>3 DEF Takes, Others
  <2> QED BY <1>3, <2>1, <2>2
<1> QED BY <1>1, <1>2, <1>3 DEF OneLine, OneTokenPerSession

LEMMA InitLine == Init => LineInv
<1> SUFFICES ASSUME Init PROVE LineInv
  OBVIOUS
<1>1. live = {} /\ \A r \in Request : req[r].token = None
  BY DEF Init
<1> QED BY <1>1, InitKeys DEF LineInv, OneLine, OneTokenPerSession, Carries

LEMMA LineAlways == Spec => []LineInv
<1>1. LineInv /\ [Next]_vars => LineInv'
  BY StepKeys, StepLine DEF LineInv
<1> QED BY InitLine, <1>1, PTL DEF Spec

\* However many refreshes are in flight with one token, one usable token
\* descends from the opening of a session.
THEOREM NeverForked == Spec => []OneTokenPerSession
<1>1. LineInv => OneTokenPerSession
  BY DEF LineInv, OneLine
<1> QED BY LineAlways, <1>1, PTL

-----------------------------------------------------------------------------
(* Revocation is final.                                                    *)

\* A key a revocation saw has been taken by a request, or nothing else is left
\* of its session.
Closed ==
  \A r \in Request : \A k \in req[r].scan :
    /\ k.kind = "refresh"
    /\ \/ \E q \in Request : req[q].token = k
       \/ /\ \A l \in live : l.kind = "refresh" /\ l.root = k.root => l = k
          /\ \A q \in Request : ~Carries(q, k.root)

ClosedInv == LineInv /\ Closed

\* A request does not let go of a token.
LEMMA TokenKept ==
  ASSUME KeysInv, [Next]_vars, NEW q \in Request, req[q].token # None
  PROVE  req'[q].token = req[q].token
<1>1. ~At(q, "idle")
  BY DEF KeysInv, TokensIssued
<1>2. CASE Quiet
  BY <1>2 DEF Quiet, Kept
<1>3. ASSUME NEW r \in Request, Scans(r)
      PROVE  req'[q].token = req[q].token
  BY <1>3 DEF Scans, Others
<1>4. ASSUME NEW r \in Request, IssueRefreshToken(r)
      PROVE  req'[q].token = req[q].token
  BY <1>4, IssueNew DEF Others
<1>5. ASSUME NEW r \in Request, NEW k \in Key, Sets(r, k) \/ Takes(r, k)
      PROVE  req'[q].token = req[q].token
  BY <1>1, <1>5 DEF Sets, Takes, Others, At
<1> QED BY <1>2, <1>3, <1>4, <1>5, Shapes

\* What a revocation has seen is what it saw, or the live sessions of its user.
LEMMA ScanStep ==
  ASSUME KeysInv, [Next]_vars, NEW r \in Request, NEW k \in req'[r].scan
  PROVE  \/ k \in req[r].scan
         \/ k \in live /\ k.kind = "refresh" /\ Scans(r)
<1>1. CASE Quiet
  BY <1>1 DEF Quiet, Kept
<1>2. ASSUME NEW q \in Request, Scans(q)
      PROVE  k \in req[r].scan \/ (k \in live /\ k.kind = "refresh" /\ q = r)
  BY <1>2 DEF Scans, Others, SessionsOf
<1>3. ASSUME NEW q \in Request, IssueRefreshToken(q)
      PROVE  k \in req[r].scan
  BY <1>3, IssueNew DEF Others
<1>4. ASSUME NEW q \in Request, NEW m \in Key, Sets(q, m) \/ Takes(q, m)
      PROVE  k \in req[r].scan
  BY <1>4 DEF Sets, Takes, Others
<1> QED BY <1>1, <1>2, <1>3, <1>4, Shapes

\* Nothing revives the session of a key: another of its keys, or its carrier,
\* can only come from that key.
LEMMA NothingRevived ==
  ASSUME LineInv, [Next]_vars, NEW k \in issued, k.kind = "refresh",
         \A l \in live : l.kind = "refresh" /\ l.root = k.root => l = k,
         \A q \in Request : ~Carries(q, k.root)
  PROVE  \/ \E q \in Request : req'[q].token = k
         \/ /\ \A l \in live' : l.kind = "refresh" /\ l.root = k.root => l = k
            /\ \A q \in Request : ~Carries(q, k.root)'
<1>0. KeysInv
  BY DEF LineInv
<1>1. ASSUME NEW l \in live', l.kind = "refresh", l.root = k.root, l # k
      PROVE  FALSE
  <2>1. PICK r \in Request : IssueRefreshToken(r) /\ l = NewSession(r)
    BY <1>0, <1>1, LiveStep
  <2>2. l.root = r /\ req[r].pc = "issue"
    BY <1>0, <1>1, <2>1, IssueNew
  <2>3. req[k.root].pc \notin Opening
    BY <1>0 DEF KeysInv, KeysNamed
  <2> QED BY <1>1, <2>2, <2>3 DEF Opening
<1>2. ASSUME NEW q \in Request, Carries(q, k.root)'
      PROVE  req'[q].token = k
  <2>1. PICK l \in live : l.kind = "refresh" /\ l.root = k.root /\ Takes(q, l)
    BY <1>0, <1>2, CarriesStep
  <2> QED BY <2>1 DEF Takes
<1> QED BY <1>1, <1>2

LEMMA StepClosed ==
  ASSUME ClosedInv, [Next]_vars
  PROVE  Closed'
<1>0. LineInv /\ KeysInv /\ OneLine /\ Closed /\ None \notin issued
      /\ live \subseteq issued
  BY Keys, NoneAssumption
     DEF ClosedInv, LineInv, KeysInv, TypedInv, TypeOK
<1> SUFFICES ASSUME NEW r \in Request, NEW k \in req'[r].scan
             PROVE  /\ k.kind = "refresh"
                    /\ \/ \E q \in Request : req'[q].token = k
                       \/ /\ \A l \in live' :
                               l.kind = "refresh" /\ l.root = k.root => l = k
                          /\ \A q \in Request : ~Carries(q, k.root)'
  BY DEF Closed, Carries
<1>1. CASE k \in req[r].scan
  <2>1. k \in issued /\ k.kind = "refresh" /\ k # None
    BY <1>0, <1>1 DEF KeysInv, ScansEnd, Closed
  <2>2. CASE \E q \in Request : req[q].token = k
    BY <1>0, <2>1, <2>2, TokenKept
  <2>3. CASE /\ \A l \in live : l.kind = "refresh" /\ l.root = k.root => l = k
             /\ \A q \in Request : ~Carries(q, k.root)
    BY <1>0, <2>1, <2>3, NothingRevived
  <2> QED BY <1>0, <1>1, <2>1, <2>2, <2>3 DEF Closed
<1>2. CASE k \in live /\ k.kind = "refresh" /\ Scans(r)
  <2>1. /\ \A l \in live : l.kind = "refresh" /\ l.root = k.root => l = k
        /\ \A q \in Request : ~Carries(q, k.root)
    BY <1>0, <1>2 DEF OneLine, OneTokenPerSession
  <2> QED BY <1>0, <1>2, <2>1, NothingRevived
<1> QED BY <1>0, <1>1, <1>2, ScanStep

\* A global logout or a password reset that has answered has closed what it
\* saw; a session comes back only from a refresh that had its token before.
THEOREM RevocationFinal == Spec => []RevokedSessionsStayClosed
<1>1. Init => ClosedInv
  <2> SUFFICES ASSUME Init PROVE ClosedInv
    OBVIOUS
  <2>1. \A r \in Request : req[r].scan = {}
    BY DEF Init
  <2> QED BY <2>1, InitLine DEF ClosedInv, Closed
<1>2. ClosedInv /\ [Next]_vars => ClosedInv'
  BY StepKeys, StepLine, StepClosed DEF ClosedInv, LineInv
<1>3. ClosedInv => RevokedSessionsStayClosed
  <2> SUFFICES ASSUME ClosedInv, NEW r \in Request, At(r, "done"), NEW k \in req[r].scan
               PROVE  /\ k \notin live
                      /\ (\E l \in live : l.kind = "refresh" /\ l.root = k.root)
                           => \E q \in Request : req[q].token = k
    BY DEF RevokedSessionsStayClosed
  <2>1. k \notin live
    BY DEF ClosedInv, LineInv, KeysInv, ScansEnd
  <2> QED BY <2>1 DEF ClosedInv, Closed
<1> QED BY <1>1, <1>2, <1>3, PTL DEF Spec

-----------------------------------------------------------------------------
(* The demo, and single use.                                               *)

\* Only a revocation closes several sessions at once, and never the demo's.
THEOREM DemoShared == Spec => DemoVisitorsIndependent
<1>1. ASSUME KeysInv, [Next]_vars
      PROVE  \A k, l \in live \ live' :
               k.kind = "refresh" /\ l.kind = "refresh" /\ k.user \in Demo => k = l
  <2> SUFFICES ASSUME NEW k \in live \ live', NEW l \in live \ live',
                      k.kind = "refresh", l.kind = "refresh", k.user \in Demo
               PROVE  k = l
    OBVIOUS
  <2>1. ASSUME NEW r \in Request, DeleteBatch(r)
        PROVE  FALSE
    <3>1. req[r].user \notin Demo
      BY <1>1, <2>1 DEF DeleteBatch, At, KeysInv, TypedInv, Sound, Closing
    <3>2. k \in SessionsOf(req[r].user)
      BY <2>1 DEF DeleteBatch
    <3> QED BY <3>1, <3>2 DEF SessionsOf
  <2>2. CASE ~\E r \in Request : DeleteBatch(r)
    BY <1>1, <2>2
       DEF Next, Step, vars, Put, Take, CreateUser, StartOAuthLogin, FindOAuthUser, LinkOAuthUser,
         CreateOAuthUser, IssueRefreshToken, SetExchangeCode, Reply, RereadUser, StartScan,
         EndScan, WritePassword, Fail, Register, Login, LoginDemo, LoginWithGoogleIdToken,
         LogoutAll, ForgotPassword, ExchangeOAuthCode, ResetPassword, OAuthCallback,
         Refresh, Logout, Expire, Deactivate
  <2> QED BY <2>1, <2>2
<1>2. Spec => []KeysInv
  <2>1. KeysInv /\ [Next]_vars => KeysInv'
    BY StepKeys
  <2> QED BY InitKeys, <2>1, PTL DEF Spec
<1> QED BY <1>1, <1>2, PTL DEF Spec, DemoVisitorsIndependent

\* The keys read with GETDEL are single-use tokens: every step of the sessions
\* issues, redeems or drops keys, or leaves them.
THEOREM TokensRefine == Spec => TokensAreSingleUse
<1> DEFINE Redeemed == {e \in issued \X Request : req[e[2]].token = e[1]}
<1>1. Init => Tokens!Init
  BY DEF Init, Tokens!Init
<1>2. ASSUME KeysInv, [Next]_vars
      PROVE  [Tokens!Next]_(Tokens!vars)
  <2>0. /\ \A q \in Request : req[q].token # None => req[q].token \in issued
        /\ live \subseteq issued /\ issued \subseteq Key /\ None \notin issued
    BY <1>2, Keys, NoneAssumption DEF KeysInv, TypedInv, TypeOK, TokensIssued
  <2>1. CASE Quiet
    <3>1. issued' = issued /\ live' \subseteq live
          /\ Redeemed' = Redeemed
      BY <2>1 DEF Quiet, Kept
    <3>2. \E S \in SUBSET live : live' = live \ S
      <4> WITNESS live \ live' \in SUBSET live
      <4> QED BY <3>1
    <3> QED BY <3>1, <3>2 DEF Tokens!Next, Tokens!Drop
  <2>2. ASSUME NEW r \in Request, Scans(r)
        PROVE  UNCHANGED Tokens!vars
    <3>1. issued' = issued /\ live' = live /\ Redeemed' = Redeemed
      BY <2>2 DEF Scans, Others
    <3> QED BY <3>1 DEF Tokens!vars
  <2>3. ASSUME NEW k \in Key \ issued, issued' = issued \cup {k}, live' = live \cup {k},
               \A q \in Request : req'[q].token = req[q].token
        PROVE  Tokens!Next
    <3>1. Redeemed' = Redeemed
      BY <2>0, <2>3, Keys
    <3> QED BY <2>3, <3>1 DEF Tokens!Next, Tokens!Issue
  <2>4. ASSUME NEW r \in Request, IssueRefreshToken(r)
        PROVE  Tokens!Next
    BY <1>2, <2>3, <2>4, IssueNew DEF Others
  <2>5. ASSUME NEW r \in Request, NEW k \in Key, Sets(r, k)
        PROVE  Tokens!Next
    BY <2>3, <2>5 DEF Sets, Others
  <2>6. ASSUME NEW r \in Request, NEW k \in Key, Takes(r, k)
        PROVE  Tokens!Next
    <3>1. req[r].token = None
      BY <1>2, <2>6 DEF Takes, KeysInv, TokensIssued, At
    <3>2. Redeemed' = Redeemed \cup {<<k, r>>}
      BY <2>0, <2>6, <3>1 DEF Takes, Others
    <3> QED BY <2>6, <3>2 DEF Takes, Tokens!Next, Tokens!Redeem
  <2> QED BY <1>2, <2>1, <2>2, <2>4, <2>5, <2>6, Shapes
<1>3. Spec => []KeysInv
  <2>1. KeysInv /\ [Next]_vars => KeysInv'
    BY StepKeys
  <2> QED BY InitKeys, <2>1, PTL DEF Spec
<1> QED BY <1>1, <1>2, <1>3, PTL DEF Spec, TokensAreSingleUse, Tokens!Spec

=============================================================================
