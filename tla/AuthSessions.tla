---------------------------- MODULE AuthSessions ----------------------------
(***************************************************************************)
(* Sessions (modules/auth).  A session is a refresh token whose key is in  *)
(* Redis; POST /auth/refresh swaps it for another one.  Login, the demo    *)
(* and Google/Facebook open sessions; logout, a password reset and the TTL *)
(* close them.  All of them rest on Redis keys read with GETDEL.           *)
(*                                                                         *)
(* Each Request is one HTTP request, cut where the handler awaits the      *)
(* database, bcrypt or Redis.  Access tokens are left out: JwtStrategy     *)
(* reads role, company and deactivation anew for each of them, so what a   *)
(* token claims decides nothing.  A request refused before it has changed  *)
(* anything (bad signature, password, token or address) is one never sent. *)
(***************************************************************************)
CONSTANTS User,      \* the e-mail addresses
          Demo,      \* those of the public demo
          Request,
          None

ASSUME DemoAssumption == Demo \subseteq User

\* A key is named by its kind and the request that set it.  `root` is the
\* request that opened the session; rotation hands it on.
RefreshKey == [kind : {"refresh"}, id : Request, user : User, root : Request]
Key == RefreshKey
       \cup [kind : {"reset", "exchange"}, id : Request, user : User]
       \cup [kind : {"state"}, id : Request]

\* The User row, reduced to what authentication looks at: whether it has a
\* password hash, whether it is active, whether it is linked to a provider.
Row == [password : BOOLEAN, active : BOOLEAN, linked : BOOLEAN]

ASSUME NoneAssumption == None \notin User \cup Request \cup Key \cup Row

VARIABLES
  row,       \* the User row of an address, or None
  issued,    \* the keys set so far
  live,      \* those still in Redis
  req        \* what each request has read and where it stands

vars == <<row, issued, live, req>>

PC == {"idle", "create", "issue", "reread", "profile", "link",
       "createOAuth", "setExchange", "reply", "writePassword", "revoke",
       "scan", "redirected", "failed", "done"}

Local == [pc : PC,
          user : User \cup {None},
          token : Key \cup {None},          \* the key it has consumed
          session : RefreshKey \cup {None}, \* the refresh token it hands out
          scan : SUBSET RefreshKey]         \* the keys there when its SCAN began

TypeOK ==
  /\ row \in [User -> Row \cup {None}]
  /\ issued \subseteq Key
  /\ live \subseteq issued
  /\ req \in [Request -> Local]

\* DemoService has created the demo accounts, without a password; some of the
\* other addresses have registered.
Init ==
  /\ \E Registered \in SUBSET (User \ Demo) :
       row = [u \in User |->
                IF u \in Demo \cup Registered
                THEN [password |-> u \notin Demo, active |-> TRUE, linked |-> FALSE]
                ELSE None]
  /\ issued = {}
  /\ live = {}
  /\ req = [r \in Request |->
              [pc |-> "idle", user |-> None, token |-> None, session |-> None,
               scan |-> {}]]

-----------------------------------------------------------------------------

At(r, p) == req[r].pc = p

Becomes(r, q) == req' = [req EXCEPT ![r] = q]

GoTo(r, p) == Becomes(r, [req[r] EXCEPT !.pc = p])

Exists(u) == row[u] # None

Active(u) == Exists(u) /\ row[u].active

SessionsOf(u) == {k \in live : k.kind = "refresh" /\ k.user = u}

\* The refresh tokens that have reached a client.
Delivered == {req[r].session : r \in {q \in Request : At(q, "done")}} \ {None}

Put(K) == issued' = issued \cup K /\ live' = live \cup K

TakeByGet(k) == k \in live /\ UNCHANGED <<live, issued>>

\* RedisService.getDel, when it returns a value.
Take(k) == k \in live /\ live' = live \ {k} /\ UNCHANGED issued

-----------------------------------------------------------------------------
(* register                                                                *)

Register(r, u) ==
  /\ At(r, "idle") /\ u \notin Demo
  /\ Becomes(r, [req[r] EXCEPT !.pc = "create", !.user = u])
  /\ UNCHANGED <<row, issued, live>>

\* An address already taken is P2002 (Fail).
CreateUser(r) ==
  /\ At(r, "create") /\ ~Exists(req[r].user)
  /\ row' = [row EXCEPT ![req[r].user] =
               [password |-> TRUE, active |-> TRUE, linked |-> FALSE]]
  /\ GoTo(r, "done")
  /\ UNCHANGED <<issued, live>>

-----------------------------------------------------------------------------
(* Opening a session.                                                      *)

\* login: password and deactivation are those read before bcrypt.compare.
Login(r, u) ==
  /\ At(r, "idle") /\ Active(u) /\ row[u].password
  /\ Becomes(r, [req[r] EXCEPT !.pc = "issue", !.user = u])
  /\ UNCHANGED <<row, issued, live>>

LoginDemo(r, u) ==
  /\ At(r, "idle") /\ u \in Demo /\ Active(u)
  /\ Becomes(r, [req[r] EXCEPT !.pc = "issue", !.user = u])
  /\ UNCHANGED <<row, issued, live>>

\* loginWithGoogleIdToken, once the idToken is verified.
LoginWithGoogleIdToken(r, u) ==
  /\ At(r, "idle") /\ u \notin Demo
  /\ Becomes(r, [req[r] EXCEPT !.pc = "profile", !.user = u])
  /\ UNCHANGED <<row, issued, live>>

StartOAuthLogin(r) ==
  /\ At(r, "idle")
  /\ Put({[kind |-> "state", id |-> r]})
  /\ GoTo(r, "redirected")
  /\ UNCHANGED row

\* handleOAuthLoginCallback: the nonce goes first, then the provider is asked
\* for the profile, here that of u.
OAuthCallback(r, k, u) ==
  /\ At(r, "idle") /\ u \notin Demo
  /\ k.kind = "state" /\ Take(k)
  /\ Becomes(r, [req[r] EXCEPT !.pc = "profile", !.user = u, !.token = k])
  /\ UNCHANGED row

\* findOrCreateOAuthUser: the account of that provider id is returned as
\* read; otherwise one with that e-mail is linked, or one is created.
FindOAuthUser(r) ==
  LET u == req[r].user IN
  /\ At(r, "profile")
  /\ GoTo(r, IF ~Exists(u) THEN "createOAuth"
             ELSE IF ~row[u].linked THEN "link"
             ELSE IF row[u].active THEN "issue" ELSE "failed")
  /\ UNCHANGED <<row, issued, live>>

\* An account found by e-mail is linked even if it turns out deactivated.
LinkOAuthUser(r) ==
  /\ At(r, "link")
  /\ row' = [row EXCEPT ![req[r].user].linked = TRUE]
  /\ GoTo(r, IF Active(req[r].user) THEN "issue" ELSE "failed")
  /\ UNCHANGED <<issued, live>>

\* P2002: another request has created the account; it is returned unlinked.
CreateOAuthUser(r) ==
  LET u == req[r].user IN
  /\ At(r, "createOAuth")
  /\ row' = IF Exists(u) THEN row
            ELSE [row EXCEPT ![u] =
                    [password |-> FALSE, active |-> TRUE, linked |-> TRUE]]
  /\ GoTo(r, IF Exists(u) /\ ~row[u].active THEN "failed" ELSE "issue")
  /\ UNCHANGED <<issued, live>>

\* issueRefreshToken.  A web OAuth callback still has to write the exchange
\* code; the others answer.
IssueRefreshToken(r) ==
  LET c == req[r].token
      k == [kind |-> "refresh", id |-> r, user |-> req[r].user,
            root |-> IF c # None /\ c.kind = "refresh" THEN c.root ELSE r]
  IN
  /\ At(r, "issue")
  /\ Put({k})
  /\ Becomes(r, [req[r] EXCEPT
       !.pc = IF c # None /\ c.kind = "state" THEN "setExchange" ELSE "reply",
       !.session = k])
  /\ UNCHANGED row

\* The redirection carries the code; the tokens wait behind it.
SetExchangeCode(r) ==
  /\ At(r, "setExchange")
  /\ Put({[kind |-> "exchange", id |-> r, user |-> req[r].user]})
  /\ GoTo(r, "redirected")
  /\ UNCHANGED row

ExchangeOAuthCode(r, k) ==
  /\ At(r, "idle")
  /\ k.kind = "exchange" /\ Take(k)
  /\ Becomes(r, [req[r] EXCEPT !.pc = "reply", !.user = k.user, !.token = k,
                               !.session = req[k.id].session])
  /\ UNCHANGED row

\* The answer reaches the client; one that does not is Fail.
Reply(r) ==
  /\ At(r, "reply")
  /\ GoTo(r, "done")
  /\ UNCHANGED <<row, issued, live>>

-----------------------------------------------------------------------------
(* refresh                                                                 *)

RefreshIfExists(r, k) ==
  /\ At(r, "idle")
  /\ k \in Delivered \cap live
  /\ Becomes(r, [req[r] EXCEPT !.pc = "reread", !.user = k.user, !.token = k])
  /\ UNCHANGED <<row, issued, live>>

Refresh(r, k) ==
  /\ At(r, "idle")
  /\ k \in Delivered /\ Take(k)
  /\ Becomes(r, [req[r] EXCEPT !.pc = "reread", !.user = k.user, !.token = k])
  /\ UNCHANGED row

\* The account as it is now; the token is spent even when this fails.
RereadUser(r) ==
  /\ At(r, "reread")
  /\ GoTo(r, IF Active(req[r].user) THEN "issue" ELSE "failed")
  /\ UNCHANGED <<row, issued, live>>

-----------------------------------------------------------------------------
(* Closing sessions.                                                       *)

\* logout with the session's own refresh token.
Logout(r, k) ==
  /\ At(r, "idle") /\ k \in Delivered
  /\ live' = live \ {k}
  /\ GoTo(r, "done")
  /\ UNCHANGED <<row, issued>>

LogoutAllOfAnyone(r, u) ==
  /\ At(r, "idle") /\ Exists(u)
  /\ Becomes(r, [req[r] EXCEPT !.pc = "revoke", !.user = u])
  /\ UNCHANGED <<row, issued, live>>

\* logout without one: every session, but a demo visitor closes none.
LogoutAll(r, u) ==
  /\ At(r, "idle") /\ Exists(u) /\ u \notin Demo
  /\ Becomes(r, [req[r] EXCEPT !.pc = "revoke", !.user = u])
  /\ UNCHANGED <<row, issued, live>>

\* delByPattern.  SCAN returns every key that is there from its start to its
\* end, in batches, and may or may not return those set meanwhile.
StartScan(r) ==
  /\ At(r, "revoke")
  /\ Becomes(r, [req[r] EXCEPT !.pc = "scan", !.scan = SessionsOf(req[r].user)])
  /\ UNCHANGED <<row, issued, live>>

DeleteBatch(r) ==
  /\ At(r, "scan")
  /\ \E S \in SUBSET SessionsOf(req[r].user) : S # {} /\ live' = live \ S
  /\ UNCHANGED <<row, issued, req>>

EndScanAnyway(r) ==
  /\ At(r, "scan")
  /\ GoTo(r, "done")
  /\ UNCHANGED <<row, issued, live>>

\* The cursor is back to 0.
EndScan(r) ==
  /\ At(r, "scan") /\ req[r].scan \cap live = {}
  /\ GoTo(r, "done")
  /\ UNCHANGED <<row, issued, live>>

\* A TTL runs out.
Expire(k) ==
  /\ k \in live
  /\ live' = live \ {k}
  /\ UNCHANGED <<row, issued, req>>

-----------------------------------------------------------------------------
(* Passwords and deactivation.                                             *)

\* Reading the account and writing the key are one step: a deactivation
\* between them is not looked at by resetPassword.
ForgotPassword(r, u) ==
  /\ At(r, "idle") /\ Active(u) /\ u \notin Demo
  /\ Put({[kind |-> "reset", id |-> r, user |-> u]})
  /\ GoTo(r, "done")
  /\ UNCHANGED row

ResetPassword(r, k) ==
  /\ At(r, "idle")
  /\ k.kind = "reset" /\ Take(k)
  /\ Becomes(r, [req[r] EXCEPT !.pc = "writePassword", !.user = k.user,
                               !.token = k])
  /\ UNCHANGED row

\* The column takes a hash that was never computed.
WritePasswordNull(r) ==
  /\ At(r, "writePassword")
  /\ row' = [row EXCEPT ![req[r].user].password = None]
  /\ GoTo(r, "revoke")
  /\ UNCHANGED <<issued, live>>

WritePassword(r) ==
  /\ At(r, "writePassword")
  /\ row' = [row EXCEPT ![req[r].user].password = TRUE]
  /\ GoTo(r, "revoke")
  /\ UNCHANGED <<issued, live>>

\* UsersService.deactivate; no session is closed, and no operation activates
\* the account again.  The demo is read-only.
Deactivate(u) ==
  /\ Active(u) /\ u \notin Demo
  /\ row' = [row EXCEPT ![u].active = FALSE]
  /\ UNCHANGED <<issued, live, req>>

\* An error from the database, Redis or the provider, or the process dies:
\* what is not yet written never is, and the client learns nothing.
Fail(r) ==
  /\ req[r].pc \notin {"idle", "redirected", "failed", "done"}
  /\ GoTo(r, "failed")
  /\ UNCHANGED <<row, issued, live>>

Step(r) ==
  \/ CreateUser(r)
  \/ StartOAuthLogin(r) \/ FindOAuthUser(r) \/ LinkOAuthUser(r)
  \/ CreateOAuthUser(r)
  \/ IssueRefreshToken(r) \/ SetExchangeCode(r) \/ Reply(r)
  \/ RereadUser(r)
  \/ StartScan(r) \/ DeleteBatch(r) \/ EndScan(r)
  \/ WritePassword(r)
  \/ Fail(r)

Next ==
  \/ \E r \in Request : Step(r)
  \/ \E r \in Request, u \in User :
       \/ Register(r, u) \/ Login(r, u) \/ LoginDemo(r, u)
       \/ LoginWithGoogleIdToken(r, u)
       \/ LogoutAll(r, u) \/ ForgotPassword(r, u)
  \/ \E r \in Request, k \in live :
       ExchangeOAuthCode(r, k) \/ ResetPassword(r, k)
  \/ \E r \in Request, k \in live, u \in User : OAuthCallback(r, k, u)
  \/ \E r \in Request, k \in Delivered : Refresh(r, k) \/ Logout(r, k)
  \/ \E k \in live : Expire(k)
  \/ \E u \in User : Deactivate(u)

Spec == Init /\ [][Next]_vars

-----------------------------------------------------------------------------

\* Refresh tokens, reset links, OAuth nonces and exchange codes implement
\* single-use tokens, although SCAN and logout delete refresh keys beside the
\* GETDEL of refresh.
Tokens == INSTANCE SingleUseToken WITH
  Token <- Key,
  Actor <- Request,
  redeemed <- {e \in issued \X Request : req[e[2]].token = e[1]}

TokensAreSingleUse == Tokens!Spec

\* Rotation never forks a session: however many refreshes are in flight with
\* the token of one session, one usable token descends from its opening.
OneTokenPerSession ==
  \A k, l \in live :
    k.kind = "refresh" /\ l.kind = "refresh" /\ k.root = l.root => k = l

\* A password reset or a global logout that has answered has closed every
\* session that was open when its SCAN began; one of them is usable again only
\* if its own refresh had consumed its token before the SCAN could.
RevokedSessionsStayClosed ==
  \A r \in Request : At(r, "done") =>
    \A k \in req[r].scan :
      /\ k \notin live
      /\ (\E l \in live : l.kind = "refresh" /\ l.root = k.root)
           => \E q \in Request : req[q].token = k

\* "Démo publique : tous les visiteurs partagent le même compte": what closes
\* the session of one visitor closes no other one.
DemoVisitorsIndependent ==
  [][\A k, l \in live \ live' :
       k.kind = "refresh" /\ l.kind = "refresh" /\ k.user \in Demo => k = l]_vars

=============================================================================
