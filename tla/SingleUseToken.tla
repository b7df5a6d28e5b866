--------------------------- MODULE SingleUseToken ---------------------------
(***************************************************************************)
(* What every "usage unique" token of the backend promises: the external   *)
(* proof and validation links, the refresh tokens, the password-reset and  *)
(* invitation tokens and the OAuth exchange codes all rest on one Redis    *)
(* key that GETDEL reads and removes in one command.                       *)
(*                                                                         *)
(* A token is issued once, may be redeemed by one actor, and may vanish    *)
(* before that (TTL, revocation).  Prestations implements this             *)
(* specification with its links, AuthSessions with its refresh tokens.     *)
(***************************************************************************)
EXTENDS TLAPS

CONSTANTS Token, Actor

VARIABLES
  issued,     \* the tokens handed out so far
  live,       \* the tokens whose key is still there
  redeemed    \* <<token, actor>>: who has redeemed what

vars == <<issued, live, redeemed>>

Init ==
  /\ issued = {}
  /\ live = {}
  /\ redeemed = {}

Issue(t) ==
  /\ t \notin issued
  /\ issued' = issued \cup {t}
  /\ live' = live \cup {t}
  /\ UNCHANGED redeemed

Redeem(t, a) ==
  /\ t \in live
  /\ live' = live \ {t}
  /\ redeemed' = redeemed \cup {<<t, a>>}
  /\ UNCHANGED issued

\* Tokens of S disappear unredeemed: they expire or are revoked together.
Drop(S) ==
  /\ live' = live \ S
  /\ UNCHANGED <<issued, redeemed>>

Next ==
  \/ \E t \in Token : Issue(t)
  \/ \E t \in Token, a \in Actor : Redeem(t, a)
  \/ \E S \in SUBSET live : Drop(S)

Spec == Init /\ [][Next]_vars

-----------------------------------------------------------------------------

\* No token is redeemed by two actors.
AtMostOnce ==
  \A t \in Token, a, b \in Actor :
    <<t, a>> \in redeemed /\ <<t, b>> \in redeemed => a = b

\* A redeemed token has been issued and is gone: no second actor finds it.
Gone ==
  /\ live \subseteq issued
  /\ \A e \in redeemed : e[1] \in issued \ live

\* The promise holds for every set of tokens and of actors.
THEOREM RedeemedOnce == Spec => [](AtMostOnce)
<1> DEFINE Inv == Gone /\ AtMostOnce
<1>1. Init => Inv
  BY DEF Init, Gone, AtMostOnce
<1>2. Inv /\ [Next]_vars => Inv'
  <2> SUFFICES ASSUME Inv, [Next]_vars
               PROVE  Inv'
    OBVIOUS
  <2>1. ASSUME NEW t \in Token, Issue(t)
        PROVE  Inv'
    BY <2>1 DEF Issue, Gone, AtMostOnce
  <2>2. ASSUME NEW t \in Token, NEW a \in Actor, Redeem(t, a)
        PROVE  Inv'
    BY <2>2 DEF Redeem, Gone, AtMostOnce
  <2>3. ASSUME NEW S \in SUBSET live, Drop(S)
        PROVE  Inv'
    BY <2>3 DEF Drop, Gone, AtMostOnce
  <2>4. CASE UNCHANGED vars
    BY <2>4 DEF vars, Gone, AtMostOnce
  <2> QED
    BY <2>1, <2>2, <2>3, <2>4 DEF Next
<1> QED
  BY <1>1, <1>2, PTL DEF Spec

=============================================================================
