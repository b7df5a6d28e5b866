----------------------------- MODULE Assistant -----------------------------
(***************************************************************************)
(* The assistant (assistant-ia.service): the conversation of a user with   *)
(* the Copilot, its daily quota (plan.service), and the recommendations    *)
(* for a campaign.  Between what a request reads and what it writes there  *)
(* is a call to the engine of several seconds, which may fail.             *)
(*                                                                         *)
(* The rows of a transaction are there for the others at its end.  What is *)
(* said (contents, contexts, topics) decides nothing here.  Time is the    *)
(* order in which the messages of a conversation are sent.                 *)
(***************************************************************************)
EXTENDS Integers, FiniteSets

CONSTANTS Request,
          Limit,     \* copilotDailyMessages of FREE: 5 in the code
          MaxAsked   \* bound of the model

Asked == 1..MaxAsked    \* the number of a request: names what it writes
Idle == [pc |-> "idle"]
Message == [sender : {"USER", "AI"}, ex : Asked, sentAt : Nat, feedback : BOOLEAN]

VARIABLES
  free,      \* the plan of the company: FREE, or one with neither limit
  conv,      \* the number of the conversation there is, or 0
  drawn,     \* how many there have been
  messages,  \* its messages
  clock,     \* the sentAt of its last message, also in an open transaction
  today,     \* the exchanges whose question is of this day
  recs,      \* the generations that have rows in Recommendation
  latest,    \* history: the last generation that was stored
  req, asked,
  crossed,   \* history: an exchange or a regeneration began beside another
  overlapped \* history: a generation removed rows while another was doing so

talk == <<conv, drawn, messages, clock, today, crossed>>
advice == <<recs, latest, overlapped>>
vars == <<free, talk, advice, req, asked>>

Local ==
  {Idle} \cup [pc : {"quota"}, conv : Nat, ex : Asked, again : BOOLEAN]
         \cup [pc : {"question", "replace"}, conv : Nat, ex : Asked]
         \cup [pc : {"answer"}, ex : Asked, sentAt : Nat]
         \cup [pc : {"generate"}, ex : Asked]
         \cup [pc : {"store"}, ex : Asked, seen : SUBSET Asked]

TypeOK ==
  /\ free \in BOOLEAN
  /\ conv \in 0..drawn /\ drawn \in 0..asked
  /\ messages \subseteq Message /\ clock \in Nat
  /\ today \subseteq Asked
  /\ recs \subseteq Asked /\ latest \in 0..MaxAsked
  /\ req \in [Request -> Local]
  /\ asked \in 0..MaxAsked
  /\ crossed \in BOOLEAN /\ overlapped \in BOOLEAN

Init ==
  /\ free \in BOOLEAN
  /\ conv = 0 /\ drawn = 0 /\ messages = {} /\ clock = 0 /\ today = {} /\ crossed = FALSE
  /\ recs = {} /\ latest = 0 /\ overlapped = FALSE
  /\ req = [r \in Request |-> Idle] /\ asked = 0

-----------------------------------------------------------------------------

At(r, p) == req[r].pc = p
Becomes(r, q) == req' = [req EXCEPT ![r] = q]
Talking(r) == req[r].pc \in {"quota", "question", "answer", "replace"}
\* The last message of some.
Last(S) == {m \in S : \A n \in S : n.sentAt <= m.sentAt}
Sent(sender, ex, at) == [sender |-> sender, ex |-> ex, sentAt |-> at, feedback |-> FALSE]

Ask(r, q) ==
  /\ At(r, "idle") /\ asked < MaxAsked
  /\ asked' = asked + 1
  /\ Becomes(r, q)

\* createConversation.
CreateConversation(r) ==
  /\ conv = 0 /\ Ask(r, Idle)
  /\ conv' = drawn + 1 /\ drawn' = drawn + 1
  /\ UNCHANGED <<free, messages, clock, today, crossed, advice>>

\* deleteConversation: the messages, then the conversation.  A transaction that
\* has inserted a message holds the row: the deletion waits, then is refused.
DeleteConversation(r) ==
  /\ conv # 0 /\ Ask(r, Idle)
  /\ \A q \in Request : ~At(q, "answer")
  /\ conv' = 0 /\ messages' = {} /\ clock' = 0
  /\ UNCHANGED <<free, drawn, today, crossed, advice>>

\* A new UTC day: nothing sent yet.
Midnight ==
  /\ today # {}
  /\ today' = {}
  /\ UNCHANGED <<free, conv, drawn, messages, clock, crossed, advice, req, asked>>

-----------------------------------------------------------------------------
(* envoyerMessage, envoyerMessageStream, regenererDerniereReponse          *)

Begin(r, again, ex) ==
  /\ conv # 0
  /\ Ask(r, [pc |-> "quota", conv |-> conv, ex |-> ex, again |-> again])
  /\ crossed' = (crossed \/ \E q \in Request \ {r} : Talking(q))
  /\ UNCHANGED <<free, conv, drawn, messages, clock, today, advice>>

EnvoyerMessage(r) == Begin(r, FALSE, asked + 1)

\* Slip: any answer of the conversation, by its identifier.
RegenererAny(r) ==
  \E a \in messages : a.sender = "AI" /\ Begin(r, TRUE, a.ex)

\* The last two messages: a question, then its answer.
RegenererDerniereReponse(r) ==
  \E a \in Last(messages) : \E q \in Last(messages \ {a}) :
    a.sender = "AI" /\ q.sender = "USER" /\ Begin(r, TRUE, a.ex)

SentToday == Cardinality({m \in messages : m.sender = "USER" /\ m.ex \in today})

\* assertCopilotQuota.  The engine is called next.
CheckQuota(r) ==
  /\ At(r, "quota")
  /\ Becomes(r, IF free /\ SentToday >= Limit THEN Idle
                ELSE [pc |-> IF req[r].again THEN "replace" ELSE "question",
                      conv |-> req[r].conv, ex |-> req[r].ex])
  /\ UNCHANGED <<free, talk, advice, asked>>

\* persistExchange, in one transaction: the question, if its conversation is still there...
WriteQuestion(r) ==
  /\ At(r, "question")
  /\ IF req[r].conv = conv
     THEN /\ clock' = clock + 1
          /\ Becomes(r, [pc |-> "answer", ex |-> req[r].ex, sentAt |-> clock + 1])
     ELSE /\ UNCHANGED clock
          /\ Becomes(r, Idle)
  /\ UNCHANGED <<free, conv, drawn, messages, today, crossed, advice, asked>>

\* ... then the answer, and both are there.
WriteAnswer(r) ==
  LET ex == req[r].ex IN
  /\ At(r, "answer")
  /\ clock' = clock + 1
  /\ messages' = messages \cup {Sent("USER", ex, req[r].sentAt), Sent("AI", ex, clock + 1)}
  /\ today' = today \cup {ex}
  /\ Becomes(r, Idle)
  /\ UNCHANGED <<free, conv, drawn, crossed, advice, asked>>

\* The answer read first is replaced, with a new sentAt and no feedback.
ReplaceAnswer(r) ==
  LET former == {m \in messages : m.sender = "AI" /\ m.ex = req[r].ex}
  IN /\ At(r, "replace")
     /\ IF req[r].conv = conv
        THEN /\ clock' = clock + 1
             /\ messages' = (messages \ former) \cup {Sent("AI", req[r].ex, clock + 1)}
        ELSE UNCHANGED <<messages, clock>>
     /\ Becomes(r, Idle)
     /\ UNCHANGED <<free, conv, drawn, today, crossed, advice, asked>>

SetMessageFeedback(r) ==
  /\ Ask(r, Idle)
  /\ \E m \in messages, b \in BOOLEAN :
       /\ m.sender = "AI"
       /\ messages' = (messages \ {m}) \cup {[m EXCEPT !.feedback = b]}
  /\ UNCHANGED <<free, conv, drawn, clock, today, crossed, advice>>

-----------------------------------------------------------------------------
(* genererRecommandations                                                  *)

\* Slip: the former advice goes first, so that nobody reads it meanwhile.
GenererOnEmpty(r) ==
  /\ ~free
  /\ Ask(r, [pc |-> "generate", ex |-> asked + 1])
  /\ recs' = {}
  /\ UNCHANGED <<free, talk, latest, overlapped>>

\* assertAiAdvanced, the context, and the call.
GenererRecommandations(r) ==
  /\ ~free
  /\ Ask(r, [pc |-> "generate", ex |-> asked + 1])
  /\ UNCHANGED <<free, talk, advice>>

\* deleteMany, which sees the rows committed when it starts...
RemoveFormer(r) ==
  /\ At(r, "generate")
  /\ Becomes(r, [pc |-> "store", ex |-> req[r].ex, seen |-> recs])
  /\ overlapped' = (overlapped \/ \E q \in Request \ {r} : At(q, "store"))
  /\ UNCHANGED <<free, talk, recs, latest, asked>>

\* ... and the new rows, in its transaction.
StoreRecommendations(r) ==
  /\ At(r, "store")
  /\ recs' = (recs \ req[r].seen) \cup {req[r].ex}
  /\ latest' = req[r].ex
  /\ Becomes(r, Idle)
  /\ UNCHANGED <<free, talk, overlapped, asked>>

\* The engine or the database fails, or the process stops: an open transaction
\* leaves nothing.
Fail(r) ==
  /\ ~At(r, "idle")
  /\ Becomes(r, Idle)
  /\ UNCHANGED <<free, talk, advice, asked>>

Next ==
  \/ \E r \in Request :
       \/ CreateConversation(r) \/ DeleteConversation(r)
       \/ EnvoyerMessage(r) \/ RegenererDerniereReponse(r) \/ SetMessageFeedback(r)
       \/ CheckQuota(r) \/ WriteQuestion(r) \/ WriteAnswer(r) \/ ReplaceAnswer(r)
       \/ GenererRecommandations(r) \/ RemoveFormer(r) \/ StoreRecommendations(r)
       \/ Fail(r)
  \/ Midnight

Spec == Init /\ [][Next]_vars

-----------------------------------------------------------------------------

\* "remplace les recommandations générées précédemment": a campaign shows the last
\* advice that was stored, all of it and nothing else, whatever fails, unless two
\* generations were replacing it at once.
LatestAdviceOnly == ~overlapped => recs = IF latest = 0 THEN {} ELSE {latest}

\* "Seule la dernière réponse est régénérable": one exchange or regeneration at a
\* time, a conversation is questions, each followed at once by its answer.
Follows(a, q) ==
  /\ q.sender = "USER" /\ a.sender = "AI" /\ a.ex = q.ex /\ q.sentAt < a.sentAt
  /\ \A m \in messages : m.sentAt <= q.sentAt \/ a.sentAt <= m.sentAt
QuestionsThenAnswers ==
  ~crossed => \A m \in messages : \E n \in messages : Follows(m, n) \/ Follows(n, m)

\* A generation that follows another leaves one set of advice: it does not when
\* two of them remove the former one before either has stored its own.
OneAdvice == Cardinality(recs) <= 1

=============================================================================
