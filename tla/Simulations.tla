---------------------------- MODULE Simulations ----------------------------
(***************************************************************************)
(* The simulations of a campaign: of its reach on the ground, from a       *)
(* questionnaire (simulations.service), and on the social networks         *)
(* (digital-campaigns.service), which the assistant explains, at once or   *)
(* later.  The engines and the assistant are called between the reads of a *)
(* request and its writes, and may fail.                                   *)
(*                                                                         *)
(* A request has a number, which names its rows.  What the engines compute *)
(* decides nothing here.  In the campaign only what the requests test is   *)
(* kept: over, with its digital details, with channels.                    *)
(***************************************************************************)
EXTENDS Integers

CONSTANTS Request, MaxAsked   \* the second is a bound of the model

Asked == 1..MaxAsked
Idle == [pc |-> "idle"]
Nothing == 0             \* no analysis

VARIABLES
  free,            \* the plan lacks aiAdvanced
  over,            \* the campaign is COMPLETED or CANCELLED
  ready,           \* it has its digital details and at least one channel
  questionnaire,   \* the Questionnaire rows, with their answers
  simulation,      \* those a Simulation row belongs to
  digital,         \* the DigitalSimulation rows
  analysis,        \* the request whose analysis a digital simulation has, or Nothing
  broken,          \* history: the requests that failed
  req, asked

campaign == <<free, over, ready>>
rows == <<questionnaire, simulation, digital, analysis>>
vars == <<campaign, rows, broken, req, asked>>

Local ==
  {Idle} \cup [pc : {"answers", "engine"}, id : Asked]
         \cup [pc : {"simulate", "explain"}, id : Asked]
         \cup [pc : {"create"}, id : Asked, explained : BOOLEAN]
         \cup [pc : {"again"}, id : Asked, of : Asked]

TypeOK ==
  /\ free \in BOOLEAN /\ over \in BOOLEAN /\ ready \in BOOLEAN
  /\ questionnaire \subseteq Asked /\ simulation \subseteq questionnaire
  /\ digital \subseteq Asked
  /\ analysis \in [Asked -> Asked \cup {Nothing}]
  /\ \A i \in Asked : analysis[i] # Nothing => i \in digital
  /\ broken \subseteq Asked
  /\ req \in [Request -> Local] /\ asked \in 0..MaxAsked

Init ==
  /\ free \in BOOLEAN /\ over \in BOOLEAN /\ ready \in BOOLEAN
  /\ questionnaire = {} /\ simulation = {} /\ digital = {}
  /\ analysis = [i \in Asked |-> Nothing]
  /\ broken = {}
  /\ req = [r \in Request |-> Idle] /\ asked = 0

-----------------------------------------------------------------------------

At(r, p) == req[r].pc = p
Becomes(r, q) == req' = [req EXCEPT ![r] = q]
Goes(r, p) == Becomes(r, [req[r] EXCEPT !.pc = p])

Ask(r, q) ==
  /\ At(r, "idle") /\ asked < MaxAsked
  /\ asked' = asked + 1
  /\ Becomes(r, q)
  /\ UNCHANGED <<campaign, rows, broken>>

\* The campaign and its plan live on: updateDetails, a subscription, an end.
Live ==
  /\ \/ free' = ~free /\ UNCHANGED <<over, ready>>
     \/ ~over /\ over' = TRUE /\ UNCHANGED <<free, ready>>
     \/ ~ready /\ ready' = TRUE /\ UNCHANGED <<free, over>>
  /\ UNCHANGED <<rows, broken, req, asked>>

-----------------------------------------------------------------------------
(* SimulationsService.createSimulation                                     *)

CreateSimulation(r) ==
  /\ ~free /\ ~over
  /\ Ask(r, [pc |-> "answers", id |-> asked + 1])

\* The questionnaire and its answers, before the engine is called.
WriteAnswers(r) ==
  /\ At(r, "answers")
  /\ questionnaire' = questionnaire \cup {req[r].id}
  /\ Goes(r, "engine")
  /\ UNCHANGED <<campaign, simulation, digital, analysis, broken, asked>>

Persist(r) ==
  /\ At(r, "engine")
  /\ simulation' = simulation \cup {req[r].id}
  /\ Becomes(r, Idle)
  /\ UNCHANGED <<campaign, questionnaire, digital, analysis, broken, asked>>

-----------------------------------------------------------------------------
(* DigitalCampaignsService.createSimulation                                *)

\* The channels with the metrics of their accounts, the local cost references,
\* then the engine.
SimulateDigital(r) ==
  /\ ready
  /\ Ask(r, [pc |-> "simulate", id |-> asked + 1])

\* hasAiAdvanced: without it the simulation has no analysis.
AskPlan(r) ==
  /\ At(r, "simulate")
  /\ Becomes(r, IF free THEN [pc |-> "create", id |-> req[r].id, explained |-> FALSE]
                ELSE [req[r] EXCEPT !.pc = "explain"])
  /\ UNCHANGED <<campaign, rows, broken, asked>>

\* analyzeSimulation: null when the assistant fails or is not configured.
Explain(r) ==
  /\ At(r, "explain")
  /\ \E b \in BOOLEAN : Becomes(r, [pc |-> "create", id |-> req[r].id, explained |-> b])
  /\ UNCHANGED <<campaign, rows, broken, asked>>

CreateDigital(r) ==
  LET i == req[r].id IN
  /\ At(r, "create")
  /\ digital' = digital \cup {i}
  /\ analysis' = [analysis EXCEPT ![i] = IF req[r].explained THEN i ELSE Nothing]
  /\ Becomes(r, Idle)
  /\ UNCHANGED <<campaign, questionnaire, simulation, broken, asked>>

\* analyzeExistingSimulation, of one without analysis: the others are given as
\* they are.
AnalyzeExisting(r, i) ==
  /\ ~free /\ i \in digital /\ analysis[i] = Nothing
  /\ Ask(r, [pc |-> "again", id |-> asked + 1, of |-> i])

\* The update by id, whatever another request has written meanwhile.
WriteAnalysis(r) ==
  /\ At(r, "again")
  /\ analysis' = [analysis EXCEPT ![req[r].of] = req[r].id]
  /\ Becomes(r, Idle)
  /\ UNCHANGED <<campaign, questionnaire, simulation, digital, broken, asked>>

\* An engine, the assistant or the database fails, or the process stops.
Fail(r) ==
  /\ ~At(r, "idle")
  /\ broken' = broken \cup {req[r].id}
  /\ Becomes(r, Idle)
  /\ UNCHANGED <<campaign, rows, asked>>

Next ==
  \/ Live
  \/ \E r \in Request :
       \/ CreateSimulation(r) \/ WriteAnswers(r) \/ Persist(r)
       \/ SimulateDigital(r) \/ AskPlan(r) \/ Explain(r) \/ CreateDigital(r)
       \/ \E i \in Asked : AnalyzeExisting(r, i)
       \/ WriteAnalysis(r) \/ Fail(r)

Spec == Init /\ [][Next]_vars

-----------------------------------------------------------------------------

\* "On appelle désormais le moteur AVANT toute écriture": a request that failed
\* leaves no questionnaire without its simulation.  It does: the answers are
\* written first.
NoOrphanQuestionnaire == \A i \in questionnaire \cap broken : i \in simulation

\* "Idempotent : une simulation déjà analysée est renvoyée telle quelle": an
\* analysis that was given to the user stays.  Two requests that both read none
\* replace each other's.
AnalysisStays ==
  [][\A i \in Asked : analysis[i] # Nothing => analysis'[i] = analysis[i]]_vars

=============================================================================
