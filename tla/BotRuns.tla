------------------------------- MODULE BotRuns -------------------------------
(***************************************************************************)
(* What the runtime registry promises the users of the bots: a bot has at  *)
(* most one active run, at most Cap runs are active, and a run that has    *)
(* ended never becomes active again.                                       *)
(***************************************************************************)
EXTENDS Integers, FiniteSets

CONSTANTS Bots, Runs, Cap

VARIABLES
  active,  \* bot -> its active runs
  ended    \* runs that will not be active any more

botVars == <<active, ended>>

ActiveRuns == UNION {active[b] : b \in Bots}

BotInit == active = [b \in Bots |-> {}] /\ ended = {}

Begin(b, r) ==
  /\ active[b] = {}
  /\ Cardinality(ActiveRuns) < Cap
  /\ r \notin ActiveRuns \cup ended
  /\ active' = [active EXCEPT ![b] = {r}]
  /\ UNCHANGED ended

End(b, r) ==
  /\ r \in active[b]
  /\ active' = [active EXCEPT ![b] = {}]
  /\ ended' = ended \cup {r}

\* A start that came to nothing: its run was never active and will not be.
Discard(r) ==
  /\ r \notin ActiveRuns
  /\ ended' = ended \cup {r}
  /\ UNCHANGED active

\* The service stops, and with it every active run and every start under way.
EndAll ==
  /\ active' = [b \in Bots |-> {}]
  /\ \E S \in SUBSET Runs : ended' = ended \cup ActiveRuns \cup S

BotNext ==
  \/ \E b \in Bots, r \in Runs : Begin(b, r) \/ End(b, r)
  \/ \E r \in Runs : Discard(r)
  \/ EndAll

BotSpec == BotInit /\ [][BotNext]_botVars
=============================================================================
