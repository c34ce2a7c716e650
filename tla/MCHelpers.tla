----------------------------- MODULE MCHelpers -----------------------------
(***************************************************************************)
(* Helpers for TLC: what is fixed of each request, call and report.          *)
(***************************************************************************)
EXTENDS Helpers, TLC

CONSTANTS sub,                   \* a frame of the page, around the one of another process
          mutation, reading,     \* the requests in a page
          agent1, agent2, a3,    \* the agents, and the call of the second
          failure, bug, leak     \* the reports

ParentOfFrame == [f \in Frame \ {Main} |-> IF f = Iframe THEN sub ELSE Main]
MutationOfRequest == [r \in Request |-> r = mutation]
StartOfRequest == [r \in Request |-> r = reading]
KeyOfCall == [c \in AgentCall |-> IF c = a3 THEN agent2 ELSE agent1]
ProcessOfKey == [k \in AgentKey |-> k]   \* a process each
ClassOfReport == failure :> "operational" @@ bug :> "suspected-bug" @@ leak :> "security"
AutoOfReport == [c \in Filing |-> TRUE]

\* A behaviour is one of one part, so that the pairs of all parts may be exchanged at once.
Pairs == {Target \ UserTab, Compatible, Source, McpCall, Process}
Other(v) == CHOOSE w \in (CHOOSE pair \in Pairs : v \in pair) : w # v
Symmetry == {[v \in UNION Pairs |-> IF exchanged THEN Other(v) ELSE v] : exchanged \in BOOLEAN}
=============================================================================
