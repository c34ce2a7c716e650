----------------------------- MODULE Helpers -----------------------------
(***************************************************************************)
(* Ten parts of BrowserRig that share nothing: the page of a session, the tools    *)
(* of a website, the requests in a page, the group of a tab, the agents of the       *)
(* harness, the reports of problems, the connection of the extension, the profiles   *)
(* of credentials, the current session of the MCP server and the session file of       *)
(* the command line.  A behaviour is one of one part, chosen at first, and x1, x2, ...  *)
(* are the variables of that part.                                             *)
(***************************************************************************)
EXTENDS Naturals, FiniteSets

CONSTANTS None,
          Target, UserTab, MaxConn, MaxDoc, MaxOp,                                             \* SessionPage
          Frame, Main, Iframe, Parent, ToolCall, MaxTools, MaxEarly, MaxRegistrations, MaxEvents, MaxRuns, \* WebMcp
          Request, MutationOf, SensitiveOf, StartOf, Nobody, MaxMoves,                         \* PageRequests
          MaxGenerations, MaxChoices,                                                          \* TabGroups
          AgentKey, AgentCall, KeyOf, ProcessOf, MaxSessions, MaxAgentFaults,                  \* DshAdapter
          Filing, ClassOf, AutoOf, MaxReportFaults,                                            \* IssueReports
          Browser, Compatible, LinkCommand, MaxSockets, MaxAwake, MaxLinkFaults,               \* ExtensionLink
          Capture, Source, Value, MaxSeen, MaxStoreFaults, MaxRemovals,                        \* AuthProfiles
          Session, OwnSession, McpCall, MaxCalls, MaxBirths,                                   \* CurrentSession
          Endpoint, Default, Process, MaxCommands                                              \* SessionStore

ASSUME IssuesAssumption ==
  /\ IsFiniteSet(Filing) /\ AutoOf \in [Filing -> BOOLEAN]
  /\ ClassOf \in [Filing -> {"operational", "suspected-bug", "security"}]
ASSUME LinkAssumption == MaxSockets \in Nat /\ None \notin Browser
ASSUME RequestsAssumption == Nobody \notin Request
ASSUME AgentsAssumption == KeyOf \in [AgentCall -> AgentKey]
ASSUME CurrentAssumption == OwnSession \in Session /\ None \notin Nat /\ None \notin Session
ASSUME StoredAssumption == Default \in Endpoint
ASSUME ToolsAssumption ==
  /\ IsFiniteSet(Frame) /\ {Main, Iframe} \subseteq Frame /\ Main # Iframe
  /\ Parent \in [Frame \ {Main} -> Frame] /\ ToolCall \cap {Main, Iframe, "sync"} = {}

VARIABLES part, x1, x2, x3, x4, x5, x6, x7, x8, x9, x10

Page == INSTANCE SessionPage WITH
  sandbox <- x1, tabs <- x2, link <- x3, op <- x4, pointer <- x5, closing <- x6
Tools == INSTANCE WebMcp WITH
  Call <- ToolCall,
  page <- x1, wire <- x2, object <- x3, call <- x4, run <- x5, told <- x6, events <- x7
Requests == INSTANCE PageRequests WITH
  req <- x1, permit <- x2, page <- x3, capture <- x4, sent <- x5, applied <- x6, strayed <- x7, moves <- x8
Groups == INSTANCE TabGroups WITH
  link <- x1, target <- x2, worker <- x3, down <- x4, jobs <- x5, job <- x6, pass <- x7, browser <- x8,
  choices <- x9
Agents == INSTANCE DshAdapter WITH
  Key <- AgentKey, Call <- AgentCall, MaxFaults <- MaxAgentFaults,
  call <- x1, queue <- x2, file <- x3, lock <- x4, relay <- x5, answered <- x6, taken <- x7, faults <- x8
Issues == INSTANCE IssueReports WITH
  Call <- Filing, MaxFaults <- MaxReportFaults,
  report <- x1, file <- x2, created <- x3, faults <- x4, lock <- x5, at <- x6, taken <- x7
Link == INSTANCE ExtensionLink WITH
  Command <- LinkCommand, MaxFaults <- MaxLinkFaults,
  worker <- x1, deaf <- x2, socket <- x3, current <- x4, probe <- x5, generation <- x6, command <- x7,
  faults <- x8
Profiles == INSTANCE AuthProfiles WITH
  MaxFaults <- MaxStoreFaults,
  capture <- x1, profile <- x2, handed <- x3, shared <- x4, latest <- x5, faults <- x6, removals <- x7,
  lock <- x8, at <- x9, taken <- x10
Current == INSTANCE CurrentSession WITH
  Own <- OwnSession, Call <- McpCall,
  sessions <- x1, births <- x2, current <- x3, call <- x4, known <- x5, astray <- x6, notice <- x7,
  calls <- x8
Stored == INSTANCE SessionStore WITH
  sessions <- x1, file <- x2, process <- x3, chosen <- x4, commands <- x5

x == <<x1, x2, x3, x4, x5, x6, x7, x8, x9, x10>>

Is(p) == part = p

AllInit ==
  \/ Is("page") /\ Page!Init /\ x7 = None /\ x8 = None /\ x9 = None /\ x10 = None
  \/ Is("tools") /\ Tools!Init /\ x8 = None /\ x9 = None /\ x10 = None
  \/ Is("requests") /\ Requests!Init /\ x9 = None /\ x10 = None
  \/ Is("groups") /\ Groups!Init /\ x10 = None
  \/ Is("agents") /\ Agents!Init /\ x9 = None /\ x10 = None
  \/ Is("issues") /\ Issues!Init /\ x8 = None /\ x9 = None /\ x10 = None
  \/ Is("link") /\ Link!Init /\ x9 = None /\ x10 = None
  \/ Is("profiles") /\ Profiles!Init
  \/ Is("current") /\ Current!Init /\ x9 = None /\ x10 = None
  \/ Is("stored") /\ Stored!Init /\ x6 = None /\ x7 = None /\ x8 = None /\ x9 = None /\ x10 = None

PageMoves == Is("page") /\ Page!Next /\ UNCHANGED <<part, x7, x8, x9, x10>>
ToolsMove == Is("tools") /\ Tools!Next /\ UNCHANGED <<part, x8, x9, x10>>
RequestsMove == Is("requests") /\ Requests!Next /\ UNCHANGED <<part, x9, x10>>
GroupsMove == Is("groups") /\ Groups!Next /\ UNCHANGED <<part, x10>>
AgentsMove == Is("agents") /\ Agents!Next /\ UNCHANGED <<part, x9, x10>>
IssuesMove == Is("issues") /\ Issues!Next /\ UNCHANGED <<part, x8, x9, x10>>
LinkMoves == Is("link") /\ Link!Next /\ UNCHANGED <<part, x9, x10>>
ProfilesMove == Is("profiles") /\ Profiles!Next /\ UNCHANGED part
CurrentMoves == Is("current") /\ Current!Next /\ UNCHANGED <<part, x9, x10>>
StoredMoves == Is("stored") /\ Stored!Next /\ UNCHANGED <<part, x6, x7, x8, x9, x10>>

AllNext ==
  \/ PageMoves \/ ToolsMove \/ RequestsMove \/ GroupsMove
  \/ AgentsMove \/ IssuesMove \/ LinkMoves \/ ProfilesMove
  \/ CurrentMoves \/ StoredMoves
AllSpec == AllInit /\ [][AllNext]_<<part, x>>


-----------------------------------------------------------------------------
(* The properties of the parts.                                             *)

\* SessionPage: the sandbox closes only tabs of its own that hold nothing, the manager's pointer names its
\* default target (checkSessionPage, notifyDefaultTargetChange), and a script is handed the page of the
\* default target, never a stale one (getSessionPage).
ScriptsGetTheSessionPage ==
  /\ [](Is("page") => Page!PageIsTheSessions)
  /\ [][Is("page") => Page!StepHandsOutItsPage]_<<part, x>>
\* WebMcp: an answer reaches the call it belongs to, none is lost, and no call outlives its execute
\* (WebMcpSession.onEvent, settleWebMcp).
CallsAreAnswered == Is("tools") => Tools!CallsAreAnswered
\* WebMcp: the handles a script can call stand for tools the page declares now, and an execute says that
\* they are unchanged only when its caller has been told of them (addTool, removeWhere, report).
ToolsAreCurrent == [][Is("tools") => Tools!StepKeepsToolsCurrent]_<<part, x>>
\* PageRequests: a mutation that is told as refused has not happened, and requests keep to the document
\* of their origin and out of captures (decodeOutcome, runPageRequest, authenticatedJson).
RequestsKeepTheirWord == Is("requests") => Requests!RequestsKeepTheirWord
\* TabGroups: the group of a tab follows its ownership (scheduleTabGrouping).
GroupFollowsOwnership == Is("groups") => Groups!GroupFollowsOwnership
\* DshAdapter: the session in which an agent was answered stays its session (DshSessionMap).
AnsweredSessionIsKept == Is("agents") => Agents!AnsweredSessionIsKept
\* IssueReports: a problem has one report, which counts its calls, and one issue at most
\* (recordIssueReport, submitIssueToGitHub).
ProblemsAreFiledOnce == Is("issues") => Issues!ProblemsAreFiledOnce
\* ExtensionLink: an answer belongs to the generation of its operation, and no browser is left without
\* a connection or a timer that makes one (ExtensionRpc, ensureConnection).
LinkHolds == Is("link") => Link!LinkHolds
\* ExtensionLink: a browser that answers is not replaced by another, and the relay closes its socket only for
\* a failed reconciliation of its own inventory or an invalid frame of its own (acceptExtensionHello, ready).
AnsweringBrowserKeepsTheRelay ==
  [][Is("link") => Link!StepKeepsAnsweringBrowser]_<<part, x>>
\* AuthProfiles: a reference in an artifact keeps standing for its credential (SecretCollector, withLock).
ReferencesKeepTheirCredential == Is("profiles") => Profiles!ReferencesKeepTheirCredential
\* CurrentSession, SessionStore: an execute that makes its agent's session anew says so, and only then, unless
\* another call of the agent was answered meanwhile (execute of the MCP server); and the current session of an
\* endpoint is one of its own (SessionStore).
CurrentSessionsAreTheirs ==
  /\ Is("current") => Current!CurrentSessionIsTheAgents
  /\ Is("stored") => Stored!StoredSessionsAreTheirEndpoints
=============================================================================
