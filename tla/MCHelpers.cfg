\* Bounds: a user tab, two fresh targets, two connections and two operations of a page; two calls
\* and two executes for the tools of a page with three frames; a mutation and a read; two connections
\* of a tab in a group; three calls of two agents, each in a process of its own; three reports of two
\* problems; three browsers, one of them incompatible, two of them awake at a time, and three sockets; two captures that see up to
\* two credentials each; three calls of the tools of an agent's server; three commands, two at a time, and two endpoints.
SPECIFICATION AllSpec
CONSTANTS
  None = None
  Target = {u, t1, t2}
  UserTab = {u}
  MaxConn = 2
  MaxDoc = 1
  MaxOp = 2
  Frame = {main, sub, iframe}
  Main = main
  sub = sub
  Iframe = iframe
  Parent <- ParentOfFrame
  ToolCall = {c1, c2}
  MaxTools = 2
  MaxEarly = 2
  MaxRegistrations = 3
  MaxEvents = 2
  MaxRuns = 2
  mutation = mutation
  reading = reading
  Request = {mutation, reading}
  MutationOf <- MutationOfRequest
  SensitiveOf <- MutationOfRequest
  StartOf <- StartOfRequest
  Nobody = Nobody
  MaxMoves = 4
  MaxGenerations = 2
  MaxChoices = 3
  agent1 = agent1
  agent2 = agent2
  a3 = a3
  AgentKey = {agent1, agent2}
  AgentCall = {a1, a2, a3}
  KeyOf <- KeyOfCall
  ProcessOf <- ProcessOfKey
  MaxSessions = 3
  MaxAgentFaults = 3
  failure = failure
  bug = bug
  leak = leak
  Filing = {failure, bug, leak}
  ClassOf <- ClassOfReport
  AutoOf <- AutoOfReport
  MaxReportFaults = 1
  Browser = {b1, b2, b3}
  Compatible = {b1, b2}
  LinkCommand = {command1}
  MaxSockets = 3
  MaxAwake = 2
  MaxLinkFaults = 1
  Capture = {n1, n2}
  Source = {header, field}
  Value = {v1, v2}
  MaxSeen = 2
  MaxStoreFaults = 1
  MaxRemovals = 1
  Session = {s1, s2}
  OwnSession = s1
  McpCall = {k1, k2}
  MaxCalls = 3
  MaxBirths = 2
  Endpoint = {e1, e2}
  Default = e1
  Process = {p1, p2}
  MaxCommands = 3
INVARIANTS
  CallsAreAnswered
  RequestsKeepTheirWord
  GroupFollowsOwnership
  AnsweredSessionIsKept
  ProblemsAreFiledOnce
  LinkHolds
  ReferencesKeepTheirCredential
  CurrentSessionsAreTheirs
PROPERTIES
  ScriptsGetTheSessionPage
  ToolsAreCurrent
  AnsweringBrowserKeepsTheRelay
SYMMETRY Symmetry
CHECK_DEADLOCK FALSE
