--------------------------- MODULE ExtensionLink ---------------------------
(***************************************************************************)
(* The web socket between the extensions of browsers and the relay, which       *)
(* serves one at a time (acceptExtensionHello of src/src/relay.ts, ExtensionRpc of   *)
(* src/src/extension-rpc.ts, the connection of extension/src/background.ts).        *)
(*                                                                         *)
(* A browser's service worker may die and wake, its network may stop answering       *)
(* (deaf), and a relay that wants a socket closed hears of the end later.  Frames of   *)
(* one socket arrive in their order.  The tabs behind the socket are in                *)
(* RootLifecycle.                                                          *)
(***************************************************************************)
EXTENDS Naturals, FiniteSets

CONSTANTS Browser,      \* browsers or profiles with the extension
          Compatible,   \* those whose extension speaks the relay's protocol
          Command,      \* commands of the relay's operations
          MaxSockets, MaxAwake, MaxFaults,   \* bounds: sockets made; browsers awake at a time; faults
          None

VARIABLES
  worker,    \* the service worker of a browser: awake, its variable socket, its reconnect timer
  deaf,      \* browsers whose end of the connection does not answer
  socket,    \* a socket: its owner, its state at both ends, whether its hello was taken, its tabs announced and
             \* the inventory of them settled, and whether a frame of a recording on its way is invalid
  current, probe, generation,   \* ExtensionRpc.socket, .livenessProbe; extensionGeneration
  command,   \* a command: whether it reconciles the inventory or is of an operation, the generation it
             \* wants, the socket it went out on
  faults

vars == <<worker, deaf, socket, current, probe, generation, command, faults>>
relayVars == <<current, probe, generation, command>>

Socket == 1 .. MaxSockets
NoSocket == [owner |-> None, ext |-> "none", relay |-> "none",
             hello |-> FALSE, announced |-> FALSE, settled |-> FALSE, invalid |-> FALSE, generation |-> 0]
Asleep == [awake |-> FALSE, socket |-> 0, timer |-> FALSE]
NewCommand == [pc |-> "idle", inventory |-> FALSE, generation |-> 0, socket |-> 0]

Faulty == faults < MaxFaults /\ faults' = faults + 1
Owner(s) == socket[s].owner
\* a socket that is over at both ends
Over(r) == r.ext = "closed" /\ r.relay \in {"none", "closed"}
Forgotten(r) == IF Over(r) THEN [NoSocket EXCEPT !.ext = "closed", !.relay = "closed", !.generation = r.generation] ELSE r
Made == {s \in Socket : socket[s].ext # "none"}

-----------------------------------------------------------------------------
(* The extension.                                                           *)

\* ensureConnection, by the timer, the alarm, a message or the start of the worker: nothing is
\* started while the socket is open or connecting.
Starts(b, s) ==
  /\ socket' = [socket EXCEPT ![s] = [NoSocket EXCEPT !.owner = b, !.ext = "connecting"]]
  /\ worker' = [worker EXCEPT ![b] = [awake |-> TRUE, socket |-> s, timer |-> FALSE]]

HasSocket(b) == worker[b].socket # 0 /\ socket[worker[b].socket].ext \in {"connecting", "open"}

EnsureConnection(b) ==
  /\ ~ HasSocket(b) /\ Cardinality({a \in Browser : worker[a].awake /\ a # b}) < MaxAwake
  /\ Cardinality(Made) < MaxSockets /\ Starts(b, Cardinality(Made) + 1)
  /\ UNCHANGED <<deaf, relayVars, faults>>

\* onopen: hello goes out at once
OnOpen(s) ==
  /\ socket[s].ext = "connecting" /\ Owner(s) \notin deaf
  /\ socket' = [socket EXCEPT ![s].ext = "open", ![s].relay = "open"]
  /\ UNCHANGED <<worker, deaf, relayVars, faults>>

\* then the tabs are announced, and ready follows
Announced(s) ==
  /\ socket[s].ext = "open" /\ ~ socket[s].announced
  /\ socket' = [socket EXCEPT ![s].announced = TRUE]
  /\ UNCHANGED <<worker, deaf, relayVars, faults>>

\* the announcement fails, or the connection is not made in five seconds: the worker closes it
CloseByWorker(s) ==
  /\ Faulty
  /\ \/ socket[s].ext = "connecting"
     \/ socket[s].ext = "open" /\ ~ socket[s].announced /\ worker[Owner(s)].socket = s
  /\ socket' = [socket EXCEPT ![s].ext = "closing"]
  /\ UNCHANGED <<worker, deaf, relayVars>>

Unlinked(w) == [w EXCEPT !.socket = 0, !.timer = TRUE]

\* onclose: only the latest socket asks for another
OnClose(s) ==
  /\ \/ socket[s].ext = "closing"
     \/ socket[s].ext = "open" /\ socket[s].relay \in {"closing", "closed"} /\ Owner(s) \notin deaf
  /\ socket' = [socket EXCEPT ![s] = Forgotten([@ EXCEPT !.ext = "closed"])]
  /\ worker' = [worker EXCEPT ![Owner(s)] = IF @.socket = s THEN Unlinked(@) ELSE @]
  /\ UNCHANGED <<deaf, relayVars, faults>>

\* the service worker is ended; its sockets go with it, its alarm stays
WorkerDies(b) ==
  /\ worker[b].awake /\ Faulty
  /\ worker' = [worker EXCEPT ![b] = Asleep]
  /\ socket' = [s \in Socket |-> IF s \in Made /\ Owner(s) = b THEN Forgotten([socket[s] EXCEPT !.ext = "closed"]) ELSE socket[s]]
  /\ UNCHANGED <<deaf, relayVars>>

\* the frame of a recording that leaves the browser is not one
InvalidFrame(s) ==
  /\ socket[s].ext = "open" /\ Owner(s) \notin deaf /\ Faulty
  /\ socket' = [socket EXCEPT ![s].invalid = TRUE]
  /\ UNCHANGED <<worker, deaf, relayVars>>

Silence(b) == /\ b \notin deaf /\ Faulty /\ deaf' = deaf \cup {b}
              /\ UNCHANGED <<worker, socket, relayVars>>
Hears(b) == /\ b \in deaf /\ deaf' = deaf \ {b}
            /\ UNCHANGED <<worker, socket, relayVars, faults>>

-----------------------------------------------------------------------------
(* ExtensionRpc.                                                            *)
IsOpen(s) == s # 0 /\ socket[s].relay = "open"
AcceptsEvents == IsOpen(current) /\ Owner(current) \in Compatible

\* rejectPending
Rejected == [c \in Command |-> IF command[c].pc = "pending" THEN [command[c] EXCEPT !.pc = "failed"] ELSE command[c]]

\* probeLiveness: one probe at a time, and only on an open socket
Probed(s) == IF s # 0 /\ s = current /\ IsOpen(s) /\ probe = 0 THEN s ELSE probe

Pong == /\ probe # 0 /\ socket[probe].ext = "open" /\ Owner(probe) \notin deaf
        /\ probe' = 0 /\ UNCHANGED <<worker, deaf, socket, current, generation, command, faults>>

\* a browser that answers does so within the ten seconds
ProbeTimesOut ==
  /\ probe # 0 /\ (socket[probe].ext # "open" \/ Owner(probe) \in deaf)
  /\ socket' = [socket EXCEPT ![probe].relay = IF @ = "open" THEN "closing" ELSE @]
  /\ probe' = 0 /\ UNCHANGED <<worker, deaf, current, generation, command, faults>>

-----------------------------------------------------------------------------
(* acceptExtensionHello and the frames after it.                            *)

NoIncumbent(s) == FALSE   \* variant
\* a compatible browser that is connected stays; the newcomer makes the relay probe it
Contended(s) == AcceptsEvents /\ current # s
Outdated(s) == current # 0 /\ Owner(s) \notin Compatible /\ Owner(current) \in Compatible

Hello(s) ==
  /\ ~ socket[s].hello /\ socket[s].relay = "open" /\ Owner(s) \notin deaf
  /\ IF Outdated(s) \/ Contended(s)
     THEN /\ socket' = [socket EXCEPT ![s].hello = TRUE, ![s].relay = "closing"]
          /\ probe' = IF Outdated(s) THEN probe ELSE Probed(current)
          /\ UNCHANGED <<current, generation, command>>
     ELSE /\ socket' = [t \in Socket |->
               IF t = s THEN [socket[s] EXCEPT !.hello = TRUE, !.generation = generation + 1]
               ELSE IF t = current /\ IsOpen(t) THEN [socket[t] EXCEPT !.relay = "closing"]   \* 4001
               ELSE socket[t]]
          /\ current' = s /\ generation' = generation + 1 /\ probe' = 0
          /\ command' = Rejected
  /\ UNCHANGED <<worker, deaf, faults>>

\* the relay's end of a socket is over: at once, or when a close it asked for is not confirmed;
\* disconnectIfCurrent
Disconnect(s) ==
  /\ socket[s].relay \in {"open", "closing"}
  /\ \/ socket[s].relay = "closing"
     \/ socket[s].ext \in {"closing", "closed"} /\ Owner(s) \notin deaf
  /\ socket' = [socket EXCEPT ![s] = Forgotten([@ EXCEPT !.relay = "closed"])]
  /\ IF s = current THEN current' = 0 /\ probe' = 0 /\ command' = Rejected
     ELSE UNCHANGED <<current, probe, command>>
  /\ UNCHANGED <<worker, deaf, generation, faults>>

\* frames of a socket that was replaced or refused are left unread
Reads(s) == s = current /\ AcceptsEvents

-----------------------------------------------------------------------------
(* sendToExtensionAtGeneration: what a command is for belongs to one generation.    *)
AnyGeneration(c) == TRUE   \* variant
AtGeneration(c) == command[c].generation = generation

\* An operation, or the reconciliation of a root that the browser announces (queueRootReconciliation,
\* its last try): those of the inventory are the ones before the browser is ready.
Begin(c, inventory) ==
  /\ command[c].pc = "idle" /\ current # 0
  /\ inventory => AcceptsEvents /\ ~ socket[current].settled
  /\ command' = [command EXCEPT ![c] = [pc |-> "started", inventory |-> inventory, generation |-> generation, socket |-> 0]]
  /\ UNCHANGED <<worker, deaf, socket, current, probe, generation, faults>>

To(c, pc) == command' = [command EXCEPT ![c].pc = pc]

Send(c) == /\ command[c].pc = "started"
           /\ IF AtGeneration(c) /\ AcceptsEvents
              THEN command' = [command EXCEPT ![c].pc = "pending", ![c].socket = current]
              ELSE To(c, "failed")
           /\ UNCHANGED <<worker, deaf, socket, current, probe, generation, faults>>

\* the answer of an open socket: the operation goes on with it if its browser is still the one
Answer(c) == /\ command[c].pc = "pending" /\ Owner(command[c].socket) \notin deaf
             /\ socket[command[c].socket].ext = "open" /\ Reads(command[c].socket)
             /\ To(c, "answered")
             /\ UNCHANGED <<worker, deaf, socket, current, probe, generation, faults>>

Resume(c) == /\ command[c].pc = "answered"
             /\ To(c, IF AtGeneration(c) /\ AcceptsEvents THEN "done" ELSE "failed")
             /\ UNCHANGED <<worker, deaf, socket, current, probe, generation, faults>>

\* the browser refuses a command
Refuse(c) == /\ command[c].pc = "pending" /\ Owner(command[c].socket) \notin deaf
             /\ socket[command[c].socket].ext = "open" /\ Reads(command[c].socket) /\ Faulty
             /\ To(c, "failed")
             /\ UNCHANGED <<worker, deaf, socket, current, probe, generation>>

\* a command that is not answered fails alone; its socket is probed
TimesOut(c) == /\ command[c].pc = "pending" /\ Faulty
               /\ To(c, "failed") /\ probe' = Probed(command[c].socket)
               /\ UNCHANGED <<worker, deaf, socket, current, generation>>

-----------------------------------------------------------------------------
(* What the relay itself closes the socket of a browser for.                  *)

\* the reconciliations of the inventory of generation g that are under way, and those that failed
Reconciling(g) == {c \in Command : command[c].inventory /\ command[c].generation = g
                                   /\ command[c].pc \in {"started", "pending", "answered"}}
FailedReconciliations(g) == {c \in Command : command[c].inventory /\ command[c].generation = g /\ command[c].pc = "failed"}

ClosesAt(s) == [socket EXCEPT ![s].relay = IF @ = "open" THEN "closing" ELSE @]

\* ready: once nothing is reconciled any more, the browser is ready, or its socket closed (1011)
Settle(s) ==
  /\ s = current /\ Owner(s) \in Compatible /\ socket[s].announced /\ ~ socket[s].settled
  /\ Reconciling(generation) = {}
  /\ IF FailedReconciliations(generation) = {} THEN socket' = [socket EXCEPT ![s].settled = TRUE]
     ELSE IsOpen(s) /\ socket' = ClosesAt(s)
  /\ UNCHANGED <<worker, deaf, relayVars, faults>>

\* an invalid frame of a recording closes it too (1002)
ReadInvalidFrame(s) ==
  /\ socket[s].invalid /\ Reads(s)
  /\ socket' = ClosesAt(s)
  /\ UNCHANGED <<worker, deaf, relayVars, faults>>

-----------------------------------------------------------------------------
Init == /\ worker = [b \in Browser |-> Asleep] /\ deaf = {} /\ socket = [s \in Socket |-> NoSocket]
        /\ current = 0 /\ probe = 0 /\ generation = 0
        /\ command = [c \in Command |-> NewCommand] /\ faults = 0

Next == \/ \E b \in Browser : EnsureConnection(b) \/ WorkerDies(b) \/ Silence(b) \/ Hears(b)
        \/ \E s \in Socket : OnOpen(s) \/ Announced(s) \/ CloseByWorker(s) \/ InvalidFrame(s) \/ OnClose(s)
                             \/ Hello(s) \/ Disconnect(s) \/ Settle(s) \/ ReadInvalidFrame(s)
        \/ \E c \in Command : \/ \E inventory \in BOOLEAN : Begin(c, inventory)
                              \/ Send(c) \/ Answer(c) \/ Refuse(c) \/ Resume(c) \/ TimesOut(c)
        \/ Pong \/ ProbeTimesOut

Spec == Init /\ [][Next]_vars

-----------------------------------------------------------------------------
\* A compatible browser that answers keeps the relay whatever other browsers, failing operations and
\* probes do.  It loses it to two things of its own only: a reconciliation of the inventory of this very
\* connection failed before it was ready, or a frame of a recording it sent is invalid.
Answering(s) == socket[s].ext = "open" /\ Owner(s) \notin deaf
InventoryFailed(s) ==
  ~ socket[s].settled
  /\ \E c \in Command : command[c].inventory /\ command[c].pc = "failed" /\ command[c].generation = socket[s].generation

StepKeepsAnsweringBrowser ==
  AcceptsEvents /\ Answering(current) =>
    /\ current' = current
    /\ socket'[current].relay = "open" \/ InventoryFailed(current) \/ socket[current].invalid
AnsweringBrowserKeepsTheRelay == [][StepKeepsAnsweringBrowser]_vars

\* A command waits only on the socket that serves the relay, and it succeeds only with the answer
\* of the browser its operation started with.
CommandsStayOnTheirSocket ==
  \A c \in Command :
    /\ command[c].pc = "pending" => current # 0 /\ command[c].socket = current
    /\ command[c].pc \in {"answered", "done"} => socket[command[c].socket].generation = command[c].generation

\* A worker that is awake has a socket under way or a timer that will make one.
NobodyIsStranded ==
  \A b \in Browser : worker[b].awake =>
    worker[b].timer \/ (worker[b].socket # 0 /\ socket[worker[b].socket].ext # "closed")

LinkHolds == CommandsStayOnTheirSocket /\ NobodyIsStranded

-----------------------------------------------------------------------------
(* Why LinkHolds is always true: the states that the steps above can reach.   *)

WorkerRecord == [awake : BOOLEAN, socket : {0} \cup Socket, timer : BOOLEAN]
SocketRecord ==
  [owner : Browser \cup {None}, ext : {"none", "connecting", "open", "closing", "closed"},
   relay : {"none", "open", "closing", "closed"}, hello : BOOLEAN, announced : BOOLEAN,
   settled : BOOLEAN, invalid : BOOLEAN, generation : Nat]
CommandRecord ==
  [pc : {"idle", "started", "pending", "answered", "done", "failed"},
   inventory : BOOLEAN, generation : Nat, socket : {0} \cup Socket]

TypeOK ==
  /\ worker \in [Browser -> WorkerRecord] /\ deaf \subseteq Browser
  /\ socket \in [Socket -> SocketRecord] /\ command \in [Command -> CommandRecord]
  /\ current \in {0} \cup Socket /\ probe \in {0} \cup Socket /\ generation \in Nat /\ faults \in Nat

\* Sockets are made in the order of their numbers, and one that is not open yet has said nothing.
SocketsInOrder == \E n \in 0 .. MaxSockets : Made = 1 .. n
NothingBeforeOpening ==
  \A s \in Socket :
    /\ socket[s].ext \in {"none", "connecting"} => socket[s].relay = "none"
    /\ socket[s].relay = "none" => ~ socket[s].hello

\* The socket of a worker is its own and not over; one whose hello was taken serves the relay.
WorkersOwnTheirSocket ==
  \A b \in Browser : worker[b].socket # 0 =>
    Owner(worker[b].socket) = b /\ socket[worker[b].socket].ext \in {"connecting", "open", "closing"}
CurrentIsGreeted ==
  current # 0 =>
    /\ socket[current].hello /\ socket[current].relay \in {"open", "closing"}
    /\ socket[current].generation = generation

\* What a command was sent on is past its hello, so that its generation does not change any more.
Greeted(s) == s # 0 /\ s \in Made /\ (socket[s].hello \/ socket[s].relay = "closed")
CommandsKeepTheirGeneration ==
  \A c \in Command :
    /\ command[c].pc = "pending" => command[c].generation = generation
    /\ command[c].pc \in {"answered", "done"} => Greeted(command[c].socket)

LinkInv ==
  /\ TypeOK /\ SocketsInOrder /\ NothingBeforeOpening /\ WorkersOwnTheirSocket /\ CurrentIsGreeted
  /\ CommandsKeepTheirGeneration /\ LinkHolds
=============================================================================
