---------------------------- MODULE RelayProcess ----------------------------
(***************************************************************************)
(* The relay as a process (relay-lifecycle.ts, makeRelay in relay.ts,      *)
(* relay-work.ts, http-api.ts).  Commands of different builds, all of one  *)
(* user, share a port and a session catalog: each looks for a relay there, *)
(* starts one when there is none, and has an older one stopped, which      *)
(* finishes what it has accepted before it lets the port go.  A request is *)
(* answered by the relay that holds the port when it arrives; the client   *)
(* acts on the answer later.                                               *)
(***************************************************************************)
EXTENDS Naturals, FiniteSets

CONSTANTS Client,        \* commands, tool calls and library users: one request each
          BuildOf,       \* the build of a client, which is also that of a relay it starts
          Foreground,    \* builds a user serves in the foreground
          Earlier,       \* builds whose relay may be running at first
          Patient,       \* clients that wait for the extension: MCP, the library
          MaxRelay,      \* bound: relay processes at a time
          MaxCrashes,    \* bound: relays that are killed, or whose catalog cannot be loaded or written
          None

Build == [packaged : BOOLEAN, version : Nat, entry : Nat, made : Nat]

ASSUME RelayProcessAssumption ==
  /\ BuildOf \in [Client -> Build] /\ Foreground \subseteq Build /\ Earlier \subseteq Build
  /\ Patient \subseteq Client
  /\ MaxRelay \in Nat \ {0} /\ MaxCrashes \in Nat
  /\ None \notin Nat \cup Client \cup BOOLEAN

VARIABLES
  port,       \* the relay that listens
  relay,      \* the relay processes
  catalog,    \* whether the session is in the catalog on disk
  client,     \* the clients
  extension,  \* the relay the extension is connected to
  crashes

vars == <<port, relay, catalog, client, extension, crashes>>

Relay == 1..MaxRelay

NotStarted == [phase |-> "none", build |-> None, managed |-> FALSE, ready |-> FALSE, session |-> None,
               dirty |-> FALSE, background |-> FALSE, cdp |-> FALSE, askedBy |-> None]
NewClient(want) == [want |-> want, pc |-> "probe", seen |-> None, started |-> FALSE, outcome |-> "none"]
Ended(want, outcome) == [NewClient(want) EXCEPT !.pc = "done", !.outcome = outcome]

Here(c) == client[c].pc \in {"accepted", "saving", "running"}
Accepted(r) == {c \in Client : Here(c) /\ client[c].seen = r}

-----------------------------------------------------------------------------
(***************************************************************************)
(* What the relay that listens answers.                                    *)
(***************************************************************************)
Serving(r) == relay[r].ready /\ relay[r].phase # "closing"

Reached == IF port = None THEN "unreachable" ELSE IF Serving(port) THEN "served" ELSE "starting"

(* Only packaged builds are compared: by version, and at one version by the  *)
(* time the same entrypoint was made.                                       *)
Newer(b, running) ==
  /\ b.packaged /\ running.packaged
  /\ \/ b.version > running.version
     \/ (b.version = running.version /\ b.entry = running.entry /\ b.made > running.made)

MayRestart(c, r) == relay[r].managed /\ Newer(BuildOf[c], relay[r].build)

(* The shutdown names the instance the client has confirmed.                *)
MatchesManaged(r, seen) == relay[r].managed   \* variant
ShutdownMatches(r, seen) == relay[r].managed /\ r = seen

IsAccepting(r) == relay[r].phase = "listening"

(***************************************************************************)
(* The client: ensureRelay, the extension, and the request it came for.    *)
(* Every action is the arrival of a request and what its answer leads to.  *)
(***************************************************************************)
Becomes(c, pc) == client' = [client EXCEPT ![c].pc = pc]
Starts(c) == client' = [client EXCEPT ![c].pc = "start", ![c].seen = None]
Ends(c, outcome) == client' = [client EXCEPT ![c] = Ended(client[c].want, outcome)]

(* A relay that answers is good for the command only if it is its build.    *)
Ensured(c, r) ==
  IF relay[r].build # BuildOf[c] THEN Ends(c, "stale")
  ELSE Becomes(c, IF client[c].want = "execute" THEN "extension" ELSE "request")

Probe(c) ==
  /\ client[c].pc = "probe"
  /\ \/ Reached = "unreachable" /\ Starts(c)
     \/ Reached = "starting" /\ Becomes(c, "waitReady")
     \/ Reached = "served" /\ relay[port].build = BuildOf[c] /\ Ensured(c, port)
     \/ /\ Reached = "served" /\ relay[port].build # BuildOf[c]
        /\ client' = [client EXCEPT ![c].pc = "confirm", ![c].seen = port]
  /\ UNCHANGED <<port, relay, catalog, extension, crashes>>

(* prepareStaleRelayRestart.                                                *)
Confirm(c) ==
  /\ client[c].pc = "confirm"
  /\ \/ Reached = "unreachable" /\ Becomes(c, "waitExit")
     \/ Reached = "starting" /\ Ends(c, "failed")
     \/ Reached = "served" /\ port # client[c].seen /\ Ensured(c, port)
     \/ /\ Reached = "served" /\ port = client[c].seen
        /\ IF MayRestart(c, port) THEN Becomes(c, "shutdown") ELSE Ends(c, "stale")
  /\ UNCHANGED <<port, relay, catalog, extension, crashes>>

Shutdown(c) ==
  /\ client[c].pc = "shutdown"
  /\ \/ Reached = "starting" /\ Ends(c, "failed") /\ UNCHANGED relay
     \/ /\ Reached # "starting" /\ Becomes(c, "waitExit")
        /\ IF Reached = "served" /\ ShutdownMatches(port, client[c].seen) /\ relay[port].askedBy = None
           THEN relay' = [relay EXCEPT ![port].askedBy = c] ELSE UNCHANGED relay
  /\ UNCHANGED <<port, catalog, extension, crashes>>

WaitForExit(c) ==
  /\ client[c].pc = "waitExit"
  /\ \/ Reached = "unreachable" /\ Starts(c)
     \/ Reached = "served" /\ port # client[c].seen /\ Ensured(c, port)
  /\ UNCHANGED <<port, relay, catalog, extension, crashes>>

(* startManagedRelay: a detached process of the client's build.             *)
Unused(r) == relay[r].phase = "none" /\ \A c \in Client : client[c].seen # r
Spawn(b, managed, r) ==
  /\ Unused(r) /\ \A q \in 1..(r - 1) : ~ Unused(q)
  /\ relay' = [relay EXCEPT ![r].phase = "spawned", ![r].build = b, ![r].managed = managed]

Start(c) ==
  /\ client[c].pc = "start"
  /\ \E r \in Relay : Spawn(BuildOf[c], TRUE, r)
  /\ client' = [client EXCEPT ![c].pc = "waitReady", ![c].started = TRUE]
  /\ UNCHANGED <<port, catalog, extension, crashes>>

WaitForReady(c) ==
  /\ client[c].pc = "waitReady"
  /\ Reached = "served" /\ Ensured(c, port)
  /\ UNCHANGED <<port, relay, catalog, extension, crashes>>

(* ensureExtensionConnected: the command line waits only for a relay it has *)
(* started.                                                                *)
CheckExtension(c) ==
  /\ client[c].pc = "extension"
  /\ \/ Reached = "served" /\ extension = port /\ Becomes(c, "request")
     \/ /\ Reached # "served" \/ extension # port
        /\ c \notin Patient /\ ~ client[c].started
        /\ Ends(c, "failed")
  /\ UNCHANGED <<port, relay, catalog, extension, crashes>>

(* The retries of whatever the client waits for have run out.               *)
GivesUp(c) ==
  /\ \/ /\ client[c].pc = "waitExit" /\ Reached # "unreachable"
        /\ ~ (Reached = "served" /\ port # client[c].seen)
     \/ client[c].pc = "waitReady" /\ Reached # "served"
     \/ client[c].pc = "extension" /\ ~ (Reached = "served" /\ extension = port)
  /\ Ends(c, "failed")
  /\ UNCHANGED <<port, relay, catalog, extension, crashes>>

Request(c) ==
  /\ client[c].pc = "request"
  /\ \/ Reached # "served" /\ Ends(c, "failed")
     \/ Reached = "served" /\ ~ IsAccepting(port) /\ Ends(c, "refused")
     \/ /\ Reached = "served" /\ IsAccepting(port)
        /\ client' = [client EXCEPT ![c].pc = "accepted", ![c].seen = port]
  /\ UNCHANGED <<port, relay, catalog, extension, crashes>>

-----------------------------------------------------------------------------
(***************************************************************************)
(* Accepted requests (http-api.ts, session-manager.ts).  A change of the    *)
(* sessions is on disk before it is answered.                               *)
(***************************************************************************)
Handle(c) ==
  LET r == client[c].seen
      wanted == client[c].want # "delete" IN
  /\ client[c].pc = "accepted"
  /\ IF client[c].want # "execute" /\ relay[r].session = wanted
     THEN Ends(c, "unchanged") /\ UNCHANGED relay
     ELSE /\ Becomes(c, IF client[c].want = "execute" THEN "running" ELSE "saving")
          /\ relay' = [relay EXCEPT ![r].session = wanted, ![r].dirty = @ \/ relay[r].session # wanted]
  /\ UNCHANGED <<port, catalog, extension, crashes>>

Save(r) ==
  /\ relay[r].dirty
  /\ catalog' = relay[r].session
  /\ relay' = [relay EXCEPT ![r].dirty = FALSE]
  /\ UNCHANGED <<port, client, extension, crashes>>

Saved(c) ==
  /\ client[c].pc = "saving" /\ ~ relay[client[c].seen].dirty
  /\ Ends(c, "ok")
  /\ UNCHANGED <<port, relay, catalog, extension, crashes>>

Finish(c) ==
  /\ client[c].pc = "running"
  /\ Becomes(c, "saving")
  /\ UNCHANGED <<port, relay, catalog, extension, crashes>>

(* The client goes away: its request is aborted, the script it started is    *)
(* not.                                                                     *)
Leaves(c) ==
  /\ client[c].pc = "running"
  /\ Ends(c, "left")
  /\ relay' = [relay EXCEPT ![client[c].seen].background = TRUE]
  /\ UNCHANGED <<port, catalog, extension, crashes>>

BackgroundEnds(r) ==
  /\ relay[r].background
  /\ relay' = [relay EXCEPT ![r].background = FALSE]
  /\ UNCHANGED <<port, catalog, client, extension, crashes>>

HasPendingWork(r) ==
  relay[r].background \/ \E c \in Accepted(r) : client[c].pc = "running"

(* A client of the browser sends a command; a script's are continuations of  *)
(* accepted work and are tracked although the relay drains.                  *)
CdpMessage(r) ==
  /\ relay[r].ready /\ port = r /\ ~ relay[r].cdp
  /\ relay[r].phase # "closing"
  /\ IsAccepting(r) \/ HasPendingWork(r)
  /\ relay' = [relay EXCEPT ![r].cdp = TRUE]
  /\ UNCHANGED <<port, catalog, client, extension, crashes>>

CdpAnswer(r) ==
  /\ relay[r].cdp
  /\ relay' = [relay EXCEPT ![r].cdp = FALSE]
  /\ UNCHANGED <<port, catalog, client, extension, crashes>>

-----------------------------------------------------------------------------
(***************************************************************************)
(* The process: makeRelay and cleanup.                                      *)
(***************************************************************************)
Phase(r, phase) == relay' = [relay EXCEPT ![r].phase = phase]

Serve ==
  /\ \E b \in Foreground, r \in Relay : Spawn(b, FALSE, r)
  /\ UNCHANGED <<port, catalog, client, extension, crashes>>

Listen(r) ==
  /\ relay[r].phase = "spawned"
  /\ IF port = None THEN port' = r /\ Phase(r, "listening")
     ELSE relay' = [relay EXCEPT ![r] = NotStarted] /\ UNCHANGED port
  /\ UNCHANGED <<catalog, client, extension, crashes>>

MayLoadEarly(r) == relay[r].phase \in {"spawned", "listening"}   \* variant
MayLoad(r) == relay[r].phase = "listening"

Load(r) ==
  /\ MayLoad(r) /\ relay[r].session = None
  /\ relay' = [relay EXCEPT ![r].session = catalog]
  /\ UNCHANGED <<port, catalog, client, extension, crashes>>

BecomeReady(r) ==
  /\ relay[r].phase = "listening" /\ relay[r].session # None /\ ~ relay[r].ready
  /\ relay' = [relay EXCEPT ![r].ready = TRUE]
  /\ UNCHANGED <<port, catalog, client, extension, crashes>>

(* The catalog cannot be read or restored: the relay cleans up.              *)
FailedStaysUp(r) == "failed"   \* variant
FailedGoes(r) == "draining"

LoadFails(r) ==
  /\ crashes < MaxCrashes /\ crashes' = crashes + 1
  /\ relay[r].phase = "listening" /\ ~ relay[r].ready
  /\ relay' = [relay EXCEPT ![r].phase = FailedGoes(r)]
  /\ UNCHANGED <<port, catalog, client, extension>>

(* cleanup, on a shutdown or when a user stops a relay in the foreground.    *)
StopAdmission(r) ==
  /\ relay[r].phase = "listening" /\ relay[r].ready
  /\ relay[r].askedBy # None \/ ~ relay[r].managed
  /\ Phase(r, "draining")
  /\ UNCHANGED <<port, catalog, client, extension, crashes>>

TransportIsIdle(r) == Accepted(r) = {} /\ ~ relay[r].cdp

BeginDrain(r) ==
  /\ relay[r].phase = "draining" /\ TransportIsIdle(r)
  /\ Phase(r, "flushing")
  /\ UNCHANGED <<port, catalog, client, extension, crashes>>

Drained(r) ==
  /\ relay[r].phase = "flushing" /\ ~ relay[r].background /\ ~ relay[r].dirty
  /\ Phase(r, "settling")
  /\ UNCHANGED <<port, catalog, client, extension, crashes>>

(* The last write fails: cleanup goes on, and what no client has been told is *)
(* lost.                                                                    *)
DrainFails(r) ==
  /\ crashes < MaxCrashes /\ crashes' = crashes + 1
  /\ relay[r].phase = "flushing" /\ ~ relay[r].background /\ relay[r].dirty
  /\ relay' = [relay EXCEPT ![r].phase = "settling", ![r].dirty = FALSE]
  /\ UNCHANGED <<port, catalog, client, extension>>

AnyTransport(r) == TRUE   \* variant: only the first of the two waits
LastTransportIsIdle(r) == TransportIsIdle(r)

Close(r) ==
  /\ relay[r].phase = "settling" /\ LastTransportIsIdle(r)
  /\ Phase(r, "closing")
  /\ extension' = IF extension = r THEN None ELSE extension
  /\ UNCHANGED <<port, catalog, client, crashes>>

FreePort(r) ==
  /\ relay[r].phase = "closing"
  /\ relay' = [relay EXCEPT ![r] = NotStarted] /\ port' = None
  /\ UNCHANGED <<catalog, client, extension, crashes>>

Crash(r) ==
  /\ crashes < MaxCrashes /\ crashes' = crashes + 1
  /\ relay[r].phase # "none"
  /\ relay' = [relay EXCEPT ![r] = NotStarted]
  /\ port' = IF port = r THEN None ELSE port
  /\ extension' = IF extension = r THEN None ELSE extension
  /\ client' = [c \in Client |-> IF c \in Accepted(r) THEN Ended(client[c].want, "unknown") ELSE client[c]]
  /\ UNCHANGED catalog

(* The extension's alarm connects it to the relay of the port.               *)
ExtensionConnects ==
  /\ Reached = "served" /\ extension # port
  /\ extension' = port
  /\ UNCHANGED <<port, relay, catalog, client, crashes>>

-----------------------------------------------------------------------------
Running(b) == [NotStarted EXCEPT !.phase = "listening", !.build = b, !.managed = TRUE,
                                 !.ready = TRUE, !.session = catalog]

Init ==
  /\ catalog \in BOOLEAN
  /\ \/ port = None /\ relay = [r \in Relay |-> NotStarted]
     \/ \E b \in Earlier : port = 1 /\ relay = [r \in Relay |-> IF r = 1 THEN Running(b) ELSE NotStarted]
  /\ \E want \in [Client -> {"new", "execute", "delete"}] : client = [c \in Client |-> NewClient(want[c])]
  /\ extension = None
  /\ crashes = 0

ClientStep(c) ==
  \/ Probe(c) \/ Confirm(c) \/ Shutdown(c) \/ WaitForExit(c) \/ Start(c)
  \/ WaitForReady(c) \/ CheckExtension(c) \/ GivesUp(c) \/ Request(c) \/ Leaves(c)

Work(c) == Handle(c) \/ Saved(c) \/ Finish(c)

Process(r) ==
  \/ Listen(r) \/ Load(r) \/ BecomeReady(r) \/ BeginDrain(r) \/ Drained(r) \/ Close(r)
  \/ FreePort(r)

Asked(r) == relay[r].askedBy # None /\ StopAdmission(r)

(* Nothing left to do: every client has ended, or the bound on relays is    *)
(* reached.                                                                *)
Over ==
  /\ \/ \A c \in Client : client[c].pc = "done"
     \/ \A r \in Relay : ~ Unused(r)
  /\ UNCHANGED vars

Next ==
  \/ \E c \in Client : ClientStep(c) \/ Work(c)
  \/ \E r \in Relay : \/ Process(r) \/ Save(r) \/ BackgroundEnds(r) \/ CdpAnswer(r) \/ StopAdmission(r)
                      \/ CdpMessage(r) \/ LoadFails(r) \/ DrainFails(r) \/ Crash(r)
  \/ Serve \/ ExtensionConnects \/ Over

Spec == Init /\ [][Next]_vars

(* A process takes its steps; a handler, a script and a command of the       *)
(* browser end.                                                             *)
FairSpec ==
  /\ Spec
  /\ \A r \in Relay :
       /\ WF_vars(Process(r)) /\ WF_vars(Asked(r)) /\ WF_vars(Save(r))
       /\ WF_vars(BackgroundEnds(r)) /\ WF_vars(CdpAnswer(r))
  /\ \A c \in Client : WF_vars(Work(c))

-----------------------------------------------------------------------------
(* A session that a client was told of is on disk until someone deletes it,  *)
(* and one it was told is deleted is not, whichever relays have taken over   *)
(* or crashed in between.                                                    *)
ToldOf(c) == client[c].outcome = "ok"
Undone(c) ==
  \E d \in Client \ {c} : /\ client[d].outcome \in {"ok", "left", "unknown"} \/ Here(d)
                          /\ (client[d].want = "delete") # (client[c].want = "delete")

ReportedSessionsSurvive ==
  \A c \in Client : ToldOf(c) /\ ~ Undone(c) =>
    /\ catalog = (client[c].want # "delete")
    /\ port # None => (Serving(port) => relay[port].session = catalog)

(* "Replacement waits for already accepted browser and recording cleanup     *)
(* work" (skills/browserrig/SKILL.md): a relay that closes has none left.    *)
AcceptedWorkIsFinished ==
  \A r \in Relay : relay[r].phase = "closing" =>
    Accepted(r) = {} /\ ~ relay[r].background /\ ~ relay[r].cdp /\ ~ relay[r].dirty

(* A client stops no relay but a managed one of an older build than its own, *)
(* even when the relay it confirmed is replaced before its shutdown arrives. *)
OnlyOlderRelaysStop ==
  \A r \in Relay : relay[r].askedBy # None =>
    relay[r].managed /\ Newer(BuildOf[relay[r].askedBy], relay[r].build)

(* The port is never held for ever by a relay that does not serve.           *)
PortIsUsable == (port # None) ~> (port = None \/ (relay[port].ready /\ relay[port].phase = "listening"))

=============================================================================
