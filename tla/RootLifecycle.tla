---------------------------- MODULE RootLifecycle ----------------------------
(***************************************************************************)
(* How the relay (src/relay.ts) keeps its root targets in step with the     *)
(* tabs to which the extension has attached its debugger: the handshake of  *)
(* a connection (hello, inventory, ready), the reconciliation worker of a   *)
(* tab, the attachment of pages by clients and by the user, and what        *)
(* detaches them, over one socket whose messages arrive in order.           *)
(*                                                                         *)
(* A call is one of: the worker of a tab, the creation of a page for a      *)
(* client, the attachment of the active tab, a toolbar toggle.  Calls run   *)
(* between two messages; a call that can take its tab's semaphore does so   *)
(* before the next message (Quiet).  Commands that follow one another       *)
(* without a decision are one exchange.                                     *)
(***************************************************************************)
EXTENDS Naturals, Sequences, FiniteSets

CONSTANTS Tab, Call,
          MaxPage,      \* bound on the target ids one tab goes through
          MaxEvents,    \* bound on browser events, client requests and lost connections
          MaxFailures,  \* bound on commands that time out or fail for no lasting reason
          None, Closed

VARIABLES
  page,        \* browser: target id of the tab's page; 0 before it is opened, Closed after
  debugged,    \* browser: tabs the extension's debugger is attached to
  steady,      \* history: tabs of the last inventory it has been attached to ever since
  link,        \* extension: its side of the handshake
  snapshot,    \* extension: the attached tabs it is about to announce
  inbox,       \* messages on their way to the relay
  socket,      \* relay: the current extension socket
  ready,       \* relay: extensionRpc.ready
  settling,    \* relay: a ready message that waits for the workers
  announced,   \* relay: announcedRootTabIds of the current socket
  failed,      \* relay: failedRootReconciliations of the current generation
  committed,   \* relay: registry.tabTargets
  staged,      \* relay: registry.stagedRootTargets
  semaphores,  \* relay: rootLifecycleSemaphores
  call,        \* relay: the calls that are running
  events, failures

browser == <<page, debugged, steady>>
extension == <<link, snapshot>>
connection == <<socket, ready, settling, announced>>
roots == <<committed, staged>>
bounds == <<events, failures>>

(* A captured generation or revision is kept as whether it is still the     *)
(* current one: a hello clears every `generation`, a detach every `revision` *)
(* of its tab.                                                              *)
IdleCall ==
  [kind |-> "none", pc |-> "idle", tab |-> None, goal |-> "attach",
   generation |-> TRUE, revision |-> TRUE, asked |-> FALSE,
   root |-> None, expected |-> None, seen |-> None, semaphore |-> None,
   pending |-> FALSE, attachIfMissing |-> FALSE, mayAttach |-> FALSE,
   retries |-> 0, verificationRetries |-> 0, reconciled |-> TRUE]

Exchange == {"create", "activate", "detach", "reuse", "attach", "info", "prepare",
             "verify", "reverify", "present"}

RoutingRoot(tab) == IF staged[tab] # None THEN staged[tab] ELSE committed[tab]

(* Numbers for new sessions and semaphores: the least that nothing holds.   *)
Least(used) == CHOOSE n \in 1..(Cardinality(used) + 1) :
                 n \notin used /\ \A k \in 1..(n - 1) : k \in used
HeldRoots == {committed[t] : t \in Tab} \cup {staged[t] : t \in Tab}
               \cup UNION {{call[p].root, call[p].expected, call[p].seen} : p \in Call}
FreshSession == Least({r.session : r \in HeldRoots \ {None}})
FreshSemaphore ==
  Least(({semaphores[t] : t \in Tab} \cup {call[p].semaphore : p \in Call}) \ {None})
SemaphoreOf(tab) == IF semaphores[tab] = None THEN FreshSemaphore ELSE semaphores[tab]

-----------------------------------------------------------------------------
(* What becomes of a call; c is its record.                                 *)
IsCurrent(c) == c.generation /\ c.revision

Fails(c) == IF c.kind = "worker" THEN [c EXCEPT !.pc = "failed", !.asked = FALSE, !.semaphore = None]
            ELSE IdleCall
Returns(c) == IF c.kind = "worker" THEN [c EXCEPT !.pc = "done", !.asked = FALSE, !.semaphore = None]
              ELSE IdleCall
Asks(c, pc) == IF socket = "open" THEN [c EXCEPT !.pc = pc, !.asked = TRUE] ELSE Fails(c)
Queues(c, goal) == [c EXCEPT !.pc = "queued", !.goal = goal, !.asked = FALSE,
                             !.semaphore = SemaphoreOf(c.tab)]

UseSemaphore(c) ==
  semaphores' = IF c.pc = "queued" THEN [semaphores EXCEPT ![c.tab] = c.semaphore] ELSE semaphores

(* attachTabUnlocked captures generation and revision when it starts.       *)
AttachesUnlocked(c) ==
  Asks([c EXCEPT !.revision = TRUE, !.generation = IF c.kind = "active" THEN @ ELSE TRUE],
       IF c.kind \in {"worker", "active"} THEN "info" ELSE "attach")

(* The top of a worker's loop.                                              *)
Loops(c) ==
  LET next == [c EXCEPT !.pending = FALSE, !.mayAttach = c.attachIfMissing, !.attachIfMissing = FALSE]
  IN  IF committed[c.tab] # None THEN Queues(next, "reconcile")
      ELSE IF c.attachIfMissing THEN Queues(next, "attach")
      ELSE [next EXCEPT !.pc = "done"]

Retire(calls, tabs) ==
  [p \in Call |-> IF calls[p].tab \in tabs THEN [calls[p] EXCEPT !.revision = FALSE] ELSE calls[p]]

CanAcquire(p) ==
  /\ call[p].pc = "queued"
  /\ \A q \in Call \ {p} : call[q].semaphore = call[p].semaphore => call[q].pc = "queued"

(* The ready message takes effect when no worker of this connection is left, *)
(* again before the next message.                                            *)
NothingToSettle == TRUE   \* variant: ready does not wait
WorkersSettled == \A p \in Call : call[p].kind = "worker" => ~ call[p].generation
Settles == socket = "open" /\ settling /\ WorkersSettled

Quiet == ~ Settles /\ \A p \in Call : ~ CanAcquire(p)

-----------------------------------------------------------------------------
(* attachTab and reconcileAttachedRoot, when they hold the semaphore.       *)
MayBegin(c) ==
  /\ socket = "open"
  /\ c.kind \in {"worker", "active"} => c.generation
  /\ c.kind = "worker" => c.revision

AcquireToAttach(p) ==
  /\ call[p].goal = "attach"
  /\ LET c == call[p]
         existing == committed[c.tab]
     IN  call' = [call EXCEPT ![p] =
           IF ~ MayBegin(c) THEN Fails(c)
           ELSE IF c.kind = "active" /\ existing # None
                THEN Asks([c EXCEPT !.expected = existing], "reuse")
           ELSE AttachesUnlocked(c)]

AcquireToReconcile(p) ==
  /\ call[p].goal = "reconcile"
  /\ LET c == [call[p] EXCEPT !.expected = committed[call[p].tab], !.seen = staged[call[p].tab]]
     IN  call' = [call EXCEPT ![p] =
           IF ~ IsCurrent(c) THEN Fails(c)
           ELSE IF c.expected = None /\ c.seen = None THEN Returns(c)
           ELSE IF socket = "open" THEN Asks(c, "verify")
           ELSE [c EXCEPT !.pc = "pause"]]

Acquire(p) ==
  /\ CanAcquire(p)
  /\ AcquireToAttach(p) \/ AcquireToReconcile(p)
  /\ UNCHANGED <<browser, extension, inbox, connection, failed, roots, semaphores, bounds>>

-----------------------------------------------------------------------------
(* detachTargetState *)
DetachTargetState(tab, calls) ==
  /\ committed' = [committed EXCEPT ![tab] = None]
  /\ staged' = [staged EXCEPT ![tab] = None]
  /\ failed' = failed \ {tab}
  /\ call' = Retire(calls, {tab})

(* queueRootReconciliation: a worker of the same tab, generation and         *)
(* revision takes the request along.                                        *)
WorkersOf(tab) == {p \in Call : call[p].kind = "worker" /\ call[p].tab = tab}

NewWorker(tab, attach, verification) ==
  Loops([IdleCall EXCEPT !.kind = "worker", !.tab = tab, !.attachIfMissing = attach,
                         !.verificationRetries = verification])

CoalescedAway(c, attach, verification) == c   \* variant: a running worker takes nothing along
Coalesced(c, attach, verification) ==
  [c EXCEPT !.pending = TRUE, !.attachIfMissing = @ \/ attach,
            !.verificationRetries = IF verification > @ THEN verification ELSE @]

QueueRootReconciliation(tab, attach, verification) ==
  LET current == {p \in WorkersOf(tab) : IsCurrent(call[p])}
      free == {p \in Call : call[p].pc = "idle"}
  IN  IF current # {}
      THEN /\ call' = [p \in Call |-> IF p \in current THEN Coalesced(call[p], attach, verification)
                                       ELSE call[p]]
           /\ UNCHANGED semaphores
      ELSE /\ free # {}
           /\ LET p == CHOOSE q \in free : TRUE
                  c == NewWorker(tab, attach, verification)
              IN  call' = [call EXCEPT ![p] = c] /\ UseSemaphore(c)

-----------------------------------------------------------------------------
(* The answer r to the exchange of call p.                                  *)
Stage(p, r) ==
  LET c == call[p]
      root == [session |-> FreshSession, id |-> r.id]
  IN  /\ staged' = [staged EXCEPT ![c.tab] = root]
      /\ call' = [call EXCEPT ![p] = Asks([c EXCEPT !.root = root], "prepare")]
      /\ UNCHANGED <<committed, failed, semaphores>>

MayCommit(p, r) ==
  /\ r.ok /\ call[p].generation /\ r.id = call[p].root.id
  /\ staged[call[p].tab] # None /\ staged[call[p].tab].session = call[p].root.session

CommitStagedRootTarget(p) ==
  LET c == call[p]
  IN  /\ committed' = [committed EXCEPT ![c.tab] = staged[c.tab]]
      /\ staged' = [staged EXCEPT ![c.tab] = None]
      /\ call' = [call EXCEPT ![p] = IF c.kind = "active" THEN Asks(c, "present") ELSE Returns(c)]
      /\ UNCHANGED <<failed, semaphores>>

Continue(p, c) ==
  /\ call' = [call EXCEPT ![p] = c]
  /\ UseSemaphore(c)
  /\ UNCHANGED <<roots, failed>>

(* reconcileAttachedRootUnlocked with the target id that the tab has now.   *)
Reconciled(c, id) ==
  LET moved(now, was) == (now = None) # (was = None) \/ (was # None /\ now.session # was.session)
  IN  IF moved(committed[c.tab], c.expected) \/ moved(staged[c.tab], c.seen) THEN Returns(c)
      ELSE IF c.seen # None /\ c.seen.id = id THEN Asks([c EXCEPT !.root = c.seen], "prepare")
      ELSE IF c.seen = None /\ c.expected.id = id THEN Returns(c)
      ELSE AttachesUnlocked(c)

MayContinue(c) == IsCurrent(c)

Reply(p, r) ==
  LET c == call[p]
  IN  \/ /\ c.pc = "create"
         /\ Continue(p, IF r.ok THEN Queues([c EXCEPT !.tab = r.tab], "attach") ELSE IdleCall)
      \/ /\ c.pc = "activate"
         /\ Continue(p, IF r.ok /\ c.generation THEN Queues([c EXCEPT !.tab = r.tab], "attach")
                        ELSE IdleCall)
      \/ /\ c.pc = "detach"
         /\ IF r.ok THEN /\ DetachTargetState(c.tab, [call EXCEPT ![p] = IdleCall])
                         /\ UNCHANGED semaphores
                    ELSE Continue(p, IdleCall)
      \/ /\ c.pc = "reuse"
         /\ Continue(p, IF ~ r.ok \/ ~ c.generation THEN Fails(c)
                        ELSE IF r.id = c.expected.id THEN Returns(c) ELSE AttachesUnlocked(c))
      \/ /\ c.pc = "attach"
         /\ Continue(p, IF r.ok /\ MayContinue(c) THEN Asks(c, "info") ELSE Fails(c))
      \/ /\ c.pc = "info"
         /\ IF r.ok /\ MayContinue(c) THEN Stage(p, r) ELSE Continue(p, Fails(c))
      \/ /\ c.pc = "prepare"
         /\ IF MayCommit(p, r) THEN CommitStagedRootTarget(p) ELSE Continue(p, Fails(c))
      \/ /\ c.pc \in {"verify", "reverify"}
         /\ Continue(p, IF ~ c.revision THEN Fails(c)
                        ELSE IF r.ok /\ c.generation THEN Reconciled(c, r.id)
                        ELSE IF c.pc = "verify" THEN [c EXCEPT !.pc = "pause", !.asked = FALSE]
                        ELSE Fails(c))
      \/ /\ c.pc = "present"
         /\ Continue(p, IdleCall)

(* The second attempt of a verification, 50 ms later.                       *)
VerifyAgain(p) ==
  /\ Quiet /\ call[p].pc = "pause"
  /\ call' = [call EXCEPT ![p] = IF IsCurrent(@) THEN Asks(@, "reverify") ELSE Fails(@)]
  /\ UNCHANGED <<browser, extension, inbox, connection, failed, roots, semaphores, bounds>>

-----------------------------------------------------------------------------
(* The worker of a tab goes on.                                             *)
Ends(p, c) ==
  /\ call' = [call EXCEPT ![p] = IdleCall]
  /\ failed' = IF ~ IsCurrent(c) THEN failed
               ELSE IF c.reconciled THEN failed \ {c.tab} ELSE failed \cup {c.tab}
  /\ semaphores' = IF RoutingRoot(c.tab) = None /\ WorkersOf(c.tab) = {p}
                   THEN [semaphores EXCEPT ![c.tab] = None] ELSE semaphores

Goes(p, c) ==
  IF c.pending /\ IsCurrent(c)
  THEN /\ call' = [call EXCEPT ![p] = Loops(c)]
       /\ UseSemaphore(Loops(c))
       /\ UNCHANGED failed
  ELSE Ends(p, c)

Delays(p, c) ==
  /\ call' = [call EXCEPT ![p] = [c EXCEPT !.pc = "delay", !.pending = TRUE]]
  /\ UNCHANGED <<failed, semaphores>>

WorkerReturns(p) ==
  LET c == [call[p] EXCEPT !.retries = 0]
  IN  /\ c.pc = "done"
      /\ IF IsCurrent(c) /\ c.verificationRetries > 0
         THEN Delays(p, [c EXCEPT !.verificationRetries = @ - 1])
         ELSE Goes(p, c)

MayRetry(c) == c.retries < 2

WorkerFails(p) ==
  LET c == call[p]
  IN  /\ c.pc = "failed"
      /\ IF ~ IsCurrent(c) THEN Ends(p, c)
         ELSE IF MayRetry(c)
         THEN Delays(p, [c EXCEPT !.retries = @ + 1, !.attachIfMissing = @ \/ c.mayAttach])
         ELSE Goes(p, [c EXCEPT !.reconciled = FALSE])

Worker(p) ==
  /\ Quiet
  /\ \/ WorkerReturns(p)
     \/ WorkerFails(p)
     \/ call[p].pc = "delay" /\ Goes(p, call[p])
  /\ UNCHANGED <<browser, extension, inbox, connection, roots, bounds>>

-----------------------------------------------------------------------------
(* handleExtensionMessage *)
Receive(m) ==
  \/ m.kind = "answer" /\ Reply(m.call, m.result) /\ UNCHANGED connection
  \/ /\ m.kind = "attached"
     /\ announced' = announced \cup {m.tab}
     /\ QueueRootReconciliation(m.tab, TRUE, 0)
     /\ UNCHANGED <<socket, ready, settling, roots, failed>>
  \/ /\ m.kind = "ready"
     /\ settling' = TRUE
     /\ UNCHANGED <<socket, ready, announced, roots, failed, call, semaphores>>
  \/ /\ m.kind = "removed"   \* tabs.removed, and a detach for another reason than target_closed
     /\ DetachTargetState(m.tab, call)
     /\ UNCHANGED <<connection, semaphores>>
  \/ /\ m.kind = "closed"    \* a detach for the reason target_closed
     /\ QueueRootReconciliation(m.tab, FALSE, 3)
     /\ UNCHANGED <<connection, roots, failed>>
  \/ /\ m.kind = "info"      \* Target.targetInfoChanged
     /\ IF RoutingRoot(m.tab) # None /\ RoutingRoot(m.tab).id # m.id
        THEN QueueRootReconciliation(m.tab, FALSE, 1)
        ELSE UNCHANGED <<call, semaphores>>
     /\ UNCHANGED <<connection, roots, failed>>
  \/ /\ m.kind = "toolbar"
     /\ announced' = announced \cup {m.tab}
     /\ \E p \in Call :
          /\ call[p].pc = "idle"
          /\ LET c == [IdleCall EXCEPT !.kind = "toggle", !.tab = m.tab]
                 next == IF committed[m.tab] # None THEN Asks(c, "detach") ELSE Queues(c, "attach")
             IN  call' = [call EXCEPT ![p] = next] /\ UseSemaphore(next)
     /\ UNCHANGED <<socket, ready, settling, roots, failed>>

HandleExtensionMessage ==
  /\ Quiet /\ socket = "open" /\ inbox # <<>>
  /\ inbox' = Tail(inbox)
  /\ Receive(Head(inbox))
  /\ UNCHANGED <<browser, extension, bounds>>

(* The ready message takes effect. *)
PruneUnannounced ==
  LET gone == {t \in Tab : committed[t] # None} \ announced
  IN  /\ committed' = [t \in Tab |-> IF t \in gone THEN None ELSE committed[t]]
      /\ staged' = [t \in Tab |-> IF t \in gone THEN None ELSE staged[t]]
      /\ call' = Retire(call, gone)

MarkReady ==
  /\ Settles
  /\ failed = {}
  /\ ready' = TRUE /\ settling' = FALSE
  /\ PruneUnannounced
  /\ UNCHANGED <<browser, extension, inbox, socket, announced, failed, semaphores, bounds>>

RejectReady ==
  /\ Settles
  /\ failed # {}
  /\ socket' = "closing" /\ settling' = FALSE
  /\ link' = "down"
  /\ inbox' = <<>>
  /\ UNCHANGED <<browser, snapshot, ready, announced, failed, roots, semaphores, call, bounds>>

(* clearLiveExtensionState, and the rejection of the commands in flight.    *)
KeptWaiting(c) == c   \* variant: the commands in flight are not rejected
Rejected(c) ==
  IF c.pc = "verify" THEN [c EXCEPT !.pc = "pause", !.asked = FALSE]
  ELSE IF c.pc \in Exchange THEN Fails(c) ELSE c

ClearLiveExtensionState ==
  /\ committed' = [t \in Tab |-> None]
  /\ staged' = [t \in Tab |-> None]
  /\ ready' = FALSE /\ settling' = FALSE

RetiredCalls == Retire([p \in Call |-> Rejected(call[p])], {t \in Tab : committed[t] # None})

(* disconnectIfCurrent *)
Disconnected ==
  /\ socket' = "none"
  /\ ClearLiveExtensionState
  /\ call' = RetiredCalls
  /\ UNCHANGED <<browser, snapshot, announced, semaphores>>

CloseHandshake ==
  /\ Quiet /\ socket = "closing"
  /\ Disconnected
  /\ failed' = failed \ {t \in Tab : committed[t] # None}
  /\ UNCHANGED <<link, inbox, bounds>>

LoseConnection ==
  /\ Quiet /\ socket = "open" /\ events < MaxEvents
  /\ events' = events + 1
  /\ Disconnected
  /\ failed' = failed \ {t \in Tab : committed[t] # None}
  /\ link' = "down"
  /\ inbox' = <<>>
  /\ UNCHANGED failures

(* acceptExtensionHello *)
Hello ==
  /\ Quiet /\ socket # "open" /\ link = "down"
  /\ socket' = "open" /\ link' = "hello"
  /\ announced' = {} /\ failed' = {}
  /\ ClearLiveExtensionState
  /\ call' = [p \in Call |-> IF RetiredCalls[p].pc = "idle" THEN IdleCall
                             ELSE [RetiredCalls[p] EXCEPT !.generation = FALSE]]
  /\ UNCHANGED <<browser, snapshot, inbox, semaphores, bounds>>

-----------------------------------------------------------------------------
(* The extension: inventory and commands.                                   *)
SomeSequence(S) ==
  CHOOSE s \in [1..Cardinality(S) -> S] : \A i, j \in DOMAIN s : s[i] = s[j] => i = j

TakeInventory ==
  /\ Quiet /\ link = "hello"
  /\ link' = "announcing"
  /\ snapshot' = {t \in Tab : debugged[t]}
  /\ steady' = snapshot'
  /\ UNCHANGED <<page, debugged, inbox, connection, failed, roots, semaphores, call, bounds>>

Announce ==
  LET tabs == SomeSequence(snapshot)
  IN  /\ Quiet /\ link = "announcing"
      /\ link' = "up" /\ snapshot' = {}
      /\ inbox' = Append(inbox \o [i \in DOMAIN tabs |-> [kind |-> "attached", tab |-> tabs[i]]],
                         [kind |-> "ready"])
      /\ UNCHANGED <<browser, connection, failed, roots, semaphores, call, bounds>>

IsOpen(tab) == page[tab] \in 1..MaxPage
Failure == [ok |-> FALSE, id |-> 0, tab |-> None]
Success(tab) == [ok |-> TRUE, id |-> page[tab], tab |-> tab]

SetDebugged(tab, attached) ==
  /\ debugged' = [debugged EXCEPT ![tab] = attached]
  /\ steady' = IF attached THEN steady ELSE steady \ {tab}

(* The extension executes the command of exchange c; r is its answer.       *)
Execute(c, r) ==
  \/ /\ c.pc = "create"
     /\ \/ \E t \in Tab : /\ page[t] = 0
                          /\ page' = [page EXCEPT ![t] = 1] /\ UNCHANGED <<debugged, steady>>
                          /\ r = [ok |-> TRUE, id |-> 1, tab |-> t]
        \/ (\A t \in Tab : page[t] # 0) /\ r = Failure /\ UNCHANGED browser
  \/ /\ c.pc = "activate"
     /\ \/ \E t \in Tab : /\ IsOpen(t)
                          /\ SetDebugged(t, TRUE) /\ UNCHANGED page
                          /\ r = Success(t)
        \/ (\A t \in Tab : ~ IsOpen(t)) /\ r = Failure /\ UNCHANGED browser
  \/ /\ c.pc = "attach"
     /\ r = IF IsOpen(c.tab) THEN Success(c.tab) ELSE Failure
     /\ SetDebugged(c.tab, IsOpen(c.tab))
     /\ UNCHANGED page
  \/ /\ c.pc = "detach"
     /\ r = IF debugged[c.tab] THEN Success(c.tab) ELSE Failure
     /\ SetDebugged(c.tab, FALSE)
     /\ UNCHANGED page
  \/ /\ c.pc \in {"reuse", "info", "prepare", "verify", "reverify", "present"}
     /\ r = IF debugged[c.tab] THEN Success(c.tab) ELSE Failure
     /\ UNCHANGED browser

Results == [ok : BOOLEAN, id : 0..MaxPage, tab : Tab \cup {None}]

Answer(p) ==
  /\ Quiet /\ call[p].asked
  /\ \E r \in Results :
       /\ Execute(call[p], r)
       /\ inbox' = IF socket = "open" THEN Append(inbox, [kind |-> "answer", call |-> p, result |-> r])
                   ELSE inbox
  /\ call' = [call EXCEPT ![p].asked = FALSE]
  /\ UNCHANGED <<extension, connection, failed, roots, semaphores, bounds>>

(* A command times out, executed or not, or fails for a reason that passes. *)
FailCommand(p) ==
  /\ Quiet /\ call[p].asked /\ failures < MaxFailures
  /\ failures' = failures + 1
  /\ UNCHANGED browser \/ \E r \in Results : Execute(call[p], r)
  /\ Reply(p, Failure)
  /\ UNCHANGED <<extension, inbox, connection, events>>

-----------------------------------------------------------------------------
(* The browser and its user.  An event that happens while the extension has *)
(* no connection is sent after the next hello, or lost.                     *)
Event == Quiet /\ events < MaxEvents /\ events' = events + 1

Emit(messages) ==
  /\ inbox' \in IF link # "down" THEN {inbox \o messages} ELSE {inbox, inbox \o messages}
  /\ UNCHANGED <<extension, connection, failed, roots, semaphores, call, failures>>

CloseTab(tab) ==
  /\ Event /\ IsOpen(tab)
  /\ page' = [page EXCEPT ![tab] = Closed]
  /\ SetDebugged(tab, FALSE)
  /\ Emit(IF debugged[tab] THEN <<[kind |-> "closed", tab |-> tab], [kind |-> "removed", tab |-> tab]>>
          ELSE <<[kind |-> "removed", tab |-> tab]>>)

DismissDebugger(tab) ==
  /\ Event /\ debugged[tab]
  /\ SetDebugged(tab, FALSE)
  /\ UNCHANGED page
  /\ Emit(<<[kind |-> "removed", tab |-> tab]>>)

(* Chrome replaces the tab's page and keeps the debugger attached.  It      *)
(* reports that by a changed target, or by an ambiguous detach.             *)
SwapPage(tab) ==
  /\ Event /\ page[tab] \in 1..(MaxPage - 1)
  /\ page' = [page EXCEPT ![tab] = @ + 1]
  /\ UNCHANGED <<debugged, steady>>
  /\ IF ~ debugged[tab] THEN Emit(<<>>)
     ELSE \/ Emit(<<[kind |-> "info", tab |-> tab, id |-> page'[tab]]>>)
          \/ Emit(<<[kind |-> "closed", tab |-> tab]>>)

ClickToolbar(tab) ==
  /\ Event /\ IsOpen(tab)
  /\ UNCHANGED browser
  /\ Emit(<<[kind |-> "toolbar", tab |-> tab]>>)

(* A client creates a page, or asks for the active tab.                     *)
Request(kind, pc) ==
  /\ Event /\ socket = "open"
  /\ \E p \in Call :
       /\ call[p].pc = "idle"
       /\ call' = [call EXCEPT ![p] = Asks([IdleCall EXCEPT !.kind = kind], pc)]
  /\ UNCHANGED <<browser, extension, inbox, connection, failed, roots, semaphores, failures>>

CreateAndAttachTab == Request("create", "create")
AttachActiveUserTab == Request("active", "activate")

-----------------------------------------------------------------------------
Init ==
  /\ page \in [Tab -> {0, 1}]
  /\ debugged \in [Tab -> BOOLEAN]
  /\ \A t \in Tab : debugged[t] => page[t] = 1
  /\ steady = {}
  /\ link = "down" /\ snapshot = {} /\ inbox = <<>>
  /\ socket = "none" /\ ready = FALSE /\ settling = FALSE /\ announced = {}
  /\ failed = {}
  /\ committed = [t \in Tab |-> None]
  /\ staged = [t \in Tab |-> None]
  /\ semaphores = [t \in Tab |-> None]
  /\ call = [p \in Call |-> IdleCall]
  /\ events = 0 /\ failures = 0

RelayStep ==
  \/ HandleExtensionMessage \/ MarkReady \/ RejectReady \/ CloseHandshake
  \/ \E p \in Call : Acquire(p) \/ VerifyAgain(p) \/ Worker(p)

ExtensionStep ==
  \/ Hello \/ TakeInventory \/ Announce
  \/ \E p \in Call : Answer(p)

Environment ==
  \/ LoseConnection \/ CreateAndAttachTab \/ AttachActiveUserTab
  \/ \E t \in Tab : CloseTab(t) \/ DismissDebugger(t) \/ SwapPage(t) \/ ClickToolbar(t)
  \/ \E p \in Call : FailCommand(p)

Next == RelayStep \/ ExtensionStep \/ Environment

-----------------------------------------------------------------------------

Settled == socket = "open" /\ ready /\ inbox = <<>> /\ \A p \in Call : call[p].pc = "idle"

(* While no command has failed: when the relay is ready and nothing is under *)
(* way, a root it shows to its clients is a page the debugger is attached    *)
(* to, under the page's present target id: no sequence of replaced pages,    *)
(* ambiguous detaches, toolbar clicks and reconnections leaves a dead root   *)
(* (detachTargetState, queueRootReconciliation, its verification retries).   *)
RootsAreLive ==
  failures = 0 /\ Settled =>
    \A t \in Tab : committed[t] # None => debugged[t] /\ committed[t].id = page[t]

(* When the relay becomes ready, every tab of the inventory to which the      *)
(* debugger has been attached ever since has a root, whatever other calls,    *)
(* page replacements and failed commands came in between: releaseRelayTarget  *)
(* takes a page without a root for dead from that moment on.                  *)
StepShowsInventory == ready' /\ ~ ready => \A t \in steady : committed'[t] # None

(* The extension's tabs become usable again after every lost connection and  *)
(* every rejected inventory.                                                 *)
EventuallyReady == <>[](ready /\ socket = "open")
=============================================================================
