--------------------------- MODULE SessionLifecycle ---------------------------
(***************************************************************************)
(* BrowserRigSessions (src/session-manager.ts) over the target registry:   *)
(* the operations create, execute, adopt, reset and delete as fibers that   *)
(* interleave at every await, their permits, the chain of catalog writes,   *)
(* and the drain that a relay handover waits for.                           *)
(*                                                                         *)
(* Of the registry (module TargetRegistry) a target keeps its owner and     *)
(* whether the reservation of the adoption in flight still names its        *)
(* current generation.  Code between two awaits runs in one step; a fiber    *)
(* whose promise is settled runs before the next outside event (Quiet).      *)
(***************************************************************************)
EXTENDS Naturals, Sequences, FiniteSets

CONSTANTS Id, Target, Fiber,
          Requests,     \* what callers ask for: operations, a drain, the close
          MaxSession,   \* bound on the session objects that are registered or in use at a time
          MaxEvents,    \* bound on detach, replacement and disconnect events
          MaxFailures,  \* bound on catalog writes that fail
          None, Absent, Gone

Op == {"create", "execute", "adopt", "reset", "delete"}

Owned == [id : Target, kind : {"relay", "user"}]
NoTarget == [id |-> None, kind |-> "none"]

(* What an adoption holds of the registry.                                  *)
Reservation == [fiber : Fiber, target : Target, id : Id, previous : Id \cup {None},
                current : BOOLEAN, stored : BOOLEAN]

ASSUME LifecycleAssumption ==
  /\ Requests \subseteq Op \cup {"drain", "close"}
  /\ MaxSession \in Nat /\ MaxEvents \in Nat /\ MaxFailures \in Nat
  /\ None \notin Id \cup Target \cup Fiber \cup Nat \cup Reservation
  /\ Absent \notin Id \cup Target \cup Fiber \cup {None} \cup Owned
  /\ Gone \notin Id \cup {None, Absent}
  /\ IsFiniteSet(Fiber)

Session == 1..MaxSession

VARIABLES
  sessions,      \* sessions[id]: the registered session object, or None
  session,       \* session[o]: the target of object o and whether its sandbox is closed
  fiber,         \* the operations, one per fiber
  executePermit, \* executePermit[o]: the fiber that holds o's executeSemaphore
  adoptPermit,   \* the fiber that holds adoptSemaphore
  starting,      \* the fiber whose synchronous prefix runs now
  owner,         \* registry: owner of a live root target; Absent when it is not attached,
                 \* Gone when its page is closed or has changed its target id
  reservation,   \* registry: reservation of the running adoption
  attaching,     \* attaching[t]: owner read by an attach that is not committed; Absent if none
  admission, drained,
  queue,         \* catalog writes in order, each with the fibers that await it
  disk, lastWrite, failures, events

registryVars == <<owner, reservation, attaching>>
permitVars == <<executePermit, adoptPermit>>
storeVars == <<queue, disk, lastWrite, failures, drained>>
vars == <<sessions, session, fiber, permitVars, starting, registryVars,
          admission, storeVars, events>>


IdleFiber == [pc |-> "idle", op |-> "create", id |-> None, obj |-> None, target |-> None,
              created |-> FALSE, previous |-> NoTarget, previousClosed |-> FALSE,
              cancelled |-> FALSE, woken |-> "no"]

-----------------------------------------------------------------------------
(* The catalog that schedulePersistence captures: synchronously, at the     *)
(* time of the call.                                                        *)
Catalog == [id \in Id |-> IF sessions[id] = None THEN Absent ELSE session[sessions[id]].target]

Schedule(waiters) ==
  /\ queue' = Append(queue, [catalog |-> Catalog', waiters |-> waiters])
  /\ drained' = FALSE
  /\ UNCHANGED <<disk, lastWrite, failures>>

(* Accepted work: every admitted or tracked operation, and every scheduled  *)
(* write (retainWork).                                                      *)
PendingWork == Cardinality({f \in Fiber : fiber[f].pc # "idle"}) + Len(queue)

(* No settled promise has a continuation left to run.                       *)
Quiet == starting = None /\ \A f \in Fiber : fiber[f].woken = "no"

Registered(f) == sessions[fiber[f].id] = fiber[f].obj
TargetOf(f) == session[fiber[f].obj].target

Move(f, pc) == fiber' = [fiber EXCEPT ![f].pc = pc, ![f].woken = "no"]
Finish(f) ==
  /\ fiber' = [fiber EXCEPT ![f] = IdleFiber]
  /\ executePermit' = [o \in Session |-> IF executePermit[o] = f THEN None ELSE executePermit[o]]
  /\ adoptPermit' = IF adoptPermit = f THEN None ELSE adoptPermit

(* The registry: releaseTargetOwnership, rollbackTargetOwnership.           *)
Released(own, t, id) == IF t # None /\ own[t] = id THEN [own EXCEPT ![t] = None] ELSE own

HoldsReservation(f) == reservation # None /\ reservation.fiber = f
StillReserved ==
  /\ reservation.current
  /\ owner[reservation.target] = reservation.id
RolledBack(f) ==
  IF HoldsReservation(f) /\ StillReserved
  THEN [owner EXCEPT ![reservation.target] = reservation.previous] ELSE owner
Unstored(f) == IF HoldsReservation(f) THEN [reservation EXCEPT !.stored = FALSE] ELSE reservation

NewSession == [target |-> NoTarget, closed |-> FALSE]

-----------------------------------------------------------------------------
(* Admission.  A fiber whose permit is free goes on without a break.        *)
(* An object that is neither registered nor used by an operation is garbage, *)
(* and a new object takes its number.                                       *)
InUse(o) == (\E id \in Id : sessions[id] = o) \/ (\E f \in Fiber : fiber[f].obj = o)
NewObject == CHOOSE o \in Session : ~ InUse(o)

CreateSession(id) ==
  /\ \E o \in Session : ~ InUse(o)
  /\ sessions' = [sessions EXCEPT ![id] = NewObject]
  /\ session' = [session EXCEPT ![NewObject] = NewSession]

AdmitCreate(f, id) ==
  /\ "create" \in Requests
  /\ sessions[id] = None
  /\ CreateSession(id)
  /\ Schedule({f})
  /\ fiber' = [fiber EXCEPT ![f] = [IdleFiber EXCEPT !.pc = "flush", !.op = "create", !.id = id,
                                                   !.obj = NewObject]]
  /\ UNCHANGED <<permitVars, starting>>

AdmitOperation(f, op, id, t) ==
  LET missing == sessions[id] = None
      obj == IF missing THEN NewObject ELSE sessions[id]
  IN  /\ missing => op \in {"execute", "adopt"}   \* createIfMissing
      /\ (op = "adopt") = (t # None)
      /\ IF missing THEN CreateSession(id) /\ Schedule({})
                    ELSE UNCHANGED <<sessions, session, storeVars>>
      /\ fiber' = [fiber EXCEPT ![f] =
           [IdleFiber EXCEPT !.pc = IF op = "adopt" THEN "adoptPermit" ELSE "permit",
                             !.op = op, !.id = id, !.obj = obj, !.target = t, !.created = missing]]
      /\ starting' = IF IF op = "adopt" THEN adoptPermit = None ELSE executePermit[obj] = None
                     THEN f ELSE None
      /\ UNCHANGED permitVars

Admit(f) ==
  /\ admission = "open" /\ fiber[f].pc = "idle" /\ Quiet
  /\ \E id \in Id : \/ AdmitCreate(f, id)
                    \/ \E op \in Requests \cap (Op \ {"create"}), t \in Target \cup {None} : AdmitOperation(f, op, id, t)
  /\ UNCHANGED <<registryVars, admission, events>>

(* A fiber takes a permit when it starts, or later when it is handed over.   *)
MayRun(f) == starting = f \/ Quiet

TakeAdoptPermit(f) ==
  /\ fiber[f].pc = "adoptPermit" /\ adoptPermit = None /\ MayRun(f)
  /\ adoptPermit' = f
  /\ Move(f, "permit")
  /\ starting' = IF executePermit[fiber[f].obj] = None THEN f ELSE None
  /\ UNCHANGED <<sessions, session, executePermit, registryVars, admission, storeVars, events>>

TakesPermit(f, op) ==
  /\ fiber[f].pc = "permit" /\ fiber[f].op = op
  /\ executePermit[fiber[f].obj] = None /\ MayRun(f)
  /\ starting' = None

Hold(f) == executePermit' = [executePermit EXCEPT ![fiber[f].obj] = f] /\ UNCHANGED adoptPermit

(* A session that was replaced or deleted while the fiber waited is not     *)
(* touched.                                                                 *)
FindInactive(f) ==
  /\ \E op \in {"execute", "reset", "delete"} : TakesPermit(f, op)
  /\ ~ Registered(f)
  /\ Finish(f)
  /\ UNCHANGED <<sessions, session, registryVars, admission, storeVars, events>>

(* withLifecyclePermit and an interrupted execute give up before they hold  *)
(* the permit.                                                              *)
GiveUpWaiting(f) ==
  /\ fiber[f].pc = "permit" /\ fiber[f].op \in {"execute", "reset", "delete"}
  /\ ~ fiber[f].created
  /\ Quiet
  /\ Finish(f)
  /\ UNCHANGED <<sessions, session, starting, registryVars, admission, storeVars, events>>

-----------------------------------------------------------------------------
(* execute *)
StartExecute(f) ==
  /\ TakesPermit(f, "execute") /\ Registered(f)
  /\ Hold(f)
  /\ Move(f, "run")
  /\ UNCHANGED <<sessions, session, registryVars, admission, storeVars, events>>

(* A new page, and a replaced one that changes its target id, has an id that *)
(* nobody names.                                                            *)
IsNew(t) ==
  /\ owner[t] = Absent /\ attaching[t] = Absent
  /\ \A o \in Session : session[o].target.id # t
  /\ \A f \in Fiber : t \notin {fiber[f].target, fiber[f].previous.id}

(* The script opens the session's page: the relay attaches it for the       *)
(* session, and the sandbox reports it as its default target.               *)
OpenRelayPage(f, t) ==
  /\ fiber[f].pc = "run" /\ Quiet
  /\ IsNew(t) /\ TargetOf(f) = NoTarget
  /\ owner' = [owner EXCEPT ![t] = fiber[f].id]
  /\ session' = [session EXCEPT ![fiber[f].obj].target =
                   IF Registered(f) THEN [id |-> t, kind |-> "relay"] ELSE @]
  /\ UNCHANGED sessions
  /\ IF Registered(f) THEN Schedule({}) ELSE UNCHANGED storeVars
  /\ UNCHANGED <<fiber, permitVars, starting, reservation, attaching, admission, events>>

FinishScript(f) ==
  /\ fiber[f].pc = "run" /\ Quiet
  /\ UNCHANGED <<sessions, session>>
  /\ Schedule({f})
  /\ Move(f, "flush")
  /\ UNCHANGED <<permitVars, starting, registryVars, admission, events>>

(* cleanupCreatedSession, of an execute that created its session and failed: *)
(* the session goes at once, the catalog follows when its sandbox is closed. *)
CleanupCreated(f) ==
  /\ fiber[f].op = "execute" /\ fiber[f].created /\ Registered(f)
  /\ sessions' = [sessions EXCEPT ![fiber[f].id] = None]
  /\ owner' = Released(owner, TargetOf(f).id, fiber[f].id)
  /\ session' = [session EXCEPT ![fiber[f].obj].target = NoTarget]
  /\ Move(f, "cleanupClose")
  /\ UNCHANGED <<permitVars, reservation, attaching, storeVars>>

FailSetup(f) ==
  /\ fiber[f].pc = "run" /\ Quiet
  /\ CleanupCreated(f)
  /\ UNCHANGED <<starting, admission, events>>

-----------------------------------------------------------------------------
(* delete and reset *)
Remove(f) ==
  /\ IF fiber[f].op = "reset"
     THEN CreateSession(fiber[f].id)
     ELSE /\ sessions' = [sessions EXCEPT ![fiber[f].id] = None]
          /\ UNCHANGED <<session>>
  /\ Schedule({f})
  /\ Hold(f)
  /\ Move(f, "flush")

StartRemoval(f) ==
  /\ \E op \in {"reset", "delete"} : TakesPermit(f, op)
  /\ Registered(f)
  /\ IF TargetOf(f).kind = "relay"
     THEN /\ Hold(f)
          /\ fiber' = [fiber EXCEPT ![f].pc = "closing", ![f].previous = TargetOf(f)]
          /\ UNCHANGED <<sessions, session, storeVars>>
     ELSE Remove(f)
  /\ UNCHANGED <<registryVars, admission, events>>

(* Root t disappears: its ownership and a reservation of it with it, and    *)
(* the sessions that point at it lose the pointer (markTargetDetached).      *)
Uncurrent(t) ==
  IF reservation # None /\ reservation.target = t
  THEN [reservation EXCEPT !.current = FALSE, !.stored = FALSE] ELSE reservation

PointersTo(t) == {o \in Session : session[o].target.id = t /\ \E id \in Id : sessions[id] = o}

Forget(t, left) ==
  /\ owner' = [owner EXCEPT ![t] = left]
  /\ reservation' = Uncurrent(t)
  /\ session' = [o \in Session |->
       IF o \in PointersTo(t) THEN [session[o] EXCEPT !.target = NoTarget] ELSE session[o]]

(* closeRelayTarget answered.  A page that is attached is told to close; the *)
(* event that detaches it comes before the answer, or later.                *)
Live(t) == owner[t] \notin {Absent, Gone}

ClosePage(t) ==
  /\ UNCHANGED sessions
  /\ \/ /\ Live(t)
        /\ Forget(t, Gone)
        /\ IF session' = session THEN UNCHANGED storeVars ELSE Schedule({})
     \/ UNCHANGED <<owner, reservation, session, storeVars>>

RelayPageClosed(f) ==
  /\ fiber[f].pc = "closing" /\ Quiet
  /\ ClosePage(fiber[f].previous.id)
  /\ UNCHANGED <<permitVars, starting, attaching, admission, events>>
  /\ fiber' = [fiber EXCEPT ![f].woken = "ok"]

RemoveAfterClose(f) ==
  /\ fiber[f].pc = "closing" /\ fiber[f].woken = "ok"
  /\ Remove(f)
  /\ UNCHANGED <<starting, registryVars, admission, events>>

FailClosing(f) ==
  /\ fiber[f].pc = "closing" /\ fiber[f].woken = "no" /\ Quiet
  /\ Live(fiber[f].previous.id)
  /\ Finish(f)
  /\ UNCHANGED <<sessions, session, starting, registryVars, admission, storeVars, events>>

(* The removal is durable: only now the object lets go of its target.       *)
CompleteRemoval(f) ==
  /\ fiber[f].op \in {"reset", "delete"}
  /\ owner' = Released(owner, TargetOf(f).id, fiber[f].id)
  /\ session' = [session EXCEPT ![fiber[f].obj] = [target |-> NoTarget, closed |-> TRUE]]
  /\ Finish(f)
  /\ UNCHANGED <<sessions, reservation, attaching, storeVars>>

RestoreRemoved(f) ==
  /\ fiber[f].op \in {"reset", "delete"}
  /\ sessions' = [sessions EXCEPT ![fiber[f].id] = fiber[f].obj]
  /\ UNCHANGED session
  /\ Schedule({f})
  /\ Move(f, "reflush")
  /\ UNCHANGED <<permitVars, registryVars>>

-----------------------------------------------------------------------------
(* adopt *)
Pointer(f) == IF TargetOf(f) = NoTarget THEN fiber[f].previous ELSE TargetOf(f)

(* The reservation of TargetRegistry; a target another session owns is      *)
(* refused.                                                                 *)
ReserveFromAnyone(f) ==   \* variant: the owner is not asked
  LET t == fiber[f].target
  IN  /\ owner[t] \in Id \cup {None}
      /\ owner' = [owner EXCEPT ![t] = fiber[f].id]
      /\ reservation' = [fiber |-> f, target |-> t, id |-> fiber[f].id, previous |-> owner[t],
                         current |-> TRUE, stored |-> TRUE]
Reserve(f) ==
  LET t == fiber[f].target
  IN  /\ owner[t] \in {None, fiber[f].id}
      /\ owner' = [owner EXCEPT ![t] = fiber[f].id]
      /\ reservation' = [fiber |-> f, target |-> t, id |-> fiber[f].id, previous |-> owner[t],
                         current |-> TRUE, stored |-> TRUE]

StartAdopt(f) ==
  /\ TakesPermit(f, "adopt") /\ Registered(f) /\ ~ fiber[f].cancelled
  /\ Reserve(f)
  /\ Hold(f)
  /\ fiber' = [fiber EXCEPT ![f].pc = "page", ![f].previous = TargetOf(f)]
  /\ UNCHANGED <<sessions, session, attaching, admission, storeVars, events>>

(* The failure path.  A failed adoption that had reserved, or that created  *)
(* its session, takes the session's targets away and closes its sandbox;    *)
(* an existing session then gets a fresh object.                            *)
Relinquish(f) ==
  LET own == RolledBack(f)
      active == TargetOf(f).id
      previous == fiber[f].previous
      relayLeft == previous.id \notin {None, active} /\ previous.kind = "relay"
                     /\ ~ fiber[f].previousClosed
  IN  /\ owner' = Released(Released(own, active, fiber[f].id), previous.id, fiber[f].id)
      /\ session' = [session EXCEPT ![fiber[f].obj].target = NoTarget]
      /\ Move(f, IF relayLeft THEN "cleanupPrevious" ELSE "cleanupClose")
      /\ Hold(f)

FailAdopt(f) ==
  /\ reservation' = IF HoldsReservation(f) THEN None ELSE reservation
  /\ IF Registered(f) /\ (fiber[f].created \/ HoldsReservation(f))
     THEN Relinquish(f)
     ELSE /\ owner' = RolledBack(f)
          /\ Finish(f)
          /\ UNCHANGED session
  /\ UNCHANGED <<sessions, attaching, storeVars>>

(* The adoption fails before it reserves: its session is gone, its caller   *)
(* gave up, or the target is detached or owned by another session.          *)
RefuseAdopt(f) ==
  /\ fiber[f].pc = "permit" /\ fiber[f].op = "adopt"
  /\ executePermit[fiber[f].obj] = None /\ MayRun(f)
  /\ Registered(f) /\ ~ fiber[f].cancelled => owner[fiber[f].target] \notin {None, fiber[f].id}
  /\ starting' = None
  /\ FailAdopt(f)
  /\ UNCHANGED <<admission, events>>

(* The page is adopted, and a relay page it replaces closed: the session    *)
(* points at the target and says so in the catalog before it owns it.       *)
PointAtTarget(f) ==
  /\ session' = [session EXCEPT ![fiber[f].obj].target = [id |-> fiber[f].target, kind |-> "user"]]
  /\ UNCHANGED <<sessions>>
  /\ Schedule({f})

AdoptPage(f) ==
  LET previous == Pointer(f)
  IN  /\ fiber[f].pc = "page" /\ Quiet /\ ~ fiber[f].cancelled
      /\ IF previous.kind = "relay" /\ previous.id # fiber[f].target
         THEN /\ fiber' = [fiber EXCEPT ![f].pc = "closePrevious", ![f].previous = previous]
              /\ UNCHANGED <<sessions, session, storeVars>>
         ELSE /\ PointAtTarget(f)
              /\ fiber' = [fiber EXCEPT ![f].pc = "flush", ![f].previous = previous]
      /\ UNCHANGED <<permitVars, starting, registryVars, admission, events>>

ClosePrevious(f) ==
  /\ fiber[f].pc = "closePrevious" /\ Quiet
  /\ ClosePage(fiber[f].previous.id)
  /\ fiber' = [fiber EXCEPT ![f].woken = "ok", ![f].previousClosed = TRUE]
  /\ UNCHANGED <<permitVars, starting, attaching, admission, events>>

PointAfterClose(f) ==
  /\ fiber[f].pc = "closePrevious" /\ fiber[f].woken = "ok"
  /\ PointAtTarget(f)
  /\ Move(f, "flush")
  /\ UNCHANGED <<permitVars, starting, registryVars, admission, events>>

FailPage(f) ==
  /\ fiber[f].pc \in {"page", "closePrevious"} /\ fiber[f].woken = "no" /\ Quiet
  /\ fiber[f].pc = "closePrevious" => Live(fiber[f].previous.id)
  /\ FailAdopt(f)
  /\ UNCHANGED <<starting, admission, events>>

(* commitTargetOwnership, in the step that resumes after the catalog write.  *)
MayCommit(f) == ~ fiber[f].cancelled /\ HoldsReservation(f) /\ StillReserved

CommitAdopt(f) ==
  /\ MayCommit(f)
  /\ owner' = IF fiber[f].previous.id = fiber[f].target THEN owner
              ELSE Released(owner, fiber[f].previous.id, fiber[f].id)
  /\ reservation' = None
  /\ Finish(f)
  /\ UNCHANGED <<sessions, session, attaching, storeVars>>

(* The caller's timeout or its disconnect: ownership goes back at once, the  *)
(* worker keeps both permits until its page operation settles.               *)
CancelAdopt(f) ==
  /\ fiber[f].op = "adopt" /\ fiber[f].pc # "idle" /\ ~ fiber[f].cancelled
  /\ Quiet
  /\ owner' = RolledBack(f)
  /\ reservation' = Unstored(f)
  /\ fiber' = [fiber EXCEPT ![f].cancelled = TRUE]
  /\ UNCHANGED <<sessions, session, permitVars, starting, attaching, admission,
                 storeVars, events>>

(* cleanupSettledAdoption after its ownership part, and the close that       *)
(* cleanupCreatedSession awaits.                                            *)
CleanupPrevious(f) ==
  /\ fiber[f].pc = "cleanupPrevious" /\ Quiet
  /\ \/ /\ ClosePage(fiber[f].previous.id)
        /\ Move(f, "cleanupClose")
        /\ UNCHANGED permitVars
     \/ /\ Live(fiber[f].previous.id)   \* the close fails, and the rest of the cleanup is left out
        /\ Finish(f)
        /\ UNCHANGED <<sessions, session, owner, reservation, storeVars>>
  /\ UNCHANGED <<starting, attaching, admission, events>>

CleanupClose(f) ==
  LET o == fiber[f].obj
      closed == [session EXCEPT ![o].closed = TRUE]
  IN  /\ fiber[f].pc = "cleanupClose" /\ Quiet
      /\ IF fiber[f].op = "adopt" /\ ~ Registered(f)
         THEN /\ session' = closed
              /\ Finish(f)
              /\ UNCHANGED <<sessions, storeVars>>
         ELSE /\ IF fiber[f].op = "adopt" /\ ~ fiber[f].created
                 THEN /\ \E p \in Session : ~ InUse(p)
                      /\ sessions' = [sessions EXCEPT ![fiber[f].id] = NewObject]
                      /\ session' = [closed EXCEPT ![NewObject] = NewSession]
                 ELSE /\ sessions' = IF Registered(f)
                                     THEN [sessions EXCEPT ![fiber[f].id] = None] ELSE sessions
                      /\ session' = closed
              /\ Schedule({f})
              /\ Move(f, "reflush")
              /\ UNCHANGED permitVars
      /\ UNCHANGED <<starting, registryVars, admission, events>>

(* createPersistedSession, when the catalog write fails.                    *)
DropCreated(f) ==
  /\ fiber[f].op = "create"
  /\ sessions' = IF Registered(f) THEN [sessions EXCEPT ![fiber[f].id] = None] ELSE sessions
  /\ Move(f, "cleanupClose")
  /\ UNCHANGED <<session, permitVars, owner, reservation, attaching, storeVars>>

-----------------------------------------------------------------------------
(* A fiber resumes from its catalog write.                                  *)
ResumeFlushed(f) ==
  \/ /\ fiber[f].op \in {"create", "execute"}
     /\ Finish(f)
     /\ UNCHANGED <<sessions, session, registryVars, storeVars>>
  \/ CompleteRemoval(f)
  \/ CommitAdopt(f)
  \/ /\ fiber[f].op = "adopt" /\ ~ MayCommit(f)
     /\ FailAdopt(f)

ResumeUnflushed(f) ==
  \/ DropCreated(f)
  \/ CleanupCreated(f)
  \/ /\ fiber[f].op = "execute" /\ ~ (fiber[f].created /\ Registered(f))
     /\ Finish(f)
     /\ UNCHANGED <<sessions, session, registryVars, storeVars>>
  \/ RestoreRemoved(f)
  \/ fiber[f].op = "adopt" /\ FailAdopt(f)

Resume(f) ==
  /\ fiber[f].woken # "no"
  /\ \/ fiber[f].pc = "flush" /\ fiber[f].woken = "ok" /\ ResumeFlushed(f)
     \/ fiber[f].pc = "flush" /\ fiber[f].woken = "failed" /\ ResumeUnflushed(f)
     \/ /\ fiber[f].pc = "reflush"
        /\ Finish(f)
        /\ UNCHANGED <<sessions, session, registryVars, storeVars>>
  /\ UNCHANGED <<starting, admission, events>>

(* The head of the write chain settles.  A failed save may already have     *)
(* replaced the file: the rename precedes the sync of its directory.        *)
Wake(result) ==
  /\ queue # <<>>
  /\ queue' = Tail(queue)
  /\ lastWrite' = result
  /\ fiber' = [f \in Fiber |-> IF f \in Head(queue).waiters
                               THEN [fiber[f] EXCEPT !.woken = result] ELSE fiber[f]]

SaveCatalog ==
  /\ Quiet
  /\ Wake("ok")
  /\ disk' = Head(queue).catalog
  /\ UNCHANGED <<sessions, session, permitVars, starting, registryVars, admission,
                 drained, failures, events>>

FailSave ==
  /\ Quiet /\ failures < MaxFailures
  /\ Wake("failed")
  /\ disk' \in {disk, Head(queue).catalog}
  /\ failures' = failures + 1
  /\ UNCHANGED <<sessions, session, permitVars, starting, registryVars, admission,
                 drained, events>>

-----------------------------------------------------------------------------
(* What the extension reports.                                              *)
Event == Quiet /\ events < MaxEvents /\ events' = events + 1

PersistedTargetOwner(t) ==
  IF PointersTo(t) = {} THEN None
  ELSE CHOOSE id \in Id : sessions[id] # None /\ session[sessions[id]].target.id = t

(* attachTabUnlocked reads the owner that sessions remember, prepares the    *)
(* new root over several messages, and commits it with that owner.          *)
BeginAttach(t) ==
  /\ Quiet
  /\ owner[t] = Absent /\ attaching[t] = Absent
  /\ attaching' = [attaching EXCEPT ![t] = PersistedTargetOwner(t)]
  /\ UNCHANGED <<sessions, session, fiber, permitVars, starting, owner, reservation,
                 admission, storeVars, events>>

CommitAttach(t) ==
  /\ Quiet /\ attaching[t] # Absent
  /\ owner' = [owner EXCEPT ![t] = attaching[t]]
  /\ attaching' = [attaching EXCEPT ![t] = Absent]
  /\ UNCHANGED <<sessions, session, fiber, permitVars, starting, reservation,
                 admission, storeVars, events>>

DetachTarget(t) ==
  /\ Event
  /\ Live(t)
  /\ Forget(t, Absent)
  /\ UNCHANGED sessions
  /\ IF session' = session THEN UNCHANGED storeVars ELSE Schedule({})
  /\ UNCHANGED <<fiber, permitVars, starting, attaching, admission>>

(* Root t is replaced by a generation with target id u, in the same tab.    *)
(* The registered sessions follow (markTargetReplaced).                     *)
ReplaceTarget(t, u) ==
  /\ Event
  /\ Live(t)
  /\ u # t => IsNew(u)
  /\ owner' = [owner EXCEPT ![t] = Gone,
                  ![u] = IF reservation # None /\ reservation.stored /\ reservation.target = t
                         THEN reservation.previous ELSE owner[t]]
  /\ reservation' = Uncurrent(t)
  /\ session' = [o \in Session |->
       IF o \in PointersTo(t) THEN [session[o] EXCEPT !.target.id = u] ELSE session[o]]
  /\ UNCHANGED sessions
  /\ IF session' = session THEN UNCHANGED storeVars ELSE Schedule({})
  /\ UNCHANGED <<fiber, permitVars, starting, attaching, admission>>

(* The extension connection is replaced: the registry is cleared, sessions  *)
(* keep their pointers.                                                     *)
LoseExtension ==
  /\ Event
  /\ owner' = [t \in Target |-> IF Live(t) THEN Absent ELSE owner[t]]
  /\ attaching' = [t \in Target |-> Absent]
  /\ reservation' = IF reservation = None THEN None
                    ELSE [reservation EXCEPT !.current = FALSE, !.stored = FALSE]
  /\ UNCHANGED <<sessions, session, fiber, permitVars, starting, admission, storeVars>>

-----------------------------------------------------------------------------
(* Drain, resume and close. *)
BeginDrain ==
  /\ "drain" \in Requests
  /\ Quiet /\ admission = "open"
  /\ admission' = "draining"
  /\ UNCHANGED <<sessions, session, fiber, permitVars, starting, registryVars,
                 storeVars, events>>

WritesAreSettled == lastWrite \in {"ok", "failed"}   \* variant: a failed write ends the drain too
WritesAreDone == lastWrite = "ok"

(* The drain loop found no work and the write chain settled well.           *)
FinishDrain ==
  /\ Quiet /\ admission \in {"draining", "closed"} /\ ~ drained
  /\ PendingWork = 0 /\ WritesAreDone
  /\ drained' = TRUE
  /\ UNCHANGED <<sessions, session, fiber, permitVars, starting, registryVars,
                 admission, queue, disk, lastWrite, failures, events>>

ResumeAdmission ==
  /\ Quiet /\ admission = "draining"
  /\ admission' = "open"
  /\ UNCHANGED <<sessions, session, fiber, permitVars, starting, registryVars,
                 storeVars, events>>

(* The relay stops: admission ends for good, and when the drain is over the  *)
(* sessions are disconnected and forgotten, without a catalog write.         *)
CloseAdmission ==
  /\ "close" \in Requests
  /\ Quiet /\ admission \in {"open", "draining"}
  /\ admission' = "closed"
  /\ UNCHANGED <<sessions, session, fiber, permitVars, starting, registryVars,
                 storeVars, events>>

ForgetSessions ==
  /\ sessions' = [id \in Id |-> None]
  /\ UNCHANGED storeVars

CloseAll ==
  /\ Quiet /\ admission = "closed"
  /\ PendingWork = 0 /\ (drained \/ lastWrite = "failed")
  /\ session' = [o \in Session |-> IF \E id \in Id : sessions[id] = o
                                  THEN [session[o] EXCEPT !.closed = TRUE] ELSE session[o]]
  /\ ForgetSessions
  /\ admission' = "stopped"
  /\ UNCHANGED <<fiber, permitVars, starting, registryVars, events>>

Stopped == admission = "stopped" /\ UNCHANGED vars

IsDrained == admission \in {"draining", "closed"} /\ PendingWork = 0 /\ drained

-----------------------------------------------------------------------------
(* A start restores the catalog on disk: any sessions, pointing at different *)
(* targets that are not attached yet.                                       *)
Catalogs ==
  {c \in [Id -> Owned \cup {NoTarget, Absent}] :
     \A i, j \in Id : c[i] \in Owned /\ c[j] \in Owned /\ c[i].id = c[j].id => i = j}

Init ==
  /\ disk \in Catalogs
  /\ \E place \in [Id -> Session] :
       /\ \A i, j \in Id : i # j => place[i] # place[j]
       /\ \A i \in Id : place[i] <= Cardinality(Id)
       /\ sessions = [id \in Id |-> IF disk[id] = Absent THEN None ELSE place[id]]
       /\ session = [o \in Session |->
            [target |-> IF \E id \in Id : sessions[id] = o
                        THEN disk[CHOOSE id \in Id : sessions[id] = o] ELSE NoTarget,
             closed |-> ~ \E id \in Id : sessions[id] = o]]
  /\ fiber = [f \in Fiber |-> IdleFiber]
  /\ executePermit = [o \in Session |-> None]
  /\ adoptPermit = None
  /\ starting = None
  /\ owner = [t \in Target |-> Absent]
  /\ reservation = None
  /\ attaching = [t \in Target |-> Absent]
  /\ admission = "open" /\ drained = FALSE
  /\ queue = <<>> /\ lastWrite = "ok" /\ failures = 0
  /\ events = 0

Step(f) ==
  \/ TakeAdoptPermit(f) \/ FindInactive(f)
  \/ StartExecute(f) \/ FinishScript(f) \/ FailSetup(f)
  \/ \E t \in Target : OpenRelayPage(f, t)
  \/ StartRemoval(f) \/ RelayPageClosed(f) \/ RemoveAfterClose(f) \/ FailClosing(f)
  \/ StartAdopt(f) \/ RefuseAdopt(f) \/ AdoptPage(f) \/ ClosePrevious(f) \/ PointAfterClose(f)
  \/ FailPage(f) \/ CleanupPrevious(f) \/ CleanupClose(f)
  \/ Resume(f)

Caller(f) == Admit(f) \/ GiveUpWaiting(f) \/ CancelAdopt(f)

Store == SaveCatalog \/ FailSave

Extension ==
  \/ \E t \in Target : BeginAttach(t) \/ CommitAttach(t) \/ DetachTarget(t)
  \/ \E t, u \in Target : ReplaceTarget(t, u)
  \/ LoseExtension

Drain == BeginDrain \/ FinishDrain \/ ResumeAdmission \/ CloseAdmission \/ CloseAll \/ Stopped

Next ==
  \/ \E f \in Fiber : Step(f) \/ Caller(f)
  \/ Store
  \/ Extension
  \/ Drain

Spec == Init /\ [][Next]_vars
-----------------------------------------------------------------------------

(* The catalog on disk can be restored at any time: restore rejects one in  *)
(* which two sessions name the same target, and the relay would not start.  *)
CatalogIsRestorable == disk \in Catalogs

(* When a drain is complete the file holds the sessions the relay has, with  *)
(* the targets they have, so the relay that takes over loses none.          *)
DrainedIsDurable == IsDrained => disk = Catalog

(* With no work left, a session whose target is attached owns it: no other  *)
(* session may adopt it.  (After a failed write a session may be put back    *)
(* although its target has been taken.)                                     *)
PointerIsOwned ==
  failures = 0 /\ PendingWork = 0 => \A id \in Id :
    LET t == session[sessions[id]].target.id
    IN  sessions[id] # None /\ t # None => owner[t] \in {id, Absent, Gone}

(* When the work is done, the file and the owners of the targets agree with *)
(* the sessions: see above.                                                 *)
SettledSessionsAgree == DrainedIsDurable /\ PointerIsOwned

=============================================================================
