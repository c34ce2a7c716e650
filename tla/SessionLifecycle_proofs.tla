------------------------ MODULE SessionLifecycle_proofs ------------------------
(***************************************************************************)
(* Proofs about SessionLifecycle for any number of sessions, targets,        *)
(* operations, events and failed writes: what is on disk when a drain is     *)
(* over, who owns the page a session points at, and that the catalog can be  *)
(* restored.  The invariant has three parts: the structure of operations,    *)
(* permits and the chain of writes (Struct), durability (SavesInv), and, as  *)
(* long as no write failed, pointers and owners (PointInv).  One lemma per   *)
(* action shows that it keeps the three.                                     *)
(***************************************************************************)
EXTENDS SessionLifecycle, FiniteSetTheorems, SequenceTheorems, TLAPS

(* The values of the variables.                                             *)
Pc == {"idle", "adoptPermit", "permit", "run", "closing", "page", "closePrevious", "flush",
       "cleanupPrevious", "cleanupClose", "reflush"}
Place == Owned \cup {NoTarget}
Work == [pc : Pc, op : Op, id : Id \cup {None}, obj : Session \cup {None}, target : Target \cup {None},
         created : BOOLEAN, previous : Place, previousClosed : BOOLEAN, cancelled : BOOLEAN,
         woken : {"no", "ok", "failed"}]
Entry == [Id -> Place \cup {Absent}]
Write == [catalog : Entry, waiters : SUBSET Fiber]

(* Type correctness, by the part of the state.                              *)
SessionsOK ==
  /\ sessions \in [Id -> Session \cup {None}]
  /\ session \in [Session -> [target : Place, closed : BOOLEAN]]
FibersOK ==
  /\ fiber \in [Fiber -> Work]
  /\ executePermit \in [Session -> Fiber \cup {None}] /\ adoptPermit \in Fiber \cup {None}
  /\ starting \in Fiber \cup {None}
RegistryOK ==
  /\ owner \in [Target -> Id \cup {None, Absent, Gone}]
  /\ reservation \in Reservation \cup {None}
  /\ attaching \in [Target -> Id \cup {None, Absent}]
StoreOK ==
  /\ drained \in BOOLEAN
  /\ queue \in Seq(Write) /\ disk \in Entry /\ lastWrite \in {"ok", "failed"}
  /\ failures \in 0..MaxFailures
RestOK ==
  /\ admission \in {"open", "draining", "closed", "stopped"}
  /\ events \in 0..MaxEvents
TypeOK == SessionsOK /\ FibersOK /\ RegistryOK /\ StoreOK /\ RestOK

-----------------------------------------------------------------------------
(* Operations, permits, promises. *)
Holding == {"run", "closing", "page", "closePrevious", "flush", "cleanupPrevious", "cleanupClose", "reflush"}
(* The places an operation may be at.                                       *)
Pcs(op) == CASE op = "create" -> {"flush", "cleanupClose", "reflush"}
             [] op = "execute" -> {"permit", "run", "flush", "cleanupClose", "reflush"}
             [] op = "adopt" -> {"adoptPermit", "permit", "page", "closePrevious", "flush", "cleanupPrevious",
                                 "cleanupClose", "reflush"}
             [] OTHER -> {"permit", "closing", "flush", "reflush"}
(* An operation in flight: it is at a place of its kind, works on one       *)
(* object under one id, and holds the permits that its place needs.         *)
WorkOK(f) ==
  LET c == fiber[f] IN
  IF c.pc = "idle" THEN c = IdleFiber
  ELSE /\ c.pc \in Pcs(c.op) /\ c.id \in Id /\ c.obj \in Session
       /\ c.op = "adopt" => c.target \in Target
       /\ c.op # "create" /\ c.pc \in Holding => executePermit[c.obj] = f
       /\ c.op = "adopt" /\ c.pc # "adoptPermit" => adoptPermit = f
       /\ c.pc \in {"adoptPermit", "permit"} => c.previous = NoTarget
       /\ c.pc \in {"closing", "closePrevious", "cleanupPrevious"} => c.previous \in Owned
       /\ c.pc = "closePrevious" /\ c.woken = "ok" => c.previousClosed
       /\ c.woken # "no" => c.pc \in {"closing", "closePrevious", "flush", "reflush"}
       /\ c.op = "create" /\ c.pc = "cleanupClose" => failures # 0
       /\ \A id \in Id : sessions[id] = c.obj => id = c.id
       /\ \A g \in Fiber : fiber[g].obj = c.obj => fiber[g].id = c.id
WorkInv == \A f \in Fiber : WorkOK(f)
(* An object is registered under one id.                                    *)
OneEach == \A i, j \in Id : sessions[i] # None /\ sessions[i] = sessions[j] => i = j
(* One settled promise at a time: its operation resumes before anything     *)
(* else starts.                                                             *)
WokenInv == \A f \in Fiber : fiber[f].woken # "no" => starting = None /\ \A g \in Fiber \ {f} : fiber[g].woken = "no"

(* Operation f is behind write k of the chain; it awaits a write until it   *)
(* is woken.                                                                *)
Waits(f, k) == k \in 1..Len(queue) /\ f \in queue[k].waiters
Awaits(f) == fiber[f].pc \in {"flush", "reflush"} /\ fiber[f].woken = "no"
(* Exactly the operations that await a write are behind one, each behind a  *)
(* write of its own.                                                        *)
QueueInv ==
  /\ \A f \in Fiber : Awaits(f) => \E k \in 1..Len(queue) : Waits(f, k)
  /\ \A f \in Fiber, k \in 1..Len(queue) : Waits(f, k) => Awaits(f)
  /\ \A f, g \in Fiber, k \in 1..Len(queue) : Waits(f, k) /\ Waits(g, k) => f = g
  /\ \A f \in Fiber, k, l \in 1..Len(queue) : Waits(f, k) /\ Waits(f, l) => k = l
(* Only a write that failed is reported as failed.                          *)
FailInv == (\E f \in Fiber : fiber[f].woken = "failed") \/ lastWrite = "failed" => failures > 0

Struct == TypeOK /\ WorkInv /\ OneEach /\ WokenInv /\ QueueInv /\ FailInv

-----------------------------------------------------------------------------
(* Durability. *)
Removes(f) == fiber[f].op \in {"reset", "delete"} /\ fiber[f].pc = "flush"
(* An adoption between its reservation and its commit.                      *)
Adopts(f) == fiber[f].op = "adopt" /\ fiber[f].pc \in {"page", "closePrevious", "flush"}
(* An adoption that has pointed its session at the page and awaits the      *)
(* write.                                                                   *)
Commits(f) == fiber[f].op = "adopt" /\ fiber[f].pc = "flush"

(* What a reset or a delete is removing is not registered any more.         *)
RemovedInv == \A f \in Fiber : Removes(f) => \A id \in Id : sessions[id] # fiber[f].obj
(* A page that is being attached is not attached.                           *)
AttachInv == \A t \in Target : attaching[t] # Absent => owner[t] = Absent
(* A relay page that an adoption replaces, and that its session has let go  *)
(* of for another one, was closed.                                          *)
PreviousOK(f) ==
  Adopts(f) /\ fiber[f].previous.kind = "relay" /\ ~ fiber[f].previousClosed
    /\ TargetOf(f).id \notin {None, fiber[f].previous.id}
  => owner[fiber[f].previous.id] = Gone
PreviousInv == \A f \in Fiber : PreviousOK(f)

(* The last write of the chain, or the file when the chain is empty, has    *)
(* the catalog of now.                                                      *)
Saved == IF queue = <<>> THEN lastWrite = "ok" => disk = Catalog ELSE queue[Len(queue)].catalog = Catalog
(* A cleanup whose write is still to be scheduled.                          *)
Dirty(f) ==
  \/ fiber[f].pc = "cleanupClose" /\ (fiber[f].op = "adopt" => Registered(f))
  \/ fiber[f].pc = "cleanupPrevious" /\ Registered(f) /\ owner[fiber[f].previous.id] = Gone
(* The catalog is saved, or will be by a cleanup in flight; a drain stays   *)
(* complete until the next write.                                           *)
DurableInv ==
  /\ admission # "stopped" => Saved \/ \E f \in Fiber : Dirty(f)
  /\ drained => queue = <<>> /\ lastWrite = "ok"

-----------------------------------------------------------------------------
(* Pointers and owners. *)
Points(id, t) == sessions[id] # None /\ session[sessions[id]].target.id = t
(* an adoption that will take its pointer back *)
Withdraws(id) == \E g \in Fiber : Commits(g) /\ sessions[id] = fiber[g].obj /\ ~ MayCommit(g)

(* An operation whose session cannot be replaced: it holds the permit.      *)
Stays(f) == Adopts(f) \/ (fiber[f].op \in {"reset", "delete"} /\ fiber[f].pc = "closing")
RegisteredInv == \A f \in Fiber : Stays(f) => Registered(f)
(* There is a reservation while an adoption runs, and it is that            *)
(* adoption's; while its page is current, nobody else owns it.              *)
ReservationInv ==
  /\ \A f \in Fiber : Adopts(f) => HoldsReservation(f)
  /\ reservation # None =>
       /\ Adopts(reservation.fiber)
       /\ reservation.target = fiber[reservation.fiber].target /\ reservation.id = fiber[reservation.fiber].id
       /\ reservation.previous \in {None, reservation.id}
       /\ reservation.stored => reservation.current
       /\ reservation.current => owner[reservation.target] \in {None, reservation.id}
(* No two sessions point at the same target.                                *)
UniqueInv == \A i, j \in Id, t \in Target : Points(i, t) /\ Points(j, t) => i = j
(* The target of a session is its own, or detached, or the session is about *)
(* to lose the pointer.                                                     *)
OwnerInv == \A id \in Id, t \in Target : Points(id, t) => owner[t] \in {id, Absent, Gone} \/ Withdraws(id)
(* An attach in flight carries the owner that the sessions remember.        *)
AttachOwnerInv ==
  \A id \in Id, t \in Target : attaching[t] # Absent /\ Points(id, t) => attaching[t] = id \/ Withdraws(id)
(* An adoption: nobody else points at its page; when it goes on after the   *)
(* reservation its session points at the page.                              *)
AdoptOK(f) ==
  Adopts(f) =>
    /\ fiber[f].pc # "flush" => \A id \in Id : Points(id, fiber[f].target) => id = fiber[f].id
    /\ fiber[f].pc # "flush" /\ Points(fiber[f].id, fiber[f].target) => reservation.previous = fiber[f].id
    /\ fiber[f].pc = "flush" /\ reservation.current => TargetOf(f).id = fiber[f].target
AdoptInv == \A f \in Fiber : AdoptOK(f)
(* A removal of a session that an adoption points at its page is written    *)
(* before the adoption is: the adoption cannot commit to a session that is  *)
(* already gone.                                                            *)
OrderInv ==
  \A f, g \in Fiber :
    Removes(f) /\ Commits(g) /\ fiber[f].id = fiber[g].id =>
      /\ fiber[g].woken = "no"
      /\ \A k, l \in 1..Len(queue) : Waits(f, k) /\ Waits(g, l) => k < l
(* While a removed object still names a target, the session that took its   *)
(* id points at that target only by an adoption in flight.                  *)
RemovalInv ==
  \A f \in Fiber : Removes(f) /\ TargetOf(f).id # None /\ Points(fiber[f].id, TargetOf(f).id) =>
    \E g \in Fiber : Commits(g) /\ sessions[fiber[f].id] = fiber[g].obj
(* The file and every scheduled write can be restored.                      *)
WritesInv == disk \in Catalogs /\ \A k \in 1..Len(queue) : queue[k].catalog \in Catalogs
PointInv == RegisteredInv /\ UniqueInv /\ OwnerInv /\ AttachOwnerInv /\ AdoptInv /\ OrderInv /\ RemovalInv /\ WritesInv

SavesInv == RemovedInv /\ AttachInv /\ PreviousInv /\ DurableInv /\ ReservationInv
(* The inductive invariant.  That pointers are unique and owned holds as    *)
(* long as no write failed: a failed removal puts back a session whose page *)
(* may have been taken.                                                     *)
Inv == Struct /\ SavesInv /\ (failures = 0 => PointInv)

-----------------------------------------------------------------------------
(* What the parts of actions do.                                            *)
LEMMA Constants ==
  /\ Session \subseteq Nat /\ None \notin Session /\ None \notin Id /\ None \notin Target /\ None \notin Fiber
  /\ NoTarget \in Place /\ NoTarget.id = None /\ NoTarget.kind # "relay"
  /\ \A p \in Place : p.id \in Target \cup {None} /\ (p.id = None <=> p = NoTarget) /\ (p # NoTarget => p \in Owned)
  /\ None # Absent /\ None # Gone /\ Absent # Gone /\ Absent \notin Id /\ Gone \notin Id
  /\ IdleFiber \in Work
  BY LifecycleAssumption DEF Session, NoTarget, Place, Owned, IdleFiber, Work, Pc, Op

(* Only fiber f moves.                                                      *)
Others(f) == \A g \in Fiber : g # f => fiber'[g] = fiber[g]

(* Move changes the place of a fiber and takes its wake-up.                 *)
LEMMA MoveDoes ==
  ASSUME FibersOK, NEW f \in Fiber, NEW pc \in Pc, Move(f, pc)
  PROVE  /\ fiber' \in [Fiber -> Work] /\ Others(f)
         /\ fiber'[f].pc = pc /\ fiber'[f].woken = "no"
         /\ fiber'[f].op = fiber[f].op /\ fiber'[f].id = fiber[f].id /\ fiber'[f].obj = fiber[f].obj
         /\ fiber'[f].target = fiber[f].target /\ fiber'[f].created = fiber[f].created
         /\ fiber'[f].previous = fiber[f].previous /\ fiber'[f].previousClosed = fiber[f].previousClosed
         /\ fiber'[f].cancelled = fiber[f].cancelled
  <1>1. fiber' = [fiber EXCEPT ![f] = [fiber[f] EXCEPT !.pc = pc, !.woken = "no"]] /\ fiber[f] \in Work
    BY DEF Move, FibersOK
  <1>2. [fiber[f] EXCEPT !.pc = pc, !.woken = "no"] \in Work
    BY <1>1 DEF Work
  <1> QED BY <1>1, <1>2 DEF FibersOK, Others, Work

(* Finish frees the fiber and both permits.                                 *)
LEMMA FinishDoes ==
  ASSUME FibersOK, NEW f \in Fiber, Finish(f)
  PROVE  /\ fiber' \in [Fiber -> Work] /\ Others(f) /\ fiber'[f] = IdleFiber
         /\ executePermit' \in [Session -> Fiber \cup {None}] /\ adoptPermit' \in Fiber \cup {None}
         /\ \A o \in Session : executePermit'[o] = IF executePermit[o] = f THEN None ELSE executePermit[o]
         /\ adoptPermit' = IF adoptPermit = f THEN None ELSE adoptPermit
  BY Constants DEF Finish, FibersOK, Others

(* Hold takes the permit of one object.                                     *)
LEMMA HoldDoes ==
  ASSUME FibersOK, NEW f \in Fiber, fiber[f].obj \in Session, Hold(f)
  PROVE  /\ executePermit' \in [Session -> Fiber \cup {None}] /\ adoptPermit' = adoptPermit
         /\ executePermit'[fiber[f].obj] = f
         /\ \A o \in Session : o # fiber[f].obj => executePermit'[o] = executePermit[o]
  BY DEF Hold, FibersOK

(* A new session object is one that nothing names.                          *)
LEMMA CreateDoes ==
  ASSUME SessionsOK, NEW id \in Id, CreateSession(id)
  PROVE  /\ SessionsOK' /\ NewObject \in Session /\ ~ InUse(NewObject)
         /\ sessions'[id] = NewObject /\ \A j \in Id : j # id => sessions'[j] = sessions[j]
         /\ session'[NewObject] = NewSession
         /\ \A o \in Session : o # NewObject => session'[o] = session[o]
         /\ NewSession.target = NoTarget
  <1>1. NewObject \in Session /\ ~ InUse(NewObject)
    BY DEF CreateSession, NewObject
  <1>2. NewSession \in [target : Place, closed : BOOLEAN] /\ NewSession.target = NoTarget
    BY Constants DEF NewSession
  <1> QED BY <1>1, <1>2 DEF CreateSession, SessionsOK

(* A scheduled write is the last of the chain and has the catalog of the    *)
(* next state.                                                              *)
LEMMA ScheduleDoes ==
  ASSUME StoreOK, SessionsOK', NEW w \in SUBSET Fiber, Schedule(w)
  PROVE  /\ StoreOK' /\ Saved' /\ ~ drained' /\ queue' # <<>> /\ failures' = failures
         /\ disk' = disk /\ lastWrite' = lastWrite
         /\ Len(queue) \in Nat /\ Len(queue') = Len(queue) + 1
         /\ \A k \in 1..Len(queue) : queue'[k] = queue[k]
         /\ queue'[Len(queue')].waiters = w /\ queue'[Len(queue')].catalog = Catalog'
  <1> DEFINE e == [catalog |-> Catalog', waiters |-> w]
  <1>1. Catalog' \in Entry
    BY Constants DEF Catalog, Entry, SessionsOK
  <1>2. e \in Write
    BY <1>1 DEF Write
  <1>3. queue' = Append(queue, e) /\ queue \in Seq(Write)
    BY DEF Schedule, StoreOK
  <1> HIDE DEF e
  <1>4. /\ queue' \in Seq(Write) /\ queue' # <<>> /\ Len(queue') = Len(queue) + 1 /\ Len(queue) \in Nat
        /\ \A k \in 1..Len(queue) : queue'[k] = queue[k]
        /\ queue'[Len(queue')] = e
    BY <1>2, <1>3, AppendProperties, LenProperties
  <1>5. drained' = FALSE /\ disk' = disk /\ lastWrite' = lastWrite /\ failures' = failures
    BY DEF Schedule
  <1>6. e.waiters = w /\ e.catalog = Catalog'
    BY DEF e
  <1>7. StoreOK'
    BY <1>4, <1>5 DEF StoreOK
  <1>8. Saved'
    BY <1>4, <1>6 DEF Saved
  <1> QED BY <1>4, <1>5, <1>6, <1>7, <1>8

-----------------------------------------------------------------------------
(* The structure, after a step of one fiber.                                *)
KeepsPermits(f) ==
  /\ \A o \in Session, g \in Fiber : g # f /\ executePermit[o] = g => executePermit'[o] = g
  /\ \A g \in Fiber : g # f /\ adoptPermit = g => adoptPermit' = g
(* A session is unregistered, or registered under the id its operations     *)
(* know.                                                                    *)
Binds(f) ==
  /\ \A id \in Id : \/ sessions'[id] \in {None, sessions[id]}
                    \/ \A g \in Fiber : g # f /\ fiber[g].obj = sessions'[id] => fiber[g].id = id
  /\ f \in Fiber => \A g \in Fiber : g # f /\ fiber[g].obj # None /\ fiber[g].obj = fiber'[f].obj => fiber[g].id = fiber'[f].id
WakesOne(f) ==
  \/ fiber'[f].woken = "no" /\ (starting' = None \/ \A g \in Fiber : g # f => fiber[g].woken = "no")
  \/ Quiet /\ starting' = None
(* The step leaves the chain alone, or schedules a write that f awaits, or  *)
(* one that nobody does.                                                    *)
QueuesOne(f) ==
  \/ queue' = queue /\ Awaits(f)' = Awaits(f)
  \/ f \in Fiber /\ Schedule({f}) /\ ~ Awaits(f) /\ Awaits(f)'
  \/ Schedule({}) /\ Awaits(f)' = Awaits(f)

(* A step of fiber f leaves the other operations as they are.               *)
LEMMA WorkStep ==
  ASSUME TypeOK, WorkInv, NEW f, Others(f), KeepsPermits(f), Binds(f), f \in Fiber => WorkOK(f)', FibersOK',
         failures' = failures
  PROVE  WorkInv'
  <1> SUFFICES ASSUME NEW g \in Fiber, g # f, fiber[g].pc # "idle" PROVE WorkOK(g)'
    BY DEF WorkInv, WorkOK, Others
  <1>1. fiber'[g] = fiber[g] /\ WorkOK(g) /\ fiber[g].obj \in Session /\ fiber[g].obj # None
    BY Constants DEF WorkInv, WorkOK, Others
  <1>2. \A id \in Id : sessions'[id] = fiber[g].obj => id = fiber[g].id
    BY <1>1 DEF Binds, WorkOK
  <1>3. \A h \in Fiber : fiber'[h].obj = fiber[g].obj => fiber'[h].id = fiber[g].id
    BY <1>1 DEF Binds, WorkOK, Others
  <1>4. \A o \in Session : executePermit[o] = g => executePermit'[o] = g
    BY DEF KeepsPermits
  <1>5. adoptPermit = g => adoptPermit' = g
    BY DEF KeepsPermits
  <1> QED BY <1>1, <1>2, <1>3, <1>4, <1>5 DEF WorkOK

(* A step of fiber f wakes f at most.                                       *)
LEMMA WokenStep ==
  ASSUME WokenInv, NEW f, Others(f), WakesOne(f) PROVE WokenInv'
  <1>1. CASE fiber'[f].woken = "no"
    BY <1>1 DEF WokenInv, Others, WakesOne, Quiet
  <1>2. CASE Quiet /\ starting' = None
    BY <1>2 DEF WokenInv, Others, Quiet
  <1> QED BY <1>1, <1>2 DEF WakesOne

(* A step of fiber f schedules one write at most, for f at most.            *)
LEMMA QueueStep ==
  ASSUME Struct, SessionsOK', NEW f, Others(f), QueuesOne(f)
  PROVE  QueueInv'
  <1>0. StoreOK /\ Len(queue) \in Nat
    BY LenProperties DEF Struct, TypeOK, StoreOK
  <1>a. \A g \in Fiber : g # f => Awaits(g)' = Awaits(g)
    BY DEF Others, Awaits
  <1>1. CASE queue' = queue /\ Awaits(f)' = Awaits(f)
    BY <1>1, <1>a DEF QueueInv, Waits, Struct
  <1>2. CASE f \in Fiber /\ Schedule({f}) /\ ~ Awaits(f) /\ Awaits(f)'
    <2>1. /\ Len(queue') = Len(queue) + 1 /\ \A k \in 1..Len(queue) : queue'[k] = queue[k]
          /\ queue'[Len(queue')].waiters = {f}
      BY <1>0, <1>2, ScheduleDoes
    <2>2. \A g \in Fiber, k \in 1..Len(queue') : Waits(g, k)' <=> Waits(g, k) \/ (k = Len(queue) + 1 /\ g = f)
      BY <1>0, <2>1 DEF Waits
    <2>3. \A g \in Fiber, k \in 1..Len(queue) : Waits(g, k) => g # f
      BY <1>2 DEF QueueInv, Struct
    <2>4. \A g \in Fiber : Awaits(g)' => \E k \in 1..Len(queue') : Waits(g, k)'
      BY <1>0, <1>a, <2>1, <2>2 DEF QueueInv, Struct
    <2>5. \A g \in Fiber, k \in 1..Len(queue') : Waits(g, k)' => Awaits(g)'
      BY <1>0, <1>2, <1>a, <2>2, <2>3 DEF QueueInv, Struct, Waits
    <2>6. \A g, h \in Fiber, k \in 1..Len(queue') : Waits(g, k)' /\ Waits(h, k)' => g = h
      BY <1>0, <2>2 DEF QueueInv, Struct, Waits
    <2>7. \A g \in Fiber, k, l \in 1..Len(queue') : Waits(g, k)' /\ Waits(g, l)' => k = l
      BY <1>0, <2>2, <2>3 DEF QueueInv, Struct, Waits
    <2> QED BY <2>4, <2>5, <2>6, <2>7 DEF QueueInv
  <1>3. CASE Schedule({}) /\ Awaits(f)' = Awaits(f)
    <2>1. /\ Len(queue') = Len(queue) + 1 /\ \A k \in 1..Len(queue) : queue'[k] = queue[k]
          /\ queue'[Len(queue')].waiters = {}
      BY <1>0, <1>3, ScheduleDoes
    <2>2. \A g \in Fiber, k \in 1..Len(queue') : Waits(g, k)' <=> Waits(g, k)
      BY <1>0, <2>1 DEF Waits
    <2>3. \A g \in Fiber, k \in 1..Len(queue') : Waits(g, k) => k \in 1..Len(queue)
      BY DEF Waits
    <2>4. \A g \in Fiber : Awaits(g)' = Awaits(g)
      BY <1>3, <1>a
    <2> QED BY <1>0, <2>1, <2>2, <2>3, <2>4 DEF QueueInv, Struct
  <1> QED BY <1>1, <1>2, <1>3 DEF QueuesOne

(* A step of fiber f keeps the structure.                                   *)
LEMMA StructStep ==
  ASSUME Struct, NEW f, TypeOK', Others(f), KeepsPermits(f), Binds(f), f \in Fiber => WorkOK(f)', OneEach',
         WakesOne(f), QueuesOne(f), failures' = failures, lastWrite' = lastWrite, f \in Fiber => fiber'[f].woken # "failed"
  PROVE  Struct'
  <1>1. WorkInv'
    BY WorkStep DEF Struct, TypeOK
  <1>2. WokenInv'
    BY WokenStep DEF Struct
  <1>3. QueueInv'
    BY QueueStep DEF TypeOK
  <1>4. FailInv'
    BY DEF Struct, FailInv, Others
  <1> QED BY <1>1, <1>2, <1>3, <1>4 DEF Struct

-----------------------------------------------------------------------------
(* What is saved, after a step of one fiber.                                *)
GoneStays == \A t \in Target : owner[t] = Gone => owner'[t] = Gone
SameResult == disk' = disk /\ lastWrite' = lastWrite /\ failures' = failures
SameTargets == \A id \in Id : sessions[id] # None => session'[sessions[id]].target = session[sessions[id]].target

(* The catalog depends on the registered sessions and their targets only.   *)
LEMMA SameCatalog ==
  ASSUME sessions' = sessions, SameTargets PROVE Catalog' = Catalog
  BY DEF Catalog, SameTargets

(* A removed object stays unregistered, unless its own operation restores   *)
(* it.                                                                      *)
LEMMA RemovedStep ==
  ASSUME Struct, RemovedInv, NEW f, Others(f),
         \A id \in Id : \/ sessions'[id] \in {None, sessions[id]}
                        \/ \A g \in Fiber : g # f /\ Removes(g) => fiber[g].obj # sessions'[id],
         f \in Fiber /\ Removes(f)' => \A id \in Id : sessions'[id] # fiber'[f].obj
  PROVE  RemovedInv'
  <1> SUFFICES ASSUME NEW g \in Fiber, g # f, Removes(g), NEW id \in Id PROVE sessions'[id] # fiber[g].obj
    BY DEF RemovedInv, Removes, Others
  <1>1. fiber[g].obj # None /\ sessions[id] # fiber[g].obj
    BY Constants DEF RemovedInv, Removes, Struct, WorkInv, WorkOK
  <1> QED BY <1>1

(* A page that is closed stays closed.                                      *)
LEMMA PreviousStep ==
  ASSUME Struct, PreviousInv, NEW f, Others(f), GoneStays,
         \A g \in Fiber : g # f /\ Adopts(g) =>
            session'[fiber[g].obj].target.id \in {None, session[fiber[g].obj].target.id},
         f \in Fiber => PreviousOK(f)'
  PROVE  PreviousInv'
  <1> SUFFICES ASSUME NEW g \in Fiber, g # f, Adopts(g), fiber[g].previous.kind = "relay" PROVE PreviousOK(g)'
    BY DEF PreviousInv, PreviousOK, Adopts, Others
  <1>1. fiber'[g] = fiber[g] /\ PreviousOK(g) /\ Adopts(g)'
    BY DEF PreviousInv, Others, Adopts
  <1>2. fiber[g].previous.id \in Target
    BY Constants DEF Struct, TypeOK, FibersOK, Work
  <1>3. owner[fiber[g].previous.id] = Gone => owner'[fiber[g].previous.id] = Gone
    BY <1>2 DEF GoneStays
  <1>4. session'[fiber[g].obj].target.id \in {None, session[fiber[g].obj].target.id}
    OBVIOUS
  <1> QED BY <1>1, <1>3, <1>4 DEF PreviousOK, TargetOf

(* The catalog of the next state is scheduled with the step that changes    *)
(* it, or by the cleanup that the step begins.                              *)
LEMMA DurableStep ==
  ASSUME Struct, DurableInv, NEW f, Others(f), admission' = admission, SessionsOK',
         \/ \E w \in SUBSET Fiber : Schedule(w)
         \/ /\ queue' = queue /\ disk' = disk /\ lastWrite' = lastWrite /\ drained' = drained
            /\ GoneStays
            /\ (f \in Fiber /\ Dirty(f)') \/ \A g \in Fiber :
                 g # f /\ fiber[g].op = "adopt" /\ fiber[g].pc \in Holding /\ Registered(g) =>
                 sessions'[fiber[g].id] = fiber[g].obj
            /\ (f \in Fiber /\ Dirty(f)') \/ (Catalog' = Catalog /\ (f \in Fiber => ~ Dirty(f)))
  PROVE  DurableInv'
  <1>1. CASE \E w \in SUBSET Fiber : Schedule(w)
    <2>1. PICK w \in SUBSET Fiber : Schedule(w)
      BY <1>1
    <2>2. Saved' /\ ~ drained'
      BY <2>1, ScheduleDoes DEF Struct, TypeOK
    <2> QED BY <2>2 DEF DurableInv
  <1>2. CASE /\ queue' = queue /\ disk' = disk /\ lastWrite' = lastWrite /\ drained' = drained
             /\ GoneStays
             /\ (f \in Fiber /\ Dirty(f)') \/ \A g \in Fiber :
                 g # f /\ fiber[g].op = "adopt" /\ fiber[g].pc \in Holding /\ Registered(g) =>
                  sessions'[fiber[g].id] = fiber[g].obj
             /\ (f \in Fiber /\ Dirty(f)') \/ (Catalog' = Catalog /\ (f \in Fiber => ~ Dirty(f)))
    <2>1. ASSUME ~ (f \in Fiber /\ Dirty(f)'), NEW g \in Fiber, g # f, Dirty(g) PROVE Dirty(g)'
      <3>1. fiber'[g] = fiber[g] /\ WorkOK(g)
        BY <2>1 DEF Others, Struct, WorkInv
      <3>2. fiber[g].pc = "cleanupPrevious" => fiber[g].op = "adopt" /\ fiber[g].previous.id \in Target
        BY <3>1 DEF WorkOK, Pcs, Owned
      <3>3. fiber[g].op = "adopt" /\ fiber[g].pc \in Holding /\ Registered(g) => Registered(g)'
        BY <1>2, <2>1, <3>1 DEF Registered
      <3>4. CASE fiber[g].pc = "cleanupClose"
        BY <2>1, <3>1, <3>3, <3>4 DEF Dirty, Holding
      <3>5. CASE fiber[g].pc = "cleanupPrevious"
        BY <1>2, <2>1, <3>1, <3>2, <3>3, <3>5 DEF Dirty, Holding, GoneStays
      <3> QED BY <2>1, <3>4, <3>5 DEF Dirty
    <2>2. Catalog' = Catalog /\ Saved => Saved'
      BY <1>2 DEF Saved
    <2>3. CASE f \in Fiber /\ Dirty(f)'
      BY <1>2, <2>3 DEF DurableInv
    <2>4. CASE ~ (f \in Fiber /\ Dirty(f)') /\ Catalog' = Catalog /\ (f \in Fiber => ~ Dirty(f))
      <3>1. ASSUME NEW g \in Fiber, Dirty(g) PROVE Dirty(g)'
        BY <2>1, <2>4, <3>1
      <3> QED BY <1>2, <2>2, <2>4, <3>1 DEF DurableInv
    <2> QED BY <1>2, <2>3, <2>4
  <1> QED BY <1>1, <1>2

(* The reservation stays, although it may have lost its page or its owner.   *)
ReservationKept ==
  \/ reservation = None /\ reservation' = None
  \/ /\ reservation # None /\ reservation' # None
     /\ reservation'.fiber = reservation.fiber /\ reservation'.target = reservation.target
     /\ reservation'.id = reservation.id /\ reservation'.previous = reservation.previous
     /\ reservation'.current => /\ reservation.current
                                /\ owner'[reservation.target] \in {None, owner[reservation.target]}
     /\ reservation'.stored => reservation'.current

(* The reservation follows its adoption.                                    *)
LEMMA ReservationStep ==
  ASSUME Struct, ReservationInv, NEW f, Others(f), ReservationKept, f \in Fiber => Adopts(f)' = Adopts(f),
         f \in Fiber /\ Adopts(f) => fiber'[f].target = fiber[f].target /\ fiber'[f].id = fiber[f].id
  PROVE  ReservationInv'
  <1>1. \A g \in Fiber : Adopts(g)' = Adopts(g)
    BY DEF Others, Adopts
  <1>2. \A g \in Fiber : Adopts(g) => fiber'[g].target = fiber[g].target /\ fiber'[g].id = fiber[g].id
    BY DEF Others
  <1>3. \A g \in Fiber : HoldsReservation(g)' = HoldsReservation(g)
    BY DEF ReservationKept, HoldsReservation
  <1>4. reservation # None => reservation.fiber \in Fiber
    BY DEF Struct, TypeOK, RegistryOK, Reservation
  <1> QED BY <1>1, <1>2, <1>3, <1>4 DEF ReservationInv, ReservationKept

-----------------------------------------------------------------------------
(* Pointers and owners, after a step of one fiber while no write has failed. *)
NoNewPointer == \A id \in Id, t \in Target : Points(id, t)' => Points(id, t) /\ sessions'[id] = sessions[id]
Pointing(id) == \E t \in Target : Points(id, t)
OwnersKept ==
  \A id \in Id, t \in Target :
    Points(id, t)' /\ owner[t] \in {id, Absent, Gone} => owner'[t] \in {id, Absent, Gone} \/ Withdraws(id)'
WithdrawalsKept == \A id \in Id : Pointing(id)' /\ Withdraws(id) => Withdraws(id)'

(* A step that makes no pointer keeps pointers unique and owned.            *)
LEMMA PointersStep ==
  ASSUME UniqueInv, OwnerInv, AttachOwnerInv, NoNewPointer, OwnersKept, WithdrawalsKept,
         \A id \in Id, t \in Target : Points(id, t)' => attaching'[t] \in {attaching[t], Absent, id}
  PROVE  UniqueInv' /\ OwnerInv' /\ AttachOwnerInv'
  <1>1. UniqueInv'
    BY DEF UniqueInv, NoNewPointer
  <1>2. OwnerInv'
    <2> SUFFICES ASSUME NEW id \in Id, NEW t \in Target, Points(id, t)'
                 PROVE  owner'[t] \in {id, Absent, Gone} \/ Withdraws(id)'
      BY DEF OwnerInv
    <2>1. Points(id, t) /\ Pointing(id)'
      BY DEF NoNewPointer, Pointing
    <2>2. owner[t] \in {id, Absent, Gone} \/ Withdraws(id)
      BY <2>1 DEF OwnerInv
    <2> QED BY <2>1, <2>2 DEF OwnersKept, WithdrawalsKept
  <1>3. AttachOwnerInv'
    <2> SUFFICES ASSUME NEW id \in Id, NEW t \in Target, attaching'[t] # Absent, Points(id, t)'
                 PROVE  attaching'[t] = id \/ Withdraws(id)'
      BY DEF AttachOwnerInv
    <2>1. Points(id, t) /\ Pointing(id)' /\ attaching'[t] \in {attaching[t], id}
      BY DEF NoNewPointer, Pointing
    <2>2. attaching'[t] = attaching[t] => attaching[t] = id \/ Withdraws(id)
      BY <2>1 DEF AttachOwnerInv
    <2> QED BY <2>1, <2>2 DEF WithdrawalsKept
  <1> QED BY <1>1, <1>2, <1>3

(* The adopt permit admits one adoption.                                    *)
LEMMA OnlyOneAdopts ==
  ASSUME Struct, NEW f \in Fiber, NEW g \in Fiber, fiber[f].op = "adopt", fiber[f].pc \notin {"idle", "adoptPermit"},
         Adopts(g)
  PROVE  g = f
  BY DEF Struct, WorkInv, WorkOK, Adopts

(* An adoption that cannot commit any more never can again, until it        *)
(* withdraws its pointer.                                                   *)
LEMMA WithdrawalsStep ==
  ASSUME Struct, ReservationInv, NEW f, Others(f), ReservationKept,
         \A id \in Id : Pointing(id)' => sessions'[id] = sessions[id],
         f \in Fiber /\ Commits(f) =>
                       \/ Commits(f)' /\ fiber'[f].obj = fiber[f].obj /\ (fiber[f].cancelled => fiber'[f].cancelled)
                       \/ \A id \in Id : Pointing(id)' => sessions[id] # fiber[f].obj
  PROVE  WithdrawalsKept
  <1> SUFFICES ASSUME NEW id \in Id, Pointing(id)', NEW g \in Fiber, Commits(g), sessions[id] = fiber[g].obj, ~ MayCommit(g)
               PROVE  Commits(g)' /\ sessions'[id] = fiber'[g].obj /\ ~ MayCommit(g)'
    BY DEF WithdrawalsKept, Withdraws
  <1>1. Commits(g)' /\ sessions'[id] = fiber'[g].obj /\ (fiber[g].cancelled => fiber'[g].cancelled)
    BY DEF Others, Commits
  <1>2. HoldsReservation(g) /\ reservation \in Reservation
    BY DEF ReservationInv, Adopts, Commits, Struct, TypeOK, RegistryOK, HoldsReservation
  <1>3. reservation.id # None
    BY <1>2, Constants DEF Reservation
  <1>4. ReservationKept /\ MayCommit(g)' => MayCommit(g)
    BY <1>1, <1>2, <1>3 DEF ReservationKept, MayCommit, StillReserved, HoldsReservation
  <1> QED BY <1>1, <1>4

(* The session of an operation that holds the permit is not replaced.       *)
LEMMA RegisteredStep ==
  ASSUME RegisteredInv, NEW f, Others(f),
         \A g \in Fiber : g # f /\ Stays(g) /\ Registered(g) => sessions'[fiber[g].id] = fiber[g].obj,
         f \in Fiber /\ Stays(f)' => Registered(f)'
  PROVE  RegisteredInv'
  BY DEF RegisteredInv, Others, Stays, Registered, Adopts

(* The other operations leave an adoption its page.                         *)
LEMMA AdoptStep ==
  ASSUME Struct, ReservationInv, AdoptInv, NEW f, Others(f),
         (\E g \in Fiber : g # f /\ Adopts(g)) => ReservationKept,
         \A g \in Fiber, id \in Id : g # f /\ Adopts(g) /\ Points(id, fiber[g].target)' => Points(id, fiber[g].target),
         \A g \in Fiber : g # f /\ Commits(g) /\ reservation'.current =>
           session'[fiber[g].obj].target.id = session[fiber[g].obj].target.id,
         f \in Fiber => AdoptOK(f)'
  PROVE  AdoptInv'
  <1> SUFFICES ASSUME NEW g \in Fiber, g # f, Adopts(g) PROVE AdoptOK(g)'
    BY DEF AdoptInv, AdoptOK, Others, Adopts
  <1>1. fiber'[g] = fiber[g] /\ AdoptOK(g) /\ ReservationKept /\ reservation # None /\ fiber[g].id \in Id
    BY DEF Others, AdoptInv, ReservationInv, HoldsReservation, Struct, WorkInv, WorkOK, Adopts
  <1>2. reservation'.previous = reservation.previous /\ (reservation'.current => reservation.current)
    BY <1>1 DEF ReservationKept
  <1>3. \A id \in Id : Points(id, fiber[g].target)' => Points(id, fiber[g].target)
    BY <1>1
  <1>4. fiber[g].pc = "flush" /\ reservation'.current => (TargetOf(g).id)' = TargetOf(g).id
    BY <1>1 DEF TargetOf, Commits, Adopts
  <1> QED BY <1>1, <1>2, <1>3, <1>4 DEF AdoptOK, Adopts

(* The chain of writes settles in order.                                    *)
LEMMA OrderStep ==
  ASSUME Struct, SessionsOK', OrderInv, NEW f, Others(f), QueuesOne(f),
         f \in Fiber /\ Removes(f)' => ~ Removes(f) /\ \A g \in Fiber : Commits(g) => fiber[g].id # fiber'[f].id,
         f \in Fiber /\ Commits(f)' =>
                        \/ Commits(f) /\ fiber'[f].id = fiber[f].id /\ fiber'[f].woken = fiber[f].woken /\ queue' = queue
                        \/ ~ Awaits(f) /\ fiber'[f].woken = "no"
  PROVE  OrderInv'
  <1> SUFFICES ASSUME NEW g \in Fiber, NEW h \in Fiber, Removes(g)', Commits(h)', fiber'[g].id = fiber'[h].id
               PROVE  /\ fiber'[h].woken = "no"
                      /\ \A k, l \in 1..Len(queue') : Waits(g, k)' /\ Waits(h, l)' => k < l
    BY DEF OrderInv
  <1>0. StoreOK /\ Len(queue) \in Nat /\ g # h
    BY LenProperties DEF Struct, TypeOK, StoreOK, Removes, Commits
  <1>1. g # f /\ Removes(g)
    <2>1. CASE g = f
      <3>1. h # f /\ Commits(h) /\ fiber[h].id = fiber'[f].id
        BY <1>0, <2>1 DEF Others, Commits
      <3> QED BY <2>1, <3>1
    <2> QED BY <2>1 DEF Others, Removes
  <1>2. CASE h = f /\ Schedule({f}) /\ ~ Awaits(f) /\ fiber'[f].woken = "no"
    <2>1. /\ Len(queue') = Len(queue) + 1 /\ \A k \in 1..Len(queue) : queue'[k] = queue[k]
          /\ queue'[Len(queue')].waiters = {f}
      BY <1>0, <1>2, ScheduleDoes
    <2>2. ASSUME NEW k \in 1..Len(queue'), NEW l \in 1..Len(queue'), Waits(g, k)', Waits(f, l)' PROVE k < l
      <3>1. k \in 1..Len(queue)
        BY <1>0, <1>1, <2>1, <2>2 DEF Waits
      <3>2. l = Len(queue) + 1
        BY <1>0, <1>2, <2>1, <2>2 DEF Waits, QueueInv, Struct
      <3> QED BY <1>0, <3>1, <3>2
    <2> QED BY <1>2, <2>2
  <1>3. ASSUME Commits(h), fiber'[h].id = fiber[h].id, fiber'[h].woken = fiber[h].woken, h # f \/ queue' = queue
        PROVE  /\ fiber'[h].woken = "no"
               /\ \A k, l \in 1..Len(queue') : Waits(g, k)' /\ Waits(h, l)' => k < l
    <2>1. fiber[g].id = fiber[h].id
      BY <1>1, <1>3 DEF Others
    <2>2. fiber[h].woken = "no" /\ \A k, l \in 1..Len(queue) : Waits(g, k) /\ Waits(h, l) => k < l
      BY <1>1, <1>3, <2>1 DEF OrderInv
    <2>3. CASE queue' = queue
      BY <1>3, <2>2, <2>3 DEF Waits
    <2>4. CASE h # f /\ (Schedule({}) \/ (f \in Fiber /\ Schedule({f})))
      <3>1. PICK w \in SUBSET {f} : w \in SUBSET Fiber /\ Schedule(w)
        BY <2>4
      <3>2. /\ Len(queue') = Len(queue) + 1 /\ \A k \in 1..Len(queue) : queue'[k] = queue[k]
            /\ queue'[Len(queue')].waiters = w
        BY <1>0, <3>1, ScheduleDoes
      <3>3. \A k \in 1..Len(queue') : Waits(g, k)' => k \in 1..Len(queue) /\ Waits(g, k)
        BY <1>0, <1>1, <3>1, <3>2 DEF Waits
      <3>4. \A k \in 1..Len(queue') : Waits(h, k)' => k \in 1..Len(queue) /\ Waits(h, k)
        BY <1>0, <2>4, <3>1, <3>2 DEF Waits
      <3> QED BY <1>3, <2>2, <3>3, <3>4
    <2> QED BY <1>3, <2>3, <2>4 DEF QueuesOne
  <1>4. h = f => Commits(f)'
    BY DEF Commits
  <1>5. CASE h = f /\ ~ Awaits(f) /\ fiber'[f].woken = "no"
    <2>1. Awaits(f)' /\ ~ Awaits(f)
      BY <1>4, <1>5 DEF Commits, Awaits
    <2>2. Schedule({f})
      BY <2>1 DEF QueuesOne
    <2> QED BY <1>2, <1>5, <2>2
  <1>6. CASE h # f
    <2>1. fiber'[h] = fiber[h]
      BY <1>6 DEF Others
    <2>2. Commits(h)
      BY <2>1 DEF Commits
    <2> QED BY <1>3, <1>6, <2>1, <2>2
  <1>7. CASE h = f /\ Commits(f) /\ fiber'[f].id = fiber[f].id /\ fiber'[f].woken = fiber[f].woken /\ queue' = queue
    BY <1>3, <1>7
  <1> QED BY <1>4, <1>5, <1>6, <1>7

(* No step of another operation points a removed session at its target.     *)
LEMMA RemovalStep ==
  ASSUME Struct, SessionsOK', NEW f, f \in Fiber => WorkOK(f)', RemovalInv, Others(f), NoNewPointer,
         \A g \in Fiber : g # f /\ Removes(g) => session'[fiber[g].obj].target = session[fiber[g].obj].target,
         f \in Fiber /\ Commits(f) =>
                       \/ Commits(f)' /\ fiber'[f].obj = fiber[f].obj
                       \/ \A id \in Id : Pointing(id)' => sessions[id] # fiber[f].obj,
         f \in Fiber /\ Removes(f)' => \A id \in Id : id = fiber'[f].id => ~ Pointing(id)'
  PROVE  RemovalInv'
  <1> SUFFICES ASSUME NEW g \in Fiber, Removes(g)', NEW t, t = (TargetOf(g).id)', t # None,
                      NEW id \in Id, id = fiber'[g].id, Points(id, t)'
               PROVE  \E h \in Fiber : Commits(h)' /\ sessions'[id] = fiber'[h].obj
    <2>1. \A g \in Fiber : Removes(g)' => fiber'[g].id \in Id
      BY DEF Removes, Others, Struct, WorkInv, WorkOK
    <2> QED BY <2>1 DEF RemovalInv
  <1>1. CASE g # f
    <2>1. fiber'[g] = fiber[g] /\ Removes(g) /\ (TargetOf(g))' = TargetOf(g) /\ fiber[g].id = id /\ fiber[g].obj \in Session
      BY <1>1 DEF Others, Removes, TargetOf, Struct, WorkInv, WorkOK
    <2>2. t = TargetOf(g).id /\ t \in Target
      BY <2>1, Constants DEF TargetOf, SessionsOK, Struct, TypeOK
    <2>3. Points(id, t) /\ sessions'[id] = sessions[id] /\ Pointing(id)'
      BY <2>2 DEF NoNewPointer, Pointing
    <2>4. PICK h \in Fiber : Commits(h) /\ sessions[id] = fiber[h].obj
      BY <2>1, <2>2, <2>3 DEF RemovalInv
    <2>5. Commits(h)' /\ fiber'[h].obj = fiber[h].obj
      BY <2>1, <2>3, <2>4 DEF Others, Commits
    <2> QED BY <2>3, <2>4, <2>5
  <1>2. CASE g = f
    <2>1. t \in Target
      BY <1>2, Constants DEF TargetOf, SessionsOK, Removes, WorkOK
    <2> QED BY <1>2, <2>1 DEF Pointing
  <1> QED BY <1>1, <1>2

(* While pointers are unique, a captured catalog can be restored.           *)
LEMMA WritesStep ==
  ASSUME Struct, SessionsOK', WritesInv, UniqueInv',
         (queue' = queue /\ disk' = disk) \/ \E w \in SUBSET Fiber : Schedule(w)
  PROVE  WritesInv'
  <1>1. CASE queue' = queue /\ disk' = disk
    BY <1>1 DEF WritesInv
  <1>2. ASSUME NEW w \in SUBSET Fiber, Schedule(w) PROVE WritesInv'
    <2>0. StoreOK /\ Len(queue) \in Nat
      BY LenProperties DEF Struct, TypeOK, StoreOK
    <2>1. /\ Len(queue') = Len(queue) + 1 /\ \A k \in 1..Len(queue) : queue'[k] = queue[k]
          /\ queue'[Len(queue')].catalog = Catalog' /\ disk' = disk
      BY <1>2, <2>0, ScheduleDoes
    <2>2. Catalog' \in [Id -> Owned \cup {NoTarget, Absent}]
      BY DEF Catalog, SessionsOK, Place
    <2>3. ASSUME NEW i \in Id, NEW j \in Id, Catalog'[i] \in Owned, Catalog'[j] \in Owned, Catalog'[i].id = Catalog'[j].id
          PROVE  i = j
      <3>1. PICK t \in Target : t = Catalog'[i].id
        BY <2>3 DEF Owned
      <3>2. Points(i, t)' /\ Points(j, t)'
        BY <2>3, <3>1, LifecycleAssumption DEF Points, Catalog
      <3> QED BY <3>1, <3>2 DEF UniqueInv
    <2>4. Catalog' \in Catalogs
      BY <2>2, <2>3 DEF Catalogs
    <2> QED BY <2>0, <2>1, <2>4 DEF WritesInv
  <1> QED BY <1>1, <1>2

-----------------------------------------------------------------------------
(* A step of anything but an adoption.                                      *)
Stored == \/ queue' = queue /\ disk' = disk /\ lastWrite' = lastWrite /\ drained' = drained /\ failures' = failures
          \/ \E w \in SUBSET Fiber : Schedule(w)
(* The objects that others work on.                                         *)
ObjectsStay(f) ==
  \A g \in Fiber : g # f =>
    /\ Adopts(g) => session'[fiber[g].obj].target.id \in {None, session[fiber[g].obj].target.id}
    /\ failures = 0 /\ Commits(g) /\ reservation'.current =>
         session'[fiber[g].obj].target.id = session[fiber[g].obj].target.id
    /\ Removes(g) => session'[fiber[g].obj].target = session[fiber[g].obj].target
    /\ failures = 0 \/ (queue' = queue /\ ~ (f \in Fiber /\ Dirty(f)')) =>
         (fiber[g].op # "create" /\ fiber[g].pc \in Holding /\ Registered(g) => sessions'[fiber[g].id] = fiber[g].obj)
(* The objects that are taken away stay away.                               *)
RemovedStay(f) ==
  /\ \A id \in Id : \/ sessions'[id] \in {None, sessions[id]}
                    \/ \A g \in Fiber : g # f /\ Removes(g) => fiber[g].obj # sessions'[id]
  /\ f \in Fiber /\ Removes(f)' => \A id \in Id : sessions'[id] # fiber'[f].obj
PointsStay(f) ==
  /\ NoNewPointer /\ OwnersKept
  /\ f \in Fiber /\ Stays(f)' => Registered(f)'
  /\ \A id \in Id, t \in Target : Points(id, t)' => attaching'[t] \in {attaching[t], Absent, id}
  /\ f \in Fiber /\ Removes(f)' => /\ ~ Removes(f) /\ \A g \in Fiber : Commits(g) => fiber[g].id # fiber'[f].id
                                   /\ \A id \in Id : id = fiber'[f].id => ~ Pointing(id)'
StructKeeps(f) ==
  /\ TypeOK' /\ OneEach' /\ Others(f) /\ KeepsPermits(f) /\ Binds(f) /\ WakesOne(f) /\ QueuesOne(f) /\ Stored
  /\ f \in Fiber => WorkOK(f)' /\ fiber'[f].woken # "failed"

(* Scheduling leaves the file alone.                                        *)
LEMMA StoredKeeps ==
  ASSUME Stored PROVE disk' = disk /\ lastWrite' = lastWrite /\ failures' = failures
  BY DEF Stored, Schedule

(* The structure, from the conditions on one step.                          *)
LEMMA StructKept ==
  ASSUME Struct, NEW f, StructKeeps(f) PROVE Struct'
  BY StructStep, StoredKeeps DEF StructKeeps

(* The step of an adoption that neither starts, nor points its session at   *)
(* the page, nor ends.                                                      *)
AdoptionStays(f) ==
  \/ ~ Adopts(f) /\ ~ Adopts(f)'
  \/ /\ Adopts(f) /\ Adopts(f)' /\ PreviousOK(f)' /\ (failures = 0 => AdoptOK(f)')
     /\ fiber'[f].target = fiber[f].target /\ fiber'[f].id = fiber[f].id /\ fiber'[f].obj = fiber[f].obj
     /\ \/ ~ Commits(f) /\ ~ Commits(f)'
        \/ /\ Commits(f) /\ Commits(f)' /\ (fiber[f].cancelled => fiber'[f].cancelled)
           /\ fiber'[f].woken = fiber[f].woken /\ queue' = queue

(* A step that makes no pointer keeps the invariant.                        *)
LEMMA SteadyStep ==
  ASSUME Inv, NEW f, StructKeeps(f), admission' = admission,
         f \in Fiber => AdoptionStays(f),
         ReservationKept, GoneStays, AttachInv', ObjectsStay(f), RemovedStay(f),
         \/ \E w \in SUBSET Fiber : Schedule(w)
         \/ f \in Fiber /\ Dirty(f)'
         \/ Catalog' = Catalog /\ (f \in Fiber => ~ Dirty(f)),
         failures = 0 => PointsStay(f)
  PROVE  Inv'
  <1>1. failures' = failures /\ lastWrite' = lastWrite /\ disk' = disk
    BY StoredKeeps DEF StructKeeps
  <1>2. Struct /\ SessionsOK /\ SessionsOK' /\ Struct'
    BY StructKept DEF Inv, Struct, TypeOK, StructKeeps
  <1>3. Others(f) /\ Stored /\ QueuesOne(f) /\ (f \in Fiber => WorkOK(f)')
    BY DEF StructKeeps
  <1>4. RemovedInv /\ PreviousInv /\ DurableInv /\ ReservationInv
    BY DEF Inv, SavesInv
  <1>5. SavesInv'
    <2>1. RemovedInv'
      BY <1>2, <1>3, <1>4, RemovedStep DEF RemovedStay
    <2>2. PreviousInv'
      <3>1. \A g \in Fiber : g # f /\ Adopts(g) => session'[fiber[g].obj].target.id \in {None, session[fiber[g].obj].target.id}
        BY DEF ObjectsStay
      <3>2. f \in Fiber => PreviousOK(f)'
        BY DEF AdoptionStays, PreviousOK, Adopts
      <3> QED BY <1>2, <1>3, <1>4, <3>1, <3>2, PreviousStep
    <2>3. DurableInv'
      <3>1. queue' = queue /\ ~ (f \in Fiber /\ Dirty(f)') =>
              \A g \in Fiber : g # f /\ fiber[g].op = "adopt" /\ fiber[g].pc \in Holding /\ Registered(g) =>
              sessions'[fiber[g].id] = fiber[g].obj
        BY DEF ObjectsStay
      <3> QED BY <1>2, <1>3, <1>4, <3>1, DurableStep DEF Stored
    <2>4. ReservationInv'
      <3>1. f \in Fiber => Adopts(f)' = Adopts(f)
        BY DEF AdoptionStays, Adopts
      <3>2. f \in Fiber /\ Adopts(f) => fiber'[f].target = fiber[f].target /\ fiber'[f].id = fiber[f].id
        BY DEF AdoptionStays
      <3> QED BY <1>2, <1>3, <1>4, <3>1, <3>2, ReservationStep
    <2> QED BY <2>1, <2>2, <2>3, <2>4 DEF SavesInv
  <1>6. ASSUME failures = 0 PROVE PointInv'
    <2>0. PointInv /\ PointsStay(f) /\ NoNewPointer
      BY <1>6 DEF Inv, PointsStay
    <2>a. f \in Fiber => \/ ~ Commits(f) /\ ~ Commits(f)'
                        \/ /\ Commits(f) /\ Commits(f)' /\ fiber'[f].obj = fiber[f].obj /\ fiber'[f].id = fiber[f].id
                           /\ fiber[f].cancelled => fiber'[f].cancelled
                           /\ fiber'[f].woken = fiber[f].woken /\ queue' = queue
      BY DEF AdoptionStays, Adopts, Commits
    <2>1. \A id \in Id : Pointing(id)' => sessions'[id] = sessions[id]
      BY <2>0 DEF NoNewPointer, Pointing
    <2>2. WithdrawalsKept
      BY <1>2, <1>3, <1>4, <2>a, <2>1, WithdrawalsStep
    <2>3. UniqueInv' /\ OwnerInv' /\ AttachOwnerInv'
      BY <2>0, <2>2, PointersStep DEF PointInv, PointsStay
    <2>4. RegisteredInv'
      <3>1. \A g \in Fiber : g # f /\ Stays(g) /\ Registered(g) => sessions'[fiber[g].id] = fiber[g].obj
        BY <1>6 DEF ObjectsStay, Stays, Adopts, Holding
      <3> QED BY <1>3, <2>0, <3>1, RegisteredStep DEF PointInv, PointsStay
    <2>5. AdoptInv'
      <3>1. \A g \in Fiber : Adopts(g) => fiber[g].target \in Target
        BY <1>2 DEF Struct, WorkInv, WorkOK, Adopts
      <3>2. \A g \in Fiber, id \in Id : g # f /\ Adopts(g) /\ Points(id, fiber[g].target)' => Points(id, fiber[g].target)
        <4> SUFFICES ASSUME NEW g \in Fiber, NEW id \in Id, g # f, Adopts(g), Points(id, fiber[g].target)'
                     PROVE  Points(id, fiber[g].target)
          OBVIOUS
        <4>1. PICK t \in Target : t = fiber[g].target
          BY <3>1
        <4>2. Points(id, t)'
          BY <1>3, <4>1 DEF Others, Points
        <4> QED BY <2>0, <4>1, <4>2 DEF NoNewPointer
      <3>3. \A g \in Fiber : g # f /\ Commits(g) /\ reservation'.current =>
              session'[fiber[g].obj].target.id = session[fiber[g].obj].target.id
        BY <1>6 DEF ObjectsStay
      <3>4. f \in Fiber => AdoptOK(f)'
        BY <1>6 DEF AdoptionStays, AdoptOK
      <3>5. AdoptInv
        BY <2>0 DEF PointInv
      <3> QED BY <1>2, <1>3, <1>4, <3>2, <3>3, <3>4, <3>5, AdoptStep
    <2>6. OrderInv'
      <3>1. OrderInv
        BY <2>0 DEF PointInv
      <3>2. f \in Fiber /\ Removes(f)' => ~ Removes(f) /\ \A g \in Fiber : Commits(g) => fiber[g].id # fiber'[f].id
        BY <2>0 DEF PointsStay
      <3> QED BY <1>2, <1>3, <2>a, <3>1, <3>2, OrderStep
    <2>7. RemovalInv'
      <3>1. \A g \in Fiber : g # f /\ Removes(g) => session'[fiber[g].obj].target = session[fiber[g].obj].target
        BY DEF ObjectsStay
      <3>2. f \in Fiber /\ Removes(f)' => \A id \in Id : id = fiber'[f].id => ~ Pointing(id)'
        BY <2>0 DEF PointsStay
      <3>3. RemovalInv
        BY <2>0 DEF PointInv
      <3> QED BY <1>2, <1>3, <2>0, <2>a, <3>1, <3>2, <3>3, RemovalStep
    <2>8. WritesInv'
      <3>1. WritesInv
        BY <2>0 DEF PointInv
      <3> QED BY <1>2, <1>3, <2>3, <3>1, WritesStep DEF Stored
    <2> QED BY <2>3, <2>4, <2>5, <2>6, <2>7, <2>8 DEF PointInv
  <1> QED BY <1>1, <1>2, <1>5, <1>6 DEF Inv

(* The same for a step of anything but an adoption.                         *)
LEMMA PlainStep ==
  ASSUME Inv, NEW f, StructKeeps(f), admission' = admission,
         f \in Fiber => ~ Adopts(f) /\ ~ Adopts(f)',
         ReservationKept, GoneStays, AttachInv', ObjectsStay(f), RemovedStay(f),
         \/ \E w \in SUBSET Fiber : Schedule(w)
         \/ f \in Fiber /\ Dirty(f)'
         \/ Catalog' = Catalog /\ (f \in Fiber => ~ Dirty(f)),
         failures = 0 => PointsStay(f)
  PROVE  Inv'
  <1>1. f \in Fiber => AdoptionStays(f)
    BY DEF AdoptionStays
  <1> QED BY <1>1, SteadyStep

-----------------------------------------------------------------------------
(* A step that changes no session, owner or reservation.                    *)
SamePointers ==
  /\ sessions' = sessions /\ \A o \in Session : session'[o].target = session[o].target
  /\ owner' = owner /\ reservation' = reservation /\ attaching' = attaching

(* Equal sessions and targets are equal pointers.                           *)
LEMMA SamePoints ==
  ASSUME SessionsOK, SamePointers
  PROVE  /\ \A id \in Id, t \in Target : Points(id, t)' <=> Points(id, t)
         /\ NoNewPointer /\ OwnersKept /\ GoneStays /\ Catalog' = Catalog
         /\ \A id \in Id : Pointing(id)' => sessions'[id] = sessions[id]
  <1>1. \A id \in Id : sessions[id] # None => sessions[id] \in Session
    BY DEF SessionsOK
  <1>2. \A id \in Id, t \in Target : Points(id, t)' <=> Points(id, t)
    BY <1>1 DEF SamePointers, Points
  <1>3. Catalog' = Catalog
    BY <1>1, SameCatalog DEF SamePointers, SameTargets
  <1>4. NoNewPointer
    BY <1>2 DEF NoNewPointer, SamePointers
  <1>5. OwnersKept
    BY DEF OwnersKept, SamePointers
  <1>6. GoneStays /\ \A id \in Id : Pointing(id)' => sessions'[id] = sessions[id]
    BY DEF SamePointers, GoneStays
  <1> QED BY <1>2, <1>3, <1>4, <1>5, <1>6

(* Equal reservation and owners.                                            *)
LEMMA SameReservation ==
  ASSUME ReservationInv, reservation' = reservation, owner' = owner PROVE ReservationKept
  BY DEF ReservationKept, ReservationInv

(* A step that touches no session, no target and no owner keeps the         *)
(* invariant.                                                               *)
LEMMA CalmStep ==
  ASSUME Inv, NEW f \in Fiber, TypeOK', Others(f), KeepsPermits(f), WorkOK(f)', WakesOne(f), QueuesOne(f),
         SamePointers, Stored, admission' = admission, fiber'[f].woken # "failed",
         fiber'[f].obj # None => Registered(f)' \/ (fiber'[f].obj = fiber[f].obj /\ fiber'[f].id = fiber[f].id),
         ~ Adopts(f), ~ Adopts(f)', ~ Removes(f)', Stays(f)' => Registered(f)',
         Dirty(f) => Dirty(f)' \/ \E w \in SUBSET Fiber : Schedule(w)
  PROVE  Inv'
  <1>1. Struct /\ TypeOK /\ SessionsOK /\ ReservationInv /\ AttachInv /\ RemovedInv
    BY DEF Inv, SavesInv, Struct, TypeOK
  <1>2. Binds(f)
    <2>1. ASSUME NEW g \in Fiber, g # f, fiber[g].obj # None, fiber[g].obj = fiber'[f].obj
          PROVE  fiber[g].id = fiber'[f].id
      <3>1. WorkOK(g) /\ fiber[g].pc # "idle"
        BY <1>1, <2>1 DEF Struct, WorkInv, WorkOK, IdleFiber
      <3>2. CASE Registered(f)'
        <4>1. fiber'[f].id \in Id /\ sessions[fiber'[f].id] = fiber[g].obj
          BY <2>1, <3>2, Constants DEF Registered, SamePointers, WorkOK, IdleFiber
        <4> QED BY <3>1, <4>1 DEF WorkOK
      <3>3. CASE fiber'[f].obj = fiber[f].obj /\ fiber'[f].id = fiber[f].id
        BY <2>1, <3>1, <3>3 DEF WorkOK
      <3> QED BY <2>1, <3>2, <3>3
    <2> QED BY <2>1 DEF Binds, SamePointers
  <1>3. OneEach' /\ AttachInv' /\ RemovedStay(f)
    BY <1>1 DEF SamePointers, Struct, OneEach, AttachInv, RemovedStay
  <1>4. StructKeeps(f)
    BY <1>2, <1>3 DEF StructKeeps
  <1>5. NoNewPointer /\ OwnersKept /\ GoneStays /\ Catalog' = Catalog /\ ReservationKept
    BY <1>1, SamePoints, SameReservation DEF SamePointers
  <1>6. ObjectsStay(f)
    <2>1. \A g \in Fiber : Adopts(g) \/ Commits(g) \/ Removes(g) => fiber[g].obj \in Session
      BY <1>1 DEF Struct, WorkInv, WorkOK, Adopts, Commits, Removes
    <2> QED BY <2>1 DEF ObjectsStay, SamePointers, Registered
  <1>7. PointsStay(f)
    BY <1>5 DEF PointsStay, SamePointers
  <1> QED BY <1>3, <1>4, <1>5, <1>6, <1>7, PlainStep DEF Stored

-----------------------------------------------------------------------------
(* The actions.                                                             *)
LEMMA Busy ==
  ASSUME Struct, NEW f \in Fiber, fiber[f].pc # "idle"
  PROVE  /\ WorkOK(f) /\ fiber[f] \in Work /\ fiber[f].id \in Id /\ fiber[f].obj \in Session
         /\ fiber[f].pc \in Pcs(fiber[f].op) /\ fiber[f].op \in Op
         /\ fiber[f].obj # None /\ fiber[f].id # None
         /\ TypeOK /\ WorkInv /\ OneEach /\ WokenInv /\ QueueInv /\ FailInv
  BY Constants DEF Struct, WorkInv, WorkOK, TypeOK, FibersOK, Work

(* What holds of a fiber that is running.                                   *)
LEMMA Runs ==
  ASSUME WokenInv, NEW f \in Fiber, MayRun(f) \/ Quiet \/ fiber[f].woken # "no"
  PROVE  \A g \in Fiber : g # f => fiber[g].woken = "no"
  BY Constants DEF WokenInv, MayRun, Quiet

(* Steps that leave the sessions and the registry alone.                    *)
LEMMA SameVars ==
  ASSUME UNCHANGED <<sessions, session, registryVars>>
  PROVE  SamePointers /\ (SessionsOK => SessionsOK') /\ (RegistryOK => RegistryOK')
  BY DEF SamePointers, registryVars, SessionsOK, RegistryOK

(* Steps that leave the chain and the file alone.                           *)
LEMMA SameStore ==
  ASSUME UNCHANGED storeVars
  PROVE  Stored /\ queue' = queue /\ disk' = disk /\ lastWrite' = lastWrite /\ failures' = failures /\ drained' = drained
         /\ (StoreOK => StoreOK')
  BY DEF Stored, storeVars, StoreOK

(* An operation that holds nothing of the registry ends.                    *)
LEMMA FinishCalm ==
  ASSUME Inv, NEW f \in Fiber, fiber[f].pc # "idle", Finish(f), starting' = None,
         UNCHANGED <<sessions, session, registryVars, admission, storeVars, events>>,
         ~ Adopts(f), ~ Awaits(f), ~ Dirty(f)
  PROVE  Inv'
  <1>1. Struct /\ WorkOK(f)
    BY Busy DEF Inv
  <1>2. /\ fiber' \in [Fiber -> Work] /\ Others(f) /\ fiber'[f] = IdleFiber
        /\ executePermit' \in [Session -> Fiber \cup {None}] /\ adoptPermit' \in Fiber \cup {None}
        /\ \A o \in Session : executePermit'[o] = IF executePermit[o] = f THEN None ELSE executePermit[o]
        /\ adoptPermit' = IF adoptPermit = f THEN None ELSE adoptPermit
    BY <1>1, FinishDoes DEF Struct, TypeOK
  <1>3. SamePointers /\ Stored /\ queue' = queue /\ TypeOK'
    BY <1>1, <1>2, SameVars, SameStore DEF Struct, TypeOK, FibersOK, RestOK
  <1>4. KeepsPermits(f)
    BY <1>2 DEF KeepsPermits
  <1>5. /\ fiber'[f].pc = "idle" /\ fiber'[f].woken = "no" /\ fiber'[f].obj = None /\ fiber'[f].op = "create"
        /\ WorkOK(f)'
    BY <1>2 DEF IdleFiber, WorkOK
  <1>6. WakesOne(f) /\ QueuesOne(f) /\ ~ Adopts(f)' /\ ~ Removes(f)' /\ ~ Stays(f)'
    BY <1>3, <1>5 DEF WakesOne, QueuesOne, Awaits, Adopts, Removes, Stays
  <1> QED BY <1>2, <1>3, <1>4, <1>5, <1>6, CalmStep

(* An operation finds its session replaced.                                 *)
LEMMA FindInactiveKeeps == ASSUME Inv, NEW f \in Fiber, FindInactive(f) PROVE Inv'
  <1>1. ~ Adopts(f) /\ ~ Awaits(f) /\ ~ Dirty(f) /\ fiber[f].pc # "idle" /\ starting' = None
    BY DEF FindInactive, TakesPermit, Adopts, Awaits, Dirty
  <1> QED BY <1>1, FinishCalm DEF FindInactive

(* A caller gives up while it waits for the permit.                         *)
LEMMA GiveUpWaitingKeeps == ASSUME Inv, NEW f \in Fiber, GiveUpWaiting(f) PROVE Inv'
  <1>1. ~ Adopts(f) /\ ~ Awaits(f) /\ ~ Dirty(f) /\ fiber[f].pc # "idle" /\ starting' = None
    BY DEF GiveUpWaiting, Adopts, Awaits, Dirty, Quiet
  <1> QED BY <1>1, FinishCalm DEF GiveUpWaiting

(* The page of a removal does not close.                                    *)
LEMMA FailClosingKeeps == ASSUME Inv, NEW f \in Fiber, FailClosing(f) PROVE Inv'
  <1>1. ~ Adopts(f) /\ ~ Awaits(f) /\ ~ Dirty(f) /\ fiber[f].pc # "idle" /\ starting' = None
    BY DEF FailClosing, Adopts, Awaits, Dirty, Quiet
  <1> QED BY <1>1, FinishCalm DEF FailClosing

(* An adoption takes the adopt permit.                                      *)
LEMMA TakeAdoptPermitKeeps == ASSUME Inv, NEW f \in Fiber, TakeAdoptPermit(f) PROVE Inv'
  <1> USE DEF TakeAdoptPermit
  <1>1. Struct /\ WorkOK(f) /\ TypeOK /\ WokenInv /\ fiber[f].op = "adopt"
    BY Busy DEF Inv, Pcs
  <1>2. /\ fiber' \in [Fiber -> Work] /\ Others(f)
        /\ fiber'[f].pc = "permit" /\ fiber'[f].woken = "no"
        /\ fiber'[f].op = fiber[f].op /\ fiber'[f].id = fiber[f].id /\ fiber'[f].obj = fiber[f].obj
        /\ fiber'[f].target = fiber[f].target /\ fiber'[f].previous = fiber[f].previous
    BY <1>1, MoveDoes DEF TypeOK, Pc
  <1>3. SamePointers /\ Stored /\ queue' = queue /\ TypeOK'
    BY <1>1, <1>2, SameVars, SameStore DEF TypeOK, FibersOK, RestOK
  <1>4. KeepsPermits(f)
    BY Constants DEF KeepsPermits
  <1>5. WorkOK(f)'
    BY <1>1, <1>2, <1>3 DEF WorkOK, Pcs, Holding, Others, SamePointers
  <1>6. WakesOne(f) /\ QueuesOne(f)
    BY <1>1, <1>2, <1>3, Runs DEF WakesOne, QueuesOne, Awaits
  <1>7. ~ Adopts(f) /\ ~ Adopts(f)' /\ ~ Removes(f)' /\ ~ Stays(f)' /\ ~ Dirty(f)
    BY <1>1, <1>2 DEF Adopts, Removes, Stays, Dirty
  <1> QED BY <1>2, <1>3, <1>4, <1>5, <1>6, <1>7, CalmStep

(* A script starts.                                                         *)
LEMMA StartExecuteKeeps == ASSUME Inv, NEW f \in Fiber, StartExecute(f) PROVE Inv'
  <1> USE DEF StartExecute, TakesPermit
  <1>1. Struct /\ WorkOK(f) /\ TypeOK /\ WokenInv /\ fiber[f].obj \in Session /\ FibersOK
    BY Busy DEF Inv, TypeOK
  <1>2. /\ fiber' \in [Fiber -> Work] /\ Others(f)
        /\ fiber'[f].pc = "run" /\ fiber'[f].woken = "no"
        /\ fiber'[f].op = fiber[f].op /\ fiber'[f].id = fiber[f].id /\ fiber'[f].obj = fiber[f].obj
        /\ fiber'[f].previous = fiber[f].previous
    BY <1>1, MoveDoes DEF TypeOK, Pc
  <1>3. /\ executePermit' \in [Session -> Fiber \cup {None}] /\ adoptPermit' = adoptPermit
        /\ executePermit'[fiber[f].obj] = f
        /\ \A o \in Session : o # fiber[f].obj => executePermit'[o] = executePermit[o]
    BY <1>1, HoldDoes
  <1>4. SamePointers /\ Stored /\ queue' = queue /\ TypeOK'
    BY <1>1, <1>2, <1>3, SameVars, SameStore DEF TypeOK, FibersOK, RestOK
  <1>5. KeepsPermits(f)
    BY <1>3, Constants DEF KeepsPermits
  <1>6. WorkOK(f)'
    BY <1>1, <1>2, <1>3, <1>4 DEF WorkOK, Pcs, Holding, Others, SamePointers
  <1>7. WakesOne(f) /\ QueuesOne(f)
    BY <1>1, <1>2, <1>4, Runs DEF WakesOne, QueuesOne, Awaits
  <1>8. ~ Adopts(f) /\ ~ Adopts(f)' /\ ~ Removes(f)' /\ ~ Stays(f)' /\ ~ Dirty(f)
    BY <1>1, <1>2 DEF Adopts, Removes, Stays, Dirty
  <1> QED BY <1>2, <1>4, <1>5, <1>6, <1>7, <1>8, CalmStep

(* A script ends and its catalog is written.                                *)
LEMMA FinishScriptKeeps == ASSUME Inv, NEW f \in Fiber, FinishScript(f) PROVE Inv'
  <1> USE DEF FinishScript, permitVars
  <1>1. Struct /\ WorkOK(f) /\ TypeOK /\ WokenInv /\ fiber[f].op = "execute"
    BY Busy DEF Inv, Pcs
  <1>2. /\ fiber' \in [Fiber -> Work] /\ Others(f)
        /\ fiber'[f].pc = "flush" /\ fiber'[f].woken = "no"
        /\ fiber'[f].op = fiber[f].op /\ fiber'[f].id = fiber[f].id /\ fiber'[f].obj = fiber[f].obj
        /\ fiber'[f].previous = fiber[f].previous
    BY <1>1, MoveDoes DEF TypeOK, Pc
  <1>3. SamePointers /\ SessionsOK' /\ RegistryOK'
    BY <1>1, SameVars DEF TypeOK
  <1>4. StoreOK' /\ Stored
    BY <1>1, <1>3, ScheduleDoes DEF TypeOK, Stored
  <1>5. TypeOK'
    BY <1>1, <1>2, <1>3, <1>4 DEF TypeOK, FibersOK, RestOK
  <1>6. KeepsPermits(f) /\ Stored
    BY <1>4 DEF KeepsPermits
  <1>7. WorkOK(f)'
    BY <1>1, <1>2, <1>3 DEF WorkOK, Pcs, Holding, Others, SamePointers
  <1>8. WakesOne(f) /\ QueuesOne(f)
    BY <1>1, <1>2, Runs DEF WakesOne, QueuesOne, Awaits
  <1>9. ~ Adopts(f) /\ ~ Adopts(f)' /\ ~ Removes(f)' /\ ~ Stays(f)' /\ ~ Dirty(f)
    BY <1>1, <1>2 DEF Adopts, Removes, Stays, Dirty
  <1> QED BY <1>2, <1>3, <1>5, <1>6, <1>7, <1>8, <1>9, CalmStep

(* An operation ends after its last write.                                  *)
LEMMA ResumeReflushKeeps ==
  ASSUME Inv, NEW f \in Fiber, fiber[f].woken # "no", Finish(f), UNCHANGED <<starting, admission, events>>,
         UNCHANGED <<sessions, session, registryVars, storeVars>>,
         fiber[f].pc = "reflush" \/ (fiber[f].pc = "flush" /\ fiber[f].op \in {"create", "execute"})
  PROVE  Inv'
  <1>1. ~ Adopts(f) /\ ~ Awaits(f) /\ ~ Dirty(f) /\ fiber[f].pc # "idle" /\ starting' = None
    BY DEF Adopts, Awaits, Dirty, Inv, Struct, WokenInv
  <1> QED BY <1>1, FinishCalm

(* The page of a failed adoption does not close.                            *)
LEMMA CleanupPreviousFailsKeeps ==
  ASSUME Inv, NEW f \in Fiber, fiber[f].pc = "cleanupPrevious", Quiet, Live(fiber[f].previous.id), Finish(f),
         UNCHANGED <<sessions, session, owner, reservation, storeVars>>, UNCHANGED <<starting, attaching, admission, events>>
  PROVE  Inv'
  <1>1. ~ Adopts(f) /\ ~ Awaits(f) /\ ~ Dirty(f) /\ fiber[f].pc # "idle" /\ starting' = None
    BY DEF Adopts, Awaits, Dirty, Quiet, Live
  <1> QED BY <1>1, FinishCalm DEF registryVars

(* A removal closes the relay page of its session first.                    *)
LEMMA StartClosingKeeps ==
  ASSUME Inv, NEW f \in Fiber, StartRemoval(f), TargetOf(f).kind = "relay" PROVE Inv'
  <1> USE DEF StartRemoval, TakesPermit
  <1>1. Struct /\ WorkOK(f) /\ TypeOK /\ WokenInv /\ fiber[f].obj \in Session /\ FibersOK /\ SessionsOK
    BY Busy DEF Inv, TypeOK
  <1>2. TargetOf(f) \in Owned
    BY <1>1, Constants DEF TargetOf, SessionsOK
  <1>3. /\ fiber' \in [Fiber -> Work] /\ Others(f)
        /\ fiber'[f].pc = "closing" /\ fiber'[f].woken = fiber[f].woken
        /\ fiber'[f].op = fiber[f].op /\ fiber'[f].id = fiber[f].id /\ fiber'[f].obj = fiber[f].obj
        /\ fiber'[f].previous = TargetOf(f)
    BY <1>1, <1>2 DEF FibersOK, Others, Work, Pc, Place
  <1>4. /\ executePermit' \in [Session -> Fiber \cup {None}] /\ adoptPermit' = adoptPermit
        /\ executePermit'[fiber[f].obj] = f
        /\ \A o \in Session : o # fiber[f].obj => executePermit'[o] = executePermit[o]
    BY <1>1, HoldDoes
  <1>5. SamePointers /\ Stored /\ queue' = queue /\ TypeOK'
    BY <1>1, <1>3, <1>4, SameVars, SameStore DEF TypeOK, FibersOK, RestOK
  <1>6. KeepsPermits(f)
    BY <1>4, Constants DEF KeepsPermits
  <1>7. fiber'[f].woken = "no"
    BY <1>1, <1>3 DEF WorkOK
  <1>8. WorkOK(f)'
    BY <1>1, <1>2, <1>3, <1>4, <1>5, <1>7 DEF WorkOK, Pcs, Holding, Others, SamePointers
  <1>9. WakesOne(f) /\ QueuesOne(f)
    BY <1>1, <1>3, <1>5, <1>7, Runs DEF WakesOne, QueuesOne, Awaits
  <1>10. ~ Adopts(f) /\ ~ Adopts(f)' /\ ~ Removes(f)' /\ ~ Dirty(f) /\ Registered(f)'
    BY <1>3, <1>5 DEF Adopts, Removes, Dirty, Registered, SamePointers
  <1> QED BY <1>3, <1>5, <1>6, <1>7, <1>8, <1>9, <1>10, CalmStep

(* The record that an admitted operation starts from.                       *)
LEMMA IdleWork == IdleFiber \in Work /\ IdleFiber.woken = "no" /\ IdleFiber.previous = NoTarget
  BY Constants DEF IdleFiber

(* An operation on a session that exists is admitted.                       *)
LEMMA AdmitOperationKeeps ==
  ASSUME Inv, NEW f \in Fiber, fiber[f].pc = "idle", Quiet, UNCHANGED <<registryVars, admission, events>>,
         NEW op \in Requests \cap (Op \ {"create"}), NEW id \in Id, NEW t \in Target \cup {None},
         AdmitOperation(f, op, id, t), sessions[id] # None
  PROVE  Inv'
  <1> USE DEF AdmitOperation, permitVars
  <1>1. Struct /\ WorkOK(f) /\ TypeOK /\ WokenInv /\ WorkInv /\ sessions[id] \in Session /\ fiber[f] = IdleFiber
    BY DEF Inv, Struct, WorkInv, WorkOK, TypeOK, SessionsOK
  <1>2. op \in {"execute", "adopt", "reset", "delete"} /\ (op = "adopt" <=> t # None)
    BY DEF Op
  <1>3. /\ fiber' \in [Fiber -> Work] /\ Others(f)
        /\ fiber'[f].pc = (IF op = "adopt" THEN "adoptPermit" ELSE "permit") /\ fiber'[f].woken = "no"
        /\ fiber'[f].op = op /\ fiber'[f].id = id /\ fiber'[f].obj = sessions[id] /\ fiber'[f].target = t
        /\ fiber'[f].previous = NoTarget
    <2> DEFINE w == [IdleFiber EXCEPT !.pc = IF op = "adopt" THEN "adoptPermit" ELSE "permit", !.op = op, !.id = id,
                                      !.obj = sessions[id], !.target = t, !.created = FALSE]
    <2>1. fiber' = [fiber EXCEPT ![f] = w]
      OBVIOUS
    <2>2. /\ w \in Work /\ w.pc = (IF op = "adopt" THEN "adoptPermit" ELSE "permit") /\ w.woken = "no"
          /\ w.op = op /\ w.id = id /\ w.obj = sessions[id] /\ w.target = t /\ w.previous = NoTarget
      <3>1. op \in Op /\ (IF op = "adopt" THEN "adoptPermit" ELSE "permit") \in Pc
        BY DEF Pc
      <3> QED BY <1>1, <3>1, IdleWork DEF Work
    <2> HIDE DEF w
    <2>3. fiber \in [Fiber -> Work]
      BY <1>1 DEF FibersOK, TypeOK
    <2>4. fiber' \in [Fiber -> Work] /\ fiber'[f] = w /\ \A g \in Fiber : g # f => fiber'[g] = fiber[g]
      BY <2>1, <2>2, <2>3
    <2> QED BY <2>2, <2>4 DEF Others
  <1>4. starting' \in {f, None}
    OBVIOUS
  <1>5. SamePointers /\ Stored /\ queue' = queue /\ TypeOK'
    BY <1>1, <1>3, <1>4, SameVars, SameStore DEF TypeOK, FibersOK, RestOK
  <1>6. KeepsPermits(f)
    BY DEF KeepsPermits
  <1>7. \A g \in Fiber : fiber[g].obj = sessions[id] => fiber[g].id = id
    BY <1>1, Constants DEF WorkInv, WorkOK, IdleFiber
  <1>8. WorkOK(f)'
    <2>1. \A g \in Fiber : fiber'[g].obj = fiber'[f].obj => fiber'[g].id = fiber'[f].id
      BY <1>3, <1>7 DEF Others
    <2>2. \A j \in Id : sessions'[j] = fiber'[f].obj => j = fiber'[f].id
      BY <1>1, <1>3, <1>5 DEF SamePointers, Struct, OneEach
    <2> QED BY <1>1, <1>2, <1>3, <2>1, <2>2 DEF WorkOK, Pcs, Holding
  <1>9. WakesOne(f) /\ QueuesOne(f)
    BY <1>1, <1>3, <1>5, Runs DEF WakesOne, QueuesOne, Awaits
  <1>10. ~ Adopts(f) /\ ~ Adopts(f)' /\ ~ Removes(f)' /\ ~ Dirty(f) /\ ~ Stays(f)'
    BY <1>3 DEF Adopts, Removes, Dirty, Stays
  <1>11. Registered(f)'
    BY <1>3, <1>5 DEF Registered, SamePointers
  <1> QED BY <1>3, <1>5, <1>6, <1>8, <1>9, <1>10, <1>11, CalmStep

(* A new object is nobody's.                                                *)
LEMMA FreshObject ==
  ASSUME Struct, NEW id \in Id, CreateSession(id), NEW n, n = NewObject
  PROVE  /\ NoNewPointer /\ OneEach' /\ SessionsOK' /\ n \in Session /\ n # None
         /\ sessions'[id] = n /\ \A j \in Id : j # id => sessions'[j] = sessions[j]
         /\ \A t \in Target : ~ Points(id, t)'
         /\ \A g \in Fiber : fiber[g].obj # n
         /\ \A g \in Fiber : fiber[g].obj \in Session => session'[fiber[g].obj] = session[fiber[g].obj]
  <1>0. SessionsOK /\ OneEach
    BY DEF Struct, TypeOK
  <1>1. /\ SessionsOK' /\ n \in Session /\ ~ InUse(n)
        /\ sessions'[id] = n /\ \A j \in Id : j # id => sessions'[j] = sessions[j]
        /\ session'[n] = NewSession
        /\ \A o \in Session : o # n => session'[o] = session[o]
        /\ NewSession.target = NoTarget
    BY <1>0, CreateDoes
  <1>2. (\A j \in Id : sessions[j] # n) /\ \A g \in Fiber : fiber[g].obj # n
    BY <1>1 DEF InUse
  <1>3. \A t \in Target : ~ Points(id, t)'
    BY <1>1, Constants DEF Points
  <1>4. \A j \in Id, t \in Target : j # id => (Points(j, t)' <=> Points(j, t))
    BY <1>0, <1>1, <1>2 DEF Points, SessionsOK
  <1>5. NoNewPointer
    BY <1>1, <1>3, <1>4 DEF NoNewPointer
  <1>6. OneEach'
    BY <1>0, <1>1, <1>2 DEF OneEach
  <1> QED BY <1>1, <1>2, <1>3, <1>5, <1>6, Constants

(* A session is created, with or without an operation that awaits its       *)
(* write.                                                                   *)
LEMMA NewSessionKeeps ==
  ASSUME Inv, NEW f \in Fiber, NEW id \in Id, fiber[f].pc = "idle", Quiet, sessions[id] = None,
         CreateSession(id), NEW n, n = NewObject, Schedule({f}) \/ Schedule({}), QueuesOne(f),
         fiber' \in [Fiber -> Work], Others(f), fiber'[f].id = id, fiber'[f].obj = n, fiber'[f].woken = "no",
         fiber'[f].previous = NoTarget,
         fiber'[f].op = "adopt" => fiber'[f].target \in Target /\ fiber'[f].pc = "adoptPermit",
         fiber'[f].pc \in Pcs(fiber'[f].op), fiber'[f].pc \in {"adoptPermit", "permit"} \/ fiber'[f].op = "create",
         fiber'[f].pc # "cleanupClose",
         starting' \in {None, f}, UNCHANGED permitVars, UNCHANGED <<registryVars, admission, events>>
  PROVE  Inv'
  <1>1. Struct /\ WorkInv /\ WokenInv /\ TypeOK /\ SessionsOK /\ StoreOK /\ FibersOK /\ ReservationInv /\ AttachInv /\ RemovedInv
    BY DEF Inv, SavesInv, Struct, TypeOK
  <1>2. /\ NoNewPointer /\ OneEach' /\ SessionsOK' /\ n \in Session /\ n # None
        /\ sessions'[id] = n /\ \A j \in Id : j # id => sessions'[j] = sessions[j]
        /\ \A t \in Target : ~ Points(id, t)'
        /\ \A g \in Fiber : fiber[g].obj # n
        /\ \A g \in Fiber : fiber[g].obj \in Session => session'[fiber[g].obj] = session[fiber[g].obj]
    BY <1>1, FreshObject
  <1>3. PICK w \in SUBSET Fiber : Schedule(w)
    OBVIOUS
  <1>4. StoreOK' /\ Stored
    BY <1>1, <1>2, <1>3, ScheduleDoes DEF Stored
  <1>5. TypeOK'
    BY <1>1, <1>2, <1>4 DEF TypeOK, FibersOK, RegistryOK, RestOK, permitVars, registryVars
  <1>6. WorkOK(f)'
    <2>1. fiber'[f].pc \notin {"closing", "closePrevious", "cleanupPrevious"}
      BY DEF Pcs
    <2>2. \A j \in Id : sessions'[j] = fiber'[f].obj => j = fiber'[f].id
      BY <1>2 DEF OneEach
    <2>3. \A g \in Fiber : fiber'[g].obj = fiber'[f].obj => fiber'[g].id = fiber'[f].id
      BY <1>2 DEF Others
    <2> QED BY <1>2, <2>1, <2>2, <2>3 DEF WorkOK, Holding, Pcs
  <1>7. KeepsPermits(f) /\ WakesOne(f)
    BY <1>1, Runs DEF KeepsPermits, permitVars, WakesOne
  <1>8. Binds(f)
    <2>1. \A j \in Id : sessions'[j] \in {None, sessions[j]} \/ \A g \in Fiber : fiber[g].obj # sessions'[j]
      BY <1>2
    <2> QED BY <1>2, <2>1 DEF Binds
  <1>9. StructKeeps(f)
    BY <1>2, <1>4, <1>5, <1>6, <1>7, <1>8 DEF StructKeeps
  <1>10. ~ Adopts(f) /\ ~ Adopts(f)' /\ ~ Removes(f)' /\ ~ Stays(f)'
    BY DEF Adopts, Removes, Stays, Pcs
  <1>11. ReservationKept /\ GoneStays /\ AttachInv' /\ OwnersKept
    BY <1>1, SameReservation DEF registryVars, GoneStays, AttachInv, OwnersKept
  <1>12. RemovedStay(f)
    BY <1>2, <1>10 DEF RemovedStay
  <1>13. ObjectsStay(f)
    <2>1. \A g \in Fiber : fiber[g].pc # "idle" => fiber[g].obj \in Session /\ fiber[g].obj # None
      BY <1>1, Constants DEF WorkInv, WorkOK
    <2>2. \A g \in Fiber : Adopts(g) \/ Commits(g) \/ Removes(g) \/ fiber[g].pc \in Holding => fiber[g].pc # "idle"
      BY DEF Adopts, Commits, Removes, Holding
    <2>3. \A g \in Fiber : fiber[g].pc # "idle" => session'[fiber[g].obj] = session[fiber[g].obj]
      BY <1>2, <2>1
    <2>4. \A g \in Fiber : fiber[g].pc # "idle" /\ Registered(g) => sessions'[fiber[g].id] = fiber[g].obj
      BY <1>1, <1>2, <2>1 DEF Registered, WorkInv, WorkOK
    <2> QED BY <2>2, <2>3, <2>4 DEF ObjectsStay
  <1>14. PointsStay(f)
    BY <1>2, <1>10, <1>11 DEF PointsStay, registryVars
  <1> QED BY <1>3, <1>9, <1>10, <1>11, <1>12, <1>13, <1>14, PlainStep

(* A create is admitted.                                                    *)
LEMMA AdmitCreateKeeps ==
  ASSUME Inv, NEW f \in Fiber, fiber[f].pc = "idle", Quiet, UNCHANGED <<registryVars, admission, events>>,
         NEW id \in Id, AdmitCreate(f, id)
  PROVE  Inv'
  <1>0. PICK n : n = NewObject
    OBVIOUS
  <1> DEFINE w == [IdleFiber EXCEPT !.pc = "flush", !.op = "create", !.id = id, !.obj = n]
  <1>1. Struct /\ FibersOK /\ CreateSession(id)
    BY DEF Inv, Struct, TypeOK, AdmitCreate
  <1>2. n \in Session
    BY <1>0, <1>1, FreshObject
  <1>3. fiber' = [fiber EXCEPT ![f] = w]
    BY <1>0 DEF AdmitCreate
  <1>4. /\ w \in Work /\ w.pc = "flush" /\ w.op = "create" /\ w.id = id /\ w.obj = n /\ w.woken = "no"
        /\ w.previous = NoTarget
    <2>1. "create" \in Op /\ "flush" \in Pc
      BY DEF Pc, Op
    <2> QED BY <1>2, <2>1, IdleWork DEF Work
  <1> HIDE DEF w
  <1>5. fiber' \in [Fiber -> Work] /\ Others(f) /\ fiber'[f] = w
    BY <1>1, <1>3, <1>4 DEF FibersOK, Others
  <1>6. QueuesOne(f)
    BY <1>4, <1>5 DEF QueuesOne, Awaits, AdmitCreate
  <1>7. starting' = None /\ UNCHANGED permitVars /\ Schedule({f}) /\ sessions[id] = None
    BY DEF AdmitCreate, Quiet
  <1>8. fiber'[f].pc \in Pcs(fiber'[f].op) /\ fiber'[f].pc # "cleanupClose"
    BY <1>4, <1>5 DEF Pcs
  <1> QED BY <1>0, <1>1, <1>4, <1>5, <1>6, <1>7, <1>8, NewSessionKeeps

(* An execute or an adoption creates the session it needs.                  *)
LEMMA AdmitMissingKeeps ==
  ASSUME Inv, NEW f \in Fiber, fiber[f].pc = "idle", Quiet, UNCHANGED <<registryVars, admission, events>>,
         NEW op \in Requests \cap (Op \ {"create"}), NEW id \in Id, NEW t \in Target \cup {None},
         AdmitOperation(f, op, id, t), sessions[id] = None
  PROVE  Inv'
  <1>0. PICK n : n = NewObject
    OBVIOUS
  <1> DEFINE w == [IdleFiber EXCEPT !.pc = IF op = "adopt" THEN "adoptPermit" ELSE "permit", !.op = op, !.id = id,
                                    !.obj = n, !.target = t, !.created = TRUE]
  <1>1. /\ Struct /\ FibersOK /\ CreateSession(id) /\ Schedule({}) /\ starting' \in {None, f} /\ UNCHANGED permitVars
        /\ op \in {"execute", "adopt"} /\ (op = "adopt" => t \in Target)
    BY DEF Inv, Struct, TypeOK, AdmitOperation
  <1>2. n \in Session
    BY <1>0, <1>1, FreshObject
  <1>3. fiber' = [fiber EXCEPT ![f] = w]
    BY <1>0 DEF AdmitOperation
  <1>4. /\ w \in Work /\ w.pc = (IF op = "adopt" THEN "adoptPermit" ELSE "permit") /\ w.op = op /\ w.id = id
        /\ w.obj = n /\ w.woken = "no" /\ w.previous = NoTarget /\ w.target = t
    <2>1. op \in Op /\ (IF op = "adopt" THEN "adoptPermit" ELSE "permit") \in Pc
      BY DEF Pc
    <2> QED BY <1>2, <2>1, IdleWork DEF Work
  <1> HIDE DEF w
  <1>5. fiber' \in [Fiber -> Work] /\ Others(f) /\ fiber'[f] = w
    BY <1>1, <1>3, <1>4 DEF FibersOK, Others
  <1>6. QueuesOne(f)
    BY <1>1, <1>4, <1>5 DEF QueuesOne, Awaits
  <1>7. /\ fiber'[f].pc \in {"adoptPermit", "permit"} /\ fiber'[f].pc \in Pcs(fiber'[f].op)
        /\ fiber'[f].op = "adopt" => fiber'[f].target \in Target /\ fiber'[f].pc = "adoptPermit"
    BY <1>1, <1>4, <1>5 DEF Pcs
  <1> QED BY <1>0, <1>1, <1>4, <1>5, <1>6, <1>7, NewSessionKeeps

(* Any call is admitted.                                                    *)
LEMMA AdmitKeeps == ASSUME Inv, NEW f \in Fiber, Admit(f) PROVE Inv'
  BY AdmitCreateKeeps, AdmitOperationKeeps, AdmitMissingKeeps DEF Admit

(* Whoever holds the permit of an object works on it alone.                 *)
LEMMA AloneOnObject ==
  ASSUME Struct, NEW f \in Fiber, NEW g \in Fiber, g # f, executePermit[fiber[f].obj] \in {None, f},
         fiber[g].op # "create", fiber[g].pc \in Holding
  PROVE  fiber[g].obj # fiber[f].obj /\ fiber[g].obj \in Session
  BY Constants DEF Struct, WorkInv, WorkOK, Holding

(* A reset or a delete takes its session out.                               *)
LEMMA RemoveKeeps ==
  ASSUME Inv, NEW f \in Fiber, Remove(f), failures = 0 => Registered(f), fiber[f].op \in {"reset", "delete"},
         fiber[f].pc \in {"permit", "closing"}, executePermit[fiber[f].obj] \in {None, f},
         MayRun(f) \/ fiber[f].woken # "no", starting' = None, UNCHANGED <<registryVars, admission, events>>
  PROVE  Inv'
  <1> USE DEF Remove
  <1>1. /\ Struct /\ WorkOK(f) /\ TypeOK /\ WokenInv /\ OneEach /\ WorkInv /\ fiber[f].obj \in Session /\ fiber[f].id \in Id
        /\ FibersOK /\ SessionsOK /\ StoreOK /\ ReservationInv /\ AttachInv /\ RemovedInv /\ fiber[f].obj # None
    BY Busy DEF Inv, TypeOK, SavesInv
  <1>2. /\ fiber' \in [Fiber -> Work] /\ Others(f)
        /\ fiber'[f].pc = "flush" /\ fiber'[f].woken = "no"
        /\ fiber'[f].op = fiber[f].op /\ fiber'[f].id = fiber[f].id /\ fiber'[f].obj = fiber[f].obj
        /\ fiber'[f].previous = fiber[f].previous
    BY <1>1, MoveDoes DEF Pc
  <1>3. /\ executePermit' \in [Session -> Fiber \cup {None}] /\ adoptPermit' = adoptPermit
        /\ executePermit'[fiber[f].obj] = f
        /\ \A o \in Session : o # fiber[f].obj => executePermit'[o] = executePermit[o]
    BY <1>1, HoldDoes
  <1>4. PICK id \in Id : id = fiber[f].id
    BY <1>1
  <1>5. failures = 0 => sessions[id] = fiber[f].obj
    BY <1>4 DEF Registered
  <1>6. /\ NoNewPointer /\ OneEach' /\ SessionsOK'
        /\ sessions'[id] = None \/ \A g \in Fiber : fiber[g].obj # sessions'[id]
        /\ \A j \in Id : j # id => sessions'[j] = sessions[j]
        /\ \A t \in Target : ~ Points(id, t)'
        /\ \A g \in Fiber : fiber[g].obj \in Session => session'[fiber[g].obj] = session[fiber[g].obj]
    <2>1. CASE fiber[f].op = "reset"
      <3>1. CreateSession(id)
        BY <1>4, <2>1
      <3>2. PICK n : n = NewObject
        OBVIOUS
      <3> QED BY <1>1, <3>1, <3>2, FreshObject
    <2>2. CASE fiber[f].op = "delete"
      <3>1. sessions' = [sessions EXCEPT ![id] = None] /\ session' = session
        BY <1>4, <2>2
      <3>2. SessionsOK' /\ sessions'[id] = None /\ \A j \in Id : j # id => sessions'[j] = sessions[j]
        BY <1>1, <3>1 DEF SessionsOK
      <3>3. NoNewPointer /\ OneEach' /\ \A t \in Target : ~ Points(id, t)'
        BY <1>1, <3>1, <3>2 DEF NoNewPointer, OneEach, Points
      <3> QED BY <3>1, <3>2, <3>3
    <2> QED BY <2>1, <2>2
  <1>7. StoreOK' /\ Stored
    BY <1>1, <1>6, ScheduleDoes DEF Stored
  <1>8. TypeOK'
    BY <1>1, <1>2, <1>3, <1>6, <1>7 DEF TypeOK, FibersOK, RegistryOK, RestOK, registryVars
  <1>9. \A j \in Id : sessions'[j] # fiber[f].obj
    BY <1>1, <1>4, <1>6 DEF WorkOK
  <1>10. WorkOK(f)'
    <2>1. \A g \in Fiber : fiber'[g].obj = fiber[f].obj => fiber'[g].id = fiber[f].id
      BY <1>1, <1>2 DEF Others, WorkOK
    <2>2. fiber'[f].pc = "flush" /\ fiber'[f].op \in {"reset", "delete"} /\ fiber'[f].id \in Id /\ fiber'[f].obj \in Session
          /\ executePermit'[fiber'[f].obj] = f
      BY <1>1, <1>2, <1>3
    <2> QED BY <1>2, <1>9, <2>1, <2>2 DEF WorkOK, Pcs
  <1>11. KeepsPermits(f) /\ WakesOne(f)
    BY <1>1, <1>2, <1>3, Runs, Constants DEF KeepsPermits, WakesOne
  <1>12. QueuesOne(f)
    BY <1>2 DEF QueuesOne, Awaits
  <1>13. Binds(f)
    <2>1. \A j \in Id : sessions'[j] \in {None, sessions[j]} \/ \A g \in Fiber : fiber[g].obj # sessions'[j]
      BY <1>6
    <2>2. \A g \in Fiber : fiber[g].obj = fiber'[f].obj => fiber[g].id = fiber'[f].id
      BY <1>1, <1>2 DEF WorkOK
    <2> QED BY <2>1, <2>2 DEF Binds
  <1>14. StructKeeps(f)
    BY <1>2, <1>6, <1>7, <1>8, <1>10, <1>11, <1>12, <1>13 DEF StructKeeps
  <1>15. ~ Adopts(f) /\ ~ Adopts(f)' /\ ~ Stays(f)' /\ ~ Removes(f)
    BY <1>2 DEF Adopts, Removes, Stays
  <1>16. ReservationKept /\ GoneStays /\ AttachInv' /\ OwnersKept
    BY <1>1, SameReservation DEF registryVars, GoneStays, AttachInv, OwnersKept
  <1>17. RemovedStay(f)
    <2>1. \A j \in Id : sessions'[j] \in {None, sessions[j]} \/ \A g \in Fiber : fiber[g].obj # sessions'[j]
      BY <1>6
    <2> QED BY <1>2, <1>9, <2>1 DEF RemovedStay
  <1>18. ASSUME NEW g \in Fiber, g # f, fiber[g].op # "create", fiber[g].pc \in Holding
         PROVE  /\ session'[fiber[g].obj] = session[fiber[g].obj]
                /\ failures = 0 /\ Registered(g) => fiber[g].id # id /\ sessions'[fiber[g].id] = fiber[g].obj
    <2>1. fiber[g].obj # fiber[f].obj /\ fiber[g].obj \in Session
      BY <1>1, <1>18, AloneOnObject
    <2>2. fiber[g].id \in Id
      BY <1>1, <1>18 DEF WorkInv, WorkOK, Holding
    <2> QED BY <1>5, <1>6, <2>1, <2>2 DEF Registered
  <1>19. ObjectsStay(f)
    <2>1. \A g \in Fiber : Adopts(g) \/ Commits(g) \/ Removes(g) => fiber[g].op # "create" /\ fiber[g].pc \in Holding
      BY DEF Adopts, Commits, Removes, Holding
    <2>2. queue' # queue
      BY <1>1, <1>6, ScheduleDoes
    <2> QED BY <1>18, <2>1, <2>2 DEF ObjectsStay
  <1>20. ASSUME failures = 0 PROVE PointsStay(f)
    <2>1. ASSUME NEW g \in Fiber, Commits(g) PROVE fiber[g].id # id
      <3>1. g # f /\ fiber[g].op # "create" /\ fiber[g].pc \in Holding /\ Registered(g)
        <4>1. RegisteredInv
          BY <1>20 DEF Inv, PointInv
        <4>2. Adopts(g) /\ fiber[g].op = "adopt" /\ fiber[g].pc = "flush"
          BY <2>1 DEF Commits, Adopts
        <4>3. Registered(g)
          BY <4>1, <4>2 DEF RegisteredInv, Stays
        <4> QED BY <4>2, <4>3 DEF Holding
      <3> QED BY <1>18, <1>20, <3>1
    <2> QED BY <1>2, <1>4, <1>6, <1>15, <1>16, <2>1 DEF PointsStay, Pointing, registryVars
  <1> QED BY <1>14, <1>15, <1>16, <1>17, <1>19, <1>20, PlainStep

(* A removal gets its permit.                                               *)
LEMMA StartRemovalKeeps == ASSUME Inv, NEW f \in Fiber, StartRemoval(f) PROVE Inv'
  <1>1. CASE TargetOf(f).kind = "relay"
    BY <1>1, StartClosingKeeps
  <1>2. CASE TargetOf(f).kind # "relay"
    <2>1. /\ Remove(f) /\ Registered(f) /\ fiber[f].op \in {"reset", "delete"} /\ fiber[f].pc = "permit"
          /\ executePermit[fiber[f].obj] = None /\ MayRun(f) /\ starting' = None
          /\ UNCHANGED <<registryVars, admission, events>>
      BY <1>2 DEF StartRemoval, TakesPermit
    <2> QED BY <2>1, RemoveKeeps
  <1> QED BY <1>1, <1>2

(* A removal goes on when its page is closed.                               *)
LEMMA RemoveAfterCloseKeeps == ASSUME Inv, NEW f \in Fiber, RemoveAfterClose(f) PROVE Inv'
  <1>1. fiber[f].pc = "closing" /\ fiber[f].woken = "ok" /\ Remove(f) /\ UNCHANGED <<registryVars, admission, events>>
    BY DEF RemoveAfterClose
  <1>2. WorkOK(f) /\ WokenInv /\ fiber[f].op \in {"reset", "delete"} /\ executePermit[fiber[f].obj] = f
    BY <1>1, Busy DEF Inv, WorkOK, Pcs, Op, Holding
  <1>3. starting' = None
    BY <1>1, <1>2 DEF RemoveAfterClose, WokenInv
  <1>4. failures = 0 => Registered(f)
    BY <1>1, <1>2 DEF Inv, PointInv, RegisteredInv, Stays
  <1> QED BY <1>1, <1>2, <1>3, <1>4, RemoveKeeps

(* An execute that created its session and fails.                           *)
LEMMA CleanupCreatedKeeps ==
  ASSUME Inv, NEW f \in Fiber, CleanupCreated(f), fiber[f].pc \in {"run", "flush"},
         Quiet \/ fiber[f].woken # "no", ~ Awaits(f), UNCHANGED <<starting, admission, events>>
  PROVE  Inv'
  <1> USE DEF CleanupCreated
  <1>1. /\ Struct /\ WorkOK(f) /\ TypeOK /\ WokenInv /\ OneEach /\ WorkInv /\ fiber[f].obj \in Session /\ fiber[f].id \in Id
        /\ FibersOK /\ SessionsOK /\ StoreOK /\ RegistryOK /\ ReservationInv /\ AttachInv /\ RemovedInv /\ fiber[f].obj # None
    BY Busy DEF Inv, TypeOK, SavesInv
  <1>2. /\ fiber' \in [Fiber -> Work] /\ Others(f)
        /\ fiber'[f].pc = "cleanupClose" /\ fiber'[f].woken = "no"
        /\ fiber'[f].op = fiber[f].op /\ fiber'[f].id = fiber[f].id /\ fiber'[f].obj = fiber[f].obj
        /\ fiber'[f].previous = fiber[f].previous
    BY <1>1, MoveDoes DEF Pc
  <1>3. executePermit[fiber[f].obj] = f /\ starting' = None /\ starting = None
    BY <1>1 DEF WorkOK, Holding, Quiet, WokenInv
  <1>4. PICK id \in Id : id = fiber[f].id
    BY <1>1
  <1>5. sessions[id] = fiber[f].obj
    BY <1>4 DEF Registered
  <1>6. /\ SessionsOK' /\ sessions'[id] = None /\ \A j \in Id : j # id => sessions'[j] = sessions[j]
        /\ \A o \in Session : o # fiber[f].obj => session'[o] = session[o]
    BY <1>1, <1>4, Constants DEF SessionsOK
  <1>7. PICK t : t = TargetOf(f).id
    OBVIOUS
  <1>8. /\ owner' \in [Target -> Id \cup {None, Absent, Gone}]
        /\ \A u \in Target : owner'[u] # owner[u] => owner[u] = id /\ owner'[u] = None
    <2>1. t \in Target \cup {None}
      BY <1>1, <1>7, Constants DEF TargetOf, SessionsOK
    <2>2. owner' = IF t # None /\ owner[t] = id THEN [owner EXCEPT ![t] = None] ELSE owner
      BY <1>4, <1>7 DEF Released
    <2> QED BY <1>1, <2>1, <2>2 DEF RegistryOK
  <1>9. /\ Stored /\ StoreOK' /\ queue' = queue
    BY <1>1, SameStore
  <1>10. TypeOK'
    BY <1>1, <1>2, <1>6, <1>8, <1>9 DEF TypeOK, FibersOK, RegistryOK, RestOK, permitVars
  <1>11. \A j \in Id, u \in Target : Points(j, u)' => j # id /\ Points(j, u)
    BY <1>1, <1>5, <1>6 DEF Points, OneEach, SessionsOK
  <1>12. NoNewPointer /\ OneEach'
    BY <1>1, <1>6, <1>11 DEF NoNewPointer, OneEach
  <1>13. WorkOK(f)'
    <2>1. \A g \in Fiber : fiber'[g].obj = fiber[f].obj => fiber'[g].id = fiber[f].id
      BY <1>1, <1>2 DEF Others, WorkOK
    <2>2. fiber'[f].pc \in Pcs(fiber'[f].op)
      BY <1>2 DEF Pcs
    <2>3. \A j \in Id : sessions'[j] = fiber[f].obj => j = fiber[f].id
      BY <1>1, <1>4, <1>6 DEF WorkOK
    <2> QED BY <1>1, <1>2, <1>3, <2>1, <2>2, <2>3 DEF WorkOK, permitVars
  <1>14. StructKeeps(f)
    <2>1. Binds(f)
      BY <1>1, <1>2, <1>6 DEF Binds, WorkOK
    <2>2. KeepsPermits(f) /\ QueuesOne(f)
      BY <1>2, <1>9 DEF KeepsPermits, permitVars, QueuesOne, Awaits
    <2>3. WakesOne(f)
      BY <1>2, <1>3 DEF WakesOne
    <2> QED BY <1>2, <1>9, <1>10, <1>12, <1>13, <2>1, <2>2, <2>3 DEF StructKeeps
  <1>15. ~ Adopts(f) /\ ~ Adopts(f)' /\ ~ Stays(f)' /\ ~ Removes(f)' /\ Dirty(f)'
    BY <1>2 DEF Adopts, Removes, Stays, Dirty
  <1>16. ReservationKept
    <2>1. reservation # None => reservation.target \in Target /\ (reservation.stored => reservation.current)
      BY <1>1 DEF RegistryOK, Reservation, ReservationInv
    <2>2. reservation' = reservation
      OBVIOUS
    <2> QED BY <1>8, <2>1, <2>2 DEF ReservationKept
  <1>17. GoneStays /\ AttachInv' /\ OwnersKept
    <2>1. \A u \in Target : owner[u] \in {Absent, Gone} => owner'[u] = owner[u]
      BY <1>8, Constants
    <2>2. GoneStays /\ AttachInv'
      BY <1>1, <2>1 DEF GoneStays, AttachInv
    <2>3. OwnersKept
      BY <1>8, <1>11, <2>1 DEF OwnersKept
    <2> QED BY <2>2, <2>3
  <1>18. RemovedStay(f)
    BY <1>6, <1>15 DEF RemovedStay
  <1>19. ObjectsStay(f)
    <2>1. \A g \in Fiber : Adopts(g) \/ Commits(g) \/ Removes(g) => fiber[g].op # "create" /\ fiber[g].pc \in Holding
      BY DEF Adopts, Commits, Removes, Holding
    <2>2. ASSUME NEW g \in Fiber, g # f, fiber[g].op # "create", fiber[g].pc \in Holding
          PROVE  /\ session'[fiber[g].obj] = session[fiber[g].obj]
                 /\ Registered(g) => sessions'[fiber[g].id] = fiber[g].obj
      <3>1. fiber[g].obj # fiber[f].obj /\ fiber[g].obj \in Session
        BY <1>1, <1>3, <2>2, AloneOnObject
      <3>2. fiber[g].id \in Id
        BY <1>1, <2>2 DEF WorkInv, WorkOK, Holding
      <3> QED BY <1>5, <1>6, <3>1, <3>2 DEF Registered
    <2> QED BY <2>1, <2>2 DEF ObjectsStay
  <1>20. PointsStay(f)
    BY <1>12, <1>15, <1>17 DEF PointsStay
  <1> QED BY <1>14, <1>15, <1>16, <1>17, <1>18, <1>19, <1>20, PlainStep

(* An execute fails before it ran.                                          *)
LEMMA FailSetupKeeps == ASSUME Inv, NEW f \in Fiber, FailSetup(f) PROVE Inv'
  BY CleanupCreatedKeeps DEF FailSetup, Awaits

(* A delete or reset that is durable lets go of its target.  If the same id *)
(* points at it again, then for an adoption that waits for its own write.   *)
LEMMA CompleteRemovalKeeps ==
  ASSUME Inv, NEW f \in Fiber, CompleteRemoval(f), fiber[f].pc = "flush", fiber[f].woken # "no",
         UNCHANGED <<starting, admission, events>>
  PROVE  Inv'
  <1> USE DEF CompleteRemoval
  <1>1. /\ Struct /\ WorkOK(f) /\ TypeOK /\ WokenInv /\ OneEach /\ WorkInv /\ fiber[f].obj \in Session /\ fiber[f].id \in Id
        /\ FibersOK /\ SessionsOK /\ StoreOK /\ RegistryOK /\ ReservationInv /\ AttachInv /\ RemovedInv /\ fiber[f].obj # None
    BY Busy DEF Inv, TypeOK, SavesInv
  <1>2. /\ fiber' \in [Fiber -> Work] /\ Others(f) /\ fiber'[f] = IdleFiber
        /\ executePermit' \in [Session -> Fiber \cup {None}] /\ adoptPermit' \in Fiber \cup {None}
        /\ \A o \in Session : executePermit'[o] = IF executePermit[o] = f THEN None ELSE executePermit[o]
        /\ adoptPermit' = IF adoptPermit = f THEN None ELSE adoptPermit
    BY <1>1, FinishDoes
  <1>3. executePermit[fiber[f].obj] = f /\ starting' = None /\ starting = None /\ Removes(f)
    BY <1>1 DEF WorkOK, Holding, WokenInv, Removes
  <1>4. \A j \in Id : sessions[j] # fiber[f].obj
    BY <1>1, <1>3 DEF RemovedInv
  <1>5. PICK id \in Id : id = fiber[f].id
    BY <1>1
  <1>6. PICK t : t = TargetOf(f).id
    OBVIOUS
  <1>7. /\ owner' \in [Target -> Id \cup {None, Absent, Gone}]
        /\ \A u \in Target : owner'[u] # owner[u] => owner[u] = id /\ owner'[u] = None /\ u = t
    <2>1. t \in Target \cup {None}
      BY <1>1, <1>6, Constants DEF TargetOf, SessionsOK
    <2>2. owner' = IF t # None /\ owner[t] = id THEN [owner EXCEPT ![t] = None] ELSE owner
      BY <1>5, <1>6 DEF Released
    <2> QED BY <1>1, <2>1, <2>2 DEF RegistryOK
  <1>8. /\ SessionsOK' /\ sessions' = sessions
        /\ \A o \in Session : o # fiber[f].obj => session'[o] = session[o]
    BY <1>1, Constants DEF SessionsOK
  <1>9. Stored /\ StoreOK' /\ queue' = queue
    BY <1>1, SameStore
  <1>10. TypeOK'
    BY <1>1, <1>2, <1>3, <1>7, <1>8, <1>9 DEF TypeOK, FibersOK, RegistryOK, RestOK
  <1>11. \A j \in Id, u \in Target : Points(j, u)' <=> Points(j, u)
    BY <1>1, <1>4, <1>8 DEF Points, SessionsOK
  <1>12. NoNewPointer /\ OneEach' /\ Catalog' = Catalog
    <2>1. SameTargets
      BY <1>1, <1>4, <1>8 DEF SameTargets, SessionsOK
    <2> QED BY <1>1, <1>8, <1>11, <2>1, SameCatalog DEF NoNewPointer, OneEach
  <1>13. StructKeeps(f)
    <2>1. fiber'[f].pc = "idle" /\ fiber'[f].woken = "no" /\ fiber'[f].obj = None /\ WorkOK(f)'
      BY <1>2 DEF IdleFiber, WorkOK
    <2>2. Binds(f) /\ KeepsPermits(f)
      BY <1>2, <1>8, <2>1 DEF Binds, KeepsPermits
    <2>3. QueuesOne(f) /\ WakesOne(f)
      BY <1>3, <1>9, <2>1 DEF WakesOne, QueuesOne, Awaits
    <2> QED BY <1>2, <1>9, <1>10, <1>12, <2>1, <2>2, <2>3 DEF StructKeeps
  <1>14. ~ Adopts(f) /\ ~ Adopts(f)' /\ ~ Stays(f)' /\ ~ Removes(f)' /\ ~ Dirty(f)
    BY <1>2 DEF Adopts, Removes, Stays, Dirty, IdleFiber
  <1>15. ReservationKept
    <2>1. reservation # None => reservation.target \in Target /\ (reservation.stored => reservation.current)
      BY <1>1 DEF RegistryOK, Reservation, ReservationInv
    <2>2. reservation' = reservation
      OBVIOUS
    <2> QED BY <1>7, <2>1, <2>2 DEF ReservationKept
  <1>16. GoneStays /\ AttachInv'
    <2>1. \A u \in Target : owner[u] \in {Absent, Gone} => owner'[u] = owner[u]
      BY <1>7, Constants
    <2> QED BY <1>1, <2>1 DEF GoneStays, AttachInv
  <1>17. ASSUME failures = 0, NEW j \in Id, NEW u \in Target, Points(j, u)', owner[u] \in {j, Absent, Gone}
         PROVE  owner'[u] \in {j, Absent, Gone} \/ Withdraws(j)'
    <2> SUFFICES ASSUME owner'[u] # owner[u] PROVE Withdraws(j)'
      BY <1>17
    <2>1. j = id /\ u = t /\ owner[u] = id /\ owner'[u] = None /\ Points(id, t)
      BY <1>7, <1>11, <1>17, Constants
    <2>2. PointInv
      BY <1>17 DEF Inv
    <2>3. PICK g \in Fiber : Commits(g) /\ sessions[id] = fiber[g].obj
      BY <1>3, <1>5, <1>6, <2>1, <2>2, Constants DEF PointInv, RemovalInv
    <2>4. g # f /\ Commits(g)' /\ sessions'[id] = fiber'[g].obj /\ Adopts(g) /\ AdoptOK(g) /\ HoldsReservation(g)
      BY <1>1, <1>2, <1>4, <1>8, <2>2, <2>3 DEF Others, Commits, Adopts, PointInv, AdoptInv, ReservationInv
    <2>5. reservation.current => TargetOf(g).id = reservation.target
      BY <1>1, <2>3, <2>4 DEF AdoptOK, Commits, ReservationInv, HoldsReservation
    <2>6. TargetOf(g).id = t
      BY <2>1, <2>3 DEF Points, TargetOf
    <2>7. reservation' = reservation /\ reservation # None /\ reservation.id # None
      BY <1>1, <2>4, Constants DEF HoldsReservation, RegistryOK, Reservation
    <2>8. ~ MayCommit(g)'
      BY <2>1, <2>5, <2>6, <2>7 DEF MayCommit, StillReserved
    <2> QED BY <2>1, <2>4, <2>8 DEF Withdraws
  <1>18. RemovedStay(f)
    BY <1>8, <1>14 DEF RemovedStay
  <1>19. ObjectsStay(f)
    <2>1. \A g \in Fiber : Adopts(g) \/ Commits(g) \/ Removes(g) => fiber[g].op # "create" /\ fiber[g].pc \in Holding
      BY DEF Adopts, Commits, Removes, Holding
    <2>2. ASSUME NEW g \in Fiber, g # f, fiber[g].op # "create", fiber[g].pc \in Holding
          PROVE  session'[fiber[g].obj] = session[fiber[g].obj]
      <3>1. fiber[g].obj # fiber[f].obj /\ fiber[g].obj \in Session
        BY <1>1, <1>3, <2>2, AloneOnObject
      <3> QED BY <1>8, <3>1
    <2> QED BY <1>8, <2>1, <2>2 DEF ObjectsStay, Registered
  <1>20. failures = 0 => PointsStay(f)
    BY <1>12, <1>14, <1>17 DEF PointsStay, OwnersKept
  <1> QED BY <1>12, <1>13, <1>14, <1>15, <1>16, <1>18, <1>19, <1>20, PlainStep

(* A page disappears: its owner and its reservation with it, and the        *)
(* pointers of the sessions.                                                *)
LostPage ==
  /\ SessionsOK' /\ RegistryOK' /\ OneEach' /\ StoreOK' /\ Stored
  /\ ReservationKept /\ GoneStays /\ AttachInv' /\ NoNewPointer /\ OwnersKept
  /\ (\E w \in SUBSET Fiber : Schedule(w)) \/ Catalog' = Catalog
  /\ \A o \in Session : session'[o].target.id \in {None, session[o].target.id}
  /\ \A g \in Fiber : Removes(g) => session'[fiber[g].obj].target = session[fiber[g].obj].target
  /\ \A g \in Fiber : failures = 0 /\ Commits(g) /\ reservation'.current =>
       session'[fiber[g].obj].target.id = session[fiber[g].obj].target.id

(* A reservation of a root that is gone is not current.                     *)
LEMMA UncurrentDoes ==
  ASSUME Struct, ReservationInv, NEW t \in Target, reservation' = Uncurrent(t)
  PROVE  /\ reservation' \in Reservation \cup {None}
         /\ reservation = None => reservation' = None
         /\ reservation # None =>
              /\ reservation' # None /\ reservation'.fiber = reservation.fiber /\ reservation'.target = reservation.target
              /\ reservation'.id = reservation.id /\ reservation'.previous = reservation.previous
              /\ reservation'.current <=> reservation.current /\ reservation.target # t
              /\ reservation'.stored => reservation'.current
  <1>1. CASE reservation = None
    BY <1>1 DEF Uncurrent
  <1>2. CASE reservation # None
    <2>1. reservation \in Reservation /\ (reservation.stored => reservation.current)
      BY <1>2 DEF RegistryOK, ReservationInv, Struct, TypeOK
    <2>2. reservation' = IF reservation.target = t THEN [reservation EXCEPT !.current = FALSE, !.stored = FALSE]
                         ELSE reservation
      BY <1>2 DEF Uncurrent
    <2>3. /\ [reservation EXCEPT !.current = FALSE, !.stored = FALSE] \in Reservation
          /\ \A r \in Reservation : r # None
      BY <2>1, LifecycleAssumption DEF Reservation
    <2> QED BY <1>2, <2>1, <2>2, <2>3 DEF Reservation
  <1> QED BY <1>1, <1>2

(* What the loss of a root changes.                                         *)
LEMMA ForgetDoes ==
  ASSUME Inv, NEW t \in Target, Live(t), NEW left \in {Absent, Gone}, Forget(t, left), UNCHANGED <<sessions, attaching>>,
         (session' = session /\ UNCHANGED storeVars) \/ Schedule({})
  PROVE  LostPage
  <1>1. /\ Struct /\ WorkInv /\ SessionsOK /\ StoreOK /\ RegistryOK /\ ReservationInv /\ AttachInv /\ RemovedInv /\ OneEach
    BY DEF Inv, SavesInv, Struct, TypeOK
  <1>2. /\ \A o \in Session : \/ session'[o].target = session[o].target
                              \/ /\ session'[o].target = NoTarget /\ session[o].target.id = t
                                 /\ \E id \in Id : sessions[id] = o
        /\ SessionsOK'
    <2>1. session' = [o \in Session |->
            IF o \in PointersTo(t) THEN [session[o] EXCEPT !.target = NoTarget] ELSE session[o]]
      BY DEF Forget
    <2>2. \A o \in Session : /\ session[o] \in [target : Place, closed : BOOLEAN]
                             /\ [session[o] EXCEPT !.target = NoTarget] \in [target : Place, closed : BOOLEAN]
                             /\ [session[o] EXCEPT !.target = NoTarget].target = NoTarget
      BY <1>1, Constants DEF SessionsOK
    <2>3. \A o \in PointersTo(t) : session[o].target.id = t /\ \E id \in Id : sessions[id] = o
      BY DEF PointersTo
    <2> QED BY <1>1, <2>1, <2>2, <2>3 DEF SessionsOK
  <1>3. /\ owner' \in [Target -> Id \cup {None, Absent, Gone}] /\ owner'[t] = left
        /\ \A u \in Target : u # t => owner'[u] = owner[u]
    BY <1>1 DEF Forget, RegistryOK
  <1>4. /\ reservation' \in Reservation \cup {None}
        /\ reservation = None => reservation' = None
        /\ reservation # None =>
             /\ reservation' # None /\ reservation'.fiber = reservation.fiber /\ reservation'.target = reservation.target
             /\ reservation'.id = reservation.id /\ reservation'.previous = reservation.previous
             /\ reservation'.current <=> reservation.current /\ reservation.target # t
             /\ reservation'.stored => reservation'.current
    BY <1>1, UncurrentDoes DEF Forget
  <1>5. StoreOK' /\ Stored
    <2>1. CASE UNCHANGED storeVars
      BY <1>1, <2>1, SameStore
    <2>2. CASE Schedule({})
      BY <1>1, <1>2, <2>2, ScheduleDoes DEF Stored
    <2> QED BY <2>1, <2>2
  <1>6. RegistryOK' /\ OneEach' /\ AttachInv' /\ GoneStays
    BY <1>1, <1>3, <1>4 DEF RegistryOK, OneEach, AttachInv, Live, GoneStays
  <1>7. ReservationKept
    <2>1. reservation # None => reservation.target \in Target
      BY <1>1 DEF RegistryOK, Reservation
    <2> QED BY <1>3, <1>4, <2>1 DEF ReservationKept
  <1>8. \A o \in Session : session'[o].target.id \in {None, session[o].target.id}
    BY <1>2, Constants
  <1>9. NoNewPointer /\ OwnersKept
    <2>1. \A id \in Id, u \in Target : Points(id, u)' => Points(id, u)
      BY <1>1, <1>8, Constants DEF Points, SessionsOK
    <2> QED BY <1>3, <2>1 DEF NoNewPointer, OwnersKept
  <1>10. (\E w \in SUBSET Fiber : Schedule(w)) \/ Catalog' = Catalog
    <2>1. session' = session => Catalog' = Catalog
      BY DEF Catalog
    <2> QED BY <2>1
  <1>11. \A g \in Fiber : Removes(g) => session'[fiber[g].obj].target = session[fiber[g].obj].target
    <2>1. \A g \in Fiber : Removes(g) => fiber[g].obj \in Session
      BY <1>1 DEF WorkInv, WorkOK, Removes
    <2> QED BY <1>1, <1>2, <2>1 DEF RemovedInv
  <1>12. ASSUME NEW g \in Fiber, failures = 0, Commits(g), reservation'.current
         PROVE  session'[fiber[g].obj].target.id = session[fiber[g].obj].target.id
    <2>1. Adopts(g) /\ AdoptOK(g) /\ HoldsReservation(g) /\ fiber[g].obj \in Session
      BY <1>1, <1>12 DEF Adopts, Commits, Inv, PointInv, AdoptInv, ReservationInv, WorkInv, WorkOK
    <2>2. reservation # None /\ reservation.current /\ reservation.target # t /\ reservation.target = fiber[g].target
      BY <1>1, <1>4, <1>12, <2>1 DEF HoldsReservation, ReservationInv
    <2>3. TargetOf(g).id # t
      BY <1>12, <2>1, <2>2 DEF AdoptOK, Commits
    <2> QED BY <1>2, <2>1, <2>3 DEF TargetOf
  <1> QED BY <1>2, <1>5, <1>6, <1>7, <1>8, <1>9, <1>10, <1>11, <1>12 DEF LostPage

(* The close of a page loses the page, or changes nothing yet.              *)
LEMMA ClosePageDoes ==
  ASSUME Inv, NEW t \in Target, ClosePage(t), attaching' = attaching
  PROVE  LostPage /\ sessions' = sessions /\ (queue' = queue \/ Schedule({}))
  <1>1. CASE Live(t) /\ Forget(t, Gone)
    <2>1. (session' = session /\ UNCHANGED storeVars) \/ Schedule({})
      BY <1>1 DEF ClosePage
    <2> QED BY <1>1, <2>1, ForgetDoes DEF ClosePage, storeVars
  <1>2. CASE UNCHANGED <<owner, reservation, session, storeVars>>
    <2>1. /\ Struct /\ WorkInv /\ SessionsOK /\ StoreOK /\ RegistryOK /\ ReservationInv /\ AttachInv /\ OneEach
      BY DEF Inv, SavesInv, Struct, TypeOK
    <2>2. SamePointers /\ SessionsOK' /\ RegistryOK' /\ sessions' = sessions
      BY <1>2, <2>1, SameVars DEF ClosePage, registryVars
    <2>3. NoNewPointer /\ OwnersKept /\ GoneStays /\ Catalog' = Catalog /\ ReservationKept
      BY <1>2, <2>1, <2>2, SamePoints, SameReservation
    <2>4. Stored /\ StoreOK' /\ queue' = queue
      BY <1>2, <2>1, SameStore
    <2>5. OneEach' /\ AttachInv'
      BY <1>2, <2>1, <2>2 DEF OneEach, AttachInv
    <2> QED BY <1>2, <2>2, <2>3, <2>4, <2>5 DEF LostPage
  <1> QED BY <1>1, <1>2 DEF ClosePage

(* A step that loses a page keeps the invariant.                            *)
LEMMA LostPageStep ==
  ASSUME Inv, NEW f, LostPage, sessions' = sessions, attaching' = attaching, FibersOK', RestOK', Others(f), KeepsPermits(f),
         WakesOne(f), QueuesOne(f), admission' = admission,
         f \in Fiber => WorkOK(f)' /\ fiber'[f].woken # "failed" /\ fiber'[f].obj = fiber[f].obj /\ fiber'[f].id = fiber[f].id,
         f \in Fiber => fiber[f].pc # "idle" /\ AdoptionStays(f) /\ ~ Removes(f)',
         f \in Fiber /\ Dirty(f) => Dirty(f)',
         failures = 0 /\ f \in Fiber /\ Stays(f)' => Registered(f)'
  PROVE  Inv'
  <1> USE DEF LostPage
  <1>1. Struct /\ WorkInv
    BY DEF Inv, Struct
  <1>2. Binds(f)
    BY <1>1 DEF Binds, WorkInv, WorkOK
  <1>3. StructKeeps(f)
    BY <1>2 DEF StructKeeps, TypeOK
  <1>4. ObjectsStay(f)
    <2>1. \A g \in Fiber : Adopts(g) => fiber[g].obj \in Session
      BY <1>1 DEF WorkInv, WorkOK, Adopts
    <2> QED BY <2>1 DEF ObjectsStay, Registered
  <1>5. RemovedStay(f)
    BY DEF RemovedStay
  <1>6. failures = 0 => PointsStay(f)
    BY DEF PointsStay
  <1> QED BY <1>3, <1>4, <1>5, <1>6, SteadyStep

(* The page of a removal is closed.                                         *)
LEMMA RelayPageClosedKeeps == ASSUME Inv, NEW f \in Fiber, RelayPageClosed(f) PROVE Inv'
  <1> USE DEF RelayPageClosed, permitVars
  <1>1. /\ Struct /\ WorkOK(f) /\ TypeOK /\ WokenInv /\ WorkInv /\ fiber[f].op \in {"reset", "delete"}
        /\ FibersOK /\ fiber[f].previous.id \in Target
    BY Busy DEF Inv, TypeOK, Owned, WorkOK, Pcs, Op
  <1>2. LostPage /\ sessions' = sessions /\ (queue' = queue \/ Schedule({}))
    BY <1>1, ClosePageDoes
  <1>3. /\ fiber' \in [Fiber -> Work] /\ Others(f)
        /\ fiber'[f].pc = "closing" /\ fiber'[f].woken = "ok"
        /\ fiber'[f].op = fiber[f].op /\ fiber'[f].id = fiber[f].id /\ fiber'[f].obj = fiber[f].obj
        /\ fiber'[f].previous = fiber[f].previous
    BY <1>1 DEF FibersOK, Others, Work
  <1>4. FibersOK' /\ RestOK'
    BY <1>1, <1>3 DEF TypeOK, FibersOK, RestOK
  <1>5. WorkOK(f)'
    <2>1. \A g \in Fiber : fiber'[g].obj = fiber[f].obj => fiber'[g].id = fiber[f].id
      BY <1>1, <1>3 DEF Others, WorkOK
    <2> QED BY <1>1, <1>2, <1>3, <2>1 DEF WorkOK, Pcs, Holding
  <1>6. KeepsPermits(f) /\ WakesOne(f)
    BY DEF KeepsPermits, WakesOne, Quiet
  <1>7. QueuesOne(f)
    BY <1>2, <1>3 DEF QueuesOne, Awaits
  <1>8. AdoptionStays(f) /\ ~ Removes(f)' /\ ~ Dirty(f)
    BY <1>3 DEF AdoptionStays, Adopts, Removes, Dirty
  <1>9. failures = 0 => Registered(f)'
    <2>1. Stays(f)
      BY <1>1 DEF Stays
    <2>2. failures = 0 => Registered(f)
      BY <2>1 DEF Inv, PointInv, RegisteredInv
    <2> QED BY <1>2, <1>3, <2>2 DEF Registered
  <1> QED BY <1>2, <1>3, <1>4, <1>5, <1>6, <1>7, <1>8, <1>9, LostPageStep

(* The relay page that a failed adoption replaced is closed.                *)
LEMMA CleanupPreviousKeeps == ASSUME Inv, NEW f \in Fiber, CleanupPrevious(f) PROVE Inv'
  <1> USE DEF CleanupPrevious, permitVars
  <1>1. /\ Struct /\ WorkOK(f) /\ TypeOK /\ WokenInv /\ WorkInv /\ fiber[f].op = "adopt"
        /\ FibersOK /\ fiber[f].previous.id \in Target
    BY Busy DEF Inv, TypeOK, Owned, WorkOK, Pcs
  <1>2. CASE ClosePage(fiber[f].previous.id) /\ Move(f, "cleanupClose") /\ UNCHANGED permitVars
    <2>1. LostPage /\ sessions' = sessions /\ (queue' = queue \/ Schedule({}))
      BY <1>1, <1>2, ClosePageDoes
    <2>2. /\ fiber' \in [Fiber -> Work] /\ Others(f)
          /\ fiber'[f].pc = "cleanupClose" /\ fiber'[f].woken = "no"
          /\ fiber'[f].op = fiber[f].op /\ fiber'[f].id = fiber[f].id /\ fiber'[f].obj = fiber[f].obj
          /\ fiber'[f].target = fiber[f].target /\ fiber'[f].previous = fiber[f].previous
      BY <1>1, <1>2, MoveDoes DEF Pc
    <2>3. FibersOK' /\ RestOK'
      BY <1>1, <1>2, <2>2 DEF TypeOK, FibersOK, RestOK
    <2>4. WorkOK(f)'
      <3>1. \A g \in Fiber : fiber'[g].obj = fiber[f].obj => fiber'[g].id = fiber[f].id
        BY <1>1, <2>2 DEF Others, WorkOK
      <3> QED BY <1>1, <1>2, <2>1, <2>2, <3>1 DEF WorkOK, Pcs, Holding
    <2>5. KeepsPermits(f) /\ WakesOne(f)
      BY <1>2, <2>2 DEF KeepsPermits, WakesOne, Quiet
    <2>6. QueuesOne(f)
      BY <2>1, <2>2 DEF QueuesOne, Awaits
    <2>7. AdoptionStays(f) /\ ~ Removes(f)' /\ ~ Stays(f)' /\ (Dirty(f) => Dirty(f)')
      BY <1>1, <2>1, <2>2 DEF AdoptionStays, Adopts, Removes, Stays, Dirty, Registered
    <2> QED BY <2>1, <2>2, <2>3, <2>4, <2>5, <2>6, <2>7, LostPageStep
  <1>3. CASE Live(fiber[f].previous.id) /\ Finish(f) /\ UNCHANGED <<sessions, session, owner, reservation, storeVars>>
    BY <1>3, CleanupPreviousFailsKeeps
  <1> QED BY <1>2, <1>3

(* A root is detached.                                                      *)
LEMMA DetachTargetKeeps == ASSUME Inv, NEW t \in Target, DetachTarget(t) PROVE Inv'
  <1> USE DEF DetachTarget, permitVars
  <1>1. Struct /\ TypeOK /\ FibersOK /\ None \notin Fiber
    BY Constants DEF Inv, Struct, TypeOK
  <1>2. (session' = session /\ UNCHANGED storeVars) \/ Schedule({})
    OBVIOUS
  <1>3. LostPage
    BY <1>2, ForgetDoes
  <1>4. FibersOK' /\ RestOK'
    BY <1>1, LifecycleAssumption DEF TypeOK, FibersOK, RestOK, Event
  <1>5. Others(None) /\ KeepsPermits(None) /\ WakesOne(None)
    BY DEF Others, KeepsPermits, WakesOne, Event, Quiet
  <1>6. QueuesOne(None)
    BY <1>2 DEF QueuesOne, Awaits, storeVars
  <1> QED BY <1>1, <1>3, <1>4, <1>5, <1>6, LostPageStep

(* The registry is cleared.                                                 *)
LEMMA LoseExtensionKeeps == ASSUME Inv, LoseExtension PROVE Inv'
  <1> USE DEF LoseExtension, permitVars
  <1>1. /\ Struct /\ TypeOK /\ FibersOK /\ WorkInv /\ OneEach /\ SessionsOK /\ RegistryOK /\ ReservationInv /\ AttachInv
        /\ None \notin Fiber
    BY Constants DEF Inv, Struct, TypeOK, SavesInv
  <1>2. FibersOK' /\ RestOK' /\ SessionsOK' /\ StoreOK' /\ Stored /\ queue' = queue /\ OneEach'
    BY <1>1, SameStore, LifecycleAssumption DEF TypeOK, FibersOK, RestOK, Event, SessionsOK, OneEach
  <1>3. /\ reservation' \in Reservation \cup {None}
        /\ reservation = None => reservation' = None
        /\ reservation # None =>
             /\ reservation' # None /\ reservation'.fiber = reservation.fiber /\ reservation'.target = reservation.target
             /\ reservation'.id = reservation.id /\ reservation'.previous = reservation.previous
             /\ ~ reservation'.current /\ ~ reservation'.stored
    <2>1. CASE reservation # None
      <3>1. reservation \in Reservation /\ \A r \in Reservation : r # None
        BY <1>1, <2>1, LifecycleAssumption DEF RegistryOK
      <3>2. reservation' = [reservation EXCEPT !.current = FALSE, !.stored = FALSE]
        BY <2>1
      <3> QED BY <2>1, <3>1, <3>2 DEF Reservation
    <2> QED BY <2>1
  <1>4. RegistryOK' /\ AttachInv' /\ GoneStays /\ ReservationKept
    BY <1>1, <1>3, Constants DEF RegistryOK, AttachInv, GoneStays, Live, ReservationKept
  <1>5. RestOK' /\ StructKeeps(None)
    <2>1. Others(None) /\ KeepsPermits(None) /\ WakesOne(None) /\ Binds(None)
      BY <1>1 DEF Others, KeepsPermits, WakesOne, Event, Quiet, Binds
    <2>2. QueuesOne(None)
      BY <1>2 DEF QueuesOne, Awaits
    <2> QED BY <1>1, <1>2, <1>4, <2>1, <2>2 DEF StructKeeps, TypeOK
  <1>6. ObjectsStay(None) /\ RemovedStay(None) /\ Catalog' = Catalog
    BY <1>1 DEF ObjectsStay, RemovedStay, Registered, Catalog
  <1>7. PointsStay(None)
    <2>1. NoNewPointer
      BY DEF NoNewPointer, Points
    <2>2. OwnersKept
      BY <1>1 DEF OwnersKept, RegistryOK, Live
    <2> QED BY <1>1, <2>1, <2>2 DEF PointsStay
  <1> QED BY <1>1, <1>4, <1>5, <1>6, <1>7, PlainStep

(* An attach reads the owner: the one session that points at the target.    *)
LEMMA BeginAttachKeeps == ASSUME Inv, NEW t \in Target, BeginAttach(t) PROVE Inv'
  <1> USE DEF BeginAttach, permitVars
  <1>1. /\ Struct /\ TypeOK /\ FibersOK /\ WorkInv /\ OneEach /\ SessionsOK /\ RegistryOK /\ ReservationInv /\ AttachInv
        /\ None \notin Fiber
    BY Constants DEF Inv, Struct, TypeOK, SavesInv
  <1>2. FibersOK' /\ RestOK' /\ SessionsOK' /\ StoreOK' /\ Stored /\ queue' = queue /\ OneEach'
    BY <1>1, SameStore DEF TypeOK, FibersOK, RestOK, SessionsOK, OneEach
  <1>3. /\ PersistedTargetOwner(t) \in Id \cup {None}
        /\ \A id \in Id : Points(id, t) => \E j \in Id : PersistedTargetOwner(t) = j /\ Points(j, t)
    <2>1. CASE PointersTo(t) = {}
      <3>1. \A id \in Id : ~ Points(id, t)
        BY <1>1, <2>1 DEF PointersTo, Points, SessionsOK
      <3> QED BY <2>1, <3>1 DEF PersistedTargetOwner
    <2>2. CASE PointersTo(t) # {}
      <3>1. \E id \in Id : sessions[id] # None /\ session[sessions[id]].target.id = t
        BY <1>1, <2>2, Constants DEF PointersTo, SessionsOK
      <3>2. PersistedTargetOwner(t) = CHOOSE id \in Id : sessions[id] # None /\ session[sessions[id]].target.id = t
        BY <2>2 DEF PersistedTargetOwner
      <3>3. \E j \in Id : PersistedTargetOwner(t) = j /\ sessions[j] # None /\ session[sessions[j]].target.id = t
        BY <3>1, <3>2
      <3> QED BY <3>3 DEF Points
    <2> QED BY <2>1, <2>2
  <1>4. RegistryOK' /\ AttachInv' /\ GoneStays /\ ReservationKept
    BY <1>1, <1>3, SameReservation DEF RegistryOK, AttachInv, GoneStays
  <1>5. StructKeeps(None)
    <2>1. Others(None) /\ KeepsPermits(None) /\ WakesOne(None) /\ Binds(None)
      BY <1>1 DEF Others, KeepsPermits, WakesOne, Quiet, Binds
    <2>2. QueuesOne(None)
      BY <1>2 DEF QueuesOne, Awaits
    <2> QED BY <1>1, <1>2, <1>4, <2>1, <2>2 DEF StructKeeps, TypeOK
  <1>6. ObjectsStay(None) /\ RemovedStay(None) /\ Catalog' = Catalog
    BY <1>1 DEF ObjectsStay, RemovedStay, Registered, Catalog
  <1>7. ASSUME failures = 0 PROVE PointsStay(None)
    <2>1. NoNewPointer /\ OwnersKept
      BY DEF NoNewPointer, Points, OwnersKept
    <2>2. UniqueInv
      BY <1>7 DEF Inv, PointInv
    <2>3. ASSUME NEW id \in Id, NEW u \in Target, Points(id, u)' PROVE attaching'[u] \in {attaching[u], Absent, id}
      <3>1. Points(id, u)
        BY <2>1, <2>3 DEF NoNewPointer
      <3>2. attaching'[u] = IF u = t THEN PersistedTargetOwner(t) ELSE attaching[u]
        BY <1>1 DEF RegistryOK
      <3> QED BY <1>3, <2>2, <3>1, <3>2 DEF UniqueInv
    <2> QED BY <1>1, <2>1, <2>3 DEF PointsStay
  <1> QED BY <1>1, <1>4, <1>5, <1>6, <1>7, PlainStep

(* An attach commits the owner it read.                                     *)
LEMMA CommitAttachKeeps == ASSUME Inv, NEW t \in Target, CommitAttach(t) PROVE Inv'
  <1> USE DEF CommitAttach, permitVars
  <1>1. /\ Struct /\ TypeOK /\ FibersOK /\ WorkInv /\ OneEach /\ SessionsOK /\ RegistryOK /\ ReservationInv /\ AttachInv
        /\ None \notin Fiber
    BY Constants DEF Inv, Struct, TypeOK, SavesInv
  <1>2. FibersOK' /\ RestOK' /\ SessionsOK' /\ StoreOK' /\ Stored /\ queue' = queue /\ OneEach'
    BY <1>1, SameStore DEF TypeOK, FibersOK, RestOK, SessionsOK, OneEach
  <1>3. owner[t] = Absent /\ owner'[t] = attaching[t] /\ \A u \in Target : u # t => owner'[u] = owner[u]
    BY <1>1 DEF AttachInv, RegistryOK
  <1>4. RegistryOK' /\ AttachInv' /\ GoneStays
    BY <1>1, <1>3, Constants DEF RegistryOK, AttachInv, GoneStays
  <1>5. ReservationKept
    <2>1. reservation # None => /\ reservation.target \in Target /\ (reservation.stored => reservation.current)
                                /\ (reservation.current => owner[reservation.target] \in {None, reservation.id})
                                /\ reservation.id \in Id
      BY <1>1 DEF RegistryOK, Reservation, ReservationInv
    <2>2. reservation # None /\ reservation.current => reservation.target # t
      BY <1>3, <2>1, Constants
    <2> QED BY <1>3, <2>1, <2>2 DEF ReservationKept
  <1>6. StructKeeps(None)
    <2>1. Others(None) /\ KeepsPermits(None) /\ WakesOne(None) /\ Binds(None)
      BY <1>1 DEF Others, KeepsPermits, WakesOne, Quiet, Binds
    <2>2. QueuesOne(None)
      BY <1>2 DEF QueuesOne, Awaits
    <2> QED BY <1>1, <1>2, <1>4, <2>1, <2>2 DEF StructKeeps, TypeOK
  <1>7. ObjectsStay(None) /\ RemovedStay(None) /\ Catalog' = Catalog
    BY <1>1 DEF ObjectsStay, RemovedStay, Registered, Catalog
  <1>8. ASSUME failures = 0 PROVE PointsStay(None)
    <2>1. NoNewPointer /\ \A id \in Id, u \in Target : Points(id, u)' => Points(id, u)
      BY DEF NoNewPointer, Points
    <2>2. AttachOwnerInv
      BY <1>8 DEF Inv, PointInv
    <2>3. WithdrawalsKept
      BY <1>1, <1>5, <1>6, WithdrawalsStep DEF StructKeeps
    <2>4. ASSUME NEW id \in Id, Points(id, t)' PROVE owner'[t] = id \/ Withdraws(id)'
      <3>1. Pointing(id)' /\ (attaching[t] = id \/ Withdraws(id))
        BY <2>1, <2>2, <2>4 DEF AttachOwnerInv, Pointing
      <3> QED BY <1>3, <2>3, <3>1 DEF WithdrawalsKept
    <2>5. OwnersKept
      BY <1>3, <2>4 DEF OwnersKept
    <2>6. \A u \in Target : attaching'[u] \in {attaching[u], Absent}
      BY <1>1 DEF RegistryOK
    <2> QED BY <1>1, <2>1, <2>5, <2>6 DEF PointsStay
  <1> QED BY <1>1, <1>4, <1>5, <1>6, <1>7, <1>8, PlainStep

(* A page takes a new target id: the pointers of the sessions move with it. *)
LEMMA ReplaceTargetKeeps == ASSUME Inv, NEW t \in Target, NEW u \in Target, ReplaceTarget(t, u) PROVE Inv'
  <1> USE DEF ReplaceTarget, permitVars
  <1>1. /\ Struct /\ TypeOK /\ FibersOK /\ WorkInv /\ OneEach /\ SessionsOK /\ RegistryOK /\ StoreOK /\ ReservationInv
        /\ AttachInv /\ RemovedInv /\ PreviousInv /\ DurableInv /\ None \notin Fiber
    BY Constants DEF Inv, Struct, TypeOK, SavesInv
  <1>2. /\ \A o \in Session : \/ session'[o].target = session[o].target
                              \/ /\ session'[o].target.id = u /\ session[o].target.id = t
                                 /\ \E id \in Id : sessions[id] = o
        /\ \A o \in Session : session[o].target.id = t /\ (\E id \in Id : sessions[id] = o) => session'[o].target.id = u
        /\ SessionsOK'
    <2>1. \A o \in Session : session[o] \in [target : Place, closed : BOOLEAN]
      BY <1>1 DEF SessionsOK
    <2>2. ASSUME NEW o \in PointersTo(t)
          PROVE  /\ o \in Session /\ session[o].target.id = t /\ \E id \in Id : sessions[id] = o
                 /\ [session[o] EXCEPT !.target.id = u] \in [target : Place, closed : BOOLEAN]
                 /\ [session[o] EXCEPT !.target.id = u].target.id = u
      <3>1. o \in Session /\ session[o].target.id = t /\ \E id \in Id : sessions[id] = o
        BY DEF PointersTo
      <3>2. session[o].target \in Owned
        BY <2>1, <3>1, Constants DEF Owned
      <3>3. [session[o].target EXCEPT !.id = u] \in Owned /\ [session[o].target EXCEPT !.id = u].id = u
        BY <3>2 DEF Owned
      <3>4. [session[o] EXCEPT !.target.id = u] = [session[o] EXCEPT !.target = [session[o].target EXCEPT !.id = u]]
        BY <2>1, <3>1
      <3> QED BY <2>1, <3>1, <3>3, <3>4 DEF Place
    <2>3. session' = [o \in Session |->
            IF o \in PointersTo(t) THEN [session[o] EXCEPT !.target.id = u] ELSE session[o]]
      OBVIOUS
    <2>4. \A o \in Session : session[o].target.id = t /\ (\E id \in Id : sessions[id] = o) => o \in PointersTo(t)
      BY DEF PointersTo
    <2>5. ASSUME NEW o \in Session
          PROVE  /\ session'[o] \in [target : Place, closed : BOOLEAN]
                 /\ \/ session'[o].target = session[o].target
                    \/ /\ session'[o].target.id = u /\ session[o].target.id = t
                       /\ \E id \in Id : sessions[id] = o
                 /\ session[o].target.id = t /\ (\E id \in Id : sessions[id] = o) => session'[o].target.id = u
      <3>1. CASE o \in PointersTo(t)
        <4> DEFINE e == [session[o] EXCEPT !.target.id = u]
        <4>1. session'[o] = e
          BY <2>3, <3>1
        <4>2. /\ e \in [target : Place, closed : BOOLEAN] /\ e.target.id = u
              /\ session[o].target.id = t /\ \E id \in Id : sessions[id] = o
          BY <2>2, <3>1
        <4> HIDE DEF e
        <4> QED BY <4>1, <4>2
      <3>2. CASE o \notin PointersTo(t)
        BY <2>1, <2>3, <2>4, <3>2
      <3> QED BY <3>1, <3>2
    <2> QED BY <1>1, <2>3, <2>5 DEF SessionsOK
  <1>3. PICK x : x = owner'[u]
    OBVIOUS
  <1>4. /\ owner' \in [Target -> Id \cup {None, Absent, Gone}]
        /\ \A v \in Target : v \notin {t, u} => owner'[v] = owner[v]
        /\ u # t => owner'[t] = Gone
        /\ x = IF reservation # None /\ reservation.stored /\ reservation.target = t THEN reservation.previous ELSE owner[t]
        /\ x \in Id \cup {None}
    <2>1. reservation # None => reservation.previous \in Id \cup {None}
      BY <1>1 DEF RegistryOK, Reservation
    <2> QED BY <1>1, <1>3, <2>1 DEF RegistryOK, Live
  <1>5. /\ reservation' \in Reservation \cup {None}
        /\ reservation = None => reservation' = None
        /\ reservation # None =>
             /\ reservation' # None /\ reservation'.fiber = reservation.fiber /\ reservation'.target = reservation.target
             /\ reservation'.id = reservation.id /\ reservation'.previous = reservation.previous
             /\ reservation'.current <=> reservation.current /\ reservation.target # t
             /\ reservation'.stored => reservation'.current
    BY <1>1, UncurrentDoes
  <1>6. u # t => /\ owner[u] = Absent /\ attaching[u] = Absent /\ \A o \in Session : session[o].target.id # u
                 /\ \A g \in Fiber : fiber[g].target # u /\ fiber[g].previous.id # u
    BY DEF IsNew
  <1>7. owner[t] \in Id \cup {None} /\ attaching[t] = Absent
    BY <1>1 DEF RegistryOK, Live, AttachInv
  <1>8. RegistryOK' /\ AttachInv' /\ GoneStays
    <2>1. \A v \in Target : attaching[v] # Absent => v \notin {t, u} \/ u = t
      BY <1>6, <1>7
    <2>2. AttachInv'
      BY <1>1, <1>4, <1>6, <1>7 DEF AttachInv
    <2>3. \A v \in Target : owner[v] = Gone => v # t /\ v # u
      BY <1>6, Constants DEF Live
    <2>4. GoneStays
      BY <1>4, <2>3 DEF GoneStays
    <2> QED BY <1>1, <1>4, <1>5, <2>2, <2>4 DEF RegistryOK
  <1>9. ReservationKept
    <2>1. reservation # None => /\ reservation.target \in Target /\ reservation.id \in Id
                                /\ (reservation.current => owner[reservation.target] \in {None, reservation.id})
      BY <1>1 DEF RegistryOK, Reservation, ReservationInv
    <2>2. reservation # None /\ reservation'.current => reservation.target \notin {t, u}
      BY <1>5, <1>6, <2>1, Constants
    <2> QED BY <1>4, <1>5, <2>1, <2>2 DEF ReservationKept
  <1>10. StoreOK' /\ Stored /\ (queue' = queue \/ Schedule({}))
         /\ (Catalog' = Catalog \/ \E w \in SUBSET Fiber : Schedule(w))
    <2>1. CASE session' = session /\ UNCHANGED storeVars
      BY <1>1, <2>1, SameStore DEF Catalog
    <2>2. CASE Schedule({})
      BY <1>1, <1>2, <2>2, ScheduleDoes DEF Stored
    <2> QED BY <2>1, <2>2
  <1>11. FibersOK' /\ RestOK'
    BY <1>1, LifecycleAssumption DEF TypeOK, FibersOK, RestOK, Event
  <1>12. StructKeeps(None)
    <2>1. Others(None) /\ KeepsPermits(None) /\ WakesOne(None) /\ Binds(None) /\ OneEach'
      BY <1>1 DEF Others, KeepsPermits, WakesOne, Event, Quiet, Binds, OneEach
    <2>2. QueuesOne(None)
      BY <1>10 DEF QueuesOne, Awaits
    <2> QED BY <1>1, <1>2, <1>8, <1>10, <1>11, <2>1, <2>2 DEF StructKeeps, TypeOK
  <1>13. Struct' /\ Others(None) /\ QueuesOne(None) /\ failures' = failures
    BY <1>1, <1>12, StructKept, StoredKeeps DEF StructKeeps
  <1>14. RemovedInv' /\ ReservationInv'
    <2>1. RemovedInv'
      BY <1>1 DEF RemovedInv, Removes
    <2> QED BY <1>1, <1>9, <1>13, <2>1, ReservationStep
  <1>15. DurableInv'
    <2>1. \A g \in Fiber : Registered(g) => sessions'[fiber[g].id] = fiber[g].obj
      BY DEF Registered
    <2> QED BY <1>1, <1>2, <1>8, <1>10, <1>13, <2>1, DurableStep DEF Stored
  <1>16. PreviousInv'
    <2> SUFFICES ASSUME NEW g \in Fiber, Adopts(g), fiber[g].previous.kind = "relay", ~ fiber[g].previousClosed,
                        session'[fiber[g].obj].target.id \notin {None, fiber[g].previous.id}
                 PROVE  owner'[fiber[g].previous.id] = Gone
      BY DEF PreviousInv, PreviousOK, TargetOf, Adopts
    <2>1. fiber[g].obj \in Session /\ fiber[g].previous.id \in Target /\ PreviousOK(g)
      BY <1>1, Constants DEF WorkInv, WorkOK, Adopts, FibersOK, Work, PreviousInv
    <2>2. CASE session'[fiber[g].obj].target = session[fiber[g].obj].target
      <3>1. owner[fiber[g].previous.id] = Gone
        BY <2>1, <2>2 DEF PreviousOK, TargetOf
      <3> QED BY <1>8, <2>1, <3>1 DEF GoneStays
    <2>3. CASE session'[fiber[g].obj].target.id = u /\ session[fiber[g].obj].target.id = t
      <3>1. CASE fiber[g].previous.id = t
        BY <1>4, <2>3, <3>1
      <3>2. CASE fiber[g].previous.id # t
        <4>1. owner[fiber[g].previous.id] = Gone
          BY <2>1, <2>3, <3>2, Constants DEF PreviousOK, TargetOf
        <4> QED BY <1>8, <2>1, <4>1 DEF GoneStays
      <3> QED BY <3>1, <3>2
    <2> QED BY <1>2, <2>1, <2>2, <2>3
  <1>17. SavesInv'
    BY <1>8, <1>14, <1>15, <1>16 DEF SavesInv
  <1>18. \A id \in Id, v \in Target : Points(id, v)' =>
           (Points(id, v) /\ (u # t => v \notin {t, u})) \/ (v = u /\ Points(id, t))
    <2> SUFFICES ASSUME NEW id \in Id, NEW v \in Target, Points(id, v)'
                 PROVE  (Points(id, v) /\ (u # t => v \notin {t, u})) \/ (v = u /\ Points(id, t))
      OBVIOUS
    <2>1. sessions[id] \in Session /\ sessions'[id] = sessions[id] /\ session'[sessions[id]].target.id = v
      BY <1>1 DEF SessionsOK, Points
    <2>2. CASE session[sessions[id]].target.id = t
      BY <1>2, <2>1, <2>2, Constants DEF Points
    <2>3. CASE session[sessions[id]].target.id # t
      <3>1. session'[sessions[id]].target = session[sessions[id]].target
        BY <1>2, <2>1, <2>3
      <3>2. Points(id, v) /\ v # t
        BY <2>1, <2>3, <3>1, Constants DEF Points
      <3> QED BY <1>6, <2>1, <3>1, <3>2
    <2> QED BY <2>2, <2>3
  <1>19. ASSUME failures = 0 PROVE PointInv'
    <2>0. UniqueInv /\ OwnerInv /\ AttachOwnerInv /\ RegisteredInv /\ AdoptInv /\ OrderInv /\ RemovalInv /\ WritesInv
      BY <1>19 DEF Inv, PointInv
    <2>1. WithdrawalsKept /\ \A id \in Id, v \in Target : Points(id, v)' => Pointing(id)'
      <3>1. \A id \in Id : Pointing(id)' => sessions'[id] = sessions[id]
        OBVIOUS
      <3> QED BY <1>1, <1>9, <1>13, <3>1, WithdrawalsStep DEF Pointing
    <2>2. UniqueInv'
      BY <1>18, <2>0 DEF UniqueInv
    <2>3. OwnerInv'
      <3> SUFFICES ASSUME NEW id \in Id, NEW v \in Target, Points(id, v)'
                   PROVE  owner'[v] \in {id, Absent, Gone} \/ Withdraws(id)'
        BY DEF OwnerInv
      <3>1. Withdraws(id) => Withdraws(id)'
        BY <2>1 DEF WithdrawalsKept
      <3>2. CASE Points(id, v) /\ v \notin {t, u}
        BY <1>4, <2>0, <3>1, <3>2 DEF OwnerInv
      <3>3. CASE v = u /\ Points(id, t)
        <4>1. owner[t] = id \/ Withdraws(id)
          BY <1>7, <2>0, <3>3, Constants DEF OwnerInv, Live
        <4>2. CASE owner[t] = id /\ reservation # None /\ reservation.stored /\ reservation.target = t
          <5>1. PICK g \in Fiber : g = reservation.fiber
            BY <1>1, <4>2 DEF RegistryOK, Reservation
          <5>2. /\ Adopts(g) /\ AdoptOK(g) /\ reservation.current /\ fiber[g].target = t /\ fiber[g].id = id
                /\ Registered(g)
            <6>1. Adopts(g) /\ reservation.current /\ fiber[g].target = t /\ fiber[g].id = reservation.id
              BY <1>1, <4>2, <5>1 DEF ReservationInv
            <6>2. owner[t] \in {None, reservation.id}
              BY <1>1, <4>2, <6>1 DEF ReservationInv
            <6> QED BY <2>0, <4>2, <6>1, <6>2, Constants DEF AdoptInv, RegisteredInv, Stays
          <5>3. CASE fiber[g].pc # "flush"
            <6>1. x = id
              BY <1>4, <3>3, <4>2, <5>2, <5>3 DEF AdoptOK
            <6> QED BY <1>3, <3>3, <6>1
          <5>4. CASE fiber[g].pc = "flush"
            <6>1. Commits(g)' /\ sessions'[id] = fiber'[g].obj
              BY <5>2, <5>4 DEF Commits, Adopts, Registered
            <6>2. ~ MayCommit(g)'
              BY <1>5, <4>2 DEF MayCommit, StillReserved
            <6> QED BY <6>1, <6>2 DEF Withdraws
          <5> QED BY <5>3, <5>4
        <4>3. CASE owner[t] = id /\ ~ (reservation # None /\ reservation.stored /\ reservation.target = t)
          BY <1>3, <1>4, <3>3, <4>3
        <4> QED BY <3>1, <4>1, <4>2, <4>3
      <3>4. CASE u = t /\ Points(id, v) /\ v # t
        BY <3>2, <3>4
      <3> QED BY <1>18, <3>2, <3>3, <3>4
    <2>4. AttachOwnerInv'
      <3> SUFFICES ASSUME NEW id \in Id, NEW v \in Target, attaching'[v] # Absent, Points(id, v)'
                   PROVE  attaching'[v] = id \/ Withdraws(id)'
        BY DEF AttachOwnerInv
      <3>1. Points(id, v)
        BY <1>6, <1>7, <1>18
      <3> QED BY <2>0, <2>1, <3>1 DEF AttachOwnerInv, WithdrawalsKept
    <2>5. RegisteredInv'
      BY <2>0 DEF RegisteredInv, Stays, Adopts, Registered
    <2>6. AdoptInv'
      <3> SUFFICES ASSUME NEW g \in Fiber, Adopts(g) PROVE AdoptOK(g)'
        BY DEF AdoptInv, AdoptOK, Adopts
      <3>1. AdoptOK(g) /\ fiber[g].target \in Target /\ fiber[g].obj \in Session /\ fiber[g].id \in Id
        BY <1>1, <2>0 DEF AdoptInv, WorkInv, WorkOK, Adopts
      <3>2. PICK v \in Target : v = fiber[g].target
        BY <3>1
      <3>3. \A id \in Id : Points(id, v)' => Points(id, v)
        BY <1>6, <1>18, <3>2
      <3>4. \A id \in Id : Points(id, fiber[g].target)' <=> Points(id, v)'
        BY <3>2 DEF Points
      <3>5. HoldsReservation(g) /\ reservation # None /\ reservation.target = fiber[g].target
        BY <1>1 DEF ReservationInv, HoldsReservation
      <3>6. fiber[g].pc = "flush" /\ reservation'.current => (TargetOf(g).id)' = fiber[g].target
        <4> SUFFICES ASSUME fiber[g].pc = "flush", reservation'.current PROVE session'[fiber[g].obj].target.id = fiber[g].target
          BY DEF TargetOf
        <4>1. session[fiber[g].obj].target.id = fiber[g].target /\ fiber[g].target # t
          BY <1>5, <3>1, <3>5 DEF AdoptOK, TargetOf
        <4> QED BY <1>2, <3>1, <4>1
      <3> QED BY <1>5, <3>1, <3>2, <3>3, <3>4, <3>5, <3>6 DEF AdoptOK, Adopts
    <2>7. OrderInv'
      BY <1>1, <1>2, <1>13, <2>0, OrderStep
    <2>8. RemovalInv'
      <3> SUFFICES ASSUME NEW g \in Fiber, Removes(g), NEW v, v = (TargetOf(g).id)', v # None,
                          NEW id \in Id, id = fiber[g].id, Points(id, v)'
                   PROVE  \E h \in Fiber : Commits(h) /\ sessions[id] = fiber[h].obj
        <4>1. \A g \in Fiber : Removes(g) => fiber[g].id \in Id
          BY <1>1 DEF Removes, WorkInv, WorkOK
        <4> QED BY <4>1 DEF RemovalInv, Removes, Commits
      <3>1. fiber[g].obj \in Session /\ \A j \in Id : sessions[j] # fiber[g].obj
        BY <1>1 DEF WorkInv, WorkOK, Removes, RemovedInv
      <3>2. session'[fiber[g].obj].target = session[fiber[g].obj].target
        BY <1>2, <3>1
      <3>3. v = TargetOf(g).id /\ v \in Target
        BY <1>1, <3>1, <3>2, Constants DEF TargetOf, SessionsOK
      <3>4. Points(id, v)
        BY <1>6, <1>18, <3>1, <3>3 DEF TargetOf
      <3> QED BY <2>0, <3>3, <3>4 DEF RemovalInv
    <2>9. WritesInv'
      BY <1>1, <1>2, <1>10, <2>0, <2>2, WritesStep DEF Stored
    <2> QED BY <2>2, <2>3, <2>4, <2>5, <2>6, <2>7, <2>8, <2>9 DEF PointInv
  <1> QED BY <1>13, <1>17, <1>19 DEF Inv

(* A session gets a page that nobody names.                                 *)
LEMMA OpenRelayPageKeeps == ASSUME Inv, NEW f \in Fiber, NEW t \in Target, OpenRelayPage(f, t) PROVE Inv'
  <1> USE DEF OpenRelayPage, permitVars
  <1>1. /\ Struct /\ TypeOK /\ FibersOK /\ WorkInv /\ OneEach /\ SessionsOK /\ RegistryOK /\ StoreOK /\ ReservationInv
        /\ AttachInv /\ RemovedInv /\ PreviousInv /\ DurableInv /\ WorkOK(f)
        /\ fiber[f].obj \in Session /\ fiber[f].id \in Id /\ fiber[f].obj # None /\ fiber[f].op = "execute"
        /\ executePermit[fiber[f].obj] = f
    BY Busy DEF Inv, TypeOK, SavesInv, WorkOK, Pcs, Holding
  <1>2. PICK id \in Id : id = fiber[f].id
    BY <1>1
  <1>3. /\ owner[t] = Absent /\ attaching[t] = Absent /\ \A o \in Session : session[o].target.id # t
        /\ \A g \in Fiber : fiber[g].target # t /\ fiber[g].previous.id # t
    BY DEF IsNew
  <1>4. /\ owner' \in [Target -> Id \cup {None, Absent, Gone}] /\ owner'[t] = id
        /\ \A u \in Target : u # t => owner'[u] = owner[u]
    BY <1>1, <1>2 DEF RegistryOK
  <1>5. PICK o \in Session : o = fiber[f].obj
    BY <1>1
  <1>6. /\ SessionsOK' /\ \A p \in Session : p # o => session'[p] = session[p]
        /\ Registered(f) => session'[o].target.id = t
        /\ ~ Registered(f) => session'[o].target = session[o].target
    <2>1. [id |-> t, kind |-> "relay"] \in Place /\ [id |-> t, kind |-> "relay"].id = t
      BY DEF Place, Owned
    <2>2. session[o] \in [target : Place, closed : BOOLEAN]
      BY <1>1 DEF SessionsOK
    <2> DEFINE place == IF Registered(f) THEN [id |-> t, kind |-> "relay"] ELSE session[o].target
    <2>3. session' = [session EXCEPT ![o].target = place]
      BY <1>5
    <2>4. place \in Place /\ (Registered(f) => place.id = t) /\ (~ Registered(f) => place = session[o].target)
      BY <2>1, <2>2
    <2> HIDE DEF place
    <2> QED BY <1>1, <2>2, <2>3, <2>4 DEF SessionsOK
  <1>7. /\ StoreOK' /\ Stored /\ (queue' = queue \/ Schedule({}))
        /\ Catalog' = Catalog \/ \E w \in SUBSET Fiber : Schedule(w)
    <2>1. CASE Registered(f)
      BY <1>1, <1>6, <2>1, ScheduleDoes DEF Stored
    <2>2. CASE ~ Registered(f)
      <3>1. SameTargets /\ sessions' = sessions
        BY <1>1, <1>5, <1>6, <2>2 DEF SameTargets, SessionsOK
      <3> QED BY <1>1, <2>2, <3>1, SameStore, SameCatalog
    <2> QED BY <2>1, <2>2
  <1>8. RegistryOK' /\ AttachInv' /\ GoneStays
    BY <1>1, <1>3, <1>4, Constants DEF RegistryOK, AttachInv, GoneStays
  <1>9. ReservationKept
    <2>1. reservation # None => /\ reservation.target \in Target /\ reservation.id \in Id
                                /\ (reservation.current => owner[reservation.target] \in {None, reservation.id})
                                /\ (reservation.stored => reservation.current)
      BY <1>1 DEF RegistryOK, Reservation, ReservationInv
    <2>2. reservation # None /\ reservation.current => reservation.target # t
      BY <1>3, <2>1, Constants
    <2> QED BY <1>4, <2>1, <2>2 DEF ReservationKept
  <1>10. StructKeeps(f)
    <2>1. FibersOK' /\ RestOK' /\ Others(f) /\ KeepsPermits(f) /\ WakesOne(f) /\ OneEach'
      BY <1>1 DEF TypeOK, FibersOK, RestOK, Others, KeepsPermits, WakesOne, Quiet, OneEach
    <2>2. QueuesOne(f) /\ WorkOK(f)' /\ Binds(f) /\ fiber'[f].woken # "failed"
      BY <1>1, <1>7 DEF QueuesOne, Awaits, WorkOK, Binds, Quiet
    <2> QED BY <1>6, <1>7, <1>8, <2>1, <2>2 DEF StructKeeps, TypeOK
  <1>11. Struct' /\ Others(f) /\ QueuesOne(f) /\ failures' = failures
    BY <1>1, <1>10, StructKept, StoredKeeps DEF StructKeeps
  <1>12. ASSUME NEW g \in Fiber, Adopts(g) \/ Removes(g)
         PROVE  g # f /\ fiber[g].obj # o /\ session'[fiber[g].obj] = session[fiber[g].obj] /\ fiber[g].obj \in Session
    <2>1. g # f /\ fiber[g].op # "create" /\ fiber[g].pc \in Holding
      BY <1>1, <1>12 DEF Adopts, Removes, Holding
    <2>2. fiber[g].obj # o /\ fiber[g].obj \in Session
      BY <1>1, <1>5, <2>1, AloneOnObject
    <2> QED BY <1>6, <2>1, <2>2
  <1>13. ~ Adopts(f) /\ ~ Adopts(f)' /\ ~ Commits(f) /\ ~ Commits(f)' /\ ~ Removes(f)' /\ ~ Stays(f)' /\ ~ Dirty(f)
    BY <1>1 DEF Adopts, Commits, Removes, Stays, Dirty
  <1>14. RemovedInv' /\ ReservationInv'
    <2>1. RemovedInv'
      BY <1>1 DEF RemovedInv, Removes
    <2>2. Adopts(f)' = Adopts(f)
      BY DEF Adopts
    <2> QED BY <1>1, <1>9, <1>11, <1>13, <2>1, <2>2, ReservationStep
  <1>15. DurableInv'
    <2>1. \A g \in Fiber : Registered(g) => sessions'[fiber[g].id] = fiber[g].obj
      BY DEF Registered
    <2> QED BY <1>1, <1>6, <1>7, <1>8, <1>11, <1>13, <2>1, DurableStep DEF Stored
  <1>16. PreviousInv'
    <2>1. PreviousOK(f)'
      BY <1>13 DEF PreviousOK
    <2> QED BY <1>1, <1>8, <1>11, <1>12, <2>1, PreviousStep
  <1>17. SavesInv'
    BY <1>8, <1>14, <1>15, <1>16 DEF SavesInv
  <1>18. \A j \in Id, v \in Target : Points(j, v)' => (Points(j, v) /\ v # t) \/ (v = t /\ j = id)
    <2> SUFFICES ASSUME NEW j \in Id, NEW v \in Target, Points(j, v)' PROVE (Points(j, v) /\ v # t) \/ (v = t /\ j = id)
      OBVIOUS
    <2>1. sessions[j] \in Session /\ sessions'[j] = sessions[j] /\ session'[sessions[j]].target.id = v
      BY <1>1 DEF SessionsOK, Points
    <2>2. CASE Registered(f) /\ sessions[j] = o
      <3>1. j = id
        BY <1>1, <1>2, <1>5, <2>2 DEF WorkOK
      <3> QED BY <1>6, <2>1, <2>2, <3>1
    <2>3. CASE ~ (Registered(f) /\ sessions[j] = o)
      <3>1. session'[sessions[j]].target = session[sessions[j]].target
        BY <1>6, <2>1, <2>3
      <3> QED BY <1>3, <2>1, <3>1 DEF Points
    <2> QED BY <2>2, <2>3
  <1>19. ASSUME failures = 0 PROVE PointInv'
    <2>0. UniqueInv /\ OwnerInv /\ AttachOwnerInv /\ RegisteredInv /\ AdoptInv /\ OrderInv /\ RemovalInv /\ WritesInv
      BY <1>19 DEF Inv, PointInv
    <2>1. WithdrawalsKept /\ \A j \in Id, v \in Target : Points(j, v)' => Pointing(j)'
      <3>1. \A j \in Id : Pointing(j)' => sessions'[j] = sessions[j]
        OBVIOUS
      <3> QED BY <1>1, <1>9, <1>11, <1>13, <3>1, WithdrawalsStep DEF Pointing
    <2>2. UniqueInv'
      BY <1>18, <2>0 DEF UniqueInv
    <2>3. OwnerInv'
      BY <1>4, <1>18, <2>0, <2>1 DEF OwnerInv, WithdrawalsKept
    <2>4. AttachOwnerInv'
      BY <1>3, <1>18, <2>0, <2>1 DEF AttachOwnerInv, WithdrawalsKept
    <2>5. RegisteredInv'
      BY <2>0 DEF RegisteredInv, Stays, Adopts, Registered
    <2>6. AdoptInv'
      <3>1. \A g \in Fiber, j \in Id : g # f /\ Adopts(g) /\ Points(j, fiber[g].target)' => Points(j, fiber[g].target)
        <4> SUFFICES ASSUME NEW g \in Fiber, NEW j \in Id, Adopts(g), Points(j, fiber[g].target)'
                     PROVE  Points(j, fiber[g].target)
          OBVIOUS
        <4>1. PICK v \in Target : v = fiber[g].target
          BY <1>1 DEF WorkInv, WorkOK, Adopts
        <4>2. Points(j, v)' /\ v # t
          BY <1>3, <4>1 DEF Points
        <4> QED BY <1>18, <4>1, <4>2
      <3>2. \A g \in Fiber : g # f /\ Commits(g) /\ reservation'.current =>
              session'[fiber[g].obj].target.id = session[fiber[g].obj].target.id
        BY <1>12 DEF Commits, Adopts
      <3>3. AdoptOK(f)'
        BY <1>13 DEF AdoptOK
      <3> QED BY <1>1, <1>9, <1>11, <2>0, <3>1, <3>2, <3>3, AdoptStep
    <2>7. OrderInv'
      BY <1>1, <1>6, <1>11, <1>13, <2>0, OrderStep
    <2>8. RemovalInv'
      <3> SUFFICES ASSUME NEW g \in Fiber, Removes(g), NEW v, v = (TargetOf(g).id)', v # None,
                          NEW j \in Id, j = fiber[g].id, Points(j, v)'
                   PROVE  \E h \in Fiber : Commits(h) /\ sessions[j] = fiber[h].obj
        <4>1. \A g \in Fiber : Removes(g) => fiber[g].id \in Id
          BY <1>1 DEF Removes, WorkInv, WorkOK
        <4> QED BY <4>1 DEF RemovalInv, Removes, Commits
      <3>1. session'[fiber[g].obj].target = session[fiber[g].obj].target /\ fiber[g].obj \in Session
        BY <1>12
      <3>2. v = TargetOf(g).id /\ v \in Target /\ v # t
        BY <1>1, <1>3, <3>1, Constants DEF TargetOf, SessionsOK
      <3>3. Points(j, v)
        BY <1>18, <3>2
      <3> QED BY <2>0, <3>2, <3>3 DEF RemovalInv
    <2>9. WritesInv'
      BY <1>1, <1>6, <1>7, <2>0, <2>2, WritesStep DEF Stored
    <2> QED BY <2>2, <2>3, <2>4, <2>5, <2>6, <2>7, <2>8, <2>9 DEF PointInv
  <1> QED BY <1>11, <1>17, <1>19 DEF Inv

-----------------------------------------------------------------------------
(* The head of the write chain settles.                                     *)
LEMMA WakeKeeps ==
  ASSUME Inv, Quiet, NEW result \in {"ok", "failed"}, Wake(result), disk' \in {disk, Head(queue).catalog},
         result = "ok" => disk' = Head(queue).catalog /\ failures' = failures,
         result = "failed" => failures < MaxFailures /\ failures' = failures + 1,
         UNCHANGED <<sessions, session, permitVars, starting, registryVars, admission, drained, events>>
  PROVE  Inv'
  <1> USE DEF permitVars, registryVars
  <1>1. /\ Struct /\ TypeOK /\ FibersOK /\ WorkInv /\ WokenInv /\ OneEach /\ SessionsOK /\ RegistryOK /\ StoreOK
        /\ ReservationInv /\ AttachInv /\ RemovedInv /\ PreviousInv /\ DurableInv /\ QueueInv
    BY DEF Inv, Struct, TypeOK, SavesInv
  <1>2. /\ queue # <<>> /\ queue' = Tail(queue) /\ queue' \in Seq(Write) /\ Len(queue) \in Nat /\ Len(queue) > 0
        /\ Len(queue') = Len(queue) - 1 /\ \A k \in 1..Len(queue') : queue'[k] = queue[k + 1]
        /\ Head(queue) = queue[1] /\ queue[1] \in Write /\ lastWrite' = result
        /\ (queue' = <<>> <=> Len(queue) = 1)
    <2>1. queue # <<>> /\ queue' = Tail(queue) /\ queue \in Seq(Write) /\ lastWrite' = result
      BY <1>1 DEF Wake, StoreOK
    <2>2. queue' \in Seq(Write) /\ Len(queue') = Len(queue) - 1 /\ \A k \in 1..Len(queue') : queue'[k] = queue[k + 1]
      BY <2>1, HeadTailProperties
    <2>3. Len(queue) \in Nat /\ Len(queue) > 0
      BY <2>1, LenProperties, EmptySeq
    <2>4. 1 \in 1..Len(queue)
      BY <2>3
    <2>5. Head(queue) = queue[1] /\ queue[1] \in Write
      BY <2>1, <2>4, ElementOfSeq
    <2>6. queue' = <<>> <=> Len(queue') = 0
      BY <2>2, EmptySeq, LenProperties
    <2> QED BY <2>1, <2>2, <2>3, <2>5, <2>6
  <1>3. /\ \A g \in Fiber : fiber'[g] = IF Waits(g, 1) THEN [fiber[g] EXCEPT !.woken = result] ELSE fiber[g]
        /\ fiber' \in [Fiber -> Work]
    <2>1. \A g \in Fiber : Waits(g, 1) <=> g \in Head(queue).waiters
      BY <1>2 DEF Waits
    <2>2. fiber' = [g \in Fiber |-> IF g \in Head(queue).waiters THEN [fiber[g] EXCEPT !.woken = result] ELSE fiber[g]]
      BY DEF Wake
    <2>3. ASSUME NEW g \in Fiber PROVE [fiber[g] EXCEPT !.woken = result] \in Work /\ fiber[g] \in Work
      BY <1>1 DEF FibersOK, Work
    <2> QED BY <2>1, <2>2, <2>3
  <1>4. ASSUME NEW g \in Fiber
        PROVE  /\ fiber'[g].pc = fiber[g].pc /\ fiber'[g].op = fiber[g].op /\ fiber'[g].id = fiber[g].id
               /\ fiber'[g].obj = fiber[g].obj /\ fiber'[g].target = fiber[g].target
               /\ fiber'[g].created = fiber[g].created /\ fiber'[g].previous = fiber[g].previous
               /\ fiber'[g].previousClosed = fiber[g].previousClosed /\ fiber'[g].cancelled = fiber[g].cancelled
               /\ fiber'[g].woken = IF Waits(g, 1) THEN result ELSE fiber[g].woken
    BY <1>1, <1>3 DEF FibersOK, Work
  <1>5. /\ \A g \in Fiber, k \in 1..Len(queue') : Waits(g, k)' <=> Waits(g, k + 1)
        /\ \A g \in Fiber : fiber[g].woken = "no"
        /\ \A g \in Fiber : Waits(g, 1) => Awaits(g)
    BY <1>1, <1>2 DEF Waits, Quiet, QueueInv
  <1>6. TypeOK'
    <2>1. disk' \in Entry /\ failures' \in 0..MaxFailures
      BY <1>1, <1>2, LifecycleAssumption DEF StoreOK, Write
    <2> QED BY <1>1, <1>2, <1>3, <2>1 DEF TypeOK, SessionsOK, FibersOK, RegistryOK, StoreOK, RestOK
  <1>7. WorkInv'
    <2> SUFFICES ASSUME NEW g \in Fiber PROVE WorkOK(g)'
      BY DEF WorkInv
    <2>0. failures # 0 => failures' # 0
      BY <1>1, LifecycleAssumption DEF StoreOK
    <2>1. WorkOK(g)
      BY <1>1 DEF WorkInv
    <2>2. CASE Waits(g, 1)
      <3>1. fiber[g].pc \in {"flush", "reflush"}
        BY <1>5, <2>2 DEF Awaits
      <3> QED BY <1>4, <2>0, <2>1, <3>1 DEF WorkOK
    <2>3. CASE ~ Waits(g, 1)
      BY <1>3, <1>4, <2>0, <2>1, <2>3 DEF WorkOK
    <2> QED BY <2>2, <2>3
  <1>8. WokenInv' /\ OneEach'
    BY <1>1, <1>2, <1>4, <1>5 DEF WokenInv, OneEach, Quiet, QueueInv
  <1>9. QueueInv'
    <2>1. \A g \in Fiber : Awaits(g)' <=> Awaits(g) /\ ~ Waits(g, 1)
      BY <1>4, <1>5 DEF Awaits
    <2>2. ASSUME NEW g \in Fiber, Awaits(g)' PROVE \E k \in 1..Len(queue') : Waits(g, k)'
      <3>1. PICK k \in 1..Len(queue) : Waits(g, k)
        BY <1>1, <2>1, <2>2 DEF QueueInv
      <3>2. k # 1
        BY <2>1, <2>2, <3>1
      <3>3. k - 1 \in 1..Len(queue') /\ (k - 1) + 1 = k
        BY <1>2, <3>2
      <3> QED BY <1>5, <3>1, <3>3
    <2>3. ASSUME NEW g \in Fiber, NEW k \in 1..Len(queue'), Waits(g, k)' PROVE Awaits(g)'
      <3>1. Waits(g, k + 1) /\ k + 1 \in 1..Len(queue) /\ k + 1 # 1 /\ 1 \in 1..Len(queue)
        BY <1>2, <1>5, <2>3
      <3> QED BY <1>1, <2>1, <3>1 DEF QueueInv
    <2>4. \A k \in 1..Len(queue') : k + 1 \in 1..Len(queue)
      BY <1>2
    <2>5. \A g, h \in Fiber, k \in 1..Len(queue') : Waits(g, k)' /\ Waits(h, k)' => g = h
      BY <1>1, <1>5, <2>4 DEF QueueInv
    <2>6. ASSUME NEW g \in Fiber, NEW k \in 1..Len(queue'), NEW l \in 1..Len(queue'), Waits(g, k)', Waits(g, l)' PROVE k = l
      <3>1. Waits(g, k + 1) /\ Waits(g, l + 1)
        BY <1>5, <2>6
      <3>2. k + 1 = l + 1
        BY <1>1, <2>4, <3>1 DEF QueueInv
      <3> QED BY <1>2, <3>2
    <2> QED BY <2>2, <2>3, <2>5, <2>6 DEF QueueInv
  <1>10. FailInv'
    <2>1. failures \in Nat
      BY <1>1, LifecycleAssumption DEF StoreOK
    <2> QED BY <1>2, <1>4, <1>5, <2>1 DEF FailInv
  <1>11. Struct'
    BY <1>6, <1>7, <1>8, <1>9, <1>10 DEF Struct
  <1>12. /\ Catalog' = Catalog
         /\ \A g \in Fiber : /\ Adopts(g)' <=> Adopts(g)
                             /\ Commits(g)' <=> Commits(g)
                             /\ Removes(g)' <=> Removes(g)
                             /\ Stays(g)' <=> Stays(g)
                             /\ Dirty(g)' <=> Dirty(g)
                             /\ Registered(g)' <=> Registered(g)
                             /\ MayCommit(g)' <=> MayCommit(g)
                             /\ TargetOf(g)' = TargetOf(g)
         /\ \A j \in Id, t \in Target : Points(j, t)' <=> Points(j, t)
    BY <1>4 DEF Catalog, Adopts, Commits, Removes, Stays, Dirty, Registered, MayCommit, StillReserved, HoldsReservation,
                TargetOf, Points
  <1>13. SavesInv'
    <2>1. RemovedInv' /\ AttachInv'
      BY <1>1, <1>4, <1>12 DEF RemovedInv, AttachInv
    <2>2. PreviousInv'
      BY <1>1, <1>4, <1>12 DEF PreviousInv, PreviousOK
    <2>3. DurableInv'
      <3>1. Saved => Saved'
        BY <1>2, <1>12 DEF Saved
      <3> QED BY <1>1, <1>2, <1>12, <3>1 DEF DurableInv
    <2>4. ReservationInv'
      BY <1>1, <1>4, <1>12 DEF ReservationInv, HoldsReservation, RegistryOK, Reservation
    <2> QED BY <2>1, <2>2, <2>3, <2>4 DEF SavesInv
  <1>14. ASSUME failures' = 0 PROVE PointInv'
    <2>0. /\ failures = 0 /\ result = "ok"
          /\ UniqueInv /\ OwnerInv /\ AttachOwnerInv /\ RegisteredInv /\ AdoptInv /\ OrderInv /\ RemovalInv /\ WritesInv
      <3>1. failures \in Nat
        BY <1>1, LifecycleAssumption DEF StoreOK
      <3> QED BY <1>14, <3>1 DEF Inv, PointInv
    <2>1. \A id \in Id : Withdraws(id)' <=> Withdraws(id)
      BY <1>4, <1>12 DEF Withdraws
    <2>2. UniqueInv' /\ OwnerInv' /\ AttachOwnerInv'
      BY <1>12, <2>0, <2>1 DEF UniqueInv, OwnerInv, AttachOwnerInv
    <2>3. RegisteredInv'
      BY <1>12, <2>0 DEF RegisteredInv
    <2>4. AdoptInv'
      <3> SUFFICES ASSUME NEW g \in Fiber, Adopts(g) PROVE AdoptOK(g)'
        BY <1>12 DEF AdoptInv, AdoptOK
      <3>1. AdoptOK(g) /\ fiber[g].target \in Target /\ fiber[g].id \in Id
        BY <1>1, <2>0 DEF AdoptInv, WorkInv, WorkOK, Adopts
      <3>2. \A j \in Id : Points(j, fiber[g].target)' <=> Points(j, fiber[g].target)
        BY <1>4 DEF Points
      <3> QED BY <1>4, <1>12, <3>1, <3>2 DEF AdoptOK
    <2>5. OrderInv'
      <3> SUFFICES ASSUME NEW g \in Fiber, NEW h \in Fiber, Removes(g), Commits(h), fiber[g].id = fiber[h].id
                   PROVE  /\ fiber'[h].woken = "no"
                          /\ \A k, l \in 1..Len(queue') : Waits(g, k)' /\ Waits(h, l)' => k < l
        BY <1>4, <1>12 DEF OrderInv
      <3>1. \A k, l \in 1..Len(queue) : Waits(g, k) /\ Waits(h, l) => k < l
        BY <2>0 DEF OrderInv
      <3>2. PICK k \in 1..Len(queue) : Waits(g, k)
        BY <1>1, <1>5 DEF Removes, Awaits, QueueInv
      <3>3. ~ Waits(h, 1)
        BY <1>2, <3>1, <3>2
      <3>4. fiber'[h].woken = "no"
        BY <1>4, <1>5, <3>3
      <3>5. ASSUME NEW m \in 1..Len(queue'), NEW l \in 1..Len(queue'), Waits(g, m)', Waits(h, l)' PROVE m < l
        <4>1. Waits(g, m + 1) /\ Waits(h, l + 1) /\ m + 1 \in 1..Len(queue) /\ l + 1 \in 1..Len(queue)
          BY <1>2, <1>5, <3>5
        <4>2. m + 1 < l + 1
          BY <3>1, <4>1
        <4> QED BY <1>2, <4>2
      <3> QED BY <3>4, <3>5
    <2>6. RemovalInv'
      <3> SUFFICES ASSUME NEW g \in Fiber, Removes(g), TargetOf(g).id # None,
                          NEW j, j = fiber[g].id, NEW t, t = TargetOf(g).id, Points(j, t)'
                   PROVE  \E h \in Fiber : Commits(h) /\ sessions[j] = fiber[h].obj
        BY <1>4, <1>12 DEF RemovalInv
      <3>1. Points(j, t)
        BY DEF Points
      <3> QED BY <2>0, <3>1 DEF RemovalInv
    <2>7. WritesInv'
      BY <1>2, <2>0 DEF WritesInv
    <2> QED BY <2>2, <2>3, <2>4, <2>5, <2>6, <2>7 DEF PointInv
  <1> QED BY <1>11, <1>13, <1>14 DEF Inv

(* A write settles.                                                         *)
LEMMA StoreKeeps == ASSUME Inv, Store PROVE Inv'
  BY WakeKeeps DEF Store, SaveCatalog, FailSave

(* After a failed write a removed session is put back, and a created one    *)
(* taken away.                                                              *)
LEMMA HasFailed ==
  ASSUME Inv, NEW f \in Fiber, fiber[f].woken = "failed"
  PROVE  failures # 0 /\ starting = None
  BY LifecycleAssumption DEF Inv, Struct, FailInv, WokenInv, TypeOK, StoreOK

(* The session of a removal that failed is put back.                        *)
LEMMA RestoreRemovedKeeps ==
  ASSUME Inv, NEW f \in Fiber, RestoreRemoved(f), fiber[f].pc = "flush", fiber[f].woken = "failed",
         UNCHANGED <<starting, admission, events>>
  PROVE  Inv'
  <1> USE DEF RestoreRemoved, permitVars, registryVars
  <1>1. /\ Struct /\ WorkOK(f) /\ TypeOK /\ WokenInv /\ OneEach /\ WorkInv /\ fiber[f].obj \in Session /\ fiber[f].id \in Id
        /\ FibersOK /\ SessionsOK /\ StoreOK /\ ReservationInv /\ AttachInv /\ RemovedInv /\ fiber[f].obj # None
        /\ failures # 0 /\ starting = None
    BY Busy, HasFailed DEF Inv, TypeOK, SavesInv
  <1>2. /\ fiber' \in [Fiber -> Work] /\ Others(f)
        /\ fiber'[f].pc = "reflush" /\ fiber'[f].woken = "no"
        /\ fiber'[f].op = fiber[f].op /\ fiber'[f].id = fiber[f].id /\ fiber'[f].obj = fiber[f].obj
        /\ fiber'[f].previous = fiber[f].previous
    BY <1>1, MoveDoes DEF Pc
  <1>3. executePermit[fiber[f].obj] = f
    BY <1>1 DEF WorkOK, Holding
  <1>4. PICK id \in Id : id = fiber[f].id
    BY <1>1
  <1>5. /\ SessionsOK' /\ sessions'[id] = fiber[f].obj /\ \A j \in Id : j # id => sessions'[j] = sessions[j]
    BY <1>1, <1>4 DEF SessionsOK
  <1>6. OneEach'
    BY <1>1, <1>4, <1>5 DEF OneEach, WorkOK
  <1>7. StoreOK' /\ Stored /\ queue' # queue
    BY <1>1, <1>5, ScheduleDoes DEF Stored
  <1>8. TypeOK'
    BY <1>1, <1>2, <1>5, <1>7 DEF TypeOK, FibersOK, RegistryOK, RestOK
  <1>9. WorkOK(f)'
    <2>1. \A g \in Fiber : fiber'[g].obj = fiber[f].obj => fiber'[g].id = fiber[f].id
      BY <1>1, <1>2 DEF Others, WorkOK
    <2>2. \A j \in Id : sessions'[j] = fiber[f].obj => j = fiber[f].id
      BY <1>1, <1>4, <1>5 DEF WorkOK
    <2>3. fiber'[f].pc \in Pcs(fiber'[f].op)
      BY <1>2 DEF Pcs
    <2> QED BY <1>1, <1>2, <1>3, <2>1, <2>2, <2>3 DEF WorkOK
  <1>10. StructKeeps(f)
    <2>1. Binds(f)
      BY <1>1, <1>2, <1>4, <1>5 DEF Binds, WorkOK
    <2>2. KeepsPermits(f) /\ QueuesOne(f) /\ WakesOne(f)
      BY <1>1, <1>2 DEF KeepsPermits, QueuesOne, Awaits, WakesOne
    <2> QED BY <1>2, <1>6, <1>7, <1>8, <1>9, <2>1, <2>2 DEF StructKeeps
  <1>11. ~ Adopts(f) /\ ~ Adopts(f)' /\ ~ Removes(f)'
    BY <1>2 DEF Adopts, Removes
  <1>12. ReservationKept /\ GoneStays /\ AttachInv'
    BY <1>1, SameReservation DEF GoneStays, AttachInv
  <1>13. RemovedStay(f)
    <2>1. ASSUME NEW g \in Fiber, g # f, Removes(g) PROVE fiber[g].obj # fiber[f].obj
      <3>1. fiber[g].op # "create" /\ fiber[g].pc \in Holding
        BY <2>1 DEF Removes, Holding
      <3> QED BY <1>1, <1>3, <2>1, <3>1, AloneOnObject
    <2> QED BY <1>5, <1>11, <2>1 DEF RemovedStay
  <1>14. ObjectsStay(f)
    BY <1>1, <1>7 DEF ObjectsStay
  <1> QED BY <1>1, <1>10, <1>11, <1>12, <1>13, <1>14, PlainStep

(* A created session whose write failed is taken away.                      *)
LEMMA DropCreatedKeeps ==
  ASSUME Inv, NEW f \in Fiber, DropCreated(f), fiber[f].pc = "flush", fiber[f].woken = "failed",
         UNCHANGED <<starting, admission, events>>
  PROVE  Inv'
  <1> USE DEF DropCreated, permitVars, registryVars
  <1>1. /\ Struct /\ WorkOK(f) /\ TypeOK /\ WokenInv /\ OneEach /\ WorkInv /\ fiber[f].obj \in Session /\ fiber[f].id \in Id
        /\ FibersOK /\ SessionsOK /\ StoreOK /\ ReservationInv /\ AttachInv /\ RemovedInv /\ fiber[f].obj # None
        /\ failures # 0 /\ starting = None
    BY Busy, HasFailed DEF Inv, TypeOK, SavesInv
  <1>2. /\ fiber' \in [Fiber -> Work] /\ Others(f)
        /\ fiber'[f].pc = "cleanupClose" /\ fiber'[f].woken = "no"
        /\ fiber'[f].op = fiber[f].op /\ fiber'[f].id = fiber[f].id /\ fiber'[f].obj = fiber[f].obj
        /\ fiber'[f].previous = fiber[f].previous
    BY <1>1, MoveDoes DEF Pc
  <1>5. SessionsOK' /\ \A j \in Id : sessions'[j] \in {None, sessions[j]}
    BY <1>1 DEF SessionsOK
  <1>6. OneEach'
    BY <1>1, <1>5 DEF OneEach
  <1>7. StoreOK' /\ Stored /\ queue' = queue /\ failures' = failures
    BY <1>1, SameStore
  <1>8. TypeOK'
    BY <1>1, <1>2, <1>5, <1>7 DEF TypeOK, FibersOK, RegistryOK, RestOK
  <1>9. WorkOK(f)'
    <2>1. \A g \in Fiber : fiber'[g].obj = fiber[f].obj => fiber'[g].id = fiber[f].id
      BY <1>1, <1>2 DEF Others, WorkOK
    <2>2. \A j \in Id : sessions'[j] = fiber[f].obj => j = fiber[f].id
      BY <1>1, <1>5 DEF WorkOK
    <2>3. fiber'[f].pc \in Pcs(fiber'[f].op)
      BY <1>2 DEF Pcs
    <2> QED BY <1>1, <1>2, <1>7, <2>1, <2>2, <2>3 DEF WorkOK
  <1>10. StructKeeps(f)
    <2>1. Binds(f)
      BY <1>1, <1>2, <1>5 DEF Binds, WorkOK
    <2>2. KeepsPermits(f) /\ QueuesOne(f) /\ WakesOne(f)
      BY <1>1, <1>2, <1>7 DEF KeepsPermits, QueuesOne, Awaits, WakesOne
    <2> QED BY <1>2, <1>6, <1>7, <1>8, <1>9, <2>1, <2>2 DEF StructKeeps
  <1>11. ~ Adopts(f) /\ ~ Adopts(f)' /\ ~ Removes(f)' /\ Dirty(f)'
    BY <1>2 DEF Adopts, Removes, Dirty
  <1>12. ReservationKept /\ GoneStays /\ AttachInv'
    BY <1>1, SameReservation DEF GoneStays, AttachInv
  <1>13. RemovedStay(f) /\ ObjectsStay(f)
    BY <1>1, <1>5, <1>11 DEF RemovedStay, ObjectsStay
  <1> QED BY <1>1, <1>10, <1>11, <1>12, <1>13, PlainStep

-----------------------------------------------------------------------------
(* The sandbox of a failed operation is closed.                             *)
LEMMA CloseForgottenKeeps ==
  ASSUME Inv, NEW f \in Fiber, fiber[f].pc = "cleanupClose", fiber[f].op = "adopt", ~ Registered(f), Quiet,
         sessions' = sessions, session' = [session EXCEPT ![fiber[f].obj].closed = TRUE], Finish(f),
         UNCHANGED storeVars, UNCHANGED <<starting, registryVars, admission, events>>
  PROVE  Inv'
  <1>1. Struct /\ WorkOK(f) /\ FibersOK /\ SessionsOK /\ TypeOK /\ fiber[f].obj \in Session
    BY Busy DEF Inv, TypeOK
  <1>2. /\ fiber' \in [Fiber -> Work] /\ Others(f) /\ fiber'[f] = IdleFiber
        /\ executePermit' \in [Session -> Fiber \cup {None}] /\ adoptPermit' \in Fiber \cup {None}
        /\ \A o \in Session : executePermit'[o] = IF executePermit[o] = f THEN None ELSE executePermit[o]
        /\ adoptPermit' = IF adoptPermit = f THEN None ELSE adoptPermit
    BY <1>1, FinishDoes
  <1>3. SessionsOK' /\ SamePointers
    BY <1>1 DEF SessionsOK, SamePointers, registryVars
  <1>4. Stored /\ queue' = queue /\ StoreOK'
    BY <1>1, SameStore DEF TypeOK
  <1>5. TypeOK'
    BY <1>1, <1>2, <1>3, <1>4 DEF TypeOK, FibersOK, RestOK, RegistryOK, registryVars
  <1>6. KeepsPermits(f)
    BY <1>2 DEF KeepsPermits
  <1>7. /\ fiber'[f].pc = "idle" /\ fiber'[f].woken = "no" /\ fiber'[f].obj = None /\ fiber'[f].op = "create"
        /\ WorkOK(f)'
    BY <1>2 DEF IdleFiber, WorkOK
  <1>8. WakesOne(f) /\ QueuesOne(f) /\ ~ Adopts(f) /\ ~ Adopts(f)' /\ ~ Removes(f)' /\ ~ Stays(f)' /\ ~ Dirty(f)
    BY <1>4, <1>7 DEF WakesOne, Quiet, QueuesOne, Awaits, Adopts, Removes, Stays, Dirty
  <1> QED BY <1>2, <1>3, <1>4, <1>5, <1>6, <1>7, <1>8, CalmStep

(* A failed adoption gives its session a fresh object.                      *)
LEMMA CloseReplacedKeeps ==
  ASSUME Inv, NEW f \in Fiber, fiber[f].pc = "cleanupClose", fiber[f].op = "adopt", Registered(f), Quiet,
         \E p \in Session : ~ InUse(p), sessions' = [sessions EXCEPT ![fiber[f].id] = NewObject],
         session' = [[session EXCEPT ![fiber[f].obj].closed = TRUE] EXCEPT ![NewObject] = NewSession],
         Schedule({f}), Move(f, "reflush"), UNCHANGED permitVars, UNCHANGED <<starting, registryVars, admission, events>>
  PROVE  Inv'
  <1> USE DEF permitVars, registryVars
  <1>1. /\ Struct /\ WorkOK(f) /\ TypeOK /\ WokenInv /\ OneEach /\ WorkInv /\ fiber[f].obj \in Session /\ fiber[f].id \in Id
        /\ FibersOK /\ SessionsOK /\ StoreOK /\ ReservationInv /\ AttachInv /\ RemovedInv /\ fiber[f].obj # None
    BY Busy DEF Inv, TypeOK, SavesInv
  <1>2. /\ fiber' \in [Fiber -> Work] /\ Others(f)
        /\ fiber'[f].pc = "reflush" /\ fiber'[f].woken = "no"
        /\ fiber'[f].op = fiber[f].op /\ fiber'[f].id = fiber[f].id /\ fiber'[f].obj = fiber[f].obj
        /\ fiber'[f].target = fiber[f].target /\ fiber'[f].previous = fiber[f].previous
    BY <1>1, MoveDoes DEF Pc
  <1>3. executePermit[fiber[f].obj] = f /\ starting' = None
    BY <1>1 DEF WorkOK, Holding, Quiet
  <1>4. PICK id \in Id : id = fiber[f].id
    BY <1>1
  <1>5. PICK n : n = NewObject
    OBVIOUS
  <1>6. n \in Session /\ ~ InUse(n)
    BY <1>5 DEF NewObject
  <1>7. (\A j \in Id : sessions[j] # n) /\ (\A g \in Fiber : fiber[g].obj # n) /\ n # None /\ n # fiber[f].obj
    BY <1>6, Constants DEF InUse
  <1>8. /\ SessionsOK' /\ sessions'[id] = n /\ \A j \in Id : j # id => sessions'[j] = sessions[j]
        /\ session'[n].target = NoTarget /\ \A o \in Session : o # n => session'[o].target = session[o].target
    <2>1. NewSession \in [target : Place, closed : BOOLEAN] /\ NewSession.target = NoTarget
      BY Constants DEF NewSession
    <2> QED BY <1>1, <1>4, <1>5, <1>6, <2>1 DEF SessionsOK
  <1>9. /\ OneEach' /\ NoNewPointer /\ \A t \in Target : ~ Points(id, t)'
    <2>1. OneEach'
      BY <1>1, <1>7, <1>8 DEF OneEach
    <2>2. \A t \in Target : ~ Points(id, t)'
      BY <1>8, Constants DEF Points
    <2>3. \A j \in Id, t \in Target : j # id => (Points(j, t)' <=> Points(j, t))
      BY <1>1, <1>7, <1>8 DEF Points, SessionsOK
    <2>4. NoNewPointer
      BY <1>8, <2>2, <2>3 DEF NoNewPointer
    <2> QED BY <2>1, <2>2, <2>4
  <1>10. StoreOK' /\ Stored
    BY <1>1, <1>8, ScheduleDoes DEF Stored
  <1>11. TypeOK'
    BY <1>1, <1>2, <1>8, <1>10 DEF TypeOK, FibersOK, RegistryOK, RestOK
  <1>12. WorkOK(f)'
    <2>1. \A g \in Fiber : fiber'[g].obj = fiber[f].obj => fiber'[g].id = fiber[f].id
      BY <1>1, <1>2 DEF Others, WorkOK
    <2>2. \A j \in Id : sessions'[j] = fiber[f].obj => j = fiber[f].id
      BY <1>1, <1>7, <1>8 DEF WorkOK
    <2>3. fiber'[f].pc \in Pcs(fiber'[f].op)
      BY <1>2 DEF Pcs
    <2> QED BY <1>1, <1>2, <1>3, <2>1, <2>2, <2>3 DEF WorkOK
  <1>13. StructKeeps(f)
    <2>1. Binds(f)
      <3>1. \A j \in Id : sessions'[j] \in {None, sessions[j]} \/ \A g \in Fiber : fiber[g].obj # sessions'[j]
        BY <1>7, <1>8
      <3>2. \A g \in Fiber : fiber[g].obj = fiber'[f].obj => fiber[g].id = fiber'[f].id
        BY <1>1, <1>2 DEF WorkOK
      <3> QED BY <3>1, <3>2 DEF Binds
    <2>2. KeepsPermits(f) /\ QueuesOne(f) /\ WakesOne(f)
      BY <1>2, <1>3 DEF KeepsPermits, QueuesOne, Awaits, WakesOne
    <2> QED BY <1>2, <1>9, <1>10, <1>11, <1>12, <2>1, <2>2 DEF StructKeeps
  <1>14. ~ Adopts(f) /\ ~ Adopts(f)' /\ ~ Removes(f)' /\ ~ Stays(f)'
    BY <1>2 DEF Adopts, Removes, Stays
  <1>15. ReservationKept /\ GoneStays /\ AttachInv' /\ OwnersKept
    BY <1>1, SameReservation DEF GoneStays, AttachInv, OwnersKept
  <1>16. RemovedStay(f)
    BY <1>7, <1>8, <1>14 DEF RemovedStay
  <1>17. ASSUME NEW g \in Fiber, g # f, fiber[g].op # "create", fiber[g].pc \in Holding
         PROVE  /\ session'[fiber[g].obj].target = session[fiber[g].obj].target
                /\ Registered(g) => sessions'[fiber[g].id] = fiber[g].obj
    <2>1. fiber[g].obj # fiber[f].obj /\ fiber[g].obj \in Session
      BY <1>1, <1>3, <1>17, AloneOnObject
    <2>2. fiber[g].id \in Id
      BY <1>1, <1>17 DEF WorkInv, WorkOK, Holding
    <2> QED BY <1>4, <1>7, <1>8, <2>1, <2>2 DEF Registered
  <1>18. ObjectsStay(f)
    <2>1. \A g \in Fiber : Adopts(g) \/ Commits(g) \/ Removes(g) => fiber[g].op # "create" /\ fiber[g].pc \in Holding
      BY DEF Adopts, Commits, Removes, Holding
    <2> QED BY <1>17, <2>1 DEF ObjectsStay
  <1>19. PointsStay(f)
    BY <1>9, <1>14, <1>15 DEF PointsStay
  <1> QED BY <1>13, <1>14, <1>15, <1>16, <1>18, <1>19, PlainStep

(* The sandbox of a session that was taken away is closed, and the catalog  *)
(* written.                                                                 *)
LEMMA CloseDroppedKeeps ==
  ASSUME Inv, NEW f \in Fiber, fiber[f].pc = "cleanupClose", Quiet,
         sessions' = IF Registered(f) THEN [sessions EXCEPT ![fiber[f].id] = None] ELSE sessions,
         session' = [session EXCEPT ![fiber[f].obj].closed = TRUE],
         Schedule({f}), Move(f, "reflush"), UNCHANGED permitVars, UNCHANGED <<starting, registryVars, admission, events>>
  PROVE  Inv'
  <1> USE DEF permitVars, registryVars
  <1>1. /\ Struct /\ WorkOK(f) /\ TypeOK /\ WokenInv /\ OneEach /\ WorkInv /\ fiber[f].obj \in Session /\ fiber[f].id \in Id
        /\ FibersOK /\ SessionsOK /\ StoreOK /\ ReservationInv /\ AttachInv /\ RemovedInv /\ fiber[f].obj # None
    BY Busy DEF Inv, TypeOK, SavesInv
  <1>2. /\ fiber' \in [Fiber -> Work] /\ Others(f)
        /\ fiber'[f].pc = "reflush" /\ fiber'[f].woken = "no"
        /\ fiber'[f].op = fiber[f].op /\ fiber'[f].id = fiber[f].id /\ fiber'[f].obj = fiber[f].obj
        /\ fiber'[f].target = fiber[f].target /\ fiber'[f].previous = fiber[f].previous
    BY <1>1, MoveDoes DEF Pc
  <1>3. starting' = None
    BY <1>1 DEF Quiet
  <1>4. PICK id \in Id : id = fiber[f].id
    BY <1>1
  <1>5. /\ SessionsOK' /\ \A o \in Session : session'[o].target = session[o].target
        /\ \A j \in Id : /\ sessions'[j] \in {None, sessions[j]}
                         /\ sessions[j] # fiber[f].obj => sessions'[j] = sessions[j]
    BY <1>1, <1>4 DEF SessionsOK, Registered
  <1>6. OneEach' /\ NoNewPointer
    <2>1. OneEach'
      BY <1>1, <1>5 DEF OneEach
    <2>2. NoNewPointer
      BY <1>1, <1>5 DEF NoNewPointer, Points, SessionsOK
    <2> QED BY <2>1, <2>2
  <1>7. StoreOK' /\ Stored /\ failures' = failures /\ queue' # queue
    BY <1>1, <1>5, ScheduleDoes DEF Stored
  <1>8. TypeOK'
    BY <1>1, <1>2, <1>5, <1>7 DEF TypeOK, FibersOK, RegistryOK, RestOK
  <1>9. WorkOK(f)'
    <2>1. \A g \in Fiber : fiber'[g].obj = fiber[f].obj => fiber'[g].id = fiber[f].id
      BY <1>1, <1>2 DEF Others, WorkOK
    <2>2. \A j \in Id : sessions'[j] = fiber[f].obj => j = fiber[f].id
      BY <1>1, <1>5 DEF WorkOK
    <2>3. fiber'[f].pc \in Pcs(fiber'[f].op) /\ (fiber[f].op # "create" => executePermit[fiber[f].obj] = f)
      BY <1>1, <1>2 DEF WorkOK, Holding, Pcs
    <2> QED BY <1>1, <1>2, <1>3, <2>1, <2>2, <2>3 DEF WorkOK
  <1>10. StructKeeps(f)
    <2>1. Binds(f)
      BY <1>1, <1>2, <1>5 DEF Binds, WorkOK
    <2>2. KeepsPermits(f) /\ QueuesOne(f) /\ WakesOne(f)
      BY <1>2, <1>3 DEF KeepsPermits, QueuesOne, Awaits, WakesOne
    <2> QED BY <1>2, <1>6, <1>7, <1>8, <1>9, <2>1, <2>2 DEF StructKeeps
  <1>11. ~ Adopts(f) /\ ~ Adopts(f)' /\ ~ Removes(f)' /\ ~ Stays(f)'
    BY <1>2, <1>1 DEF Adopts, Removes, Stays, WorkOK, Pcs
  <1>12. ReservationKept /\ GoneStays /\ AttachInv' /\ OwnersKept
    BY <1>1, SameReservation DEF GoneStays, AttachInv, OwnersKept
  <1>13. RemovedStay(f)
    BY <1>5, <1>11 DEF RemovedStay
  <1>14. ObjectsStay(f)
    <2>1. \A g \in Fiber : Adopts(g) \/ Commits(g) \/ Removes(g) => fiber[g].obj \in Session
      BY <1>1 DEF WorkInv, WorkOK, Adopts, Commits, Removes
    <2>2. ASSUME failures = 0, NEW g \in Fiber, g # f, fiber[g].op # "create", fiber[g].pc \in Holding, Registered(g)
          PROVE  sessions'[fiber[g].id] = fiber[g].obj
      <3>1. executePermit[fiber[f].obj] = f
        BY <1>1, <2>2 DEF WorkOK, Holding
      <3>2. fiber[g].obj # fiber[f].obj
        BY <1>1, <2>2, <3>1, AloneOnObject
      <3>3. fiber[g].id \in Id
        BY <1>1, <2>2 DEF WorkInv, WorkOK, Holding
      <3> QED BY <1>5, <2>2, <3>2, <3>3 DEF Registered
    <2> QED BY <1>5, <1>7, <2>1, <2>2 DEF ObjectsStay
  <1>15. PointsStay(f)
    BY <1>6, <1>11, <1>12 DEF PointsStay
  <1> QED BY <1>10, <1>11, <1>12, <1>13, <1>14, <1>15, PlainStep

(* A cleanup closes the sandbox.                                            *)
LEMMA CleanupCloseKeeps == ASSUME Inv, NEW f \in Fiber, CleanupClose(f) PROVE Inv'
  <1> USE DEF CleanupClose
  <1>1. CASE fiber[f].op = "adopt" /\ ~ Registered(f)
    BY <1>1, CloseForgottenKeeps
  <1>2. CASE fiber[f].op = "adopt" /\ Registered(f) /\ ~ fiber[f].created
    BY <1>2, CloseReplacedKeeps
  <1>3. CASE ~ (fiber[f].op = "adopt" /\ ~ Registered(f)) /\ ~ (fiber[f].op = "adopt" /\ ~ fiber[f].created)
    BY <1>3, CloseDroppedKeeps
  <1> QED BY <1>1, <1>2, <1>3

-----------------------------------------------------------------------------
(* An adoption that has reserved its page.                                  *)
LEMMA Adopting ==
  ASSUME Inv, NEW f \in Fiber, Adopts(f)
  PROVE  /\ Struct /\ WorkOK(f) /\ TypeOK /\ WokenInv /\ WorkInv /\ SessionsOK /\ FibersOK /\ RegistryOK /\ StoreOK /\ OneEach
         /\ AttachInv /\ RemovedInv /\ PreviousInv /\ DurableInv /\ ReservationInv
         /\ fiber[f].op = "adopt" /\ fiber[f].pc \in {"page", "closePrevious", "flush"}
         /\ fiber[f].id \in Id /\ fiber[f].obj \in Session /\ fiber[f].obj # None /\ fiber[f].target \in Target
         /\ fiber[f].previous \in Place /\ TargetOf(f) \in Place
         /\ executePermit[fiber[f].obj] = f /\ adoptPermit = f
         /\ HoldsReservation(f) /\ reservation \in Reservation /\ reservation # None
         /\ reservation.target = fiber[f].target /\ reservation.id = fiber[f].id
         /\ reservation.previous \in {None, fiber[f].id} /\ (reservation.stored => reservation.current)
         /\ reservation.current => owner[fiber[f].target] \in {None, fiber[f].id}
         /\ ~ Removes(f) /\ ~ Dirty(f)
         /\ \A g \in Fiber : Adopts(g) => g = f
  <1>1. fiber[f].op = "adopt" /\ fiber[f].pc \in {"page", "closePrevious", "flush"} /\ fiber[f].pc # "idle"
    BY DEF Adopts
  <1>2. /\ Struct /\ WorkOK(f) /\ TypeOK /\ WokenInv /\ WorkInv /\ SessionsOK /\ FibersOK /\ RegistryOK /\ StoreOK /\ OneEach
        /\ AttachInv /\ RemovedInv /\ PreviousInv /\ DurableInv /\ ReservationInv
        /\ fiber[f].id \in Id /\ fiber[f].obj \in Session /\ fiber[f].obj # None /\ fiber[f] \in Work
    BY <1>1, Busy DEF Inv, SavesInv, TypeOK
  <1>3. fiber[f].target \in Target /\ executePermit[fiber[f].obj] = f /\ adoptPermit = f
    BY <1>1, <1>2 DEF WorkOK, Holding
  <1>4. fiber[f].previous \in Place /\ TargetOf(f) \in Place
    BY <1>2 DEF Work, SessionsOK, TargetOf
  <1>5. HoldsReservation(f) /\ reservation # None /\ reservation \in Reservation /\ reservation.fiber = f
    BY <1>2 DEF ReservationInv, HoldsReservation, RegistryOK
  <1>6. /\ reservation.target = fiber[f].target /\ reservation.id = fiber[f].id
        /\ reservation.previous \in {None, fiber[f].id} /\ (reservation.stored => reservation.current)
        /\ (reservation.current => owner[fiber[f].target] \in {None, fiber[f].id})
    BY <1>2, <1>5 DEF ReservationInv
  <1>7. ~ Removes(f) /\ ~ Dirty(f)
    BY <1>1 DEF Removes, Dirty
  <1>8. \A g \in Fiber : Adopts(g) => g = f
    BY <1>1, <1>2, OnlyOneAdopts
  <1> QED BY <1>1, <1>2, <1>3, <1>4, <1>5, <1>6, <1>7, <1>8

(* An adoption closes the relay page that it replaces.                      *)
LEMMA AdoptCloseKeeps ==
  ASSUME Inv, NEW f \in Fiber, AdoptPage(f), Pointer(f).kind = "relay", Pointer(f).id # fiber[f].target
  PROVE  Inv'
  <1> USE DEF AdoptPage, permitVars, registryVars
  <1>1. Adopts(f)
    <2>1. Struct /\ fiber[f].pc = "page"
      BY DEF Inv
    <2>2. fiber[f].op = "adopt"
      BY <2>1, Busy DEF Pcs, Op
    <2> QED BY <2>1, <2>2 DEF Adopts
  <1>2. /\ Struct /\ WorkOK(f) /\ TypeOK /\ WokenInv /\ WorkInv /\ SessionsOK /\ FibersOK /\ RegistryOK /\ StoreOK /\ OneEach
        /\ AttachInv /\ RemovedInv /\ ReservationInv /\ fiber[f].op = "adopt"
        /\ fiber[f].id \in Id /\ fiber[f].obj \in Session /\ fiber[f].previous \in Place /\ TargetOf(f) \in Place
        /\ ~ Dirty(f)
    BY <1>1, Adopting
  <1>3. PICK p : p = Pointer(f)
    OBVIOUS
  <1>4. p \in Owned /\ p \in Place /\ (TargetOf(f) # NoTarget => p = TargetOf(f))
    <2>1. p \in Place
      BY <1>2, <1>3 DEF Pointer
    <2> QED BY <1>3, <2>1, Constants DEF Pointer
  <1>5. fiber' = [fiber EXCEPT ![f].pc = "closePrevious", ![f].previous = p]
        /\ UNCHANGED <<sessions, session, storeVars>>
    BY <1>3
  <1>6. /\ fiber' \in [Fiber -> Work] /\ Others(f)
        /\ fiber'[f].pc = "closePrevious" /\ fiber'[f].woken = fiber[f].woken
        /\ fiber'[f].op = fiber[f].op /\ fiber'[f].id = fiber[f].id /\ fiber'[f].obj = fiber[f].obj
        /\ fiber'[f].target = fiber[f].target /\ fiber'[f].previous = p /\ fiber'[f].cancelled = fiber[f].cancelled
    BY <1>2, <1>4, <1>5 DEF FibersOK, Others, Work, Pc
  <1>7. SamePointers /\ Stored /\ queue' = queue /\ SessionsOK' /\ RegistryOK' /\ StoreOK'
    BY <1>2, <1>5, SameVars, SameStore DEF TypeOK
  <1>8. TypeOK' /\ OneEach' /\ AttachInv'
    BY <1>2, <1>6, <1>7 DEF TypeOK, FibersOK, RestOK, SamePointers, OneEach, AttachInv
  <1>9. fiber[f].woken = "no" /\ fiber[f].pc = "page"
    BY DEF Quiet
  <1>10. WorkOK(f)'
    <2>1. \A g \in Fiber : fiber'[g].obj = fiber[f].obj => fiber'[g].id = fiber[f].id
      BY <1>2, <1>6 DEF Others, WorkOK
    <2> QED BY <1>2, <1>4, <1>6, <1>7, <1>9, <2>1 DEF WorkOK, Pcs, Holding, SamePointers
  <1>11. StructKeeps(f)
    <2>1. Binds(f) /\ KeepsPermits(f)
      BY <1>2, <1>6, <1>7 DEF Binds, SamePointers, WorkOK, KeepsPermits
    <2>2. WakesOne(f) /\ QueuesOne(f)
      BY <1>6, <1>7, <1>9 DEF WakesOne, Quiet, QueuesOne, Awaits
    <2> QED BY <1>6, <1>7, <1>8, <1>9, <1>10, <2>1, <2>2 DEF StructKeeps
  <1>12. NoNewPointer /\ OwnersKept /\ GoneStays /\ Catalog' = Catalog /\ ReservationKept
    BY <1>2, <1>7, SamePoints, SameReservation DEF SamePointers
  <1>13. AdoptionStays(f)
    <2>1. Adopts(f)' /\ ~ Commits(f) /\ ~ Commits(f)'
      BY <1>2, <1>6, <1>9 DEF Adopts, Commits
    <2>2. PreviousOK(f)'
      <3>1. (TargetOf(f))' = TargetOf(f)
        BY <1>5, <1>6 DEF TargetOf
      <3>2. TargetOf(f) # NoTarget => TargetOf(f).id = p.id
        BY <1>4
      <3> QED BY <1>6, <3>1, <3>2, Constants DEF PreviousOK
    <2>3. failures = 0 => AdoptOK(f)'
      <3>1. ASSUME failures = 0 PROVE AdoptOK(f)'
        <4>1. AdoptOK(f)
          BY <3>1 DEF Inv, PointInv, AdoptInv
        <4>2. \A j \in Id : Points(j, fiber[f].target)' <=> Points(j, fiber[f].target)
          BY <1>5, <1>6 DEF Points
        <4>3. Points(fiber[f].id, fiber[f].target)' <=> Points(fiber[f].id, fiber[f].target)
          BY <1>5, <1>6 DEF Points
        <4> QED BY <1>1, <1>6, <1>9, <4>1, <4>2, <4>3 DEF AdoptOK
      <3> QED BY <3>1
    <2> QED BY <1>1, <1>6, <2>1, <2>2, <2>3 DEF AdoptionStays
  <1>14. RemovedStay(f) /\ ~ Removes(f)'
    BY <1>2, <1>5, <1>6 DEF RemovedStay, Removes
  <1>15. ObjectsStay(f)
    BY <1>5 DEF ObjectsStay, Registered
  <1>16. failures = 0 => PointsStay(f)
    <2>1. failures = 0 => Registered(f)
      BY <1>1 DEF Inv, PointInv, RegisteredInv, Stays
    <2> QED BY <1>5, <1>6, <1>12, <1>14, <2>1 DEF PointsStay, Registered
  <1> QED BY <1>2, <1>8, <1>11, <1>12, <1>13, <1>14, <1>15, <1>16, SteadyStep

(* The page that an adoption replaces is closed.                            *)
LEMMA ClosePreviousKeeps == ASSUME Inv, NEW f \in Fiber, ClosePrevious(f) PROVE Inv'
  <1> USE DEF ClosePrevious, permitVars
  <1>1. Adopts(f)
    <2>1. Struct /\ fiber[f].pc = "closePrevious"
      BY DEF Inv
    <2>2. fiber[f].op = "adopt"
      BY <2>1, Busy DEF Pcs, Op
    <2> QED BY <2>1, <2>2 DEF Adopts
  <1>2. /\ Struct /\ WorkOK(f) /\ TypeOK /\ FibersOK /\ WorkInv /\ ReservationInv /\ fiber[f].op = "adopt"
        /\ ~ Dirty(f) /\ ~ Removes(f) /\ reservation # None /\ fiber[f].target \in Target
    BY <1>1, Adopting
  <1>3. fiber[f].previous \in Owned /\ fiber[f].previous.id \in Target
    BY <1>2 DEF WorkOK, Owned
  <1>4. LostPage /\ sessions' = sessions /\ (queue' = queue \/ Schedule({}))
    BY <1>3, ClosePageDoes
  <1>5. /\ fiber' \in [Fiber -> Work] /\ Others(f)
        /\ fiber'[f].pc = "closePrevious" /\ fiber'[f].woken = "ok" /\ fiber'[f].previousClosed
        /\ fiber'[f].op = fiber[f].op /\ fiber'[f].id = fiber[f].id /\ fiber'[f].obj = fiber[f].obj
        /\ fiber'[f].target = fiber[f].target /\ fiber'[f].previous = fiber[f].previous
        /\ fiber'[f].cancelled = fiber[f].cancelled
    <2>1. PICK w : w = [fiber[f] EXCEPT !.woken = "ok", !.previousClosed = TRUE]
      OBVIOUS
    <2>2. fiber' = [fiber EXCEPT ![f] = w] /\ fiber[f] \in Work /\ fiber[f].pc = "closePrevious"
      BY <1>2, <2>1 DEF FibersOK
    <2>3. /\ w \in Work /\ w.pc = fiber[f].pc /\ w.woken = "ok" /\ w.previousClosed
          /\ w.op = fiber[f].op /\ w.id = fiber[f].id /\ w.obj = fiber[f].obj
          /\ w.target = fiber[f].target /\ w.previous = fiber[f].previous /\ w.cancelled = fiber[f].cancelled
      BY <2>1, <2>2 DEF Work
    <2> QED BY <1>2, <2>2, <2>3 DEF FibersOK, Others
  <1>6. FibersOK' /\ RestOK'
    BY <1>2, <1>5 DEF TypeOK, FibersOK, RestOK
  <1>7. WorkOK(f)'
    <2>1. \A g \in Fiber : fiber'[g].obj = fiber[f].obj => fiber'[g].id = fiber[f].id
      BY <1>2, <1>5 DEF Others, WorkOK
    <2> QED BY <1>2, <1>3, <1>4, <1>5, <2>1 DEF WorkOK, Pcs, Holding
  <1>8. KeepsPermits(f) /\ WakesOne(f) /\ QueuesOne(f)
    BY <1>4, <1>5 DEF KeepsPermits, WakesOne, Quiet, QueuesOne, Awaits
  <1>9. AdoptionStays(f)
    <2>1. Adopts(f)' /\ ~ Commits(f) /\ ~ Commits(f)'
      BY <1>2, <1>5 DEF Adopts, Commits
    <2>2. PreviousOK(f)'
      BY <1>5 DEF PreviousOK
    <2>3. ASSUME failures = 0 PROVE AdoptOK(f)'
      <3>1. AdoptOK(f)
        BY <2>3 DEF Inv, PointInv, AdoptInv
      <3>2. \A j \in Id, t \in Target : Points(j, t)' => Points(j, t)
        BY <1>4 DEF LostPage, NoNewPointer
      <3>3. PICK t \in Target : t = fiber[f].target
        BY <1>2
      <3>4. \A j \in Id : Points(j, fiber[f].target)' => Points(j, fiber[f].target)
        BY <1>5, <3>2, <3>3 DEF Points
      <3>5. Points(fiber[f].id, fiber[f].target)' => Points(fiber[f].id, fiber[f].target)
        BY <1>2, <1>5, <3>4 DEF WorkOK, Points
      <3>6. reservation'.previous = reservation.previous
        BY <1>2, <1>4 DEF LostPage, ReservationKept
      <3> QED BY <1>1, <1>5, <3>1, <3>4, <3>5, <3>6 DEF AdoptOK
    <2> QED BY <1>1, <1>5, <2>1, <2>2, <2>3 DEF AdoptionStays
  <1>10. failures = 0 => Registered(f)'
    <2>1. failures = 0 => Registered(f)
      BY <1>1 DEF Inv, PointInv, RegisteredInv, Stays
    <2> QED BY <1>4, <1>5, <2>1 DEF Registered
  <1>11. ~ Removes(f)' /\ admission' = admission /\ attaching' = attaching
    BY <1>2, <1>5 DEF Removes
  <1>12. fiber[f].pc # "idle"
    OBVIOUS
  <1> QED BY <1>2, <1>4, <1>5, <1>6, <1>7, <1>8, <1>9, <1>10, <1>11, <1>12, LostPageStep

(* The caller of an adoption gives up: the page has the owner back that it  *)
(* had when it was reserved.                                                *)
LEMMA CancelAdoptKeeps == ASSUME Inv, NEW f \in Fiber, CancelAdopt(f) PROVE Inv'
  <1> USE DEF CancelAdopt, permitVars
  <1>1. /\ Struct /\ WorkOK(f) /\ TypeOK /\ WorkInv /\ OneEach /\ SessionsOK /\ FibersOK /\ RegistryOK /\ StoreOK
        /\ ReservationInv /\ AttachInv /\ RemovedInv /\ PreviousInv /\ fiber[f].id \in Id /\ fiber[f].obj \in Session
    BY Busy DEF Inv, SavesInv, TypeOK
  <1>2. /\ fiber' \in [Fiber -> Work] /\ Others(f)
        /\ fiber'[f].pc = fiber[f].pc /\ fiber'[f].woken = fiber[f].woken /\ fiber'[f].cancelled
        /\ fiber'[f].op = fiber[f].op /\ fiber'[f].id = fiber[f].id /\ fiber'[f].obj = fiber[f].obj
        /\ fiber'[f].target = fiber[f].target /\ fiber'[f].previous = fiber[f].previous
        /\ fiber'[f].previousClosed = fiber[f].previousClosed /\ fiber'[f].created = fiber[f].created
    BY <1>1 DEF FibersOK, Others, Work
  <1>3. HoldsReservation(f) => Adopts(f)
    BY <1>1 DEF HoldsReservation, ReservationInv
  <1>4. /\ reservation' \in Reservation \cup {None}
        /\ ReservationKept
        /\ owner' \in [Target -> Id \cup {None, Absent, Gone}]
        /\ \A u \in Target : owner'[u] # owner[u] =>
             Adopts(f) /\ u = fiber[f].target /\ owner[u] = fiber[f].id /\ owner'[u] = reservation.previous
        /\ reservation # None => reservation'.previous = reservation.previous
    <2>1. CASE ~ HoldsReservation(f)
      <3>1. reservation' = reservation /\ owner' = owner
        BY <2>1 DEF RolledBack, Unstored
      <3> QED BY <1>1, <3>1, SameReservation DEF RegistryOK
    <2>2. CASE HoldsReservation(f)
      <3>1. /\ Adopts(f) /\ reservation \in Reservation /\ reservation # None /\ reservation.target = fiber[f].target
            /\ reservation.id = fiber[f].id /\ reservation.previous \in {None, fiber[f].id} /\ fiber[f].target \in Target
            /\ reservation.current => owner[fiber[f].target] \in {None, fiber[f].id}
        BY <1>3, <2>2, Adopting
      <3>2. reservation' = [reservation EXCEPT !.stored = FALSE]
        BY <2>2 DEF Unstored
      <3>3. /\ reservation' \in Reservation /\ reservation' # None /\ reservation'.fiber = reservation.fiber
            /\ reservation'.target = reservation.target /\ reservation'.id = reservation.id
            /\ reservation'.previous = reservation.previous /\ reservation'.current = reservation.current
            /\ ~ reservation'.stored
        <4>1. /\ reservation' \in Reservation /\ reservation'.fiber = reservation.fiber
              /\ reservation'.target = reservation.target /\ reservation'.id = reservation.id
              /\ reservation'.previous = reservation.previous /\ reservation'.current = reservation.current
              /\ ~ reservation'.stored
          BY <3>1, <3>2 DEF Reservation
        <4> QED BY <4>1, LifecycleAssumption
      <3>4. \/ owner' = owner
            \/ /\ reservation.current /\ owner[fiber[f].target] = fiber[f].id
               /\ owner' = [owner EXCEPT ![fiber[f].target] = reservation.previous]
        BY <3>1 DEF RolledBack, StillReserved
      <3>5. /\ owner' \in [Target -> Id \cup {None, Absent, Gone}]
            /\ \A u \in Target : owner'[u] # owner[u] =>
                 u = fiber[f].target /\ owner[u] = fiber[f].id /\ owner'[u] = reservation.previous
        BY <1>1, <3>1, <3>4 DEF RegistryOK
      <3>6. reservation'.current => owner'[fiber[f].target] \in {None, owner[fiber[f].target]}
        BY <3>1, <3>5
      <3>7. ReservationKept
        BY <3>1, <3>3, <3>6 DEF ReservationKept
      <3> QED BY <3>1, <3>3, <3>5, <3>7
    <2> QED BY <2>1, <2>2
  <1>5. \A u \in Target : owner[u] \in {Absent, Gone} => owner'[u] = owner[u]
    BY <1>1, <1>4, Constants
  <1>6. GoneStays /\ AttachInv'
    BY <1>1, <1>5 DEF GoneStays, AttachInv
  <1>7. TypeOK' /\ OneEach' /\ Stored /\ queue' = queue
    BY <1>1, <1>2, <1>4, SameStore DEF TypeOK, SessionsOK, FibersOK, RegistryOK, RestOK, OneEach
  <1>8. fiber[f].woken = "no" /\ starting' = None
    BY DEF Quiet
  <1>9. StructKeeps(f)
    <2>1. \A g \in Fiber : fiber'[g].obj = fiber[f].obj => fiber'[g].id = fiber[f].id
      BY <1>1, <1>2 DEF Others, WorkOK
    <2>2. WorkOK(f)'
      BY <1>1, <1>2, <1>7, <2>1, SameStore DEF WorkOK
    <2>3. Binds(f) /\ KeepsPermits(f) /\ WakesOne(f) /\ QueuesOne(f)
      BY <1>1, <1>2, <1>7, <1>8 DEF Binds, WorkOK, KeepsPermits, WakesOne, QueuesOne, Awaits
    <2> QED BY <1>2, <1>7, <1>8, <2>2, <2>3 DEF StructKeeps
  <1>10. (Adopts(f)' <=> Adopts(f)) /\ (Commits(f)' <=> Commits(f)) /\ ~ Removes(f)' /\ (Stays(f)' <=> Stays(f))
    BY <1>2 DEF Adopts, Commits, Removes, Stays
  <1>11. \A j \in Id, t \in Target : Points(j, t)' <=> Points(j, t)
    BY DEF Points
  <1>12. AdoptionStays(f)
    <2>1. ASSUME Adopts(f) PROVE PreviousOK(f)'
      <3>1. PreviousOK(f) /\ (TargetOf(f))' = TargetOf(f)
        BY <1>1, <1>2 DEF PreviousInv, TargetOf
      <3>2. fiber[f].previous.kind = "relay" => fiber[f].previous.id \in Target
        BY <2>1, Adopting, Constants
      <3> QED BY <1>2, <1>5, <1>10, <3>1, <3>2 DEF PreviousOK
    <2>2. ASSUME Adopts(f), failures = 0 PROVE AdoptOK(f)'
      <3>1. AdoptOK(f)
        BY <2>2 DEF Inv, PointInv, AdoptInv
      <3>2. /\ \A j \in Id : Points(j, fiber[f].target)' <=> Points(j, fiber[f].target)
            /\ Points(fiber[f].id, fiber[f].target)' <=> Points(fiber[f].id, fiber[f].target)
        BY <1>2 DEF Points
      <3>3. reservation # None /\ (TargetOf(f))' = TargetOf(f)
        BY <1>2, <2>2, Adopting DEF TargetOf
      <3>4. reservation'.previous = reservation.previous /\ (reservation'.current => reservation.current)
        BY <1>4, <3>3 DEF ReservationKept
      <3> QED BY <1>2, <1>10, <2>2, <3>1, <3>2, <3>3, <3>4 DEF AdoptOK
    <2> QED BY <1>2, <1>7, <1>10, <2>1, <2>2 DEF AdoptionStays
  <1>13. RemovedStay(f) /\ ObjectsStay(f)
    BY <1>10 DEF RemovedStay, ObjectsStay, Registered
  <1>14. Catalog' = Catalog /\ (Dirty(f) => Dirty(f)')
    <2>1. fiber[f].pc = "cleanupPrevious" => fiber[f].previous.id \in Target
      BY <1>1 DEF WorkOK, Owned
    <2> QED BY <1>2, <1>5, <2>1 DEF Catalog, Dirty, Registered
  <1>15. ASSUME failures = 0 PROVE PointsStay(f)
    <2>1. NoNewPointer
      BY <1>11 DEF NoNewPointer
    <2>2. ASSUME NEW j \in Id, NEW u \in Target, Points(j, u)', owner[u] \in {j, Absent, Gone}
          PROVE  owner'[u] \in {j, Absent, Gone} \/ Withdraws(j)'
      <3> SUFFICES ASSUME owner'[u] # owner[u], owner'[u] # j PROVE Withdraws(j)'
        BY <2>2
      <3>1. Adopts(f) /\ u = fiber[f].target /\ owner[u] = fiber[f].id /\ owner'[u] = reservation.previous
        BY <1>4
      <3>2. j = fiber[f].id
        BY <1>1, <2>2, <3>1, Constants
      <3>3. AdoptOK(f) /\ Registered(f)
        BY <1>15, <3>1 DEF Inv, PointInv, AdoptInv, RegisteredInv, Stays
      <3>4. Points(fiber[f].id, fiber[f].target)
        BY <2>2, <3>1, <3>2 DEF Points
      <3>5. fiber[f].pc = "flush"
        BY <3>1, <3>2, <3>3, <3>4 DEF AdoptOK
      <3>6. Commits(f)' /\ ~ MayCommit(f)'
        BY <1>2, <3>5 DEF Commits, MayCommit
      <3>7. sessions'[j] = fiber'[f].obj
        BY <1>2, <3>2, <3>3 DEF Registered
      <3> QED BY <3>6, <3>7 DEF Withdraws
    <2>3. OwnersKept
      BY <2>2 DEF OwnersKept
    <2>4. Stays(f)' => Registered(f)'
      BY <1>2, <1>10, <1>15 DEF Inv, PointInv, RegisteredInv, Registered
    <2> QED BY <1>10, <2>1, <2>3, <2>4 DEF PointsStay
  <1> QED BY <1>4, <1>6, <1>9, <1>12, <1>13, <1>14, <1>15, SteadyStep

(* While no adoption runs, there is no reservation and nothing is withdrawn. *)
LEMMA NoneAdopts ==
  ASSUME Inv, NEW f \in Fiber, fiber[f].op = "adopt", fiber[f].pc \notin {"idle", "adoptPermit"}, ~ Adopts(f)
  PROVE  /\ \A g \in Fiber : ~ Adopts(g) /\ ~ Commits(g)
         /\ reservation = None /\ \A j \in Id : ~ Withdraws(j)
  <1>1. Struct /\ ReservationInv /\ RegistryOK
    BY DEF Inv, SavesInv, Struct, TypeOK
  <1>2. \A g \in Fiber : ~ Adopts(g)
    BY <1>1, OnlyOneAdopts
  <1>3. \A g \in Fiber : ~ Commits(g)
    BY <1>2 DEF Adopts, Commits
  <1>4. reservation = None
    BY <1>1, <1>2 DEF ReservationInv, RegistryOK, Reservation
  <1> QED BY <1>2, <1>3, <1>4 DEF Withdraws

(* An adoption reserves its target.                                         *)
LEMMA StartAdoptKeeps == ASSUME Inv, NEW f \in Fiber, StartAdopt(f) PROVE Inv'
  <1> USE DEF StartAdopt, TakesPermit
  <1>1. /\ Struct /\ WorkOK(f) /\ TypeOK /\ WokenInv /\ WorkInv /\ OneEach /\ SessionsOK /\ FibersOK /\ RegistryOK /\ StoreOK
        /\ ReservationInv /\ AttachInv /\ RemovedInv /\ PreviousInv /\ DurableInv
        /\ fiber[f].id \in Id /\ fiber[f].obj \in Session
    BY Busy DEF Inv, SavesInv, TypeOK
  <1>2. PICK t \in Target : t = fiber[f].target
    BY <1>1 DEF WorkOK
  <1>3. PICK id \in Id : id = fiber[f].id
    BY <1>1
  <1>4. /\ \A g \in Fiber : ~ Adopts(g) /\ ~ Commits(g)
        /\ reservation = None /\ \A j \in Id : ~ Withdraws(j)
    <2>1. ~ Adopts(f)
      BY DEF Adopts
    <2> QED BY <2>1, NoneAdopts
  <1>5. PICK p : p = TargetOf(f)
    OBVIOUS
  <1>6. p \in Place
    BY <1>1, <1>5 DEF TargetOf, SessionsOK
  <1>7. /\ fiber' \in [Fiber -> Work] /\ Others(f)
        /\ fiber'[f].pc = "page" /\ fiber'[f].woken = fiber[f].woken
        /\ fiber'[f].op = fiber[f].op /\ fiber'[f].id = fiber[f].id /\ fiber'[f].obj = fiber[f].obj
        /\ fiber'[f].target = fiber[f].target /\ fiber'[f].previous = p
    <2>1. fiber' = [fiber EXCEPT ![f].pc = "page", ![f].previous = p]
      BY <1>5
    <2> DEFINE w == [fiber[f] EXCEPT !.pc = "page", !.previous = p]
    <2>2. fiber[f] \in Work
      BY <1>1 DEF FibersOK
    <2>3. /\ w \in Work /\ w.pc = "page" /\ w.woken = fiber[f].woken
          /\ w.op = fiber[f].op /\ w.id = fiber[f].id /\ w.obj = fiber[f].obj
          /\ w.target = fiber[f].target /\ w.previous = p
      BY <1>6, <2>2 DEF Work, Pc
    <2>4. fiber' = [fiber EXCEPT ![f] = w]
      BY <2>1
    <2> HIDE DEF w
    <2> QED BY <1>1, <2>3, <2>4 DEF FibersOK, Others
  <1>8. /\ executePermit' \in [Session -> Fiber \cup {None}] /\ adoptPermit' = adoptPermit
        /\ executePermit'[fiber[f].obj] = f
        /\ \A o \in Session : o # fiber[f].obj => executePermit'[o] = executePermit[o]
    BY <1>1, HoldDoes
  <1>9. fiber[f].woken = "no"
    BY <1>1 DEF WorkOK
  <1>10. /\ owner[t] \in {None, id} /\ owner' \in [Target -> Id \cup {None, Absent, Gone}] /\ owner'[t] = id
         /\ \A u \in Target : u # t => owner'[u] = owner[u]
    BY <1>1, <1>2, <1>3 DEF Reserve, RegistryOK
  <1>11. /\ reservation' \in Reservation /\ reservation' # None
         /\ reservation'.fiber = f /\ reservation'.target = t /\ reservation'.id = id /\ reservation'.previous = owner[t]
         /\ reservation'.current /\ reservation'.stored
    <2> DEFINE r == [fiber |-> f, target |-> t, id |-> id, previous |-> owner[t], current |-> TRUE, stored |-> TRUE]
    <2>1. reservation' = r
      BY <1>2, <1>3 DEF Reserve
    <2>2. r \in Reservation
      BY <1>1, <1>10 DEF Reservation
    <2>3. /\ r.fiber = f /\ r.target = t /\ r.id = id /\ r.previous = owner[t]
          /\ r.current /\ r.stored
      OBVIOUS
    <2> HIDE DEF r
    <2> QED BY <2>1, <2>2, <2>3, LifecycleAssumption
  <1>12. SessionsOK' /\ Stored /\ StoreOK' /\ queue' = queue /\ failures' = failures
    BY <1>1, SameStore DEF SessionsOK
  <1>13. TypeOK' /\ OneEach'
    BY <1>1, <1>7, <1>8, <1>10, <1>11, <1>12 DEF TypeOK, FibersOK, RegistryOK, RestOK, OneEach
  <1>14. WorkOK(f)'
    <2>1. \A g \in Fiber : fiber'[g].obj = fiber[f].obj => fiber'[g].id = fiber[f].id
      BY <1>1, <1>7 DEF Others, WorkOK
    <2> QED BY <1>1, <1>2, <1>7, <1>8, <1>9, <2>1 DEF WorkOK, Pcs, Holding
  <1>15. StructKeeps(f)
    <2>1. KeepsPermits(f)
      BY <1>8, Constants DEF KeepsPermits
    <2>2. Binds(f)
      BY <1>1, <1>7 DEF Binds, WorkOK
    <2>3. WakesOne(f) /\ QueuesOne(f)
      BY <1>1, <1>7, <1>9, <1>12, Runs DEF WakesOne, QueuesOne, Awaits
    <2> QED BY <1>7, <1>9, <1>12, <1>13, <1>14, <2>1, <2>2, <2>3 DEF StructKeeps
  <1>16. Struct' /\ Others(f) /\ QueuesOne(f)
    BY <1>1, <1>15, StructKept DEF StructKeeps
  <1>17. GoneStays /\ AttachInv'
    BY <1>1, <1>10, Constants DEF GoneStays, AttachInv
  <1>18. Adopts(f)' /\ ~ Commits(f)' /\ ~ Removes(f)' /\ ~ Dirty(f) /\ Catalog' = Catalog /\ \A g \in Fiber : ~ Commits(g)'
    <2>1. Adopts(f)' /\ ~ Commits(f)' /\ ~ Removes(f)'
      BY <1>7 DEF Adopts, Commits, Removes
    <2>2. \A g \in Fiber : ~ Commits(g)'
      BY <1>4, <1>7, <2>1 DEF Others, Commits
    <2> QED BY <2>1, <2>2 DEF Dirty, Catalog
  <1>19. SavesInv'
    <2>1. RemovedInv'
      BY <1>1, <1>16, <1>18, RemovedStep
    <2>2. PreviousInv'
      <3>1. PreviousOK(f)'
        BY <1>5, <1>7 DEF PreviousOK, TargetOf
      <3> QED BY <1>1, <1>16, <1>17, <3>1, PreviousStep
    <2>3. DurableInv'
      BY <1>1, <1>12, <1>16, <1>17, <1>18, DurableStep DEF Registered, storeVars
    <2>4. ReservationInv'
      <3>1. \A g \in Fiber : Adopts(g)' => g = f
        BY <1>4, <1>7 DEF Others, Adopts
      <3> QED BY <1>2, <1>3, <1>7, <1>10, <1>11, <1>18, <3>1 DEF ReservationInv, HoldsReservation
    <2> QED BY <1>17, <2>1, <2>2, <2>3, <2>4 DEF SavesInv
  <1>20. ASSUME failures = 0 PROVE PointInv'
    <2>0. UniqueInv /\ OwnerInv /\ AttachOwnerInv /\ RegisteredInv /\ AdoptInv /\ OrderInv /\ RemovalInv /\ WritesInv
      BY <1>20 DEF Inv, PointInv
    <2>1. \A j \in Id, u \in Target : Points(j, u)' <=> Points(j, u)
      BY DEF Points
    <2>2. NoNewPointer
      BY <2>1 DEF NoNewPointer
    <2>3. \A j \in Id : Points(j, t) => j = id /\ owner[t] = id
      BY <1>4, <1>10, <2>0, Constants DEF OwnerInv
    <2>4. OwnersKept
      BY <1>10, <2>1, <2>3 DEF OwnersKept
    <2>5. WithdrawalsKept
      BY <1>4 DEF WithdrawalsKept
    <2>6. UniqueInv' /\ OwnerInv' /\ AttachOwnerInv'
      BY <2>0, <2>2, <2>4, <2>5, PointersStep
    <2>7. RegisteredInv'
      BY <1>7, <1>16, <2>0, RegisteredStep DEF Registered
    <2>8. AdoptInv'
      <3>1. AdoptOK(f)'
        <4>1. \A j \in Id : sessions[j] # None /\ session[sessions[j]].target.id = t => j = id /\ owner[t] = id
          BY <2>3 DEF Points
        <4> QED BY <1>2, <1>3, <1>7, <1>11, <4>1 DEF AdoptOK, Points
      <3>2. \A g \in Fiber : g # f => ~ Adopts(g)' /\ AdoptOK(g)'
        BY <1>4, <1>7 DEF Others, Adopts, AdoptOK
      <3> QED BY <3>1, <3>2 DEF AdoptInv
    <2>9. OrderInv'
      BY <1>18 DEF OrderInv
    <2>10. RemovalInv'
      BY <1>1, <1>4, <1>12, <1>14, <1>16, <1>18, <2>0, <2>2, RemovalStep
    <2>11. WritesInv'
      BY <1>1, <1>12, <2>0, <2>6, WritesStep DEF storeVars
    <2> QED BY <2>6, <2>7, <2>8, <2>9, <2>10, <2>11 DEF PointInv
  <1> QED BY <1>12, <1>16, <1>19, <1>20 DEF Inv

(* The session points at its page, and the catalog says so.                 *)
LEMMA PointKeeps ==
  ASSUME Inv, NEW f \in Fiber, Adopts(f), fiber[f].pc # "flush", PointAtTarget(f),
         fiber' \in [Fiber -> Work], Others(f), fiber'[f].pc = "flush", fiber'[f].woken = "no",
         fiber'[f].op = fiber[f].op, fiber'[f].id = fiber[f].id, fiber'[f].obj = fiber[f].obj,
         fiber'[f].target = fiber[f].target, fiber'[f].cancelled = fiber[f].cancelled,
         fiber'[f].previous.kind = "relay" /\ ~ fiber'[f].previousClosed => fiber'[f].previous.id = fiber[f].target,
         starting' = None, UNCHANGED permitVars, UNCHANGED <<registryVars, admission, events>>
  PROVE  Inv'
  <1> USE DEF PointAtTarget, permitVars, registryVars
  <1>1. /\ Struct /\ WorkOK(f) /\ TypeOK /\ WokenInv /\ WorkInv /\ SessionsOK /\ FibersOK /\ RegistryOK /\ StoreOK /\ OneEach
        /\ AttachInv /\ RemovedInv /\ PreviousInv /\ DurableInv /\ ReservationInv
        /\ fiber[f].op = "adopt" /\ fiber[f].pc \in {"page", "closePrevious", "flush"}
        /\ fiber[f].id \in Id /\ fiber[f].obj \in Session /\ fiber[f].obj # None /\ fiber[f].target \in Target
        /\ executePermit[fiber[f].obj] = f /\ adoptPermit = f
        /\ HoldsReservation(f) /\ reservation \in Reservation /\ reservation # None
        /\ reservation.target = fiber[f].target /\ reservation.id = fiber[f].id
        /\ ~ Removes(f) /\ ~ Dirty(f)
        /\ \A g \in Fiber : Adopts(g) => g = f
    BY Adopting
  <1>2. PICK t \in Target : t = fiber[f].target
    BY <1>1
  <1>3. PICK id \in Id : id = fiber[f].id
    BY <1>1
  <1>4. PICK o \in Session : o = fiber[f].obj
    BY <1>1
  <1>5. /\ SessionsOK' /\ sessions' = sessions /\ session'[o].target.id = t
        /\ \A p \in Session : p # o => session'[p] = session[p]
    <2>1. [id |-> t, kind |-> "user"] \in Place /\ [id |-> t, kind |-> "user"].id = t
      BY DEF Place, Owned
    <2>2. PICK w : w = [id |-> t, kind |-> "user"]
      OBVIOUS
    <2>3. session' = [session EXCEPT ![o].target = w]
      BY <1>2, <1>4, <2>2
    <2> QED BY <1>1, <2>1, <2>2, <2>3 DEF SessionsOK
  <1>6. StoreOK' /\ Stored /\ failures' = failures
    BY <1>1, <1>5, ScheduleDoes DEF Stored
  <1>7. TypeOK' /\ OneEach' /\ AttachInv' /\ GoneStays
    BY <1>1, <1>5, <1>6 DEF TypeOK, FibersOK, RegistryOK, RestOK, OneEach, AttachInv, GoneStays
  <1>8. WorkOK(f)'
    <2>1. \A g \in Fiber : fiber'[g].obj = fiber[f].obj => fiber'[g].id = fiber[f].id
      BY <1>1 DEF Others, WorkOK
    <2> QED BY <1>1, <1>5, <2>1 DEF WorkOK, Pcs, Holding
  <1>9. StructKeeps(f)
    <2>1. Binds(f) /\ KeepsPermits(f) /\ WakesOne(f) /\ QueuesOne(f)
      BY <1>1, <1>5 DEF Binds, WorkOK, KeepsPermits, WakesOne, QueuesOne, Awaits
    <2> QED BY <1>6, <1>7, <1>8, <2>1 DEF StructKeeps
  <1>10. Struct' /\ QueuesOne(f)
    BY <1>1, <1>9, StructKept DEF StructKeeps
  <1>12. /\ Adopts(f)' /\ Commits(f)' /\ ~ Removes(f)' /\ ~ Commits(f)
         /\ \A g \in Fiber : ~ Commits(g)
    <2>1. Adopts(f)' /\ Commits(f)' /\ ~ Removes(f)' /\ ~ Commits(f)
      BY <1>1 DEF Adopts, Commits, Removes
    <2> QED BY <1>1, <2>1 DEF Adopts, Commits
  <1>13. \A j \in Id : ~ Withdraws(j)
    BY <1>12 DEF Withdraws
  <1>14. (TargetOf(f))' = session'[o].target
    BY <1>4 DEF TargetOf
  <1>15. SavesInv'
    <2>1. RemovedInv'
      BY <1>1, <1>5, <1>12, RemovedStep
    <2>2. PreviousInv'
      <3>1. PreviousOK(f)'
        BY <1>2, <1>5, <1>14 DEF PreviousOK
      <3> QED BY <1>1, <1>7, <3>1, PreviousStep
    <2>3. DurableInv'
      BY <1>1, <1>5, DurableStep
    <2>4. ReservationInv'
      <3>1. ReservationKept
        BY <1>1, SameReservation
      <3>2. Adopts(f)' = Adopts(f)
        BY <1>1 DEF Adopts
      <3> QED BY <1>1, <3>1, <3>2, ReservationStep
    <2> QED BY <1>7, <2>1, <2>2, <2>3, <2>4 DEF SavesInv
  <1>16. ASSUME failures = 0 PROVE PointInv'
    <2>0. UniqueInv /\ OwnerInv /\ AttachOwnerInv /\ RegisteredInv /\ AdoptInv /\ OrderInv /\ RemovalInv /\ WritesInv
      BY <1>16 DEF Inv, PointInv
    <2>1. sessions[id] = o
      BY <1>3, <1>4, <2>0 DEF RegisteredInv, Stays, Registered
    <2>2. \A j \in Id : Points(j, t) => j = id
      BY <1>2, <1>3, <2>0 DEF AdoptInv, AdoptOK
    <2>3. \A j \in Id, u \in Target : Points(j, u)' => (Points(j, u) /\ j # id) \/ (j = id /\ u = t)
      <3>1. \A j \in Id : j # id => sessions[j] # o
        BY <1>1, <1>4, <2>1 DEF OneEach
      <3> QED BY <1>1, <1>5, <2>1, <3>1 DEF Points, SessionsOK
    <2>4. UniqueInv'
      <3> SUFFICES ASSUME NEW i \in Id, NEW j \in Id, NEW u \in Target, Points(i, u)', Points(j, u)' PROVE i = j
        BY DEF UniqueInv
      <3> QED BY <2>0, <2>2, <2>3 DEF UniqueInv
    <2>5. MayCommit(f)' \/ Withdraws(id)'
      BY <1>3, <1>4, <1>5, <1>12, <2>1 DEF Withdraws
    <2>6. MayCommit(f)' => owner[t] = id
      BY <1>1, <1>2, <1>3 DEF MayCommit, StillReserved
    <2>7. OwnerInv'
      <3> SUFFICES ASSUME NEW j \in Id, NEW u \in Target, Points(j, u)'
                   PROVE  owner[u] \in {j, Absent, Gone} \/ Withdraws(j)'
        BY DEF OwnerInv
      <3>1. CASE Points(j, u) /\ j # id
        BY <1>13, <2>0, <3>1 DEF OwnerInv
      <3>2. CASE j = id /\ u = t
        BY <2>5, <2>6, <3>2
      <3> QED BY <2>3, <3>1, <3>2
    <2>8. AttachOwnerInv'
      <3> SUFFICES ASSUME NEW j \in Id, NEW u \in Target, Points(j, u)', attaching[u] # Absent
                   PROVE  attaching[u] = j \/ Withdraws(j)'
        BY DEF AttachOwnerInv
      <3>1. CASE Points(j, u) /\ j # id
        BY <1>13, <2>0, <3>1 DEF AttachOwnerInv
      <3>2. CASE j = id /\ u = t
        <4>1. owner[t] # id
          BY <1>1, <3>2, Constants DEF AttachInv
        <4> QED BY <2>5, <2>6, <3>2, <4>1
      <3> QED BY <2>3, <3>1, <3>2
    <2>9. RegisteredInv'
      <3>1. Registered(f)'
        BY <1>3, <1>4, <1>5, <2>1 DEF Registered
      <3> QED BY <1>5, <2>0, <3>1, RegisteredStep DEF Registered
    <2>10. AdoptInv'
      <3>1. AdoptOK(f)'
        BY <1>2, <1>5, <1>14 DEF AdoptOK
      <3>2. \A g \in Fiber : g # f => AdoptOK(g)'
        BY <1>1 DEF Others, Adopts, AdoptOK
      <3> QED BY <3>1, <3>2 DEF AdoptInv
    <2>11. OrderInv'
      <3>1. ~ Awaits(f)
        BY <1>1 DEF Awaits
      <3> QED BY <1>1, <1>5, <1>10, <1>12, <2>0, <3>1, OrderStep
    <2>12. RemovalInv'
      <3> SUFFICES ASSUME NEW g \in Fiber, Removes(g), g # f, NEW v, v = (TargetOf(g).id)', v # None,
                          NEW j \in Id, j = fiber[g].id, Points(j, v)'
                   PROVE  \E h \in Fiber : Commits(h)' /\ sessions'[j] = fiber'[h].obj
        <4>1. \A g \in Fiber : Removes(g)' => g # f /\ Removes(g) /\ fiber'[g] = fiber[g]
          BY <1>12 DEF Others, Removes
        <4>2. \A g \in Fiber : Removes(g) => fiber[g].id \in Id
          BY <1>1 DEF Removes, WorkInv, WorkOK
        <4> QED BY <4>1, <4>2 DEF RemovalInv
      <3>1. fiber[g].obj # o /\ fiber[g].obj \in Session
        <4>1. fiber[g].op # "create" /\ fiber[g].pc \in Holding
          BY DEF Removes, Holding
        <4> QED BY <1>1, <1>4, <4>1, AloneOnObject
      <3>2. session'[fiber[g].obj] = session[fiber[g].obj] /\ fiber'[g] = fiber[g]
        BY <1>5, <3>1 DEF Others
      <3>3. v = TargetOf(g).id /\ v \in Target
        BY <1>1, <3>1, <3>2, Constants DEF TargetOf, SessionsOK
      <3>4. j = id
        BY <1>12, <2>0, <2>3, <3>3 DEF RemovalInv
      <3> QED BY <1>4, <1>5, <1>12, <2>1, <3>4
    <2>13. WritesInv'
      BY <1>1, <1>5, <2>0, <2>4, WritesStep
    <2> QED BY <2>4, <2>7, <2>8, <2>9, <2>10, <2>11, <2>12, <2>13 DEF PointInv
  <1> QED BY <1>6, <1>10, <1>15, <1>16 DEF Inv

(* The page of an adoption is adopted.                                      *)
LEMMA AdoptPageKeeps == ASSUME Inv, NEW f \in Fiber, AdoptPage(f) PROVE Inv'
  <1>1. CASE Pointer(f).kind = "relay" /\ Pointer(f).id # fiber[f].target
    BY <1>1, AdoptCloseKeeps
  <1>2. CASE ~ (Pointer(f).kind = "relay" /\ Pointer(f).id # fiber[f].target)
    <2>1. Adopts(f) /\ fiber[f].pc = "page" /\ fiber[f].woken = "no" /\ starting' = None
      <3>1. Struct /\ fiber[f].pc = "page"
        BY DEF Inv, AdoptPage
      <3>2. fiber[f].op = "adopt"
        BY <3>1, Busy DEF Pcs, Op
      <3> QED BY <3>1, <3>2 DEF Adopts, AdoptPage, Quiet
    <2>2. FibersOK /\ fiber[f].previous \in Place /\ TargetOf(f) \in Place
      BY <2>1, Adopting
    <2>3. PICK p \in Place : p = Pointer(f)
      BY <2>2 DEF Pointer
    <2>4. PointAtTarget(f) /\ fiber' = [fiber EXCEPT ![f].pc = "flush", ![f].previous = p]
      BY <1>2, <2>3 DEF AdoptPage
    <2> DEFINE w == [fiber[f] EXCEPT !.pc = "flush", !.previous = p]
    <2>5. fiber[f] \in Work
      BY <2>2 DEF FibersOK
    <2>6. /\ w \in Work /\ w.pc = "flush" /\ w.woken = fiber[f].woken
          /\ w.op = fiber[f].op /\ w.id = fiber[f].id /\ w.obj = fiber[f].obj
          /\ w.target = fiber[f].target /\ w.previous = p /\ w.cancelled = fiber[f].cancelled
      BY <2>5 DEF Work, Pc
    <2>7. fiber' = [fiber EXCEPT ![f] = w]
      BY <2>4
    <2> HIDE DEF w
    <2>8. fiber' \in [Fiber -> Work] /\ Others(f) /\ fiber'[f] = w
      BY <2>2, <2>6, <2>7 DEF FibersOK, Others
    <2>9. UNCHANGED permitVars /\ UNCHANGED <<registryVars, admission, events>>
      BY DEF AdoptPage
    <2> QED BY <1>2, <2>1, <2>3, <2>4, <2>6, <2>8, <2>9, PointKeeps
  <1> QED BY <1>1, <1>2

(* An adoption points its session at the page when the old one is closed.   *)
LEMMA PointAfterCloseKeeps == ASSUME Inv, NEW f \in Fiber, PointAfterClose(f) PROVE Inv'
  <1>1. Struct /\ fiber[f].pc = "closePrevious" /\ fiber[f].woken = "ok"
    BY DEF Inv, PointAfterClose
  <1>2. Adopts(f)
    <2>1. fiber[f].op = "adopt"
      BY <1>1, Busy DEF Pcs, Op
    <2> QED BY <1>1, <2>1 DEF Adopts
  <1>3. FibersOK /\ WorkOK(f) /\ WokenInv
    BY <1>2, Adopting
  <1>4. fiber[f].previousClosed /\ starting' = None
    BY <1>1, <1>3 DEF WorkOK, WokenInv, PointAfterClose
  <1>5. /\ fiber' \in [Fiber -> Work] /\ Others(f)
        /\ fiber'[f].pc = "flush" /\ fiber'[f].woken = "no"
        /\ fiber'[f].op = fiber[f].op /\ fiber'[f].id = fiber[f].id /\ fiber'[f].obj = fiber[f].obj
        /\ fiber'[f].target = fiber[f].target /\ fiber'[f].created = fiber[f].created
        /\ fiber'[f].previous = fiber[f].previous /\ fiber'[f].previousClosed = fiber[f].previousClosed
        /\ fiber'[f].cancelled = fiber[f].cancelled
    BY <1>3, MoveDoes DEF PointAfterClose, Pc
  <1>6. PointAtTarget(f) /\ UNCHANGED permitVars /\ UNCHANGED <<registryVars, admission, events>>
    BY DEF PointAfterClose
  <1> QED BY <1>1, <1>2, <1>4, <1>5, <1>6, PointKeeps

(* An adoption ends: it commits, or takes its pointer back and goes on to   *)
(* clean up.                                                                *)
LEMMA AdoptionEnds ==
  ASSUME Inv, NEW f \in Fiber, fiber[f].op = "adopt", fiber[f].pc \in {"permit", "page", "closePrevious", "flush"},
         StructKeeps(f), ~ Adopts(f)', ~ Removes(f)', ~ Stays(f)', sessions' = sessions, reservation' = None,
         UNCHANGED <<attaching, admission, queue, disk, lastWrite, failures, drained>>,
         \A u \in Target : owner'[u] # owner[u] => owner[u] = fiber[f].id /\ owner'[u] = None,
         \A o \in Session : o # fiber[f].obj => session'[o] = session[o],
         \/ session'[fiber[f].obj].target = NoTarget /\ Registered(f)
         \/ /\ session' = session
            /\ failures = 0 => /\ MayCommit(f) /\ Commits(f) /\ fiber[f].woken # "no"
                               /\ \A u \in Target : owner'[u] # owner[u] => u # fiber[f].target,
         Dirty(f)' \/ Catalog' = Catalog
  PROVE  Inv'
  <1>1. /\ Struct /\ WorkOK(f) /\ TypeOK /\ WorkInv /\ OneEach /\ SessionsOK /\ RegistryOK
        /\ ReservationInv /\ AttachInv /\ RemovedInv /\ PreviousInv /\ DurableInv
        /\ fiber[f].id \in Id /\ fiber[f].obj \in Session /\ fiber[f].obj # None
    BY Busy DEF Inv, SavesInv, TypeOK
  <1>2. Struct' /\ SessionsOK' /\ Others(f) /\ QueuesOne(f)
    BY <1>1, StructKept DEF StructKeeps, TypeOK
  <1>3. PICK id \in Id : id = fiber[f].id
    BY <1>1
  <1>4. PICK o \in Session : o = fiber[f].obj
    BY <1>1
  <1>5. \A g \in Fiber : ~ Adopts(g)' /\ ~ Commits(g)' /\ (g # f => ~ Adopts(g) /\ ~ Commits(g))
    <2>1. \A g \in Fiber : g # f => ~ Adopts(g)
      BY <1>1, OnlyOneAdopts
    <2>2. \A g \in Fiber : ~ Adopts(g)'
      BY <1>2, <2>1 DEF Others, Adopts
    <2> QED BY <2>1, <2>2 DEF Adopts, Commits
  <1>6. \A u \in Target : owner[u] \in {Absent, Gone} => owner'[u] = owner[u]
    BY <1>1, Constants
  <1>7. GoneStays /\ AttachInv'
    BY <1>1, <1>6 DEF GoneStays, AttachInv
  <1>8. \A j \in Id, u \in Target : Points(j, u)' => Points(j, u) /\ (j = id /\ sessions[id] = o => session' = session)
    <2>1. session' = session \/ session'[o].target.id = None
      BY <1>4, Constants
    <2>2. \A p \in Session : p # o => session'[p] = session[p]
      BY <1>4
    <2> SUFFICES ASSUME NEW j \in Id, NEW u \in Target, Points(j, u)'
                 PROVE  Points(j, u) /\ (sessions[j] = o => session' = session)
      OBVIOUS
    <2>3. PICK p \in Session : p = sessions[j] /\ session'[p].target.id = u
      BY <1>1 DEF Points, SessionsOK
    <2>4. u # None
      BY Constants
    <2>5. session'[p] = session[p] /\ (p = o => session' = session)
      BY <2>1, <2>2, <2>3, <2>4
    <2> QED BY <2>3, <2>5 DEF Points
  <1>9. SavesInv'
    <2>1. RemovedInv'
      BY <1>1, <1>2, RemovedStep
    <2>2. PreviousInv' /\ ReservationInv'
      BY <1>5 DEF PreviousInv, PreviousOK, ReservationInv
    <2>3. DurableInv'
      <3>1. ~ Dirty(f)
        BY DEF Dirty
      <3> QED BY <1>1, <1>2, <1>7, <3>1, DurableStep DEF Registered
    <2> QED BY <1>7, <2>1, <2>2, <2>3 DEF SavesInv
  <1>10. ASSUME failures = 0 PROVE PointInv'
    <2>0. UniqueInv /\ OwnerInv /\ AttachOwnerInv /\ RegisteredInv /\ AdoptInv /\ OrderInv /\ RemovalInv /\ WritesInv
      BY <1>10 DEF Inv, PointInv
    <2>1. Adopts(f) => sessions[id] = o
      BY <1>3, <1>4, <2>0 DEF RegisteredInv, Stays, Registered
    <2>2. sessions[id] = o
      <3>1. CASE Registered(f)
        BY <1>3, <1>4, <3>1 DEF Registered
      <3>2. CASE ~ Registered(f)
        <4>1. Commits(f)
          BY <1>10, <3>2
        <4> QED BY <2>1, <4>1 DEF Adopts, Commits
      <3> QED BY <3>1, <3>2
    <2>3. \A j \in Id, u \in Target : Points(j, u)' => Points(j, u) /\ ~ Withdraws(j)
      <3> SUFFICES ASSUME NEW j \in Id, NEW u \in Target, Points(j, u)', NEW g \in Fiber, Commits(g),
                          sessions[j] = fiber[g].obj, ~ MayCommit(g)
                   PROVE  FALSE
        BY <1>8 DEF Withdraws
      <3>1. g = f /\ sessions[j] = o
        BY <1>4, <1>5
      <3>2. j = id
        BY <1>1, <1>3, <1>4, <3>1 DEF WorkOK
      <3>3. session' = session /\ session'[o].target.id = u
        BY <1>8, <2>2, <3>1, <3>2 DEF Points
      <3>4. session'[o].target # NoTarget
        BY <3>3, Constants
      <3> QED BY <1>4, <1>10, <3>1, <3>4
    <2>4. UniqueInv'
      BY <1>8, <2>0 DEF UniqueInv
    <2>5. OwnerInv'
      <3> SUFFICES ASSUME NEW j \in Id, NEW u \in Target, Points(j, u)' PROVE owner'[u] \in {j, Absent, Gone}
        BY DEF OwnerInv
      <3>1. owner[u] \in {j, Absent, Gone} /\ Points(j, u)
        BY <2>0, <2>3 DEF OwnerInv
      <3>2. CASE owner'[u] # owner[u]
        <4>1. j = id
          BY <1>1, <1>3, <3>1, <3>2, Constants
        <4>2. session' = session
          BY <1>8, <2>2, <4>1
        <4>3. session'[o].target # NoTarget
          BY <2>2, <4>1, Constants DEF Points
        <4>4. MayCommit(f) /\ Commits(f) /\ u # fiber[f].target
          BY <1>4, <1>10, <3>2, <4>3
        <4>5. reservation.current /\ AdoptOK(f) /\ Adopts(f)
          BY <2>0, <4>4 DEF MayCommit, StillReserved, AdoptInv, Adopts, Commits
        <4>6. TargetOf(f).id = fiber[f].target
          BY <4>4, <4>5 DEF AdoptOK, Commits
        <4>7. TargetOf(f).id = u
          BY <1>4, <2>2, <3>1, <4>1 DEF Points, TargetOf
        <4> QED BY <4>4, <4>6, <4>7
      <3> QED BY <3>1, <3>2
    <2>6. AttachOwnerInv'
      BY <2>0, <2>3 DEF AttachOwnerInv
    <2>7. RegisteredInv'
      BY <1>2, <2>0, RegisteredStep DEF Registered
    <2>8. AdoptInv' /\ OrderInv'
      BY <1>5 DEF AdoptInv, AdoptOK, OrderInv
    <2>9. RemovalInv'
      <3> SUFFICES ASSUME NEW g \in Fiber, Removes(g), g # f, NEW v, v = (TargetOf(g).id)', v # None,
                          NEW j \in Id, j = fiber[g].id, Points(j, v)'
                   PROVE  FALSE
        <4>1. \A g \in Fiber : Removes(g)' => g # f /\ Removes(g) /\ fiber'[g] = fiber[g]
          BY <1>2 DEF Others, Removes
        <4>2. \A g \in Fiber : Removes(g) => fiber[g].id \in Id
          BY <1>1 DEF Removes, WorkInv, WorkOK
        <4> QED BY <4>1, <4>2 DEF RemovalInv
      <3>1. fiber[g].obj \in Session /\ fiber'[g] = fiber[g]
        BY <1>1, <1>2 DEF Removes, WorkInv, WorkOK, Others
      <3>2. fiber[g].obj # o
        BY <1>1, <2>2 DEF RemovedInv
      <3>3. v = TargetOf(g).id /\ v \in Target
        BY <1>1, <1>4, <3>1, <3>2, Constants DEF TargetOf, SessionsOK
      <3>4. PICK h \in Fiber : Commits(h) /\ sessions[j] = fiber[h].obj
        BY <1>8, <2>0, <3>3 DEF RemovalInv
      <3>5. h = f /\ sessions[j] = o
        BY <1>4, <1>5, <3>4
      <3>6. j = id
        BY <1>1, <1>3, <1>4, <3>5 DEF WorkOK
      <3>7. session' = session /\ session'[o].target # NoTarget
        BY <1>8, <2>2, <3>3, <3>6, Constants DEF Points
      <3>8. fiber[f].woken # "no"
        BY <1>4, <1>10, <3>7
      <3> QED BY <1>3, <2>0, <3>4, <3>5, <3>6, <3>8 DEF OrderInv
    <2>10. WritesInv'
      BY <2>0 DEF WritesInv
    <2> QED BY <2>4, <2>5, <2>6, <2>7, <2>8, <2>9, <2>10 DEF PointInv
  <1> QED BY <1>2, <1>9, <1>10 DEF Inv

(* ... without a change of its session.                                     *)
LEMMA FinishAdoptKeeps ==
  ASSUME Inv, NEW f \in Fiber, Adopts(f), Finish(f), starting' = None, reservation' = None, ~ Awaits(f),
         UNCHANGED <<sessions, session, attaching, admission, events>>, UNCHANGED storeVars,
         owner' \in [Target -> Id \cup {None, Absent, Gone}],
         \A u \in Target : owner'[u] # owner[u] => owner[u] = fiber[f].id /\ owner'[u] = None,
         failures = 0 => /\ MayCommit(f) /\ Commits(f) /\ fiber[f].woken # "no"
                         /\ \A u \in Target : owner'[u] # owner[u] => u # fiber[f].target
  PROVE  Inv'
  <1>1. /\ Struct /\ WorkOK(f) /\ TypeOK /\ WorkInv /\ OneEach /\ FibersOK /\ RegistryOK /\ fiber[f].op = "adopt"
        /\ fiber[f].pc \in {"page", "closePrevious", "flush"} /\ ~ Dirty(f)
    BY Adopting
  <1>2. /\ fiber' \in [Fiber -> Work] /\ Others(f) /\ fiber'[f] = IdleFiber
        /\ executePermit' \in [Session -> Fiber \cup {None}] /\ adoptPermit' \in Fiber \cup {None}
        /\ \A o \in Session : executePermit'[o] = IF executePermit[o] = f THEN None ELSE executePermit[o]
        /\ adoptPermit' = IF adoptPermit = f THEN None ELSE adoptPermit
    BY <1>1, FinishDoes
  <1>3. /\ fiber'[f].pc = "idle" /\ fiber'[f].woken = "no" /\ fiber'[f].obj = None /\ fiber'[f].op = "create"
        /\ WorkOK(f)'
    BY <1>2 DEF IdleFiber, WorkOK
  <1>4. /\ Stored /\ queue' = queue /\ StoreOK' /\ Catalog' = Catalog
        /\ UNCHANGED <<attaching, admission, queue, disk, lastWrite, failures, drained>>
    BY <1>1, SameStore DEF TypeOK, Catalog
  <1>5. StructKeeps(f)
    <2>1. TypeOK' /\ OneEach'
      BY <1>1, <1>2, <1>4 DEF TypeOK, SessionsOK, FibersOK, RegistryOK, RestOK, OneEach
    <2>2. Binds(f) /\ KeepsPermits(f)
      BY <1>2, <1>3 DEF Binds, KeepsPermits
    <2>3. WakesOne(f) /\ QueuesOne(f)
      BY <1>3, <1>4 DEF WakesOne, QueuesOne, Awaits
    <2> QED BY <1>2, <1>3, <1>4, <2>1, <2>2, <2>3 DEF StructKeeps
  <1>6. ~ Adopts(f)' /\ ~ Removes(f)' /\ ~ Stays(f)'
    BY <1>3 DEF Adopts, Removes, Stays
  <1> QED BY <1>1, <1>4, <1>5, <1>6, AdoptionEnds

(* An adoption commits.                                                     *)
LEMMA CommitAdoptKeeps ==
  ASSUME Inv, NEW f \in Fiber, CommitAdopt(f), fiber[f].pc = "flush", fiber[f].woken # "no", UNCHANGED <<starting, admission, events>>
  PROVE  Inv'
  <1>1. Struct /\ WokenInv /\ HoldsReservation(f) /\ ReservationInv /\ RegistryOK
    BY DEF Inv, SavesInv, Struct, TypeOK, CommitAdopt, MayCommit
  <1>2. Adopts(f) /\ Commits(f)
    BY <1>1 DEF HoldsReservation, ReservationInv, Adopts, Commits
  <1>3. starting' = None /\ ~ Awaits(f)
    BY <1>1 DEF WokenInv, Awaits
  <1>4. fiber[f].previous.id \in Target \cup {None} /\ fiber[f].id \in Id
    BY <1>2, Adopting, Constants
  <1>5. /\ owner' \in [Target -> Id \cup {None, Absent, Gone}]
        /\ \A u \in Target : owner'[u] # owner[u] => owner[u] = fiber[f].id /\ owner'[u] = None /\ u # fiber[f].target
    <2>1. PICK t : t = fiber[f].previous.id
      OBVIOUS
    <2>2. CASE t = fiber[f].target
      BY <1>1, <2>1, <2>2 DEF CommitAdopt, RegistryOK
    <2>3. CASE t # fiber[f].target
      <3>1. owner' = IF t # None /\ owner[t] = fiber[f].id THEN [owner EXCEPT ![t] = None] ELSE owner
        BY <2>1, <2>3 DEF CommitAdopt, Released
      <3> QED BY <1>1, <1>4, <2>1, <2>3, <3>1 DEF RegistryOK
    <2> QED BY <2>2, <2>3
  <1> QED BY <1>2, <1>3, <1>5, FinishAdoptKeeps DEF CommitAdopt

-----------------------------------------------------------------------------
(* A failed adoption: what it owned is let go.                              *)
LetsGo(own, left, id) ==
  /\ left \in [Target -> Id \cup {None, Absent, Gone}]
  /\ \A u \in Target : left[u] # own[u] => own[u] = id /\ left[u] = None

(* Releasing a target lets go of it.                                        *)
LEMMA ReleasedLetsGo ==
  ASSUME NEW own \in [Target -> Id \cup {None, Absent, Gone}], NEW t \in Target \cup {None}, NEW id \in Id
  PROVE  LetsGo(own, Released(own, t, id), id)
  <1>1. CASE t # None /\ own[t] = id
    <2>1. Released(own, t, id) = [own EXCEPT ![t] = None]
      BY <1>1 DEF Released
    <2> QED BY <1>1, <2>1 DEF LetsGo
  <1>2. CASE ~ (t # None /\ own[t] = id)
    <2>1. Released(own, t, id) = own
      BY <1>2 DEF Released
    <2> QED BY <2>1 DEF LetsGo
  <1> QED BY <1>1, <1>2

(* Letting go is transitive.                                                *)
LEMMA LetsGoOn ==
  ASSUME NEW a, NEW b, NEW c, NEW id \in Id, LetsGo(a, b, id), LetsGo(b, c, id) PROVE LetsGo(a, c, id)
  BY Constants DEF LetsGo

(* A rollback gives a target back to the session, which keeps it, or to     *)
(* nobody.                                                                  *)
LEMMA RolledBackLetsGo ==
  ASSUME Inv, NEW f \in Fiber, fiber[f].id \in Id PROVE LetsGo(owner, RolledBack(f), fiber[f].id)
  <1>0. RegistryOK /\ ReservationInv
    BY DEF Inv, SavesInv, Struct, TypeOK
  <1>1. CASE HoldsReservation(f) /\ StillReserved
    <2>1. Adopts(f)
      BY <1>0, <1>1 DEF HoldsReservation, ReservationInv
    <2>2. /\ reservation.target \in Target /\ reservation.id = fiber[f].id
          /\ reservation.previous \in {None, fiber[f].id}
      BY <2>1, Adopting
    <2>3. owner[reservation.target] = fiber[f].id
      BY <1>1, <2>2 DEF StillReserved
    <2>4. RolledBack(f) = [owner EXCEPT ![reservation.target] = reservation.previous]
      BY <1>1 DEF RolledBack
    <2> QED BY <1>0, <2>2, <2>3, <2>4 DEF LetsGo, RegistryOK
  <1>2. CASE ~ (HoldsReservation(f) /\ StillReserved)
    <2>1. RolledBack(f) = owner
      BY <1>2 DEF RolledBack
    <2> QED BY <1>0, <2>1 DEF LetsGo, RegistryOK
  <1> QED BY <1>1, <1>2

(* A failed adoption takes the pointer of its session back and lets go of   *)
(* its targets.                                                             *)
LEMMA RelinquishKeeps ==
  ASSUME Inv, NEW f \in Fiber, Relinquish(f), Registered(f), reservation' = IF HoldsReservation(f) THEN None ELSE reservation,
         fiber[f].op = "adopt", fiber[f].pc \in {"permit", "page", "closePrevious", "flush"},
         executePermit[fiber[f].obj] \in {None, f}, starting' = None, ~ Awaits(f),
         UNCHANGED <<sessions, attaching, admission, events>>, UNCHANGED storeVars
  PROVE  Inv'
  <1>1. /\ Struct /\ WorkOK(f) /\ TypeOK /\ WorkInv /\ OneEach /\ SessionsOK /\ FibersOK /\ RegistryOK /\ StoreOK
        /\ ReservationInv /\ PreviousInv /\ fiber[f].id \in Id /\ fiber[f].obj \in Session /\ fiber[f].obj # None
        /\ fiber[f] \in Work
    BY Busy DEF Inv, SavesInv, TypeOK
  <1>2. PICK p \in Place : p = fiber[f].previous
    BY <1>1 DEF Work
  <1>3. PICK a \in Place : a = TargetOf(f)
    BY <1>1 DEF SessionsOK, TargetOf
  <1>4. PICK o \in Session : o = fiber[f].obj
    BY <1>1
  <1> DEFINE left == p.id \notin {None, a.id} /\ p.kind = "relay" /\ ~ fiber[f].previousClosed
             next == IF left THEN "cleanupPrevious" ELSE "cleanupClose"
  <1>5. Move(f, next) /\ Hold(f) /\ session' = [session EXCEPT ![o].target = NoTarget]
        /\ owner' = Released(Released(RolledBack(f), a.id, fiber[f].id), p.id, fiber[f].id)
    BY <1>2, <1>3, <1>4 DEF Relinquish
  <1>6. /\ fiber' \in [Fiber -> Work] /\ Others(f)
        /\ fiber'[f].pc = next /\ fiber'[f].woken = "no"
        /\ fiber'[f].op = fiber[f].op /\ fiber'[f].id = fiber[f].id /\ fiber'[f].obj = fiber[f].obj
        /\ fiber'[f].target = fiber[f].target /\ fiber'[f].previous = p
    <2>1. next \in Pc
      BY DEF Pc
    <2> HIDE DEF next
    <2> QED BY <1>1, <1>2, <1>5, <2>1, MoveDoes
  <1>7. /\ executePermit' \in [Session -> Fiber \cup {None}] /\ adoptPermit' = adoptPermit
        /\ executePermit'[fiber[f].obj] = f
        /\ \A q \in Session : q # fiber[f].obj => executePermit'[q] = executePermit[q]
    BY <1>1, <1>5, HoldDoes
  <1>8. LetsGo(owner, owner', fiber[f].id)
    <2>1. LetsGo(owner, RolledBack(f), fiber[f].id)
      BY <1>1, RolledBackLetsGo
    <2>2. p.id \in Target \cup {None} /\ a.id \in Target \cup {None}
      BY Constants
    <2>3. PICK b \in [Target -> Id \cup {None, Absent, Gone}] : b = RolledBack(f)
      BY <2>1 DEF LetsGo
    <2>4. LetsGo(b, Released(b, a.id, fiber[f].id), fiber[f].id)
      BY <1>1, <2>2, ReleasedLetsGo
    <2>5. PICK c \in [Target -> Id \cup {None, Absent, Gone}] : c = Released(b, a.id, fiber[f].id)
      BY <2>4 DEF LetsGo
    <2>6. LetsGo(c, Released(c, p.id, fiber[f].id), fiber[f].id)
      BY <1>1, <2>2, ReleasedLetsGo
    <2>7. owner' = Released(c, p.id, fiber[f].id)
      BY <1>5, <2>3, <2>5
    <2>8. LetsGo(owner, c, fiber[f].id)
      BY <1>1, <2>1, <2>3, <2>4, <2>5, LetsGoOn
    <2> QED BY <1>1, <2>6, <2>7, <2>8, LetsGoOn
  <1>9. reservation' = None
    <2>1. CASE Adopts(f)
      BY <2>1, Adopting
    <2>2. CASE ~ Adopts(f)
      <3>1. reservation = None
        BY <2>2, NoneAdopts
      <3> QED BY <3>1
    <2> QED BY <2>1, <2>2
  <1>10. /\ SessionsOK' /\ session'[o].target = NoTarget /\ \A q \in Session : q # o => session'[q] = session[q]
    BY <1>1, <1>5, Constants DEF SessionsOK
  <1>11. /\ Stored /\ StoreOK' /\ queue' = queue /\ UNCHANGED <<attaching, admission, queue, disk, lastWrite, failures, drained>>
    BY <1>1, SameStore
  <1>12. TypeOK' /\ OneEach'
    BY <1>1, <1>6, <1>7, <1>8, <1>9, <1>10, <1>11 DEF TypeOK, FibersOK, RegistryOK, RestOK, OneEach, LetsGo
  <1>13. fiber'[f].pc \in {"cleanupPrevious", "cleanupClose"} /\ (fiber'[f].pc = "cleanupPrevious" => left)
    BY <1>6
  <1>14. left => p \in Owned /\ p.id \in Target
    BY Constants
  <1>15. WorkOK(f)'
    <2>1. \A g \in Fiber : fiber'[g].obj = fiber[f].obj => fiber'[g].id = fiber[f].id
      BY <1>1, <1>6 DEF Others, WorkOK
    <2>2. fiber[f].target \in Target /\ adoptPermit = f
      BY <1>1 DEF WorkOK
    <2>3. fiber'[f].pc \in Pcs(fiber'[f].op)
      BY <1>6, <1>13 DEF Pcs
    <2> HIDE DEF left, next
    <2> QED BY <1>1, <1>6, <1>7, <1>13, <1>14, <2>1, <2>2, <2>3 DEF WorkOK
  <1> HIDE DEF next
  <1>16. StructKeeps(f)
    <2>1. KeepsPermits(f)
      BY <1>7, Constants DEF KeepsPermits
    <2>2. Binds(f) /\ WakesOne(f) /\ QueuesOne(f)
      BY <1>1, <1>6, <1>11, <1>13 DEF Binds, WorkOK, WakesOne, QueuesOne, Awaits
    <2> QED BY <1>6, <1>11, <1>12, <1>15, <2>1, <2>2 DEF StructKeeps
  <1>17. ~ Adopts(f)' /\ ~ Removes(f)' /\ ~ Stays(f)'
    BY <1>13 DEF Adopts, Removes, Stays
  <1>18. Dirty(f)' \/ Catalog' = Catalog
    <2>1. Registered(f)'
      BY <1>6 DEF Registered
    <2>2. CASE ~ left
      <3>1. fiber'[f].pc = "cleanupClose"
        BY <1>13, <2>2
      <3> QED BY <2>1, <3>1 DEF Dirty
    <2>3. CASE left /\ a.id # None
      <3>1. fiber[f].pc # "permit"
        BY <1>1, <1>2, <2>3, Constants DEF WorkOK
      <3>2. Adopts(f)
        BY <3>1 DEF Adopts
      <3>3. owner[p.id] = Gone
        BY <1>1, <1>2, <1>3, <2>3, <3>2 DEF PreviousInv, PreviousOK
      <3>4. owner'[p.id] = Gone
        BY <1>1, <1>8, <1>14, <2>3, <3>3, Constants DEF LetsGo
      <3>5. fiber'[f].pc = "cleanupPrevious"
        BY <1>6, <2>3 DEF next
      <3> QED BY <1>6, <2>1, <3>4, <3>5 DEF Dirty
    <2>4. CASE left /\ a.id = None
      <3>1. a = NoTarget
        BY <2>4, Constants
      <3>2. session'[o].target = session[o].target
        BY <1>3, <1>4, <1>10, <3>1 DEF TargetOf
      <3>3. SameTargets
        BY <1>1, <1>10, <3>2 DEF SameTargets, SessionsOK
      <3> QED BY <3>3, SameCatalog
    <2> QED BY <2>2, <2>3, <2>4
  <1>19. \A u \in Target : owner'[u] # owner[u] => owner[u] = fiber[f].id /\ owner'[u] = None
    BY <1>8 DEF LetsGo
  <1>20. session'[fiber[f].obj].target = NoTarget /\ \A q \in Session : q # fiber[f].obj => session'[q] = session[q]
    BY <1>4, <1>10
  <1> QED BY <1>9, <1>11, <1>16, <1>17, <1>18, <1>19, <1>20, AdoptionEnds

(* An adoption fails.                                                       *)
LEMMA FailAdoptKeeps ==
  ASSUME Inv, NEW f \in Fiber, FailAdopt(f), fiber[f].op = "adopt", fiber[f].pc \in {"permit", "page", "closePrevious", "flush"},
         executePermit[fiber[f].obj] \in {None, f}, starting' = None, ~ Awaits(f), UNCHANGED <<admission, events>>
  PROVE  Inv'
  <1>1. ReservationInv /\ (HoldsReservation(f) <=> Adopts(f))
    BY DEF Inv, SavesInv, ReservationInv, HoldsReservation
  <1>2. CASE Registered(f) /\ (fiber[f].created \/ HoldsReservation(f))
    BY <1>2, RelinquishKeeps DEF FailAdopt
  <1>3. CASE ~ Registered(f) /\ Adopts(f)
    <2>1. Finish(f) /\ reservation' = None /\ owner' = RolledBack(f)
          /\ UNCHANGED <<sessions, session, attaching, admission, events>> /\ UNCHANGED storeVars
      BY <1>1, <1>3 DEF FailAdopt
    <2>2. LetsGo(owner, owner', fiber[f].id)
      BY <1>3, <2>1, Adopting, RolledBackLetsGo
    <2>3. failures # 0
      BY <1>3 DEF Inv, PointInv, RegisteredInv, Stays
    <2> QED BY <1>3, <2>1, <2>2, <2>3, FinishAdoptKeeps DEF LetsGo
  <1>4. CASE ~ (Registered(f) /\ (fiber[f].created \/ HoldsReservation(f))) /\ ~ Adopts(f)
    <2>1. Finish(f) /\ UNCHANGED <<sessions, session, registryVars, admission, storeVars, events>>
      BY <1>1, <1>4 DEF FailAdopt, RolledBack, registryVars
    <2>2. ~ Dirty(f)
      BY DEF Dirty
    <2> QED BY <1>4, <2>1, <2>2, FinishCalm
  <1> QED BY <1>1, <1>2, <1>3, <1>4

(* An adoption is refused before it reserves.                               *)
LEMMA RefuseAdoptKeeps == ASSUME Inv, NEW f \in Fiber, RefuseAdopt(f) PROVE Inv'
  <1>1. /\ FailAdopt(f) /\ fiber[f].op = "adopt" /\ fiber[f].pc = "permit" /\ executePermit[fiber[f].obj] = None
        /\ starting' = None /\ UNCHANGED <<admission, events>>
    BY DEF RefuseAdopt
  <1> QED BY <1>1, FailAdoptKeeps DEF Awaits

(* The page of an adoption fails.                                           *)
LEMMA FailPageKeeps == ASSUME Inv, NEW f \in Fiber, FailPage(f) PROVE Inv'
  <1>1. /\ FailAdopt(f) /\ fiber[f].pc \in {"page", "closePrevious"} /\ starting' = None /\ UNCHANGED <<admission, events>>
    BY DEF FailPage, Quiet
  <1>2. fiber[f].op = "adopt" /\ WorkOK(f)
    BY <1>1, Busy DEF Inv, Pcs, Op
  <1>3. executePermit[fiber[f].obj] = f
    BY <1>1, <1>2 DEF WorkOK, Holding
  <1> QED BY <1>1, <1>2, <1>3, FailAdoptKeeps DEF Awaits

(* A fiber resumes from its write.                                          *)
LEMMA ResumeKeeps == ASSUME Inv, NEW f \in Fiber, Resume(f) PROVE Inv'
  <1>1. /\ fiber[f].woken # "no" /\ fiber[f].pc \in {"flush", "reflush"}
        /\ UNCHANGED <<starting, admission, events>>
    BY DEF Resume
  <1>2. Struct /\ WorkOK(f) /\ WokenInv /\ fiber[f].op \in Op
    BY <1>1, Busy DEF Inv, Struct
  <1>3. starting' = None /\ ~ Awaits(f)
    BY <1>1, <1>2 DEF WokenInv, Awaits
  <1>4. fiber[f].op = "adopt" => executePermit[fiber[f].obj] = f
    BY <1>1, <1>2 DEF WorkOK, Holding
  <1>5. CASE CompleteRemoval(f) /\ fiber[f].pc = "flush"
    BY <1>1, <1>5, CompleteRemovalKeeps
  <1>6. CASE CommitAdopt(f) /\ fiber[f].pc = "flush"
    BY <1>1, <1>6, CommitAdoptKeeps
  <1>7. CASE fiber[f].op = "adopt" /\ FailAdopt(f) /\ fiber[f].pc = "flush"
    BY <1>1, <1>3, <1>4, <1>7, FailAdoptKeeps
  <1>8. CASE DropCreated(f) /\ fiber[f].pc = "flush" /\ fiber[f].woken = "failed"
    BY <1>1, <1>8, DropCreatedKeeps
  <1>9. CASE CleanupCreated(f) /\ fiber[f].pc = "flush"
    BY <1>1, <1>3, <1>9, CleanupCreatedKeeps
  <1>10. CASE RestoreRemoved(f) /\ fiber[f].pc = "flush" /\ fiber[f].woken = "failed"
    BY <1>1, <1>10, RestoreRemovedKeeps
  <1>11. CASE /\ fiber[f].pc = "reflush" \/ (fiber[f].pc = "flush" /\ fiber[f].op \in {"create", "execute"})
              /\ Finish(f) /\ UNCHANGED <<sessions, session, registryVars, storeVars>>
    BY <1>1, <1>11, ResumeReflushKeeps
  <1> QED BY <1>5, <1>6, <1>7, <1>8, <1>9, <1>10, <1>11 DEF Resume, ResumeFlushed, ResumeUnflushed

-----------------------------------------------------------------------------
(* Drain and close. *)
(* Nothing accepted and nothing scheduled: every operation is over, and the *)
(* chain of writes is empty.                                                *)
LEMMA NoWork ==
  ASSUME TypeOK, PendingWork = 0
  PROVE  queue = <<>> /\ \A f \in Fiber : fiber[f].pc = "idle"
  <1> DEFINE busy == {f \in Fiber : fiber[f].pc # "idle"}
  <1>1. IsFiniteSet(busy)
    BY LifecycleAssumption, FS_Subset
  <1>2. Cardinality(busy) \in Nat /\ (Cardinality(busy) = 0 => busy = {})
    BY <1>1, FS_CardinalityType, FS_EmptySet
  <1>3. queue \in Seq(Write) /\ Len(queue) \in Nat
    BY LenProperties DEF TypeOK, StoreOK
  <1>4. Cardinality(busy) + Len(queue) = 0
    BY DEF PendingWork
  <1>5. Cardinality(busy) = 0 /\ Len(queue) = 0
    BY <1>2, <1>3, <1>4
  <1> QED BY <1>2, <1>3, <1>5, EmptySeq

(* Only admission and the end of the drain change.                          *)
LEMMA AdmissionStep ==
  ASSUME Inv, UNCHANGED <<sessions, session, fiber, permitVars, starting, registryVars, queue, disk, lastWrite, failures, events>>,
         admission' \in {"open", "draining", "closed", "stopped"}, drained' \in BOOLEAN,
         admission = "stopped" => admission' = "stopped", drained' => queue = <<>> /\ lastWrite = "ok"
  PROVE  Inv'
  <1> USE DEF permitVars, registryVars
  <1>1. Struct'
    BY DEF Inv, Struct, TypeOK, SessionsOK, FibersOK, RegistryOK, StoreOK, RestOK, WorkInv, WorkOK, OneEach,
           WokenInv, QueueInv, Waits, Awaits, FailInv
  <1>2. RemovedInv' /\ AttachInv' /\ PreviousInv' /\ ReservationInv'
    BY DEF Inv, SavesInv, RemovedInv, Removes, AttachInv, PreviousInv, PreviousOK, Adopts, TargetOf, ReservationInv, HoldsReservation
  <1>3. DurableInv'
    BY DEF Inv, SavesInv, DurableInv, Saved, Catalog, Dirty, Registered
  <1>4. failures' = failures /\ (PointInv => PointInv')
    BY DEF PointInv, RegisteredInv, Stays, Adopts, Registered, UniqueInv, Points, OwnerInv, Withdraws, Commits, MayCommit,
           HoldsReservation, StillReserved, AttachOwnerInv, AdoptInv, AdoptOK, TargetOf, OrderInv, Removes, Waits,
           RemovalInv, WritesInv
  <1> QED BY <1>1, <1>2, <1>3, <1>4 DEF Inv, SavesInv

(* The sessions are forgotten.                                              *)
LEMMA CloseAllKeeps == ASSUME Inv, CloseAll PROVE Inv'
  <1> USE DEF CloseAll, ForgetSessions, permitVars, registryVars, storeVars
  <1>1. Struct /\ TypeOK /\ queue = <<>> /\ \A f \in Fiber : fiber[f].pc = "idle"
    BY NoWork DEF Inv, Struct
  <1>2. \A f \in Fiber : fiber[f] = IdleFiber
    BY <1>1 DEF Struct, WorkInv, WorkOK
  <1>3. fiber' = fiber /\ queue' = <<>> /\ \A id \in Id : sessions'[id] = None
    BY <1>1
  <1>4. TypeOK'
    BY <1>1 DEF TypeOK, SessionsOK, FibersOK, RegistryOK, StoreOK, RestOK
  <1>5. WorkInv' /\ OneEach' /\ WokenInv' /\ QueueInv' /\ FailInv'
    BY <1>1, <1>2, <1>3 DEF Struct, WorkInv, WorkOK, OneEach, WokenInv, QueueInv, Waits, Awaits, FailInv
  <1>6. \A f \in Fiber : ~ Removes(f)' /\ ~ Adopts(f)' /\ ~ Stays(f)' /\ ~ Commits(f)' /\ ~ Adopts(f)
    BY <1>1, <1>3 DEF Removes, Adopts, Stays, Commits
  <1>7. reservation' = None
    <2>1. reservation = None
      BY <1>1, <1>6 DEF Inv, SavesInv, ReservationInv, TypeOK, RegistryOK, Reservation
    <2> QED BY <2>1
  <1>8. RemovedInv' /\ AttachInv' /\ PreviousInv' /\ ReservationInv'
    BY <1>6, <1>7 DEF Inv, SavesInv, RemovedInv, AttachInv, PreviousInv, PreviousOK, ReservationInv
  <1>9. DurableInv'
    BY DEF Inv, SavesInv, DurableInv
  <1>10. \A id \in Id, t \in Target : ~ Points(id, t)'
    BY <1>3 DEF Points
  <1>11. failures' = failures /\ (PointInv => PointInv')
    BY <1>1, <1>6, <1>10 DEF PointInv, RegisteredInv, UniqueInv, OwnerInv, AttachOwnerInv, AdoptInv, AdoptOK, OrderInv,
                             RemovalInv, WritesInv
  <1> QED BY <1>4, <1>5, <1>8, <1>9, <1>11 DEF Inv, SavesInv, Struct

(* Nothing changes.                                                         *)
LEMMA StutterKeeps == ASSUME Inv, UNCHANGED vars PROVE Inv'
  BY AdmissionStep DEF vars, storeVars, Inv, Struct, SavesInv, TypeOK, StoreOK, RestOK, DurableInv

(* The drain and the close.                                                 *)
LEMMA DrainKeeps == ASSUME Inv, Drain PROVE Inv'
  <1>1. TypeOK /\ DurableInv /\ drained \in BOOLEAN
    BY DEF Inv, Struct, SavesInv, TypeOK, StoreOK
  <1>2. CASE BeginDrain \/ ResumeAdmission \/ CloseAdmission
    BY <1>1, <1>2, AdmissionStep DEF BeginDrain, ResumeAdmission, CloseAdmission, DurableInv, storeVars
  <1>3. CASE FinishDrain
    <2>1. queue = <<>> /\ lastWrite = "ok" /\ admission \in {"draining", "closed"}
      BY <1>1, <1>3, NoWork DEF FinishDrain, WritesAreDone
    <2> QED BY <1>3, <2>1, AdmissionStep DEF FinishDrain
  <1> QED BY <1>2, <1>3, CloseAllKeeps, StutterKeeps DEF Drain, Stopped

-----------------------------------------------------------------------------
(* A start: every session of the file gets an object that points where the  *)
(* file says, so nothing is left to save and no two of them point alike.    *)
LEMMA InitInv == ASSUME Init PROVE Inv
  <1>1. PICK place \in [Id -> Session] :
          /\ \A i, j \in Id : i # j => place[i] # place[j]
          /\ sessions = [id \in Id |-> IF disk[id] = Absent THEN None ELSE place[id]]
          /\ session = [o \in Session |->
               [target |-> IF \E id \in Id : sessions[id] = o
                           THEN disk[CHOOSE id \in Id : sessions[id] = o] ELSE NoTarget,
                closed |-> ~ \E id \in Id : sessions[id] = o]]
    BY DEF Init
  <1>2. disk \in Catalogs /\ disk \in Entry /\ \A id \in Id : disk[id] # Absent => disk[id] \in Place
    BY DEF Init, Catalogs, Entry, Place
  <1>3. \A i, j \in Id : sessions[i] # None /\ sessions[i] = sessions[j] => i = j
    BY <1>1
  <1>4. \A id \in Id : sessions[id] # None => disk[id] \in Place /\ sessions[id] \in Session
    BY <1>1, <1>2
  <1>5. \A id \in Id : sessions[id] # None => session[sessions[id]].target = disk[id]
    <2> SUFFICES ASSUME NEW id \in Id, sessions[id] # None PROVE session[sessions[id]].target = disk[id]
      OBVIOUS
    <2>1. (CHOOSE i \in Id : sessions[i] = sessions[id]) = id
      BY <1>3
    <2> QED BY <1>1, <1>4, <2>1
  <1>6. SessionsOK
    <2>1. sessions \in [Id -> Session \cup {None}]
      BY <1>1
    <2>2. ASSUME NEW o \in Session
          PROVE (IF \E id \in Id : sessions[id] = o THEN disk[CHOOSE id \in Id : sessions[id] = o] ELSE NoTarget) \in Place
      BY <1>4, Constants
    <2>3. session \in [Session -> [target : Place, closed : BOOLEAN]]
      BY <1>1, <2>2
    <2> QED BY <2>1, <2>3 DEF SessionsOK
  <1>7. /\ fiber = [f \in Fiber |-> IdleFiber] /\ \A f \in Fiber : fiber[f] = IdleFiber
        /\ queue = <<>> /\ Len(queue) = 0 /\ 1..Len(queue) = {} /\ failures = 0 /\ lastWrite = "ok" /\ drained = FALSE
        /\ reservation = None /\ \A t \in Target : owner[t] = Absent /\ attaching[t] = Absent
    BY DEF Init
  <1>8. TypeOK
    <2>1. FibersOK
      BY <1>7, Constants DEF Init, FibersOK
    <2>2. RegistryOK
      BY DEF Init, RegistryOK
    <2>3. queue \in Seq(Write) /\ failures \in 0..MaxFailures /\ events \in 0..MaxEvents
      BY <1>7, LifecycleAssumption DEF Init
    <2>4. StoreOK /\ RestOK
      BY <1>2, <1>7, <2>3 DEF Init, StoreOK, RestOK
    <2> QED BY <1>6, <2>1, <2>2, <2>4 DEF TypeOK
  <1>9. Struct
    BY <1>3, <1>7, <1>8 DEF Struct, WorkInv, WorkOK, IdleFiber, OneEach, WokenInv, QueueInv, Waits, Awaits, FailInv
  <1>10. Catalog = disk
    BY <1>1, <1>2, <1>4, <1>5, Constants DEF Catalog, Entry
  <1>11. \A f \in Fiber : ~ Removes(f) /\ ~ Adopts(f) /\ ~ Stays(f) /\ ~ Commits(f)
    BY <1>7 DEF Removes, Adopts, Stays, Commits, IdleFiber
  <1>12. SavesInv
    BY <1>7, <1>10, <1>11 DEF SavesInv, RemovedInv, AttachInv, PreviousInv, PreviousOK, DurableInv, Saved, ReservationInv
  <1>13. UniqueInv
    <2>1. \A i \in Id, t \in Target : Points(i, t) => disk[i] \in Owned /\ disk[i].id = t
      BY <1>4, <1>5, Constants DEF Points
    <2> QED BY <1>2, <2>1 DEF UniqueInv, Catalogs
  <1>14. PointInv
    BY <1>2, <1>7, <1>11, <1>13 DEF PointInv, RegisteredInv, OwnerInv, AttachOwnerInv, AdoptInv, AdoptOK, OrderInv,
                                    RemovalInv, WritesInv
  <1> QED BY <1>9, <1>12, <1>14 DEF Inv

(* Every step keeps the invariant.                                          *)
LEMMA NextKeeps == ASSUME Inv, [Next]_vars PROVE Inv'
  <1>1. ASSUME NEW f \in Fiber, Step(f) PROVE Inv'
    BY <1>1, TakeAdoptPermitKeeps, FindInactiveKeeps, StartExecuteKeeps, FinishScriptKeeps, FailSetupKeeps,
       OpenRelayPageKeeps, StartRemovalKeeps, RelayPageClosedKeeps, RemoveAfterCloseKeeps, FailClosingKeeps,
       StartAdoptKeeps, RefuseAdoptKeeps, AdoptPageKeeps, ClosePreviousKeeps, PointAfterCloseKeeps, FailPageKeeps,
       CleanupPreviousKeeps, CleanupCloseKeeps, ResumeKeeps DEF Step
  <1>2. ASSUME NEW f \in Fiber, Caller(f) PROVE Inv'
    BY <1>2, AdmitKeeps, GiveUpWaitingKeeps, CancelAdoptKeeps DEF Caller
  <1>3. CASE Extension
    BY <1>3, BeginAttachKeeps, CommitAttachKeeps, DetachTargetKeeps, ReplaceTargetKeeps, LoseExtensionKeeps DEF Extension
  <1> QED BY <1>1, <1>2, <1>3, StoreKeeps, DrainKeeps, StutterKeeps DEF Next

-----------------------------------------------------------------------------
(* The invariant holds in every state (session-manager.ts: each operation   *)
(* between two of its awaits).                                              *)
THEOREM SessionsKeepInv == Spec => []Inv
  BY InitInv, NextKeeps, PTL DEF Spec

(* The state of the sessions, their operations, the registry and the store  *)
(* is of its type.                                                          *)
THEOREM SessionsAreTyped == Spec => []TypeOK
  <1>1. Inv => TypeOK
    BY DEF Inv, Struct
  <1> QED BY <1>1, SessionsKeepInv, PTL

(* When a drain is complete the file has the sessions of the relay, and     *)
(* with no work left a session owns the target it points at (drain and      *)
(* restore of session-manager.ts), for any number of sessions, targets,     *)
(* operations and events.                                                   *)
THEOREM SettledSessionsAlwaysAgree == Spec => []SettledSessionsAgree
  <1>1. ASSUME Inv, PendingWork = 0
        PROVE  queue = <<>> /\ \A f \in Fiber : ~ Dirty(f) /\ ~ Commits(f)
    BY <1>1, NoWork DEF Inv, Struct, Dirty, Commits
  <1>2. Inv => DrainedIsDurable
    BY <1>1 DEF Inv, SavesInv, DurableInv, Saved, IsDrained, DrainedIsDurable
  <1>3. ASSUME Inv, failures = 0, PendingWork = 0, NEW id \in Id, sessions[id] # None,
               session[sessions[id]].target.id # None
        PROVE  owner[session[sessions[id]].target.id] \in {id, Absent, Gone}
    <2>1. ~ Withdraws(id) /\ OwnerInv
      BY <1>1, <1>3 DEF Withdraws, Inv, PointInv
    <2>2. session[sessions[id]].target.id \in Target
      BY <1>3, Constants DEF Inv, Struct, TypeOK, SessionsOK
    <2>3. Points(id, session[sessions[id]].target.id)
      BY <1>3 DEF Points
    <2> QED BY <2>1, <2>2, <2>3 DEF OwnerInv
  <1>4. Inv => PointerIsOwned
    BY <1>3 DEF PointerIsOwned
  <1>5. Inv => SettledSessionsAgree
    BY <1>2, <1>4 DEF SettledSessionsAgree
  <1> QED BY <1>5, SessionsKeepInv, PTL

(* Until a catalog write fails, the file that a start would restore never   *)
(* names one target for two sessions (restore rejects such a file),         *)
(* whatever operations, detaches, replacements and attaches interleave and  *)
(* whenever the relay dies.                                                 *)
THEOREM CatalogStaysRestorable == Spec => [](failures = 0 => CatalogIsRestorable)
  <1>1. Inv => (failures = 0 => CatalogIsRestorable)
    BY DEF Inv, PointInv, WritesInv, CatalogIsRestorable
  <1> QED BY <1>1, SessionsKeepInv, PTL
=============================================================================
