---------------------------- MODULE TargetRegistry ----------------------------
(***************************************************************************)
(* TargetRegistry (src/target-registry.ts): the relay's tables of root and *)
(* child targets.  A root generation is one debugger session of one page   *)
(* (`bc-tab-N`).  A new generation of a tab is first staged, which routes  *)
(* events to it, and becomes authoritative when it is committed; ownership *)
(* by a BrowserRig session survives that replacement, a provisional        *)
(* adoption does not.                                                      *)
(*                                                                         *)
(* Every JavaScript Map is a total function whose absent keys map to None. *)
(* Urls, titles, frame payloads and the relay/user kind of a root are left *)
(* out.  childSessionTabs is set and deleted together with childTargets    *)
(* and is the field `tab` here.                                            *)
(***************************************************************************)
EXTENDS Naturals

CONSTANTS Tab, TargetId, BrSession, ChildSession, ChildTargetId,
          HomeTab,        \* [TargetId -> Tab]: Chrome's target id names one page, of one tab
          MaxGeneration,  \* bound on nextTargetSessionId
          None

ASSUME RegistryAssumption ==
  /\ HomeTab \in [TargetId -> Tab]
  /\ MaxGeneration \in Nat
  /\ None \notin Tab \cup TargetId \cup BrSession \cup ChildSession \cup ChildTargetId
  /\ ChildSession \cap Nat = {}

Generation == 1..MaxGeneration

VARIABLES
  tabTargets,         \* committed root by tab
  targets,            \* committed root by CDP session
  targetsByTargetId,  \* committed root by Chrome target id
  stagedRootTargets,  \* root being prepared, by tab
  pendingOwnershipReservations,  \* provisional adoption by target id
  childTargets,           \* child by its CDP session
  childTargetsByTargetId, \* child session by its target id
  tabFrameEvents,     \* generation whose frame events are stored for a tab
  nextTargetSessionId,
  adoption            \* the reservation held by the adoption in flight

rootVars == <<tabTargets, targets, targetsByTargetId>>
childVars == <<childTargets, childTargetsByTargetId>>
vars == <<rootVars, stagedRootTargets, pendingOwnershipReservations, childVars,
          tabFrameEvents, nextTargetSessionId, adoption>>

Root == [tab : Tab, session : Generation, id : TargetId,
         browserRigSession : BrSession \cup {None}, crashed : BOOLEAN]
Child == [tab : Tab, parent : Generation \cup ChildSession, id : ChildTargetId]
Reservation == [id : TargetId, targetSession : Generation, session : BrSession,
                previous : BrSession \cup {None}]
(* adoptSemaphore of src/session-manager.ts admits one adoption at a time:  *)
(* it holds a reservation until it commits or fails, and a cancelled one   *)
(* never commits.                                                          *)
Adoption == [state : {"reserved", "cancelled"}, reservation : Reservation]

(* An absent record is no record; a claim is one of TargetOwnership.        *)
Claim == [gen : Generation, session : BrSession]
ASSUME AbsenceAssumption == None \notin Root \cup Reservation \cup Adoption \cup Claim

Without(f, K) == [k \in DOMAIN f |-> IF k \in K THEN None ELSE f[k]]

-----------------------------------------------------------------------------
(* The subtree hanging below the sessions in S: those children that every  *)
(* set closed under "is a child of" and reaching S must contain.           *)
Below(kids, S) ==
  {c \in ChildSession : kids[c] # None /\
     \A T \in SUBSET ChildSession :
        (\A k \in ChildSession : kids[k] # None /\ kids[k].parent \in S \cup T => k \in T)
          => c \in T}

ChildrenOf(kids, tab) == {c \in ChildSession : kids[c] # None /\ kids[c].tab = tab}
OnTab(kids, tab) == [c \in ChildSession |-> IF c \in ChildrenOf(kids, tab) THEN kids[c] ELSE None]

(* detachChildTargetState removes the session and, recursively, whatever    *)
(* names it as parent.                                                     *)
DetachedWith(S) == S \cup Below(childTargets, S)

RemoveChildren(gone) ==
  /\ childTargets' = Without(childTargets, gone)
  /\ childTargetsByTargetId' = [i \in ChildTargetId |->
       IF childTargetsByTargetId[i] \in gone THEN None ELSE childTargetsByTargetId[i]]

(* Children of a tab that a commit keeps: the whole subtree of the staged  *)
(* root session.                                                           *)
PreserveDirectChildren(tab, session) ==
  {c \in ChildrenOf(childTargets, tab) : childTargets[c].parent = session}   \* variant
PreservedChildren(tab, session) == Below(OnTab(childTargets, tab), {session})

-----------------------------------------------------------------------------
RoutingRoot(tab) == IF stagedRootTargets[tab] # None THEN stagedRootTargets[tab] ELSE tabTargets[tab]

(* The owner a new generation takes over: the one before the provisional   *)
(* adoption, if there is one.                                              *)
InheritProvisional(existing) == existing.browserRigSession   \* variant
InheritedSession(existing) ==
  LET pending == pendingOwnershipReservations[existing.id]
  IN  IF pending # None THEN pending.previous ELSE existing.browserRigSession

Successor(existing, t) ==
  [t EXCEPT !.browserRigSession = InheritedSession(existing)]

(* addRootTarget of the generation the tab already has: the three indexes  *)
(* get the new record.                                                     *)
UpdateTabIndexOnly(t) ==   \* variant: a stale record stays behind
  /\ tabTargets' = [tabTargets EXCEPT ![t.tab] = t]
  /\ UNCHANGED <<targets, targetsByTargetId>>
UpdateRoot(t) ==
  /\ tabTargets' = [tabTargets EXCEPT ![t.tab] = t]
  /\ targets' = [targets EXCEPT ![t.session] = t]
  /\ targetsByTargetId' = [targetsByTargetId EXCEPT ![t.id] = t]

(* addRootTarget of a generation the tab does not have yet: what the tab   *)
(* had goes, and so does a root of another tab with the same target id.    *)
InsertRoot(t) ==
  LET existing == tabTargets[t.tab]
      clash == targetsByTargetId[t.id]
      gone == {r \in {existing, clash} : r # None}
  IN  /\ tabTargets' = [Without(tabTargets, {r.tab : r \in gone}) EXCEPT ![t.tab] = t]
      /\ targets' = [Without(targets, {r.session : r \in gone}) EXCEPT ![t.session] = t]
      /\ targetsByTargetId' = [Without(targetsByTargetId, {r.id : r \in gone}) EXCEPT ![t.id] = t]

-----------------------------------------------------------------------------
(* Staging and committing a generation (attachTabUnlocked and              *)
(* finishAttachedTarget of src/relay.ts call these).                       *)
Stage(tab, t) ==
  /\ stagedRootTargets' = [stagedRootTargets EXCEPT ![tab] = t]
  /\ tabFrameEvents' = [tabFrameEvents EXCEPT ![tab] = None]

StageRootTarget(tab, id, s) ==
  LET t == [tab |-> tab, session |-> nextTargetSessionId, id |-> id,
            browserRigSession |-> s, crashed |-> FALSE]
      existing == tabTargets[tab]
  IN  /\ nextTargetSessionId <= MaxGeneration
      /\ HomeTab[id] = tab
      /\ nextTargetSessionId' = nextTargetSessionId + 1
      /\ Stage(tab, IF existing = None THEN t ELSE Successor(existing, t))
      /\ UNCHANGED <<rootVars, pendingOwnershipReservations, childVars, adoption>>

CommitFirst(tab) ==
  /\ tabTargets[tab] = None
  /\ InsertRoot(stagedRootTargets[tab])
  /\ UNCHANGED <<pendingOwnershipReservations, childVars>>

CommitReplacement(tab) ==
  LET existing == tabTargets[tab]
      t == stagedRootTargets[tab]
  IN  /\ existing # None
      /\ InsertRoot(Successor(existing, t))
      /\ pendingOwnershipReservations' = Without(pendingOwnershipReservations, {existing.id})
      /\ RemoveChildren(DetachedWith(
           ChildrenOf(childTargets, tab) \ PreservedChildren(tab, t.session)))

CommitStagedRootTarget(tab) ==
  /\ stagedRootTargets[tab] # None
  /\ stagedRootTargets' = [stagedRootTargets EXCEPT ![tab] = None]
  /\ CommitFirst(tab) \/ CommitReplacement(tab)
  /\ UNCHANGED <<tabFrameEvents, nextTargetSessionId, adoption>>

(* detachRootTargetState: without a committed root only the staged one is  *)
(* dropped.                                                                *)
DetachStagedOnly(tab) ==
  /\ tabTargets[tab] = None /\ stagedRootTargets[tab] # None
  /\ stagedRootTargets' = [stagedRootTargets EXCEPT ![tab] = None]
  /\ UNCHANGED <<rootVars, pendingOwnershipReservations, childVars, tabFrameEvents,
                 nextTargetSessionId, adoption>>

DetachRootTarget(tab) ==
  LET r == tabTargets[tab]
  IN  /\ r # None
      /\ stagedRootTargets' = [stagedRootTargets EXCEPT ![tab] = None]
      /\ tabTargets' = [tabTargets EXCEPT ![tab] = None]
      /\ targets' = [targets EXCEPT ![r.session] = None]
      /\ targetsByTargetId' = [targetsByTargetId EXCEPT ![r.id] = None]
      /\ pendingOwnershipReservations' = [pendingOwnershipReservations EXCEPT ![r.id] = None]
      /\ tabFrameEvents' = [tabFrameEvents EXCEPT ![tab] = None]
      /\ RemoveChildren(DetachedWith(ChildrenOf(childTargets, tab)))
      /\ UNCHANGED <<nextTargetSessionId, adoption>>

(* clear: the extension connection was replaced.                           *)
Clear ==
  /\ tabTargets' = [t \in Tab |-> None]
  /\ targets' = [g \in Generation |-> None]
  /\ targetsByTargetId' = [i \in TargetId |-> None]
  /\ stagedRootTargets' = [t \in Tab |-> None]
  /\ pendingOwnershipReservations' = [i \in TargetId |-> None]
  /\ childTargets' = [c \in ChildSession |-> None]
  /\ childTargetsByTargetId' = [i \in ChildTargetId |-> None]
  /\ tabFrameEvents' = [t \in Tab |-> None]
  /\ UNCHANGED <<nextTargetSessionId, adoption>>

-----------------------------------------------------------------------------
(* Facts the extension reports about a routed root.                        *)
UpdateRoutingRoot(tab, t) ==
  IF stagedRootTargets[tab] # None
  THEN /\ stagedRootTargets' = [stagedRootTargets EXCEPT ![tab] = t]
       /\ UNCHANGED rootVars
  ELSE /\ UpdateRoot(t)
       /\ UNCHANGED stagedRootTargets

MarkRootTargetCrashed(tab) ==
  /\ RoutingRoot(tab) # None
  /\ UpdateRoutingRoot(tab, [RoutingRoot(tab) EXCEPT !.crashed = TRUE])
  /\ UNCHANGED <<pendingOwnershipReservations, childVars, tabFrameEvents, nextTargetSessionId, adoption>>

UpdateTargetUrl(tab) ==
  /\ RoutingRoot(tab) # None
  /\ UpdateRoutingRoot(tab, [RoutingRoot(tab) EXCEPT !.crashed = FALSE])
  /\ UNCHANGED <<pendingOwnershipReservations, childVars, tabFrameEvents, nextTargetSessionId, adoption>>

(* Frame events are stored only for a tab that routes (handleExtensionMessage). *)
RememberFrameEvent(tab) ==
  /\ RoutingRoot(tab) # None
  /\ tabFrameEvents' = [tabFrameEvents EXCEPT ![tab] = RoutingRoot(tab).session]
  /\ UNCHANGED <<rootVars, stagedRootTargets, pendingOwnershipReservations, childVars,
                 nextTargetSessionId, adoption>>

(* The sessions that a child attaching as c with target id displaces: c when *)
(* it had another id, and another session that had this id.                 *)
ChildConflicts(c, id) ==
  {k \in ChildSession :
     \/ k = c /\ childTargets[c] # None /\ childTargets[c].id # id
     \/ k # c /\ k = childTargetsByTargetId[id]}

(* Target.attachedToTarget on a routed tab.  The parent is the session the *)
(* event came from, which the registry may not know (a suppressed child),  *)
(* or the routing root.                                                    *)
AddChildTarget(tab, c, parent, id) ==
  LET gone == DetachedWith(ChildConflicts(c, id))
      kept == Without(childTargets, gone)
  IN  /\ RoutingRoot(tab) # None
      /\ parent \in ChildSession \cup {RoutingRoot(tab).session}
      /\ parent # c
      /\ childTargets' = [kept EXCEPT ![c] = [tab |-> tab, parent |-> parent, id |-> id]]
      /\ childTargetsByTargetId' = [i \in ChildTargetId |->
           IF i = id THEN c
           ELSE IF childTargetsByTargetId[i] \in gone THEN None ELSE childTargetsByTargetId[i]]
      /\ UNCHANGED <<rootVars, stagedRootTargets, pendingOwnershipReservations, tabFrameEvents,
                     nextTargetSessionId, adoption>>

(* A session the registry does not know (a suppressed child) may still be   *)
(* the parent of some it does.                                             *)
DetachChildTargetState(c) ==
  /\ RemoveChildren(DetachedWith({c}))
  /\ UNCHANGED <<rootVars, stagedRootTargets, pendingOwnershipReservations, tabFrameEvents,
                 nextTargetSessionId, adoption>>

-----------------------------------------------------------------------------
(* The ownership transaction of an adoption.                               *)
ReservationOf(r, s) ==
  [id |-> r.id, targetSession |-> r.session, session |-> s, previous |-> r.browserRigSession]

HoldOfNewOwner(res) ==   \* variant: the owner that adopts again is not held
  pendingOwnershipReservations' =
    [pendingOwnershipReservations EXCEPT ![res.id] = IF res.previous = None THEN res ELSE @]
HoldReservation(res) ==
  pendingOwnershipReservations' = [pendingOwnershipReservations EXCEPT ![res.id] = res]

ReserveTargetOwnership(id, s) ==
  LET r == targetsByTargetId[id]
      res == ReservationOf(r, s)
  IN  /\ adoption = None
      /\ r # None
      /\ r.browserRigSession \in {None, s}
      /\ UpdateRoot([r EXCEPT !.browserRigSession = s])
      /\ HoldReservation(res)
      /\ adoption' = [state |-> "reserved", reservation |-> res]
      /\ UNCHANGED <<stagedRootTargets, childVars, tabFrameEvents, nextTargetSessionId>>

(* The reservation still stands for the root it was made on.               *)
StillReserved(res) ==
  LET r == targetsByTargetId[res.id]
  IN  /\ r # None
      /\ r.session = res.targetSession
      /\ r.browserRigSession = res.session

SetOwner(id, s) == UpdateRoot([targetsByTargetId[id] EXCEPT !.browserRigSession = s])

RollbackTargetOwnership(res) ==
  /\ pendingOwnershipReservations' = [pendingOwnershipReservations EXCEPT ![res.id] = None]
  /\ IF StillReserved(res) THEN SetOwner(res.id, res.previous) ELSE UNCHANGED rootVars

(* A timeout or an interrupt rolls the reservation back while the adoption *)
(* still runs, and its failure path rolls back again.                      *)
CancelAdoption ==
  /\ adoption # None /\ adoption.state = "reserved"
  /\ RollbackTargetOwnership(adoption.reservation)
  /\ adoption' = [adoption EXCEPT !.state = "cancelled"]
  /\ UNCHANGED <<stagedRootTargets, childVars, tabFrameEvents, nextTargetSessionId>>

FailAdoption ==
  /\ adoption # None
  /\ RollbackTargetOwnership(adoption.reservation)
  /\ adoption' = None
  /\ UNCHANGED <<stagedRootTargets, childVars, tabFrameEvents, nextTargetSessionId>>

(* commitTargetOwnership; the target adopted before, if any, is released.  *)
Releases(id, s) == targetsByTargetId[id] # None /\ targetsByTargetId[id].browserRigSession = s

CommitTargetOwnership(previousId) ==
  LET res == adoption.reservation
  IN  /\ adoption # None /\ adoption.state = "reserved"
      /\ StillReserved(res)
      /\ pendingOwnershipReservations' = [pendingOwnershipReservations EXCEPT ![res.id] = None]
      /\ adoption' = None
      /\ IF previousId \notin {None, res.id} /\ Releases(previousId, res.session)
         THEN SetOwner(previousId, None)
         ELSE UNCHANGED rootVars
      /\ UNCHANGED <<stagedRootTargets, childVars, tabFrameEvents, nextTargetSessionId>>

(* A session gives its page up.  A deleted or reset session does so after   *)
(* its catalog write, when a new session of the same id may be adopting.    *)
ReleaseTargetOwnership(id, s) ==
  /\ Releases(id, s)
  /\ SetOwner(id, None)
  /\ UNCHANGED <<stagedRootTargets, pendingOwnershipReservations, childVars, tabFrameEvents,
                 nextTargetSessionId, adoption>>

-----------------------------------------------------------------------------
Init ==
  /\ tabTargets = [t \in Tab |-> None]
  /\ targets = [g \in Generation |-> None]
  /\ targetsByTargetId = [i \in TargetId |-> None]
  /\ stagedRootTargets = [t \in Tab |-> None]
  /\ pendingOwnershipReservations = [i \in TargetId |-> None]
  /\ childTargets = [c \in ChildSession |-> None]
  /\ childTargetsByTargetId = [i \in ChildTargetId |-> None]
  /\ tabFrameEvents = [t \in Tab |-> None]
  /\ nextTargetSessionId = 1
  /\ adoption = None

RootStep(tab) ==
  \/ \E id \in TargetId, s \in BrSession \cup {None} : StageRootTarget(tab, id, s)
  \/ CommitStagedRootTarget(tab)
  \/ DetachStagedOnly(tab)
  \/ DetachRootTarget(tab)
  \/ MarkRootTargetCrashed(tab)
  \/ UpdateTargetUrl(tab)
  \/ RememberFrameEvent(tab)

ChildStep(c) ==
  \/ \E tab \in Tab, p \in Generation \cup ChildSession, id \in ChildTargetId :
       AddChildTarget(tab, c, p, id)
  \/ DetachChildTargetState(c)

OwnershipStep ==
  \/ \E id \in TargetId, s \in BrSession :
       ReserveTargetOwnership(id, s) \/ ReleaseTargetOwnership(id, s)
  \/ CancelAdoption
  \/ FailAdoption
  \/ \E id \in TargetId \cup {None} : CommitTargetOwnership(id)

Next ==
  \/ \E tab \in Tab : RootStep(tab)
  \/ \E c \in ChildSession : ChildStep(c)
  \/ OwnershipStep
  \/ Clear

Spec == Init /\ [][Next]_vars
-----------------------------------------------------------------------------
TypeOK ==
  /\ tabTargets \in [Tab -> Root \cup {None}]
  /\ targets \in [Generation -> Root \cup {None}]
  /\ targetsByTargetId \in [TargetId -> Root \cup {None}]
  /\ stagedRootTargets \in [Tab -> Root \cup {None}]
  /\ pendingOwnershipReservations \in [TargetId -> Reservation \cup {None}]
  /\ childTargets \in [ChildSession -> Child \cup {None}]
  /\ childTargetsByTargetId \in [ChildTargetId -> ChildSession \cup {None}]
  /\ tabFrameEvents \in [Tab -> Generation \cup {None}]
  /\ nextTargetSessionId \in 1..(MaxGeneration + 1)
  /\ adoption \in Adoption \cup {None}

(* The three root indexes hold the same records: whoever looks a target up  *)
(* by tab, by CDP session or by Chrome id gets the same owner and the same  *)
(* generation, across replacements, adoptions and rollbacks.                *)
IndexesAgree ==
  /\ \A tab \in Tab : tabTargets[tab] # None =>
       LET r == tabTargets[tab]
       IN  r.tab = tab /\ targets[r.session] = r /\ targetsByTargetId[r.id] = r
  /\ \A g \in Generation : targets[g] # None =>
       targets[g].session = g /\ tabTargets[targets[g].tab] = targets[g]
  /\ \A id \in TargetId : targetsByTargetId[id] # None =>
       targetsByTargetId[id].id = id /\ tabTargets[targetsByTargetId[id].tab] = targetsByTargetId[id]

(* The stored reservation of a page is exactly the one the running adoption  *)
(* holds, for as long as the generation it was made on is registered: a      *)
(* replaced or detached page leaves none behind that a later generation      *)
(* would inherit, and a provisional owner always has one to go back to.      *)
IsRegistered(res) ==
  targetsByTargetId[res.id] # None /\ targetsByTargetId[res.id].session = res.targetSession

PendingIsTheReservation ==
  \A id \in TargetId :
    pendingOwnershipReservations[id] =
      IF /\ adoption # None /\ adoption.state = "reserved"
         /\ adoption.reservation.id = id /\ IsRegistered(adoption.reservation)
      THEN adoption.reservation ELSE None

(* Replacing a tab's root keeps every child below the new generation, at any *)
(* depth, and no other child of that tab.                                   *)
IsBelow(c, g) ==
  \E n \in 1..3 : \E chain \in [1..n -> ChildSession] :
    /\ chain[n] = c
    /\ \A i \in 1..n : childTargets[chain[i]] # None
    /\ childTargets[chain[1]].parent = g
    /\ \A i \in 2..n : childTargets[chain[i]].parent = chain[i - 1]

ReplacementKeepsStagedSubtree ==
  [][\A tab \in Tab :
       tabTargets[tab] # None /\ tabTargets'[tab] # None
         /\ tabTargets'[tab].session # tabTargets[tab].session
       => \A c \in ChildrenOf(childTargets, tab) :
            (childTargets'[c] # None) <=> IsBelow(c, tabTargets'[tab].session)]_vars

(* Ownership as a whole: the registry implements the promise of              *)
(* TargetOwnership.                                                          *)
LiveGenerations == {g \in Generation : targets[g] # None}

SettledOwner ==
  [g \in Generation |->
     IF targets[g] = None THEN None
     ELSE LET pending == pendingOwnershipReservations[targets[g].id]
          IN  IF pending # None THEN pending.previous ELSE targets[g].browserRigSession]

ClaimInFlight ==
  IF \E id \in TargetId : pendingOwnershipReservations[id] # None
  THEN LET id == CHOOSE i \in TargetId : pendingOwnershipReservations[i] # None
       IN  [gen |-> pendingOwnershipReservations[id].targetSession,
            session |-> pendingOwnershipReservations[id].session]
  ELSE None

Ownership == INSTANCE TargetOwnership
               WITH owner <- SettledOwner, live <- LiveGenerations, claim <- ClaimInFlight

ImplementsOwnership == Ownership!Spec
=============================================================================
