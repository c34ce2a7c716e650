------------------------ MODULE TargetRegistry_proofs ------------------------
(***************************************************************************)
(* Proofs about TargetRegistry for every set of tabs, targets, sessions    *)
(* and children: its types, the agreement of the three root indexes, the   *)
(* life of a reservation, and that it implements TargetOwnership, with the *)
(* lemmas on its operators they rest on.                                   *)
(***************************************************************************)
EXTENDS TargetRegistry, TLAPS

-----------------------------------------------------------------------------
(* The operators that build new tables keep their types.                    *)

(* Deleting keys keeps a table a table.                                     *)
LEMMA WithoutType ==
  ASSUME NEW D, NEW S, NEW f \in [D -> S \cup {None}], NEW K
  PROVE  Without(f, K) \in [D -> S \cup {None}]
  BY DEF Without

(* An owner taken over by a new generation is an owner, and nothing else of  *)
(* the new record changes.                                                  *)
LEMMA SuccessorType ==
  ASSUME TypeOK, NEW e \in Root, NEW t \in Root
  PROVE  /\ Successor(e, t) \in Root
         /\ Successor(e, t).tab = t.tab
         /\ Successor(e, t).session = t.session
         /\ Successor(e, t).id = t.id
  <1> DEFINE p == pendingOwnershipReservations[e.id]
  <1>1. p \in Reservation \cup {None}
    BY DEF TypeOK, Root
  <1>2. InheritedSession(e) \in BrSession \cup {None}
    BY <1>1 DEF InheritedSession, Reservation, Root
  <1> QED
    BY <1>2 DEF Successor, Root

RootTypes ==
  /\ tabTargets \in [Tab -> Root \cup {None}]
  /\ targets \in [Generation -> Root \cup {None}]
  /\ targetsByTargetId \in [TargetId -> Root \cup {None}]

(* Writing a record of the current generation keeps the root tables typed.  *)
LEMMA UpdateRootType ==
  ASSUME RootTypes, NEW t \in Root, UpdateRoot(t)
  PROVE  RootTypes'
  BY DEF RootTypes, UpdateRoot, Root

(* So does replacing a generation.                                          *)
LEMMA InsertRootType ==
  ASSUME RootTypes, NEW t \in Root, InsertRoot(t)
  PROVE  RootTypes'
  <1> DEFINE gone == {r \in {tabTargets[t.tab], targetsByTargetId[t.id]} : r # None}
  <1>1. /\ Without(tabTargets, {r.tab : r \in gone}) \in [Tab -> Root \cup {None}]
        /\ Without(targets, {r.session : r \in gone}) \in [Generation -> Root \cup {None}]
        /\ Without(targetsByTargetId, {r.id : r \in gone}) \in [TargetId -> Root \cup {None}]
    BY WithoutType DEF RootTypes
  <1> QED
    BY <1>1 DEF InsertRoot, RootTypes, Root

(* Detaching children keeps the child tables typed.                         *)
LEMMA RemoveChildrenType ==
  ASSUME TypeOK, NEW gone, RemoveChildren(gone)
  PROVE  /\ childTargets' \in [ChildSession -> Child \cup {None}]
         /\ childTargetsByTargetId' \in [ChildTargetId -> ChildSession \cup {None}]
  BY WithoutType DEF TypeOK, RemoveChildren

(* The root a tab routes to.                                                *)
LEMMA RoutingRootType ==
  ASSUME TypeOK, NEW tab \in Tab
  PROVE  RoutingRoot(tab) \in Root \cup {None}
  BY DEF TypeOK, RoutingRoot

(* A record written to the routing root of its tab keeps the tables typed.  *)
LEMMA UpdateRoutingRootType ==
  ASSUME TypeOK, NEW tab \in Tab, NEW t \in Root, UpdateRoutingRoot(tab, t)
  PROVE  RootTypes' /\ stagedRootTargets' \in [Tab -> Root \cup {None}]
  <1>1. RootTypes
    BY DEF TypeOK, RootTypes
  <1>2. CASE stagedRootTargets[tab] # None
    <2>1. UNCHANGED rootVars /\ stagedRootTargets' = [stagedRootTargets EXCEPT ![tab] = t]
      BY <1>2 DEF UpdateRoutingRoot
    <2> QED
      BY <1>1, <2>1 DEF TypeOK, RootTypes, rootVars
  <1>3. CASE stagedRootTargets[tab] = None
    <2>1. UpdateRoot(t) /\ UNCHANGED stagedRootTargets
      BY <1>3 DEF UpdateRoutingRoot
    <2> QED
      BY <1>1, <2>1, UpdateRootType DEF TypeOK
  <1> QED
    BY <1>2, <1>3

(* Ownership written on a registered record keeps the root tables typed.     *)
LEMMA SetOwnerType ==
  ASSUME TypeOK, NEW id \in TargetId, targetsByTargetId[id] # None,
         NEW s \in BrSession \cup {None}, SetOwner(id, s)
  PROVE  RootTypes'
  <1>1. RootTypes /\ targetsByTargetId[id] \in Root
    BY DEF TypeOK, RootTypes
  <1>2. [targetsByTargetId[id] EXCEPT !.browserRigSession = s] \in Root
    BY <1>1 DEF Root
  <1> QED
    BY <1>1, <1>2, UpdateRootType DEF SetOwner

(* The same for the rollback of a reservation, which may find nothing to do. *)
LEMMA RollbackType ==
  ASSUME TypeOK, NEW res \in Reservation, RollbackTargetOwnership(res)
  PROVE  /\ RootTypes'
         /\ pendingOwnershipReservations' \in [TargetId -> Reservation \cup {None}]
  <1>1. res.id \in TargetId /\ res.previous \in BrSession \cup {None}
    BY DEF Reservation
  <1>2. pendingOwnershipReservations' \in [TargetId -> Reservation \cup {None}]
    BY DEF RollbackTargetOwnership, TypeOK
  <1>3. CASE StillReserved(res)
    BY <1>1, <1>2, <1>3, SetOwnerType DEF RollbackTargetOwnership, StillReserved
  <1>4. CASE ~ StillReserved(res)
    BY <1>2, <1>4 DEF RollbackTargetOwnership, TypeOK, RootTypes, rootVars
  <1> QED
    BY <1>3, <1>4

-----------------------------------------------------------------------------
(* Type correctness, one step per action.                                   *)

LEMMA TypeInit == Init => TypeOK
  BY RegistryAssumption DEF Init, TypeOK, Generation

LEMMA TypeStage ==
  ASSUME TypeOK, NEW tab \in Tab, NEW id \in TargetId, NEW s \in BrSession \cup {None},
         StageRootTarget(tab, id, s)
  PROVE  TypeOK'
  <1> DEFINE t == [tab |-> tab, session |-> nextTargetSessionId, id |-> id,
                   browserRigSession |-> s, crashed |-> FALSE]
  <1> DEFINE u == IF tabTargets[tab] = None THEN t ELSE Successor(tabTargets[tab], t)
  <1>1. nextTargetSessionId \in Generation /\ nextTargetSessionId + 1 \in 1..(MaxGeneration + 1)
    BY RegistryAssumption DEF StageRootTarget, TypeOK, Generation
  <1>2. t \in Root
    BY <1>1 DEF Root
  <1>3. u \in Root
    BY <1>2, SuccessorType DEF TypeOK
  <1>4. stagedRootTargets' \in [Tab -> Root \cup {None}]
        /\ tabFrameEvents' \in [Tab -> Generation \cup {None}]
    <2>1. Stage(tab, u)
      BY DEF StageRootTarget
    <2> HIDE DEF u
    <2> QED
      BY <1>3, <2>1 DEF Stage, TypeOK
  <1> QED
    BY <1>1, <1>4 DEF StageRootTarget, TypeOK, rootVars, childVars

LEMMA TypeCommit ==
  ASSUME TypeOK, NEW tab \in Tab, CommitStagedRootTarget(tab)
  PROVE  TypeOK'
  <1> DEFINE t == stagedRootTargets[tab]
             e == tabTargets[tab]
  <1>1. t \in Root /\ RootTypes
    BY DEF CommitStagedRootTarget, TypeOK, RootTypes
  <1>2. /\ stagedRootTargets' \in [Tab -> Root \cup {None}]
        /\ UNCHANGED <<tabFrameEvents, nextTargetSessionId, adoption>>
    BY DEF CommitStagedRootTarget, TypeOK
  <1>3. CASE CommitFirst(tab)
    <2>1. RootTypes'
      BY <1>1, <1>3, InsertRootType DEF CommitFirst
    <2> QED
      BY <1>2, <1>3, <2>1 DEF CommitFirst, TypeOK, RootTypes, childVars
  <1>4. CASE CommitReplacement(tab)
    <2>1. e \in Root
      BY <1>4 DEF CommitReplacement, TypeOK
    <2>2. Successor(e, t) \in Root /\ InsertRoot(Successor(e, t))
      BY <1>1, <1>4, <2>1, SuccessorType DEF CommitReplacement
    <2>3. RootTypes'
      BY <1>1, <2>2, InsertRootType
    <2>4. pendingOwnershipReservations' \in [TargetId -> Reservation \cup {None}]
      BY <1>4, WithoutType DEF CommitReplacement, TypeOK
    <2>5. /\ childTargets' \in [ChildSession -> Child \cup {None}]
          /\ childTargetsByTargetId' \in [ChildTargetId -> ChildSession \cup {None}]
      BY <1>4, RemoveChildrenType DEF CommitReplacement
    <2> QED
      BY <1>2, <2>3, <2>4, <2>5 DEF TypeOK, RootTypes
  <1> QED
    BY <1>3, <1>4 DEF CommitStagedRootTarget

LEMMA TypeDetach ==
  ASSUME TypeOK, NEW tab \in Tab, DetachStagedOnly(tab) \/ DetachRootTarget(tab)
  PROVE  TypeOK'
  <1>1. CASE DetachStagedOnly(tab)
    BY <1>1 DEF DetachStagedOnly, TypeOK, rootVars, childVars
  <1>2. CASE DetachRootTarget(tab)
    <2>1. /\ childTargets' \in [ChildSession -> Child \cup {None}]
          /\ childTargetsByTargetId' \in [ChildTargetId -> ChildSession \cup {None}]
      BY <1>2, RemoveChildrenType DEF DetachRootTarget
    <2> QED
      BY <1>2, <2>1 DEF DetachRootTarget, TypeOK
  <1> QED
    BY <1>1, <1>2

LEMMA TypeReport ==
  ASSUME TypeOK, NEW tab \in Tab,
         MarkRootTargetCrashed(tab) \/ UpdateTargetUrl(tab) \/ RememberFrameEvent(tab)
  PROVE  TypeOK'
  <1>1. RoutingRoot(tab) \in Root
    BY RoutingRootType DEF MarkRootTargetCrashed, UpdateTargetUrl, RememberFrameEvent
  <1>2. [RoutingRoot(tab) EXCEPT !.crashed = TRUE] \in Root
    BY <1>1 DEF Root
  <1>3. [RoutingRoot(tab) EXCEPT !.crashed = FALSE] \in Root
    BY <1>1 DEF Root
  <1>4. CASE MarkRootTargetCrashed(tab)
    <2>1. RootTypes' /\ stagedRootTargets' \in [Tab -> Root \cup {None}]
      BY <1>2, <1>4, UpdateRoutingRootType DEF MarkRootTargetCrashed
    <2> QED
      BY <1>4, <2>1 DEF MarkRootTargetCrashed, TypeOK, RootTypes, childVars
  <1>5. CASE UpdateTargetUrl(tab)
    <2>1. RootTypes' /\ stagedRootTargets' \in [Tab -> Root \cup {None}]
      BY <1>3, <1>5, UpdateRoutingRootType DEF UpdateTargetUrl
    <2> QED
      BY <1>5, <2>1 DEF UpdateTargetUrl, TypeOK, RootTypes, childVars
  <1>6. CASE RememberFrameEvent(tab)
    <2>1. RoutingRoot(tab).session \in Generation
      BY <1>1 DEF Root
    <2> QED
      BY <1>6, <2>1 DEF RememberFrameEvent, TypeOK, rootVars, childVars
  <1> QED
    BY <1>4, <1>5, <1>6

LEMMA TypeChild ==
  ASSUME TypeOK, NEW c \in ChildSession, ChildStep(c)
  PROVE  TypeOK'
  <1>1. ASSUME NEW tab \in Tab, NEW p \in Generation \cup ChildSession, NEW id \in ChildTargetId,
               AddChildTarget(tab, c, p, id)
        PROVE  TypeOK'
    <2> DEFINE kept == Without(childTargets, DetachedWith(ChildConflicts(c, id)))
    <2>1. kept \in [ChildSession -> Child \cup {None}]
      BY WithoutType DEF TypeOK
    <2>2. [tab |-> tab, parent |-> p, id |-> id] \in Child
      BY DEF Child
    <2>3. childTargets' \in [ChildSession -> Child \cup {None}]
      BY <1>1, <2>1, <2>2 DEF AddChildTarget
    <2>4. childTargetsByTargetId' \in [ChildTargetId -> ChildSession \cup {None}]
      BY <1>1 DEF AddChildTarget, TypeOK
    <2> QED
      BY <1>1, <2>3, <2>4 DEF AddChildTarget, TypeOK, rootVars
  <1>2. CASE DetachChildTargetState(c)
    BY <1>2, RemoveChildrenType DEF DetachChildTargetState, TypeOK, rootVars
  <1> QED
    BY <1>1, <1>2 DEF ChildStep

LEMMA TypeOwnership ==
  ASSUME TypeOK, OwnershipStep
  PROVE  TypeOK'
  <1>1. ASSUME NEW id \in TargetId, NEW s \in BrSession, ReserveTargetOwnership(id, s)
        PROVE  TypeOK'
    <2> DEFINE r == targetsByTargetId[id]
               res == ReservationOf(r, s)
    <2>1. r \in Root /\ RootTypes
      BY <1>1 DEF ReserveTargetOwnership, TypeOK, RootTypes
    <2>2. [r EXCEPT !.browserRigSession = s] \in Root
      BY <2>1 DEF Root
    <2>3. res \in Reservation
      BY <2>1 DEF ReservationOf, Reservation, Root
    <2>4. RootTypes'
      BY <1>1, <2>1, <2>2, UpdateRootType DEF ReserveTargetOwnership
    <2>5. pendingOwnershipReservations' \in [TargetId -> Reservation \cup {None}]
      BY <1>1, <2>3 DEF ReserveTargetOwnership, HoldReservation, TypeOK, Reservation
    <2>6. adoption' \in Adoption
      BY <1>1, <2>3 DEF ReserveTargetOwnership, Adoption
    <2> QED
      BY <1>1, <2>4, <2>5, <2>6 DEF ReserveTargetOwnership, TypeOK, RootTypes, childVars
  <1>2. ASSUME NEW id \in TargetId, NEW s \in BrSession, ReleaseTargetOwnership(id, s)
        PROVE  TypeOK'
    <2>1. RootTypes'
      BY <1>2, SetOwnerType DEF ReleaseTargetOwnership, Releases
    <2> QED
      BY <1>2, <2>1 DEF ReleaseTargetOwnership, TypeOK, RootTypes, childVars
  <1>3. ASSUME adoption # None
        PROVE  adoption.reservation \in Reservation
    BY <1>3 DEF TypeOK, Adoption
  <1>4. CASE CancelAdoption
    <2>1. adoption' \in Adoption
      BY <1>4 DEF CancelAdoption, TypeOK, Adoption
    <2> QED
      BY <1>3, <1>4, <2>1, RollbackType DEF CancelAdoption, TypeOK, RootTypes, childVars
  <1>5. CASE FailAdoption
    BY <1>3, <1>5, RollbackType DEF FailAdoption, TypeOK, RootTypes, childVars
  <1>6. ASSUME NEW id \in TargetId \cup {None}, CommitTargetOwnership(id)
        PROVE  TypeOK'
    <2> DEFINE res == adoption.reservation
    <2>1. res \in Reservation
      BY <1>3, <1>6 DEF CommitTargetOwnership
    <2>2. pendingOwnershipReservations' \in [TargetId -> Reservation \cup {None}]
      BY <1>6, <2>1 DEF CommitTargetOwnership, TypeOK
    <2>3. CASE id \notin {None, res.id} /\ Releases(id, res.session)
      <3>1. RootTypes'
        BY <1>6, <2>3, SetOwnerType DEF CommitTargetOwnership, Releases
      <3> QED
        BY <1>6, <2>2, <3>1 DEF CommitTargetOwnership, TypeOK, RootTypes, childVars
    <2>4. CASE ~ (id \notin {None, res.id} /\ Releases(id, res.session))
      BY <1>6, <2>2, <2>4 DEF CommitTargetOwnership, TypeOK, rootVars, childVars
    <2> QED
      BY <2>3, <2>4
  <1> QED
    BY <1>1, <1>2, <1>4, <1>5, <1>6 DEF OwnershipStep

LEMMA TypeNext == TypeOK /\ [Next]_vars => TypeOK'
  <1> SUFFICES ASSUME TypeOK, [Next]_vars PROVE TypeOK'
    OBVIOUS
  <1>1. ASSUME NEW tab \in Tab, RootStep(tab) PROVE TypeOK'
    BY <1>1, TypeStage, TypeCommit, TypeDetach, TypeReport DEF RootStep
  <1>2. ASSUME NEW c \in ChildSession, ChildStep(c) PROVE TypeOK'
    BY <1>2, TypeChild
  <1>3. CASE OwnershipStep
    BY <1>3, TypeOwnership
  <1>4. CASE Clear
    BY <1>4 DEF Clear, TypeOK
  <1>5. CASE UNCHANGED vars
    BY <1>5 DEF vars, rootVars, childVars, TypeOK
  <1> QED
    BY <1>1, <1>2, <1>3, <1>4, <1>5 DEF Next

(* Every table of the registry holds records of its kind under keys of its  *)
(* kind, and the counter of generations never passes its bound by more than *)
(* one.                                                                     *)
THEOREM TypeCorrect == Spec => []TypeOK
  BY TypeInit, TypeNext, PTL DEF Spec

-----------------------------------------------------------------------------
(* Agreement of the root indexes.  It is not inductive alone: the commit of  *)
(* a staged generation must not hit a record of another tab or generation,   *)
(* so the strengthening says that a staged session is in no index, that     *)
(* sessions are handed out once, and that a page stays in its tab.          *)

AtHome(t, tab) == t.tab = tab /\ HomeTab[t.id] = tab /\ t.session < nextTargetSessionId

StagedIsNew ==
  /\ \A tab \in Tab : tabTargets[tab] # None => AtHome(tabTargets[tab], tab)
  /\ \A tab \in Tab : stagedRootTargets[tab] # None =>
       /\ AtHome(stagedRootTargets[tab], tab)
       /\ targets[stagedRootTargets[tab].session] = None
       /\ \A other \in Tab : stagedRootTargets[other] # None /\ other # tab =>
            stagedRootTargets[other].session # stagedRootTargets[tab].session

RootInv == TypeOK /\ IndexesAgree /\ StagedIsNew

(* A new record of a registered generation goes to all three indexes.       *)
LEMMA UpdateRootInv ==
  ASSUME RootInv, NEW t \in Root, UpdateRoot(t),
         tabTargets[t.tab] # None,
         tabTargets[t.tab].session = t.session, tabTargets[t.tab].id = t.id,
         UNCHANGED <<stagedRootTargets, nextTargetSessionId>>
  PROVE  IndexesAgree' /\ StagedIsNew'
  <1> DEFINE e == tabTargets[t.tab]
  <1>1. /\ e \in Root /\ t.tab \in Tab /\ t.session \in Generation /\ t.id \in TargetId
        /\ e.tab = t.tab /\ targets[t.session] = e /\ targetsByTargetId[t.id] = e
    BY DEF RootInv, TypeOK, Root, IndexesAgree
  <1>2. RootTypes
    BY DEF RootInv, TypeOK, RootTypes
  <1>3. IndexesAgree'
    <2>1. ASSUME NEW tab \in Tab, tabTargets'[tab] # None
          PROVE  LET r == tabTargets'[tab]
                 IN  r.tab = tab /\ targets'[r.session] = r /\ targetsByTargetId'[r.id] = r
      BY <1>1, <1>2, <2>1 DEF UpdateRoot, RootInv, IndexesAgree, RootTypes, Root
    <2>2. ASSUME NEW g \in Generation, targets'[g] # None
          PROVE  targets'[g].session = g /\ tabTargets'[targets'[g].tab] = targets'[g]
      BY <1>1, <1>2, <2>2 DEF UpdateRoot, RootInv, IndexesAgree, RootTypes, Root
    <2>3. ASSUME NEW id \in TargetId, targetsByTargetId'[id] # None
          PROVE  /\ targetsByTargetId'[id].id = id
                 /\ tabTargets'[targetsByTargetId'[id].tab] = targetsByTargetId'[id]
      BY <1>1, <1>2, <2>3 DEF UpdateRoot, RootInv, IndexesAgree, RootTypes, Root
    <2> QED
      BY <2>1, <2>2, <2>3 DEF IndexesAgree
  <1>4. StagedIsNew'
    <2>1. ASSUME NEW tab \in Tab, tabTargets'[tab] # None
          PROVE  AtHome(tabTargets[tab], tab)'
      <3>1. AtHome(tabTargets[tab], tab)
            /\ tabTargets'[tab].tab = tabTargets[tab].tab
            /\ tabTargets'[tab].id = tabTargets[tab].id
            /\ tabTargets'[tab].session = tabTargets[tab].session
        BY <1>1, <1>2, <2>1 DEF UpdateRoot, RootInv, StagedIsNew, RootTypes
      <3> QED
        BY <3>1 DEF AtHome
    <2>2. ASSUME NEW g \in Generation, targets[g] = None PROVE targets'[g] = None
      BY <1>1, <1>2, <2>2 DEF UpdateRoot, RootTypes, RootInv, TypeOK
    <2>3. ASSUME NEW tab \in Tab, stagedRootTargets'[tab] # None
          PROVE  /\ AtHome(stagedRootTargets[tab], tab)'
                 /\ targets'[stagedRootTargets'[tab].session] = None
                 /\ \A other \in Tab : stagedRootTargets'[other] # None /\ other # tab =>
                      stagedRootTargets'[other].session # stagedRootTargets'[tab].session
      BY <2>2, <2>3 DEF RootInv, StagedIsNew, TypeOK, Root, AtHome
    <2> QED
      BY <2>1, <2>3 DEF StagedIsNew
  <1> QED
    BY <1>3, <1>4

(* What an insertion finds and leaves: the generation t takes the place of   *)
(* what its tab had, and of nothing else.                                   *)
Inserted(tab, t) ==
  LET e == tabTargets[tab]
  IN  /\ stagedRootTargets[tab] \in Root /\ AtHome(stagedRootTargets[tab], tab)
      /\ targets[t.session] = None /\ AtHome(t, tab)
      /\ t.session \in Generation /\ t.id \in TargetId /\ HomeTab[t.id] = tab
      /\ targetsByTargetId[t.id] \in {None, e}
      /\ tabTargets' = [k \in Tab |-> IF k = tab THEN t ELSE tabTargets[k]]
      /\ targets' = [g \in Generation |-> IF g = t.session THEN t
                      ELSE IF e # None /\ g = e.session THEN None ELSE targets[g]]
      /\ targetsByTargetId' = [i \in TargetId |-> IF i = t.id THEN t
                      ELSE IF e # None /\ i = e.id THEN None ELSE targetsByTargetId[i]]

LEMMA InsertRootTables ==
  ASSUME RootInv, NEW tab \in Tab, stagedRootTargets[tab] # None,
         NEW t \in Root, InsertRoot(t),
         t.tab = tab, t.session = stagedRootTargets[tab].session, t.id = stagedRootTargets[tab].id
  PROVE  Inserted(tab, t)
  <1> DEFINE e == tabTargets[tab]
             gone == {r \in {e, targetsByTargetId[t.id]} : r # None}
  <1>1. /\ stagedRootTargets[tab] \in Root /\ AtHome(stagedRootTargets[tab], tab)
        /\ targets[t.session] = None /\ AtHome(t, tab)
        /\ t.session \in Generation /\ t.id \in TargetId /\ HomeTab[t.id] = tab
    BY DEF RootInv, TypeOK, StagedIsNew, Root, AtHome
  <1>2. RootTypes
    BY DEF RootInv, TypeOK, RootTypes
  <1>3. targetsByTargetId[t.id] \in {None, e}
    BY <1>1, <1>2 DEF RootInv, IndexesAgree, StagedIsNew, AtHome, RootTypes, Root
  <1>4. gone = IF e = None THEN {} ELSE {e}
    BY <1>3
  <1>5. /\ tabTargets' = [k \in Tab |-> IF k = tab THEN t ELSE tabTargets[k]]
        /\ targets' = [g \in Generation |-> IF g = t.session THEN t
                        ELSE IF e # None /\ g = e.session THEN None ELSE targets[g]]
        /\ targetsByTargetId' = [i \in TargetId |-> IF i = t.id THEN t
                        ELSE IF e # None /\ i = e.id THEN None ELSE targetsByTargetId[i]]
    <2>1. CASE e = None
      <3>1. gone = {}
        BY <1>4, <2>1
      <3>2. {r.tab : r \in gone} = {} /\ {r.session : r \in gone} = {} /\ {r.id : r \in gone} = {}
        BY <3>1
      <3> HIDE DEF gone
      <3> QED
        BY <1>1, <1>2, <2>1, <3>2 DEF InsertRoot, Without, RootTypes, gone
    <2>2. CASE e # None
      <3>1. gone = {e}
        BY <1>4, <2>2
      <3>2. {r.tab : r \in gone} = {tab} /\ {r.session : r \in gone} = {e.session}
            /\ {r.id : r \in gone} = {e.id}
        BY <2>2, <3>1 DEF RootInv, IndexesAgree
      <3> QED
        BY <1>1, <1>2, <2>2, <3>2 DEF InsertRoot, Without, RootTypes
    <2> QED
      BY <2>1, <2>2
  <1> QED
    BY <1>1, <1>3, <1>5 DEF Inserted

(* So the indexes go on agreeing.                                           *)
LEMMA InsertRootInv ==
  ASSUME RootInv, NEW tab \in Tab, stagedRootTargets[tab] # None,
         stagedRootTargets' = [stagedRootTargets EXCEPT ![tab] = None],
         UNCHANGED nextTargetSessionId,
         NEW t \in Root, InsertRoot(t),
         t.tab = tab, t.session = stagedRootTargets[tab].session, t.id = stagedRootTargets[tab].id
  PROVE  IndexesAgree' /\ StagedIsNew'
  <1>1. RootTypes
    BY DEF RootInv, TypeOK, RootTypes
  <1>2. Inserted(tab, t)
    BY InsertRootTables
  <1>3. IndexesAgree'
    <2>1. ASSUME NEW k \in Tab, tabTargets'[k] # None
          PROVE  LET r == tabTargets'[k]
                 IN  r.tab = k /\ targets'[r.session] = r /\ targetsByTargetId'[r.id] = r
      BY <1>1, <1>2, <2>1 DEF Inserted, RootInv, IndexesAgree, StagedIsNew, AtHome, RootTypes, Root
    <2>2. ASSUME NEW g \in Generation, targets'[g] # None
          PROVE  targets'[g].session = g /\ tabTargets'[targets'[g].tab] = targets'[g]
      BY <1>1, <1>2, <2>2 DEF Inserted, RootInv, IndexesAgree, RootTypes, Root
    <2>3. ASSUME NEW id \in TargetId, targetsByTargetId'[id] # None
          PROVE  /\ targetsByTargetId'[id].id = id
                 /\ tabTargets'[targetsByTargetId'[id].tab] = targetsByTargetId'[id]
      BY <1>1, <1>2, <2>3 DEF Inserted, RootInv, IndexesAgree, RootTypes, Root
    <2> QED
      BY <2>1, <2>2, <2>3 DEF IndexesAgree
  <1>4. StagedIsNew'
    BY <1>1, <1>2 DEF Inserted, RootInv, StagedIsNew, AtHome, TypeOK, RootTypes, Root
  <1> QED
    BY <1>3, <1>4

(* Staging takes a session nobody has.                                      *)
LEMMA StageInv ==
  ASSUME RootInv, NEW tab \in Tab, NEW id \in TargetId, NEW s \in BrSession \cup {None},
         StageRootTarget(tab, id, s)
  PROVE  IndexesAgree' /\ StagedIsNew'
  <1> DEFINE t == [tab |-> tab, session |-> nextTargetSessionId, id |-> id,
                   browserRigSession |-> s, crashed |-> FALSE]
             u == IF tabTargets[tab] = None THEN t ELSE Successor(tabTargets[tab], t)
  <1>1. nextTargetSessionId \in Generation /\ nextTargetSessionId' = nextTargetSessionId + 1
    BY RegistryAssumption DEF StageRootTarget, RootInv, TypeOK, Generation
  <1>2. t \in Root
    BY <1>1 DEF Root
  <1>3. u \in Root /\ u.tab = tab /\ u.session = nextTargetSessionId /\ u.id = id
    BY <1>2, SuccessorType DEF RootInv, TypeOK
  <1>4. stagedRootTargets' = [stagedRootTargets EXCEPT ![tab] = u]
    BY DEF StageRootTarget, Stage
  <1> HIDE DEF u
  <1>5. UNCHANGED rootVars /\ HomeTab[id] = tab
    BY DEF StageRootTarget
  <1>6. targets[nextTargetSessionId] = None
    <2>1. ASSUME targets[nextTargetSessionId] # None PROVE FALSE
      <3> DEFINE r == targets[nextTargetSessionId]
      <3>1. r \in Root /\ r.session = nextTargetSessionId /\ tabTargets[r.tab] = r /\ r.tab \in Tab
        BY <1>1, <2>1 DEF RootInv, TypeOK, IndexesAgree, Root
      <3>2. r.session < nextTargetSessionId
        BY <2>1, <3>1 DEF RootInv, StagedIsNew, AtHome
      <3> QED
        BY <1>1, <3>1, <3>2 DEF Generation
    <2> QED
      BY <2>1
  <1>7. IndexesAgree'
    BY <1>5 DEF RootInv, IndexesAgree, rootVars
  <1>8. ASSUME NEW k \in Tab, tabTargets'[k] # None
        PROVE  AtHome(tabTargets[k], k)'
    <2>1. AtHome(tabTargets[k], k) /\ tabTargets[k] \in Root /\ tabTargets' = tabTargets
      BY <1>5, <1>8 DEF RootInv, TypeOK, StagedIsNew, rootVars
    <2> QED
      BY <1>1, <2>1 DEF AtHome, Root, Generation
  <1>9. ASSUME NEW k \in Tab, stagedRootTargets'[k] # None
        PROVE  /\ AtHome(stagedRootTargets[k], k)'
               /\ targets'[stagedRootTargets'[k].session] = None
               /\ \A other \in Tab : stagedRootTargets'[other] # None /\ other # k =>
                    stagedRootTargets'[other].session # stagedRootTargets'[k].session
    <2>1. targets' = targets
      BY <1>5 DEF rootVars
    <2>2. \A j \in Tab : stagedRootTargets[j] # None =>
             stagedRootTargets[j].session \in Nat /\ stagedRootTargets[j].session < nextTargetSessionId
      BY DEF RootInv, TypeOK, StagedIsNew, AtHome, Root, Generation
    <2>3. CASE k = tab
      BY <1>1, <1>3, <1>4, <1>5, <1>6, <2>1, <2>2, <2>3
         DEF RootInv, TypeOK, AtHome, Generation
    <2>4. CASE k # tab
      BY <1>1, <1>3, <1>4, <1>9, <2>1, <2>2, <2>4
         DEF RootInv, TypeOK, StagedIsNew, AtHome, Generation
    <2> QED
      BY <2>3, <2>4
  <1> QED
    BY <1>7, <1>8, <1>9 DEF StagedIsNew

LEMMA CommitInv ==
  ASSUME RootInv, NEW tab \in Tab, CommitStagedRootTarget(tab)
  PROVE  IndexesAgree' /\ StagedIsNew'
  <1> DEFINE t == stagedRootTargets[tab]
             e == tabTargets[tab]
  <1>1. /\ t # None /\ t \in Root /\ t.tab = tab
        /\ stagedRootTargets' = [stagedRootTargets EXCEPT ![tab] = None]
        /\ UNCHANGED nextTargetSessionId
    BY DEF CommitStagedRootTarget, RootInv, TypeOK, StagedIsNew, AtHome
  <1>2. CASE CommitFirst(tab)
    BY <1>1, <1>2, InsertRootInv DEF CommitFirst
  <1>3. CASE CommitReplacement(tab)
    <2>1. e \in Root
      BY <1>3 DEF CommitReplacement, RootInv, TypeOK
    <2>2. /\ Successor(e, t) \in Root
          /\ Successor(e, t).tab = tab
          /\ Successor(e, t).session = t.session
          /\ Successor(e, t).id = t.id
      BY <1>1, <2>1, SuccessorType DEF RootInv
    <2>3. InsertRoot(Successor(e, t))
      BY <1>3 DEF CommitReplacement
    <2> QED
      BY <1>1, <2>2, <2>3, InsertRootInv
  <1> QED
    BY <1>2, <1>3 DEF CommitStagedRootTarget

LEMMA DetachInv ==
  ASSUME RootInv, NEW tab \in Tab, DetachStagedOnly(tab) \/ DetachRootTarget(tab)
  PROVE  IndexesAgree' /\ StagedIsNew'
  <1>1. /\ stagedRootTargets' = [stagedRootTargets EXCEPT ![tab] = None]
        /\ UNCHANGED nextTargetSessionId
    BY DEF DetachStagedOnly, DetachRootTarget
  <1>2. CASE DetachStagedOnly(tab)
    <2>1. UNCHANGED rootVars
      BY <1>2 DEF DetachStagedOnly
    <2> QED
      BY <1>1, <2>1 DEF rootVars, RootInv, TypeOK, IndexesAgree, StagedIsNew, AtHome
  <1>3. CASE DetachRootTarget(tab)
    <2> DEFINE r == tabTargets[tab]
    <2>1. /\ r # None /\ r \in Root /\ r.tab = tab
          /\ tabTargets' = [tabTargets EXCEPT ![tab] = None]
          /\ targets' = [targets EXCEPT ![r.session] = None]
          /\ targetsByTargetId' = [targetsByTargetId EXCEPT ![r.id] = None]
      BY <1>3 DEF DetachRootTarget, RootInv, TypeOK, IndexesAgree
    <2>2. RootTypes
      BY DEF RootInv, TypeOK, RootTypes
    <2>3. IndexesAgree'
      BY <2>1, <2>2 DEF RootInv, IndexesAgree, RootTypes, Root
    <2>4. StagedIsNew'
      BY <1>1, <2>1, <2>2 DEF RootInv, StagedIsNew, TypeOK, AtHome, Root, RootTypes
    <2> QED
      BY <2>3, <2>4
  <1> QED
    BY <1>2, <1>3

(* Facts about the routed root rewrite one record, of the same generation.   *)
LEMMA UpdateRoutingInv ==
  ASSUME RootInv, NEW tab \in Tab, RoutingRoot(tab) # None, NEW b \in BOOLEAN,
         UpdateRoutingRoot(tab, [RoutingRoot(tab) EXCEPT !.crashed = b]),
         UNCHANGED nextTargetSessionId
  PROVE  IndexesAgree' /\ StagedIsNew'
  <1> DEFINE r == RoutingRoot(tab)
             t == [r EXCEPT !.crashed = b]
  <1>1. r \in Root
    BY RoutingRootType DEF RootInv
  <1>2. t \in Root /\ t.tab = r.tab /\ t.session = r.session /\ t.id = r.id
    BY <1>1 DEF Root
  <1>3. CASE stagedRootTargets[tab] # None
    <2>1. /\ r = stagedRootTargets[tab]
          /\ stagedRootTargets' = [stagedRootTargets EXCEPT ![tab] = t]
          /\ UNCHANGED rootVars
      BY <1>3 DEF UpdateRoutingRoot, RoutingRoot
    <2> HIDE DEF t
    <2>2. \A k \in Tab : stagedRootTargets'[k] # None =>
             /\ stagedRootTargets[k] # None
             /\ stagedRootTargets'[k].tab = stagedRootTargets[k].tab
             /\ stagedRootTargets'[k].id = stagedRootTargets[k].id
             /\ stagedRootTargets'[k].session = stagedRootTargets[k].session
      BY <1>2, <1>3, <2>1 DEF RootInv, TypeOK
    <2> QED
      BY <2>1, <2>2 DEF rootVars, RootInv, IndexesAgree, StagedIsNew, AtHome
  <1>4. CASE stagedRootTargets[tab] = None
    <2>1. r = tabTargets[tab] /\ UpdateRoot(t) /\ UNCHANGED stagedRootTargets
      BY <1>4 DEF UpdateRoutingRoot, RoutingRoot
    <2>2. r.tab = tab
      BY <2>1 DEF RootInv, IndexesAgree
    <2> HIDE DEF t
    <2> QED
      BY <1>2, <2>1, <2>2, UpdateRootInv
  <1> QED
    BY <1>3, <1>4

(* Ownership rewrites one record of a registered generation.                *)
LEMMA SetOwnerInv ==
  ASSUME RootInv, NEW id \in TargetId, targetsByTargetId[id] # None,
         NEW s \in BrSession \cup {None}, SetOwner(id, s),
         UNCHANGED <<stagedRootTargets, nextTargetSessionId>>
  PROVE  IndexesAgree' /\ StagedIsNew'
  <1> DEFINE r == targetsByTargetId[id]
             t == [r EXCEPT !.browserRigSession = s]
  <1>1. r \in Root /\ tabTargets[r.tab] = r
    BY DEF RootInv, TypeOK, IndexesAgree
  <1>2. t \in Root /\ t.tab = r.tab /\ t.session = r.session /\ t.id = r.id
    BY <1>1 DEF Root
  <1>3. UpdateRoot(t)
    BY DEF SetOwner
  <1> HIDE DEF t
  <1> QED
    BY <1>1, <1>2, <1>3, UpdateRootInv

LEMMA RollbackInv ==
  ASSUME RootInv, NEW res \in Reservation, RollbackTargetOwnership(res),
         UNCHANGED <<stagedRootTargets, nextTargetSessionId>>
  PROVE  IndexesAgree' /\ StagedIsNew'
  <1>1. res.id \in TargetId /\ res.previous \in BrSession \cup {None}
    BY DEF Reservation
  <1>2. CASE StillReserved(res)
    BY <1>1, <1>2, SetOwnerInv DEF RollbackTargetOwnership, StillReserved
  <1>3. CASE ~ StillReserved(res)
    BY <1>3 DEF RollbackTargetOwnership, rootVars, RootInv, IndexesAgree, StagedIsNew, AtHome
  <1> QED
    BY <1>2, <1>3

LEMMA OwnershipInv ==
  ASSUME RootInv, OwnershipStep
  PROVE  IndexesAgree' /\ StagedIsNew'
  <1>1. UNCHANGED <<stagedRootTargets, nextTargetSessionId>>
    BY DEF OwnershipStep, ReserveTargetOwnership, ReleaseTargetOwnership, CancelAdoption,
           FailAdoption, CommitTargetOwnership
  <1>2. ASSUME NEW id \in TargetId, NEW s \in BrSession, ReserveTargetOwnership(id, s)
        PROVE  IndexesAgree' /\ StagedIsNew'
    <2>1. targetsByTargetId[id] # None /\ SetOwner(id, s)
      BY <1>2 DEF ReserveTargetOwnership, SetOwner
    <2> QED
      BY <1>1, <2>1, SetOwnerInv
  <1>3. ASSUME NEW id \in TargetId, NEW s \in BrSession, ReleaseTargetOwnership(id, s)
        PROVE  IndexesAgree' /\ StagedIsNew'
    BY <1>1, <1>3, SetOwnerInv DEF ReleaseTargetOwnership, Releases
  <1>4. ASSUME adoption # None
        PROVE  adoption.reservation \in Reservation
    BY <1>4 DEF RootInv, TypeOK, Adoption
  <1>5. CASE CancelAdoption \/ FailAdoption
    BY <1>1, <1>4, <1>5, RollbackInv DEF CancelAdoption, FailAdoption
  <1>6. ASSUME NEW id \in TargetId \cup {None}, CommitTargetOwnership(id)
        PROVE  IndexesAgree' /\ StagedIsNew'
    <2>1. CASE id \notin {None, adoption.reservation.id} /\ Releases(id, adoption.reservation.session)
      BY <1>1, <1>6, <2>1, SetOwnerInv DEF CommitTargetOwnership, Releases
    <2>2. CASE ~ (id \notin {None, adoption.reservation.id}
                    /\ Releases(id, adoption.reservation.session))
      BY <1>1, <1>6, <2>2
         DEF CommitTargetOwnership, rootVars, RootInv, IndexesAgree, StagedIsNew, AtHome
    <2> QED
      BY <2>1, <2>2
  <1> QED
    BY <1>2, <1>3, <1>5, <1>6 DEF OwnershipStep

LEMMA RootInvInit == Init => RootInv
  BY TypeInit DEF Init, RootInv, IndexesAgree, StagedIsNew

LEMMA RootInvNext == RootInv /\ [Next]_vars => RootInv'
  <1> SUFFICES ASSUME RootInv, [Next]_vars PROVE IndexesAgree' /\ StagedIsNew'
    BY TypeNext DEF RootInv
  <1>1. ASSUME NEW tab \in Tab, RootStep(tab) PROVE IndexesAgree' /\ StagedIsNew'
    <2>1. CASE MarkRootTargetCrashed(tab)
      BY <2>1, UpdateRoutingInv DEF MarkRootTargetCrashed
    <2>2. CASE UpdateTargetUrl(tab)
      BY <2>2, UpdateRoutingInv DEF UpdateTargetUrl
    <2>3. CASE RememberFrameEvent(tab)
      BY <2>3 DEF RememberFrameEvent, rootVars, RootInv, IndexesAgree, StagedIsNew, AtHome
    <2> QED
      BY <1>1, <2>1, <2>2, <2>3, StageInv, CommitInv, DetachInv DEF RootStep
  <1>2. ASSUME NEW c \in ChildSession, ChildStep(c) PROVE IndexesAgree' /\ StagedIsNew'
    BY <1>2 DEF ChildStep, AddChildTarget, DetachChildTargetState, rootVars, RootInv,
                IndexesAgree, StagedIsNew, AtHome
  <1>3. CASE OwnershipStep
    BY <1>3, OwnershipInv
  <1>4. CASE Clear
    BY <1>4 DEF Clear, IndexesAgree, StagedIsNew, AtHome
  <1>5. CASE UNCHANGED vars
    BY <1>5 DEF vars, rootVars, RootInv, IndexesAgree, StagedIsNew, AtHome
  <1> QED
    BY <1>1, <1>2, <1>3, <1>4, <1>5 DEF Next

(* A target looked up by tab, by CDP session or by Chrome id is one record,  *)
(* through every staging, replacement, adoption, rollback and detach.        *)
THEOREM RootIndexesAgree == Spec => []IndexesAgree
  <1>1. RootInv => IndexesAgree
    BY DEF RootInv
  <1> QED
    BY <1>1, RootInvInit, RootInvNext, PTL DEF Spec

-----------------------------------------------------------------------------
(* The pending reservation.  A reservation may only stand for the generation *)
(* it was made on: that generation has been handed out and is not staged, so *)
(* no later commit brings it back.                                          *)

AdoptionIsPast ==
  adoption # None =>
    LET res == adoption.reservation
    IN  /\ res.targetSession < nextTargetSessionId
        /\ \A tab \in Tab : stagedRootTargets[tab] # None =>
             stagedRootTargets[tab].session # res.targetSession

PendingInv == RootInv /\ PendingIsTheReservation /\ AdoptionIsPast

(* The same pages are registered, each with the same generation.            *)
SameGenerations ==
  \A id \in TargetId :
    /\ targetsByTargetId'[id] = None <=> targetsByTargetId[id] = None
    /\ targetsByTargetId[id] # None =>
         targetsByTargetId'[id].session = targetsByTargetId[id].session

(* A record that is written over changes no generation.                     *)
LEMMA UpdateKeepsGenerations ==
  ASSUME RootInv, NEW t \in Root, UpdateRoot(t), targetsByTargetId[t.id] # None,
         targetsByTargetId[t.id].session = t.session
  PROVE  SameGenerations
  BY AbsenceAssumption DEF RootInv, TypeOK, UpdateRoot, SameGenerations, Root

(* Neither does the owner that is written.                                  *)
LEMMA SetOwnerKeepsGenerations ==
  ASSUME RootInv, NEW id \in TargetId, targetsByTargetId[id] # None,
         NEW s \in BrSession \cup {None}, SetOwner(id, s)
  PROVE  SameGenerations
  <1> DEFINE r == targetsByTargetId[id]
             t == [r EXCEPT !.browserRigSession = s]
  <1>1. r \in Root /\ r.id = id
    BY DEF RootInv, TypeOK, IndexesAgree
  <1>2. t \in Root /\ t.session = r.session /\ t.id = id /\ UpdateRoot(t)
    BY <1>1 DEF Root, SetOwner
  <1> HIDE DEF t
  <1> QED
    BY <1>1, <1>2, UpdateKeepsGenerations

LEMMA RollbackKeepsGenerations ==
  ASSUME RootInv, NEW res \in Reservation, RollbackTargetOwnership(res)
  PROVE  SameGenerations
  <1>1. res.id \in TargetId /\ res.previous \in BrSession \cup {None}
    BY DEF Reservation
  <1>2. CASE StillReserved(res)
    BY <1>1, <1>2, SetOwnerKeepsGenerations DEF RollbackTargetOwnership, StillReserved
  <1>3. CASE ~ StillReserved(res)
    BY <1>3 DEF RollbackTargetOwnership, rootVars, SameGenerations
  <1> QED
    BY <1>2, <1>3

LEMMA RoutingKeepsGenerations ==
  ASSUME RootInv, NEW tab \in Tab, RoutingRoot(tab) # None, NEW b \in BOOLEAN,
         UpdateRoutingRoot(tab, [RoutingRoot(tab) EXCEPT !.crashed = b])
  PROVE  SameGenerations
  <1> DEFINE r == RoutingRoot(tab)
             t == [r EXCEPT !.crashed = b]
  <1>1. r \in Root
    BY RoutingRootType DEF RootInv
  <1>2. t \in Root /\ t.session = r.session /\ t.id = r.id
    BY <1>1 DEF Root
  <1>3. CASE stagedRootTargets[tab] # None
    BY <1>3 DEF UpdateRoutingRoot, rootVars, SameGenerations
  <1>4. CASE stagedRootTargets[tab] = None
    <2>1. r = tabTargets[tab] /\ UpdateRoot(t)
      BY <1>4 DEF UpdateRoutingRoot, RoutingRoot
    <2>2. targetsByTargetId[r.id] = r
      BY <2>1 DEF RootInv, IndexesAgree
    <2>3. targetsByTargetId[t.id] # None /\ targetsByTargetId[t.id].session = t.session
      BY <1>2, <2>1, <2>2
    <2> HIDE DEF t
    <2> QED
      BY <1>2, <2>1, <2>3, UpdateKeepsGenerations
  <1> QED
    BY <1>3, <1>4

(* While the generations stay, so does what stands.                         *)
LEMMA PendingStays ==
  ASSUME PendingInv, SameGenerations, UNCHANGED <<pendingOwnershipReservations, adoption>>
  PROVE  PendingIsTheReservation'
  <1>1. ASSUME adoption # None PROVE adoption.reservation.id \in TargetId
    BY <1>1 DEF PendingInv, RootInv, TypeOK, Adoption, Reservation
  <1> QED
    BY <1>1 DEF PendingInv, PendingIsTheReservation, IsRegistered, SameGenerations

(* Without a running adoption nothing is pending.                            *)
LEMMA NothingPending ==
  ASSUME PendingInv, adoption = None \/ adoption.state = "cancelled"
  PROVE  \A id \in TargetId : pendingOwnershipReservations[id] = None
  BY DEF PendingInv, PendingIsTheReservation

(* Nothing is pending for another page than the adoption's.                  *)
LEMMA OnlyOnePending ==
  ASSUME PendingInv, NEW id \in TargetId, adoption # None, id # adoption.reservation.id
  PROVE  pendingOwnershipReservations[id] = None
  BY DEF PendingInv, PendingIsTheReservation

(* What is staged keeps its session, or is new; the counter only grows.      *)
StagedStaysOrIsNew ==
  /\ nextTargetSessionId' \in {nextTargetSessionId, nextTargetSessionId + 1}
  /\ \A tab \in Tab : stagedRootTargets'[tab] # None =>
       \/ /\ stagedRootTargets[tab] # None
          /\ stagedRootTargets'[tab].session = stagedRootTargets[tab].session
       \/ stagedRootTargets'[tab].session = nextTargetSessionId

LEMMA StagedInStage ==
  ASSUME RootInv, NEW tab \in Tab, NEW id \in TargetId, NEW s \in BrSession \cup {None},
         StageRootTarget(tab, id, s)
  PROVE  StagedStaysOrIsNew
  <1> DEFINE t == [tab |-> tab, session |-> nextTargetSessionId, id |-> id,
                   browserRigSession |-> s, crashed |-> FALSE]
             u == IF tabTargets[tab] = None THEN t ELSE Successor(tabTargets[tab], t)
  <1>1. nextTargetSessionId \in Generation /\ nextTargetSessionId' = nextTargetSessionId + 1
    BY RegistryAssumption DEF StageRootTarget, RootInv, TypeOK, Generation
  <1>2. t \in Root
    BY <1>1 DEF Root
  <1>3. u.session = nextTargetSessionId
    BY <1>2, SuccessorType DEF RootInv, TypeOK
  <1>4. stagedRootTargets' = [stagedRootTargets EXCEPT ![tab] = u]
    BY DEF StageRootTarget, Stage
  <1> HIDE DEF u
  <1> QED
    BY <1>1, <1>3, <1>4 DEF RootInv, TypeOK, StagedStaysOrIsNew

LEMMA StagedInRouting ==
  ASSUME RootInv, NEW tab \in Tab, RoutingRoot(tab) # None, NEW b \in BOOLEAN,
         UpdateRoutingRoot(tab, [RoutingRoot(tab) EXCEPT !.crashed = b]),
         UNCHANGED nextTargetSessionId
  PROVE  StagedStaysOrIsNew
  <1> DEFINE r == RoutingRoot(tab)
             t == [r EXCEPT !.crashed = b]
  <1>1. r \in Root
    BY RoutingRootType DEF RootInv
  <1>2. t.session = r.session
    BY <1>1 DEF Root
  <1>3. CASE stagedRootTargets[tab] # None
    <2>1. r = stagedRootTargets[tab] /\ stagedRootTargets' = [stagedRootTargets EXCEPT ![tab] = t]
      BY <1>3 DEF UpdateRoutingRoot, RoutingRoot
    <2> HIDE DEF t
    <2> QED
      BY <1>2, <1>3, <2>1 DEF RootInv, TypeOK, StagedStaysOrIsNew
  <1>4. CASE stagedRootTargets[tab] = None
    BY <1>4 DEF UpdateRoutingRoot, StagedStaysOrIsNew
  <1> QED
    BY <1>3, <1>4

LEMMA StagedNext ==
  ASSUME RootInv, [Next]_vars
  PROVE  StagedStaysOrIsNew
  <1>1. ASSUME NEW tab \in Tab, RootStep(tab) PROVE StagedStaysOrIsNew
    <2>1. CASE CommitStagedRootTarget(tab) \/ DetachStagedOnly(tab) \/ DetachRootTarget(tab)
      <3>1. /\ stagedRootTargets' = [stagedRootTargets EXCEPT ![tab] = None]
            /\ UNCHANGED nextTargetSessionId
        BY <2>1 DEF CommitStagedRootTarget, DetachStagedOnly, DetachRootTarget
      <3> QED
        BY <3>1 DEF RootInv, TypeOK, StagedStaysOrIsNew
    <2>2. CASE MarkRootTargetCrashed(tab)
      BY <2>2, StagedInRouting DEF MarkRootTargetCrashed
    <2>3. CASE UpdateTargetUrl(tab)
      BY <2>3, StagedInRouting DEF UpdateTargetUrl
    <2>4. CASE RememberFrameEvent(tab)
      BY <2>4 DEF RememberFrameEvent, StagedStaysOrIsNew
    <2> QED
      BY <1>1, <2>1, <2>2, <2>3, <2>4, StagedInStage DEF RootStep
  <1>2. CASE OwnershipStep \/ (\E c \in ChildSession : ChildStep(c)) \/ UNCHANGED vars
    <2>1. UNCHANGED <<stagedRootTargets, nextTargetSessionId>>
      BY <1>2 DEF OwnershipStep, ReserveTargetOwnership, ReleaseTargetOwnership, CancelAdoption,
             FailAdoption, CommitTargetOwnership, ChildStep, AddChildTarget,
             DetachChildTargetState, vars
    <2> QED
      BY <2>1 DEF StagedStaysOrIsNew
  <1>3. CASE Clear
    BY <1>3 DEF Clear, StagedStaysOrIsNew
  <1> QED
    BY <1>1, <1>2, <1>3 DEF Next

(* A reservation is new only when an adoption begins, for a registered       *)
(* generation.                                                              *)
LEMMA AdoptionNext ==
  ASSUME RootInv, [Next]_vars, adoption' # None
  PROVE  \/ adoption # None /\ adoption'.reservation = adoption.reservation
         \/ /\ UNCHANGED <<stagedRootTargets, nextTargetSessionId>>
            /\ \E id \in TargetId : /\ targetsByTargetId[id] # None
                                    /\ adoption'.reservation.targetSession = targetsByTargetId[id].session
  <1> DEFINE Goal ==
         \/ adoption # None /\ adoption'.reservation = adoption.reservation
         \/ /\ UNCHANGED <<stagedRootTargets, nextTargetSessionId>>
            /\ \E id \in TargetId : /\ targetsByTargetId[id] # None
                                    /\ adoption'.reservation.targetSession = targetsByTargetId[id].session
  <1>1. CASE UNCHANGED adoption
    BY <1>1
  <1>2. ASSUME NEW id \in TargetId, NEW s \in BrSession, ReserveTargetOwnership(id, s)
        PROVE  Goal
    BY <1>2 DEF ReserveTargetOwnership, ReservationOf
  <1>3. CASE CancelAdoption
    BY <1>3 DEF CancelAdoption, RootInv, TypeOK, Adoption
  <1>4. CASE OwnershipStep
    BY <1>1, <1>2, <1>3, <1>4
       DEF OwnershipStep, ReleaseTargetOwnership, FailAdoption, CommitTargetOwnership
  <1>5. CASE \E tab \in Tab : RootStep(tab)
    BY <1>1, <1>5 DEF RootStep, StageRootTarget, CommitStagedRootTarget, DetachStagedOnly,
         DetachRootTarget, MarkRootTargetCrashed, UpdateTargetUrl, RememberFrameEvent
  <1>6. CASE (\E c \in ChildSession : ChildStep(c)) \/ Clear \/ UNCHANGED vars
    BY <1>1, <1>6 DEF ChildStep, AddChildTarget, DetachChildTargetState, Clear, vars
  <1> QED
    BY <1>4, <1>5, <1>6 DEF Next

LEMMA PastNext ==
  ASSUME PendingInv, [Next]_vars
  PROVE  AdoptionIsPast'
  <1> SUFFICES ASSUME adoption' # None
               PROVE  LET res == adoption'.reservation
                      IN  /\ res.targetSession < nextTargetSessionId'
                          /\ \A tab \in Tab : stagedRootTargets'[tab] # None =>
                               stagedRootTargets'[tab].session # res.targetSession
    BY DEF AdoptionIsPast
  <1>1. nextTargetSessionId \in Nat /\ StagedStaysOrIsNew
    BY StagedNext DEF PendingInv, RootInv, TypeOK
  <1>2. CASE adoption # None /\ adoption'.reservation = adoption.reservation
    <2> DEFINE res == adoption.reservation
    <2>1. res.targetSession \in Nat /\ res.targetSession < nextTargetSessionId
      BY <1>2 DEF PendingInv, AdoptionIsPast, RootInv, TypeOK, Adoption, Reservation, Generation
    <2>2. \A tab \in Tab : stagedRootTargets[tab] # None =>
             stagedRootTargets[tab].session # res.targetSession
      BY <1>2 DEF PendingInv, AdoptionIsPast
    <2> HIDE DEF res
    <2> QED
      BY <1>1, <1>2, <2>1, <2>2 DEF StagedStaysOrIsNew, res
  <1>3. CASE /\ UNCHANGED <<stagedRootTargets, nextTargetSessionId>>
             /\ \E id \in TargetId : /\ targetsByTargetId[id] # None
                                     /\ adoption'.reservation.targetSession = targetsByTargetId[id].session
    <2> PICK id \in TargetId : /\ targetsByTargetId[id] # None
                              /\ adoption'.reservation.targetSession = targetsByTargetId[id].session
      BY <1>3
    <2> DEFINE r == targetsByTargetId[id]
    <2>1. r \in Root /\ tabTargets[r.tab] = r /\ targets[r.session] = r /\ r.tab \in Tab
      BY DEF PendingInv, RootInv, TypeOK, IndexesAgree, Root
    <2>2. r.session < nextTargetSessionId
      BY <2>1 DEF PendingInv, RootInv, StagedIsNew, AtHome
    <2> QED
      BY <1>3, <2>1, <2>2 DEF PendingInv, RootInv, StagedIsNew
  <1> QED
    BY <1>2, <1>3, AdoptionNext DEF PendingInv

(* A committed generation is not one a reservation was made on, and takes    *)
(* the reservation of the one it replaces along.                            *)
LEMMA PendingCommit ==
  ASSUME PendingInv, NEW tab \in Tab, CommitStagedRootTarget(tab)
  PROVE  PendingIsTheReservation'
  <1> DEFINE t == stagedRootTargets[tab]
             e == tabTargets[tab]
             u == IF e = None THEN t ELSE Successor(e, t)
  <1>1. t # None /\ t \in Root /\ t.tab = tab /\ e \in Root \cup {None} /\ UNCHANGED adoption
    BY DEF CommitStagedRootTarget, PendingInv, RootInv, TypeOK, StagedIsNew, AtHome
  <1>2. u \in Root /\ u.tab = tab /\ u.session = t.session /\ u.id = t.id
    BY <1>1, SuccessorType DEF PendingInv, RootInv
  <1>3. InsertRoot(u)
    BY DEF CommitStagedRootTarget, CommitFirst, CommitReplacement
  <1>4. pendingOwnershipReservations' =
          [id \in TargetId |-> IF e # None /\ id = e.id THEN None ELSE pendingOwnershipReservations[id]]
    BY <1>1 DEF CommitStagedRootTarget, CommitFirst, CommitReplacement, Without, PendingInv, RootInv,
                TypeOK
  <1> HIDE DEF u
  <1>5. Inserted(tab, u)
    BY <1>1, <1>2, <1>3, InsertRootTables DEF PendingInv
  <1>6. ASSUME adoption # None
        PROVE  adoption.reservation.id \in TargetId /\ u.session # adoption.reservation.targetSession
    BY <1>1, <1>2, <1>6 DEF PendingInv, AdoptionIsPast, RootInv, TypeOK, Adoption, Reservation
  <1>7. ASSUME NEW id \in TargetId
        PROVE  pendingOwnershipReservations'[id] =
                 IF /\ adoption # None /\ adoption.state = "reserved"
                    /\ adoption.reservation.id = id /\ IsRegistered(adoption.reservation)'
                 THEN adoption.reservation ELSE None
    <2>1. CASE id # u.id /\ ~ (e # None /\ id = e.id)
      <3>1. targetsByTargetId'[id] = targetsByTargetId[id]
        BY <1>5, <2>1 DEF Inserted
      <3> QED
        BY <1>1, <1>4, <2>1, <3>1 DEF PendingInv, PendingIsTheReservation, IsRegistered
    <2>2. CASE id # u.id /\ e # None /\ id = e.id
      <3>1. targetsByTargetId'[id] = None
        BY <1>5, <2>2 DEF Inserted
      <3> QED
        BY <1>1, <1>4, <2>2, <3>1 DEF IsRegistered
    <2>3. CASE id = u.id
      <3>1. targetsByTargetId'[id] = u
        BY <1>5, <2>3 DEF Inserted
      <3>2. ~ (adoption # None /\ adoption.reservation.id = id /\ IsRegistered(adoption.reservation)')
        BY <1>1, <1>6, <3>1 DEF IsRegistered
      <3>3. pendingOwnershipReservations'[id] = None
        <4>1. targetsByTargetId[id] \in {None, e}
          BY <1>5, <2>3 DEF Inserted
        <4>2. CASE targetsByTargetId[id] = None
          BY <1>4, <4>2 DEF PendingInv, PendingIsTheReservation, IsRegistered
        <4>3. CASE targetsByTargetId[id] # None
          <5>1. e # None /\ e.id = id
            BY <4>1, <4>3 DEF PendingInv, RootInv, IndexesAgree
          <5> QED
            BY <1>4, <5>1
        <4> QED
          BY <4>2, <4>3
      <3> QED
        BY <3>2, <3>3
    <2> QED
      BY <2>1, <2>2, <2>3
  <1> QED
    BY <1>1, <1>7 DEF PendingIsTheReservation

LEMMA PendingDetach ==
  ASSUME PendingInv, NEW tab \in Tab, DetachStagedOnly(tab) \/ DetachRootTarget(tab)
  PROVE  PendingIsTheReservation'
  <1>1. CASE DetachStagedOnly(tab)
    BY <1>1, PendingStays DEF DetachStagedOnly, rootVars, SameGenerations
  <1>2. CASE DetachRootTarget(tab)
    <2>1. tabTargets[tab].id \in TargetId
      BY <1>2 DEF DetachRootTarget, PendingInv, RootInv, TypeOK, Root
    <2>2. ASSUME adoption # None PROVE adoption.reservation.id \in TargetId
      BY <2>2 DEF PendingInv, RootInv, TypeOK, Adoption, Reservation
    <2> QED
      BY <1>2, <2>1, <2>2 DEF DetachRootTarget, PendingInv, PendingIsTheReservation, IsRegistered,
                              RootInv, TypeOK
  <1> QED
    BY <1>1, <1>2

(* An adoption that ends, or is cancelled, takes its reservation away.       *)
LEMMA PendingEnds ==
  ASSUME PendingInv, adoption # None,
         pendingOwnershipReservations' =
           [pendingOwnershipReservations EXCEPT ![adoption.reservation.id] = None],
         adoption' = None \/ adoption' = [adoption EXCEPT !.state = "cancelled"]
  PROVE  PendingIsTheReservation'
  <1>1. \A id \in TargetId : pendingOwnershipReservations'[id] = None
    BY OnlyOnePending DEF PendingInv, RootInv, TypeOK
  <1>2. adoption' = None \/ adoption'.state = "cancelled"
    BY DEF PendingInv, RootInv, TypeOK, Adoption
  <1> QED
    BY <1>1, <1>2 DEF PendingIsTheReservation

LEMMA PendingOwnership ==
  ASSUME PendingInv, OwnershipStep
  PROVE  PendingIsTheReservation'
  <1>1. ASSUME NEW id \in TargetId, NEW s \in BrSession, ReserveTargetOwnership(id, s)
        PROVE  PendingIsTheReservation'
    <2> DEFINE r == targetsByTargetId[id]
               res == ReservationOf(r, s)
    <2>1. r \in Root /\ r # None /\ r.id = id /\ SetOwner(id, s) /\ adoption = None
      BY <1>1 DEF ReserveTargetOwnership, SetOwner, PendingInv, RootInv, TypeOK, IndexesAgree
    <2>2. res \in Reservation /\ res.id = id /\ res.targetSession = r.session
      BY <2>1 DEF ReservationOf, Reservation, Root
    <2>3. /\ adoption' = [state |-> "reserved", reservation |-> res]
          /\ pendingOwnershipReservations' = [pendingOwnershipReservations EXCEPT ![id] = res]
      BY <1>1, <2>2 DEF ReserveTargetOwnership, HoldReservation
    <2>4. SameGenerations
      BY <2>1, SetOwnerKeepsGenerations DEF PendingInv
    <2>5. targetsByTargetId'[id] # None /\ targetsByTargetId'[id].session = r.session
      BY <2>1, <2>4 DEF SameGenerations
    <2>6. \A i \in TargetId : pendingOwnershipReservations'[i] = IF i = id THEN res ELSE None
      BY <2>1, <2>3, NothingPending DEF PendingInv, RootInv, TypeOK
    <2>7. adoption' # None
      BY <2>2, <2>3, AbsenceAssumption DEF Adoption
    <2> HIDE DEF res
    <2> QED
      BY <2>2, <2>3, <2>5, <2>6, <2>7 DEF PendingIsTheReservation, IsRegistered
  <1>2. ASSUME NEW id \in TargetId, NEW s \in BrSession, ReleaseTargetOwnership(id, s)
        PROVE  PendingIsTheReservation'
    <2>1. SameGenerations
      BY <1>2, SetOwnerKeepsGenerations DEF ReleaseTargetOwnership, Releases, PendingInv
    <2> QED
      BY <1>2, <2>1, PendingStays DEF ReleaseTargetOwnership
  <1>3. CASE CancelAdoption
    BY <1>3, PendingEnds DEF CancelAdoption, RollbackTargetOwnership
  <1>4. CASE FailAdoption
    BY <1>4, PendingEnds DEF FailAdoption, RollbackTargetOwnership
  <1>5. ASSUME NEW id \in TargetId \cup {None}, CommitTargetOwnership(id)
        PROVE  PendingIsTheReservation'
    BY <1>5, PendingEnds DEF CommitTargetOwnership
  <1> QED
    BY <1>1, <1>2, <1>3, <1>4, <1>5 DEF OwnershipStep

LEMMA PendingInvInit == Init => PendingInv
  BY RootInvInit DEF Init, PendingInv, PendingIsTheReservation, AdoptionIsPast

LEMMA PendingInvNext == PendingInv /\ [Next]_vars => PendingInv'
  <1> SUFFICES ASSUME PendingInv, [Next]_vars PROVE PendingIsTheReservation'
    BY RootInvNext, PastNext DEF PendingInv
  <1>1. ASSUME NEW tab \in Tab, RootStep(tab) PROVE PendingIsTheReservation'
    <2>1. ASSUME NEW id \in TargetId, NEW s \in BrSession \cup {None}, StageRootTarget(tab, id, s)
          PROVE  PendingIsTheReservation'
      BY <2>1, PendingStays DEF StageRootTarget, rootVars, SameGenerations
    <2>2. CASE MarkRootTargetCrashed(tab)
      BY <2>2, RoutingKeepsGenerations, PendingStays DEF MarkRootTargetCrashed, PendingInv
    <2>3. CASE UpdateTargetUrl(tab)
      BY <2>3, RoutingKeepsGenerations, PendingStays DEF UpdateTargetUrl, PendingInv
    <2>4. CASE RememberFrameEvent(tab)
      BY <2>4, PendingStays DEF RememberFrameEvent, rootVars, SameGenerations
    <2> QED
      BY <1>1, <2>1, <2>2, <2>3, <2>4, PendingCommit, PendingDetach DEF RootStep
  <1>2. CASE (\E c \in ChildSession : ChildStep(c)) \/ UNCHANGED vars
    BY <1>2, PendingStays DEF ChildStep, AddChildTarget, DetachChildTargetState, vars, rootVars,
         SameGenerations
  <1>3. CASE OwnershipStep
    BY <1>3, PendingOwnership
  <1>4. CASE Clear
    BY <1>4 DEF Clear, PendingInv, RootInv, TypeOK, Adoption, Reservation, PendingIsTheReservation,
         IsRegistered
  <1> QED
    BY <1>1, <1>2, <1>3, <1>4 DEF Next

(* The stored reservation of a page is exactly the one of the running        *)
(* adoption, while the generation it was made on is registered: none         *)
(* outlives a replacement, a detach, a rollback or a commit.                 *)
THEOREM PendingIsTheAdoptions == Spec => []PendingIsTheReservation
  <1>1. PendingInv => PendingIsTheReservation
    BY DEF PendingInv
  <1> QED
    BY <1>1, PendingInvInit, PendingInvNext, PTL DEF Spec

-----------------------------------------------------------------------------
(* The registry implements TargetOwnership.  The owner of a page whose       *)
(* reservation stands is the session that adopts it, or nobody when that     *)
(* session has released the page meanwhile.                                 *)

Stands == adoption # None /\ adoption.state = "reserved" /\ IsRegistered(adoption.reservation)

ClaimantOwns ==
  adoption # None =>
    LET res == adoption.reservation
    IN  /\ res.previous \in {None, res.session}
        /\ Stands => targetsByTargetId[res.id].browserRigSession \in {None, res.session}

OwnInv == PendingInv /\ ClaimantOwns

(* An owner is written on one generation and on no other.                    *)
OwnerWritten(g, s) ==
  /\ g \in Generation /\ targets[g] # None
  /\ targets' = [targets EXCEPT ![g] = [targets[g] EXCEPT !.browserRigSession = s]]
  /\ targetsByTargetId' =
       [targetsByTargetId EXCEPT ![targets[g].id] = [targets[g] EXCEPT !.browserRigSession = s]]

LEMMA SetOwnerWrites ==
  ASSUME RootInv, NEW id \in TargetId, targetsByTargetId[id] # None,
         NEW s \in BrSession \cup {None}, SetOwner(id, s)
  PROVE  OwnerWritten(targetsByTargetId[id].session, s)
  <1> DEFINE r == targetsByTargetId[id]
             t == [r EXCEPT !.browserRigSession = s]
  <1>1. r \in Root /\ tabTargets[r.tab] = r /\ r.tab \in Tab /\ targets[r.session] = r
    BY DEF RootInv, TypeOK, IndexesAgree, Root
  <1>2. t.session = r.session /\ t.id = r.id /\ r.session \in Generation
    BY <1>1 DEF Root
  <1>3. targets' = [targets EXCEPT ![t.session] = t]
        /\ targetsByTargetId' = [targetsByTargetId EXCEPT ![t.id] = t]
    BY DEF SetOwner, UpdateRoot
  <1> QED
    BY <1>1, <1>2, <1>3 DEF OwnerWritten

(* The owner of each registered generation, and its page, stay.              *)
SameOwners ==
  \A g \in Generation :
    /\ targets'[g] = None <=> targets[g] = None
    /\ targets[g] # None => /\ targets'[g].id = targets[g].id
                            /\ targets'[g].browserRigSession = targets[g].browserRigSession

LEMMA RoutingKeepsOwners ==
  ASSUME RootInv, NEW tab \in Tab, RoutingRoot(tab) # None, NEW b \in BOOLEAN,
         UpdateRoutingRoot(tab, [RoutingRoot(tab) EXCEPT !.crashed = b])
  PROVE  /\ SameOwners
         /\ \A id \in TargetId : targetsByTargetId[id] # None =>
              targetsByTargetId'[id].browserRigSession = targetsByTargetId[id].browserRigSession
  <1> DEFINE r == RoutingRoot(tab)
             t == [r EXCEPT !.crashed = b]
  <1>1. r \in Root
    BY RoutingRootType DEF RootInv
  <1>2. /\ t \in Root /\ t.session = r.session /\ t.id = r.id
        /\ t.browserRigSession = r.browserRigSession
    BY <1>1 DEF Root
  <1>3. CASE stagedRootTargets[tab] # None
    BY <1>3 DEF UpdateRoutingRoot, rootVars, SameOwners
  <1>4. CASE stagedRootTargets[tab] = None
    <2>1. /\ r = tabTargets[tab]
          /\ targets' = [targets EXCEPT ![t.session] = t]
          /\ targetsByTargetId' = [targetsByTargetId EXCEPT ![t.id] = t]
      BY <1>4 DEF UpdateRoutingRoot, RoutingRoot, UpdateRoot
    <2>2. targets[r.session] = r /\ targetsByTargetId[r.id] = r
      BY <2>1 DEF RootInv, IndexesAgree
    <2> HIDE DEF t
    <2> QED
      BY <1>2, <2>1, <2>2, AbsenceAssumption DEF SameOwners, RootInv, TypeOK
  <1> QED
    BY <1>3, <1>4

LEMMA OwnInvInit == Init => OwnInv
  BY PendingInvInit DEF Init, OwnInv, ClaimantOwns

(* While the reservation stays, the page keeps its owner or loses it.        *)
LEMMA ClaimantStays ==
  ASSUME OwnInv, adoption' # None, adoption # None, adoption'.reservation = adoption.reservation,
         LET id == adoption.reservation.id
         IN  Stands' => /\ Stands
                        /\ \/ targetsByTargetId'[id].browserRigSession = None
                           \/ targetsByTargetId'[id].browserRigSession
                                = targetsByTargetId[id].browserRigSession
  PROVE  ClaimantOwns'
  BY DEF OwnInv, ClaimantOwns

LEMMA OwnInvNext == OwnInv /\ [Next]_vars => OwnInv'
  <1> SUFFICES ASSUME OwnInv, [Next]_vars, adoption' # None PROVE ClaimantOwns'
    BY PendingInvNext DEF OwnInv, ClaimantOwns
  <1> DEFINE res == adoption.reservation
  <1>1. PendingInv /\ RootInv
    BY DEF OwnInv, PendingInv
  <1>2. ASSUME adoption # None PROVE res \in Reservation /\ res.id \in TargetId
    BY <1>1, <1>2 DEF RootInv, TypeOK, Adoption, Reservation
  <1>3. CASE UNCHANGED <<targetsByTargetId, adoption>>
    BY <1>3 DEF OwnInv, ClaimantOwns, Stands, IsRegistered
  <1>4. ASSUME NEW tab \in Tab, MarkRootTargetCrashed(tab) \/ UpdateTargetUrl(tab)
        PROVE  ClaimantOwns'
    <2>1. UNCHANGED adoption
      BY <1>4 DEF MarkRootTargetCrashed, UpdateTargetUrl
    <2>2. SameGenerations /\ (\A id \in TargetId : targetsByTargetId[id] # None =>
              targetsByTargetId'[id].browserRigSession = targetsByTargetId[id].browserRigSession)
      BY <1>1, <1>4, RoutingKeepsGenerations, RoutingKeepsOwners DEF MarkRootTargetCrashed, UpdateTargetUrl
    <2> QED
      BY <1>2, <2>1, <2>2, ClaimantStays DEF Stands, IsRegistered, SameGenerations
  <1>5. ASSUME NEW tab \in Tab, CommitStagedRootTarget(tab)
        PROVE  ClaimantOwns'
    <2> DEFINE t == stagedRootTargets[tab]
               e == tabTargets[tab]
               u == IF e = None THEN t ELSE Successor(e, t)
    <2>1. t # None /\ t \in Root /\ t.tab = tab /\ e \in Root \cup {None} /\ UNCHANGED adoption
      BY <1>1, <1>5 DEF CommitStagedRootTarget, RootInv, TypeOK, StagedIsNew, AtHome
    <2>2. u \in Root /\ u.tab = tab /\ u.session = t.session /\ u.id = t.id
      BY <1>1, <2>1, SuccessorType DEF RootInv
    <2>3. InsertRoot(u)
      BY <1>5 DEF CommitStagedRootTarget, CommitFirst, CommitReplacement
    <2> HIDE DEF u
    <2>4. Inserted(tab, u)
      BY <1>1, <2>1, <2>2, <2>3, InsertRootTables
    <2>5. u.session # res.targetSession
      BY <1>1, <2>1, <2>2 DEF PendingInv, AdoptionIsPast
    <2>6. Stands' => Stands /\ targetsByTargetId'[res.id] = targetsByTargetId[res.id]
      BY <1>2, <2>1, <2>4, <2>5 DEF Inserted, Stands, IsRegistered
    <2> QED
      BY <2>1, <2>6, ClaimantStays
  <1>6. ASSUME NEW tab \in Tab, DetachRootTarget(tab)
        PROVE  ClaimantOwns'
    <2>1. Stands' => Stands /\ targetsByTargetId'[res.id] = targetsByTargetId[res.id]
      BY <1>1, <1>2, <1>6 DEF DetachRootTarget, Stands, IsRegistered, RootInv, TypeOK
    <2> QED
      BY <1>6, <2>1, ClaimantStays DEF DetachRootTarget
  <1>7. ASSUME NEW id \in TargetId, NEW s \in BrSession, ReserveTargetOwnership(id, s)
        PROVE  ClaimantOwns'
    <2> DEFINE r == targetsByTargetId[id]
               new == ReservationOf(r, s)
    <2>1. /\ r \in Root /\ r # None /\ r.id = id /\ r.browserRigSession \in {None, s}
          /\ SetOwner(id, s) /\ adoption' = [state |-> "reserved", reservation |-> new]
          /\ targets[r.session] = r
      BY <1>1, <1>7 DEF ReserveTargetOwnership, SetOwner, RootInv, TypeOK, IndexesAgree, Root
    <2>2. OwnerWritten(r.session, s)
      BY <1>1, <2>1, SetOwnerWrites
    <2>3. targetsByTargetId'[id].browserRigSession = s
      BY <1>1, <2>1, <2>2 DEF OwnerWritten, RootInv, TypeOK, Root
    <2>4. new.session = s /\ new.previous \in {None, s} /\ new.id = id
      BY <2>1 DEF ReservationOf
    <2> HIDE DEF new
    <2> QED
      BY <2>1, <2>3, <2>4 DEF ClaimantOwns
  <1>8. ASSUME NEW id \in TargetId, NEW s \in BrSession, ReleaseTargetOwnership(id, s)
        PROVE  ClaimantOwns'
    <2>1. UNCHANGED adoption /\ targetsByTargetId[id] # None /\ SetOwner(id, None)
      BY <1>8 DEF ReleaseTargetOwnership, Releases
    <2>2. SameGenerations /\ OwnerWritten(targetsByTargetId[id].session, None)
      BY <1>1, <2>1, SetOwnerWrites, SetOwnerKeepsGenerations
    <2>3. \A i \in TargetId : \/ targetsByTargetId'[i] = targetsByTargetId[i]
                              \/ targetsByTargetId'[i].browserRigSession = None
      BY <1>1, <2>1, <2>2 DEF OwnerWritten, RootInv, TypeOK, IndexesAgree, Root
    <2>4. Stands' => Stands
      BY <1>2, <2>1, <2>2 DEF Stands, IsRegistered, SameGenerations
    <2> QED
      BY <1>2, <2>1, <2>3, <2>4, ClaimantStays
  <1>9. CASE CancelAdoption
    <2>1. adoption' = [adoption EXCEPT !.state = "cancelled"] /\ adoption \in Adoption
      BY <1>1, <1>9 DEF CancelAdoption, RootInv, TypeOK
    <2>2. adoption'.state = "cancelled" /\ adoption'.reservation = adoption.reservation
      BY <2>1 DEF Adoption
    <2> QED
      BY <1>9, <2>2, ClaimantStays DEF CancelAdoption, Stands
  <1>10. CASE OwnershipStep
    BY <1>7, <1>8, <1>9, <1>10 DEF OwnershipStep, FailAdoption, CommitTargetOwnership
  <1>11. ASSUME NEW tab \in Tab, RootStep(tab) PROVE ClaimantOwns'
    BY <1>3, <1>4, <1>5, <1>6, <1>11 DEF RootStep, StageRootTarget, DetachStagedOnly,
         RememberFrameEvent, rootVars
  <1>12. CASE (\E c \in ChildSession : ChildStep(c)) \/ UNCHANGED vars
    BY <1>3, <1>12 DEF ChildStep, AddChildTarget, DetachChildTargetState, vars, rootVars
  <1>13. CASE Clear
    BY <1>2, <1>13, ClaimantStays DEF Clear, Stands, IsRegistered
  <1> QED
    BY <1>10, <1>11, <1>12, <1>13 DEF Next

-----------------------------------------------------------------------------
(* The refinement mapping, in terms of the adoption instead of the table of   *)
(* reservations.                                                            *)
Reserved(g) == Stands /\ g = adoption.reservation.targetSession

MappedForm ==
  /\ SettledOwner = [g \in Generation |->
       IF targets[g] = None THEN None
       ELSE IF Reserved(g) THEN adoption.reservation.previous ELSE targets[g].browserRigSession]
  /\ ClaimInFlight = IF Stands THEN [gen |-> adoption.reservation.targetSession,
                                     session |-> adoption.reservation.session] ELSE None
  /\ Stands => LET res == adoption.reservation
               IN  /\ res \in Reservation
                   /\ targets[res.targetSession] # None
                   /\ targets[res.targetSession].id = res.id
                   /\ targetsByTargetId[res.id] = targets[res.targetSession]

LEMMA Mapped == PendingInv => MappedForm
  <1> SUFFICES ASSUME PendingInv PROVE MappedForm
    OBVIOUS
  <1> DEFINE res == adoption.reservation
  <1>1. \A g \in Generation : targets[g] # None =>
          /\ targets[g].session = g /\ targets[g].id \in TargetId
          /\ targetsByTargetId[targets[g].id] = targets[g]
    BY DEF PendingInv, RootInv, TypeOK, IndexesAgree, Root
  <1>2. Stands => /\ res \in Reservation
                  /\ targets[res.targetSession] # None
                  /\ targets[res.targetSession].id = res.id
                  /\ targetsByTargetId[res.id] = targets[res.targetSession]
    BY DEF PendingInv, RootInv, TypeOK, IndexesAgree, Root, Stands, IsRegistered, Adoption, Reservation
  <1>3. ASSUME NEW id \in TargetId
        PROVE  pendingOwnershipReservations[id] = IF Stands /\ res.id = id THEN res ELSE None
    BY DEF PendingInv, PendingIsTheReservation, Stands
  <1>4. Stands => res # None
    BY <1>2, AbsenceAssumption
  <1>5. ASSUME NEW g \in Generation, targets[g] # None
        PROVE  (LET pending == pendingOwnershipReservations[targets[g].id]
                IN  IF pending # None THEN pending.previous ELSE targets[g].browserRigSession)
               = IF Reserved(g) THEN res.previous ELSE targets[g].browserRigSession
    <2>1. Stands /\ res.id = targets[g].id <=> Reserved(g)
      BY <1>1, <1>2, <1>5 DEF Reserved, Stands, IsRegistered
    <2> QED
      BY <1>1, <1>3, <1>4, <1>5, <2>1
  <1>6. SettledOwner = [g \in Generation |->
           IF targets[g] = None THEN None
           ELSE IF Reserved(g) THEN res.previous ELSE targets[g].browserRigSession]
    BY <1>5 DEF SettledOwner
  <1>7. ClaimInFlight = IF Stands THEN [gen |-> res.targetSession, session |-> res.session] ELSE None
    <2>1. CASE Stands
      <3>1. res.id \in TargetId /\ pendingOwnershipReservations[res.id] # None
        BY <1>2, <1>3, <1>4, <2>1 DEF Reservation
      <3>2. (CHOOSE i \in TargetId : pendingOwnershipReservations[i] # None) = res.id
        BY <1>3, <3>1
      <3> QED
        BY <1>3, <2>1, <3>1, <3>2 DEF ClaimInFlight
    <2>2. CASE ~ Stands
      BY <1>3, <2>2 DEF ClaimInFlight
    <2> QED
      BY <2>1, <2>2
  <1> QED
    BY <1>2, <1>6, <1>7 DEF MappedForm

LEMMA MappedNext == PendingInv' => MappedForm'
  BY Mapped, PTL

(* A step that keeps the owners and the reservations is a stutter of the     *)
(* promise.                                                                 *)
LEMMA Stutters ==
  ASSUME SameOwners, UNCHANGED pendingOwnershipReservations
  PROVE  UNCHANGED Ownership!vars
  <1>1. SettledOwner' = SettledOwner
    BY DEF SettledOwner, SameOwners
  <1>2. LiveGenerations' = LiveGenerations
    BY DEF LiveGenerations, SameOwners
  <1>3. ClaimInFlight' = ClaimInFlight
    BY DEF ClaimInFlight
  <1> QED
    BY <1>1, <1>2, <1>3 DEF Ownership!vars

LEMMA OwnershipInit == Init => Ownership!Init
  BY DEF Init, Ownership!Init, SettledOwner, LiveGenerations, ClaimInFlight

(* A commit registers a generation, or makes it the successor of another.    *)
LEMMA CommitImplements ==
  ASSUME OwnInv, OwnInv', NEW tab \in Tab, CommitStagedRootTarget(tab)
  PROVE  Ownership!Next
  <1> DEFINE t == stagedRootTargets[tab]
             e == tabTargets[tab]
             u == IF e = None THEN t ELSE Successor(e, t)
             h == t.session
  <1>1. PendingInv /\ PendingInv' /\ RootInv /\ MappedForm /\ MappedForm' /\ UNCHANGED adoption
    BY Mapped, MappedNext DEF OwnInv, PendingInv, CommitStagedRootTarget
  <1>2. t # None /\ t \in Root /\ t.tab = tab /\ e \in Root \cup {None}
    BY <1>1 DEF CommitStagedRootTarget, RootInv, TypeOK, StagedIsNew, AtHome
  <1>3. u \in Root /\ u.tab = tab /\ u.session = h /\ u.id = t.id
    BY <1>1, <1>2, SuccessorType DEF RootInv
  <1>4. InsertRoot(u)
    BY DEF CommitStagedRootTarget, CommitFirst, CommitReplacement
  <1>5. u # None /\ u.browserRigSession \in BrSession \cup {None}
    BY <1>3, AbsenceAssumption DEF Root
  <1>6. e # None => u.browserRigSession = SettledOwner[e.session]
    <2>1. e # None => e.session \in Generation /\ targets[e.session] = e
      BY <1>1, <1>2 DEF RootInv, IndexesAgree, Root
    <2>2. e # None => u.browserRigSession = InheritedSession(e)
      BY <1>2 DEF Successor, Root
    <2> QED
      BY <2>1, <2>2 DEF InheritedSession, SettledOwner
  <1> HIDE DEF u
  <1>7. Inserted(tab, u)
    BY <1>1, <1>2, <1>3, <1>4, InsertRootTables
  <1>8. /\ targets[h] = None /\ h \in Generation
        /\ targets' = [g \in Generation |-> IF g = h THEN u
                        ELSE IF e # None /\ g = e.session THEN None ELSE targets[g]]
    BY <1>3, <1>7 DEF Inserted
  <1>9. Stands => adoption.reservation.targetSession # h
    BY <1>1, <1>2 DEF PendingInv, AdoptionIsPast, Stands
  <1>10. CASE e = None
    <2>1. Stands' <=> Stands
      <3>1. ASSUME Stands PROVE Stands'
        BY <1>1, <1>3, <1>7, <1>9, <1>10, <3>1 DEF Inserted, MappedForm, Stands, IsRegistered, Reservation
      <3>2. ASSUME Stands' PROVE Stands
        <4>1. adoption.reservation.targetSession # h /\ adoption.reservation.id \in TargetId
          BY <1>1, <1>2, <3>2 DEF PendingInv, AdoptionIsPast, Stands, RootInv, TypeOK, Adoption, Reservation
        <4> QED
          BY <1>1, <1>3, <1>7, <1>10, <3>2, <4>1 DEF Inserted, Stands, IsRegistered
      <3> QED
        BY <3>1, <3>2
    <2>2. SettledOwner' = [SettledOwner EXCEPT ![h] = u.browserRigSession]
      <3>1. \A g \in Generation : Reserved(g)' <=> Reserved(g)
        BY <1>1, <2>1 DEF Reserved
      <3>2. ~ Reserved(h)
        BY <1>9 DEF Reserved
      <3> QED
        BY <1>1, <1>5, <1>8, <1>10, <3>1, <3>2 DEF MappedForm
    <2>3. LiveGenerations' = LiveGenerations \cup {h}
      BY <1>5, <1>8, <1>10 DEF LiveGenerations
    <2>4. ClaimInFlight' = ClaimInFlight
      BY <1>1, <2>1 DEF MappedForm
    <2>5. Ownership!Register(h, u.browserRigSession)
      BY <1>8, <2>2, <2>3, <2>4 DEF Ownership!Register, LiveGenerations
    <2> QED
      BY <1>5, <1>8, <2>5 DEF Ownership!Next
  <1>11. CASE e # None
    <2> DEFINE g == e.session
    <2>1. g \in Generation /\ targets[g] = e /\ g # h /\ targetsByTargetId[e.id] = e
      BY <1>1, <1>2, <1>8, <1>11 DEF RootInv, IndexesAgree, Root
    <2>2. Stands' <=> Stands /\ adoption.reservation.targetSession # g
      <3>1. ASSUME Stands, adoption.reservation.targetSession # g PROVE Stands'
        BY <1>1, <1>3, <1>7, <1>9, <2>1, <3>1
           DEF Inserted, MappedForm, Stands, IsRegistered, Reservation
      <3>2. ASSUME Stands' PROVE Stands /\ adoption.reservation.targetSession # g
        <4>1. adoption.reservation.targetSession # h /\ adoption.reservation.id \in TargetId
          BY <1>1, <1>2, <3>2 DEF PendingInv, AdoptionIsPast, Stands, RootInv, TypeOK, Adoption, Reservation
        <4>2. Stands /\ targetsByTargetId'[adoption.reservation.id] = targetsByTargetId[adoption.reservation.id]
              /\ adoption.reservation.id # e.id
          BY <1>1, <1>3, <1>7, <1>11, <3>2, <4>1 DEF Inserted, Stands, IsRegistered
        <4> QED
          BY <1>1, <2>1, <4>2 DEF MappedForm
      <3> QED
        BY <3>1, <3>2
    <2>3. SettledOwner' = [SettledOwner EXCEPT ![g] = None, ![h] = SettledOwner[g]]
      <3>1. \A k \in Generation \ {g} : Reserved(k)' <=> Reserved(k)
        BY <1>1, <2>2 DEF Reserved
      <3>2. ~ Reserved(h)
        BY <1>9 DEF Reserved
      <3> QED
        BY <1>1, <1>5, <1>6, <1>8, <1>11, <2>1, <3>1, <3>2 DEF MappedForm
    <2>4. LiveGenerations' = (LiveGenerations \ {g}) \cup {h}
      BY <1>5, <1>8, <1>11, <2>1 DEF LiveGenerations
    <2>5. ClaimInFlight' = Ownership!NoClaimOn(g)
      <3>1. Stands => ClaimInFlight # None /\ ClaimInFlight.gen = adoption.reservation.targetSession
        BY <1>1, AbsenceAssumption DEF MappedForm, Reservation, Claim
      <3> QED
        BY <1>1, <2>2, <3>1 DEF MappedForm, Ownership!NoClaimOn
    <2>6. Ownership!Succeed(g, h)
      BY <1>8, <1>11, <2>1, <2>3, <2>4, <2>5 DEF Ownership!Succeed, LiveGenerations
    <2> QED
      BY <1>8, <2>1, <2>6 DEF Ownership!Next
  <1> QED
    BY <1>10, <1>11

(* A detach retires the generation, with a claim on it.                      *)
LEMMA DetachImplements ==
  ASSUME OwnInv, OwnInv', NEW tab \in Tab, DetachRootTarget(tab)
  PROVE  Ownership!Next
  <1> DEFINE r == tabTargets[tab]
             g == r.session
  <1>1. PendingInv /\ RootInv /\ MappedForm /\ MappedForm' /\ UNCHANGED adoption
    BY Mapped, MappedNext DEF OwnInv, PendingInv, DetachRootTarget
  <1>2. /\ r \in Root /\ g \in Generation /\ r.id \in TargetId
        /\ targets[g] = r /\ targetsByTargetId[r.id] = r /\ r # None
        /\ targets' = [targets EXCEPT ![g] = None]
        /\ targetsByTargetId' = [targetsByTargetId EXCEPT ![r.id] = None]
    BY <1>1 DEF DetachRootTarget, RootInv, TypeOK, IndexesAgree, Root
  <1>3. Stands' <=> Stands /\ adoption.reservation.targetSession # g
    <2>1. Stands => adoption.reservation.id \in TargetId
      BY <1>1 DEF MappedForm, Reservation
    <2>2. Stands /\ adoption.reservation.targetSession # g => adoption.reservation.id # r.id
      BY <1>1, <1>2 DEF Stands, IsRegistered
    <2>3. Stands' => Stands /\ adoption.reservation.id # r.id
      BY <1>1, <1>2 DEF Stands, IsRegistered, RootInv, TypeOK, Adoption, Reservation
    <2> QED
      BY <1>1, <1>2, <2>1, <2>2, <2>3 DEF Stands, IsRegistered, MappedForm, RootInv, TypeOK
  <1>4. SettledOwner' = [SettledOwner EXCEPT ![g] = None]
    <2>1. \A k \in Generation \ {g} : Reserved(k)' <=> Reserved(k)
      BY <1>1, <1>3 DEF Reserved
    <2> QED
      BY <1>1, <1>2, <2>1 DEF MappedForm, RootInv, TypeOK
  <1>5. LiveGenerations' = LiveGenerations \ {g}
    BY <1>1, <1>2 DEF LiveGenerations, RootInv, TypeOK
  <1>6. ClaimInFlight' = Ownership!NoClaimOn(g)
    <2>1. Stands => ClaimInFlight # None /\ ClaimInFlight.gen = adoption.reservation.targetSession
      BY <1>1, AbsenceAssumption DEF MappedForm, Reservation, Claim
    <2> QED
      BY <1>1, <1>3, <2>1 DEF MappedForm, Ownership!NoClaimOn
  <1>7. Ownership!Retire(g)
    BY <1>2, <1>4, <1>5, <1>6 DEF Ownership!Retire, LiveGenerations
  <1> QED
    BY <1>2, <1>7 DEF Ownership!Next

(* So does a new connection, for all generations.                            *)
LEMMA ClearImplements ==
  ASSUME Clear
  PROVE  Ownership!Next
  <1>1. SettledOwner' = [g \in Generation |-> None] /\ LiveGenerations' = {} /\ ClaimInFlight' = None
    BY DEF Clear, SettledOwner, LiveGenerations, ClaimInFlight
  <1> QED
    BY <1>1 DEF Ownership!Next, Ownership!Forget

(* A reservation is a claim and changes no settled owner.                    *)
LEMMA ReserveImplements ==
  ASSUME OwnInv, OwnInv', NEW id \in TargetId, NEW s \in BrSession, ReserveTargetOwnership(id, s)
  PROVE  Ownership!Next
  <1> DEFINE r == targetsByTargetId[id]
             g == r.session
             res == ReservationOf(r, s)
  <1>1. RootInv /\ MappedForm /\ MappedForm' /\ ~ Stands
    BY Mapped, MappedNext DEF OwnInv, PendingInv, ReserveTargetOwnership, Stands
  <1>2. /\ r \in Root /\ r # None /\ r.id = id /\ r.browserRigSession \in {None, s}
        /\ targets[g] = r /\ g \in Generation /\ SetOwner(id, s)
        /\ adoption' = [state |-> "reserved", reservation |-> res]
    BY <1>1 DEF ReserveTargetOwnership, SetOwner, RootInv, TypeOK, IndexesAgree, Root
  <1>3. /\ res \in Reservation /\ res.id = id /\ res.targetSession = g
        /\ res.session = s /\ res.previous = r.browserRigSession
    BY <1>2 DEF ReservationOf, Reservation, Root
  <1> HIDE DEF res
  <1>4. OwnerWritten(g, s) /\ SameGenerations
    BY <1>1, <1>2, SetOwnerWrites, SetOwnerKeepsGenerations
  <1>5. Stands'
    <2>1. adoption' # None
      BY <1>2, <1>3, AbsenceAssumption DEF Adoption
    <2> QED
      BY <1>2, <1>3, <1>4, <2>1 DEF Stands, IsRegistered, SameGenerations
  <1>6. targets'[g] # None /\ \A k \in Generation \ {g} : targets'[k] = targets[k]
    BY <1>1, <1>2, <1>3, <1>5, <1>4 DEF OwnerWritten, MappedForm, RootInv, TypeOK
  <1>7. SettledOwner' = SettledOwner
    <2>1. \A k \in Generation : Reserved(k)' <=> k = g
      BY <1>2, <1>3, <1>5 DEF Reserved
    <2>2. \A k \in Generation : ~ Reserved(k)
      BY <1>1 DEF Reserved
    <2> QED
      BY <1>1, <1>2, <1>3, <1>6, <2>1, <2>2 DEF MappedForm
  <1>8. LiveGenerations' = LiveGenerations
    BY <1>2, <1>6 DEF LiveGenerations
  <1>9. ClaimInFlight = None /\ ClaimInFlight' = [gen |-> g, session |-> s]
    BY <1>1, <1>2, <1>3, <1>5 DEF MappedForm
  <1>10. SettledOwner[g] \in {s, None}
    BY <1>1, <1>2 DEF MappedForm, Reserved
  <1>11. Ownership!Claim(g, s)
    BY <1>2, <1>7, <1>8, <1>9, <1>10 DEF Ownership!Claim, LiveGenerations
  <1> QED
    BY <1>2, <1>11 DEF Ownership!Next

(* What a step that writes one owner does to the promise, when it leaves the  *)
(* reservation, or ends it.                                                 *)
LEMMA OwnerWrittenMapped ==
  ASSUME OwnInv, OwnInv', NEW g \in Generation, NEW s \in BrSession \cup {None}, OwnerWritten(g, s)
  PROVE  /\ LiveGenerations' = LiveGenerations
         /\ (\A k \in Generation : Reserved(k)' <=> Reserved(k)) /\ UNCHANGED adoption =>
              SettledOwner' = IF Reserved(g) THEN SettledOwner ELSE [SettledOwner EXCEPT ![g] = s]
         /\ (\A k \in Generation : ~ Reserved(k)') =>
              SettledOwner' = [k \in Generation |->
                IF k = g THEN s ELSE IF targets[k] = None THEN None ELSE targets[k].browserRigSession]
  <1>1. RootInv /\ MappedForm /\ MappedForm' /\ RootInv'
    BY Mapped, MappedNext DEF OwnInv, PendingInv
  <1>2. /\ targets[g] \in Root /\ targets[g] # None
        /\ targets'[g] = [targets[g] EXCEPT !.browserRigSession = s]
        /\ \A k \in Generation \ {g} : targets'[k] = targets[k]
    BY <1>1 DEF OwnerWritten, RootInv, TypeOK
  <1>3. targets'[g] \in Root /\ targets'[g].browserRigSession = s /\ targets'[g] # None
    BY <1>2, AbsenceAssumption DEF Root
  <1>4. LiveGenerations' = LiveGenerations
    BY <1>2, <1>3 DEF LiveGenerations
  <1>5. ASSUME \A k \in Generation : Reserved(k)' <=> Reserved(k), UNCHANGED adoption
        PROVE  SettledOwner' = IF Reserved(g) THEN SettledOwner ELSE [SettledOwner EXCEPT ![g] = s]
    BY <1>1, <1>2, <1>3, <1>5 DEF MappedForm
  <1>6. ASSUME \A k \in Generation : ~ Reserved(k)'
        PROVE  SettledOwner' = [k \in Generation |->
                IF k = g THEN s ELSE IF targets[k] = None THEN None ELSE targets[k].browserRigSession]
    BY <1>1, <1>2, <1>3, <1>6 DEF MappedForm
  <1> QED
    BY <1>4, <1>5, <1>6

(* A page given up by its session is released, unless the session is adopting *)
(* it: the settled owner is then the one to go back to.                      *)
LEMMA ReleaseImplements ==
  ASSUME OwnInv, OwnInv', NEW id \in TargetId, NEW s \in BrSession, ReleaseTargetOwnership(id, s)
  PROVE  Ownership!Next \/ UNCHANGED Ownership!vars
  <1> DEFINE r == targetsByTargetId[id]
             g == r.session
  <1>1. RootInv /\ MappedForm /\ MappedForm' /\ UNCHANGED adoption
    BY Mapped, MappedNext DEF OwnInv, PendingInv, ReleaseTargetOwnership
  <1>2. /\ r \in Root /\ r # None /\ r.browserRigSession = s /\ targets[g] = r /\ g \in Generation
        /\ SetOwner(id, None)
    BY <1>1 DEF ReleaseTargetOwnership, Releases, RootInv, TypeOK, IndexesAgree, Root
  <1>3. OwnerWritten(g, None) /\ SameGenerations
    BY <1>1, <1>2, SetOwnerWrites, SetOwnerKeepsGenerations
  <1>4. Stands' <=> Stands
    <2>1. adoption # None => adoption.reservation.id \in TargetId
      BY <1>1 DEF RootInv, TypeOK, Adoption, Reservation
    <2> QED
      BY <1>1, <1>3, <2>1 DEF Stands, IsRegistered, SameGenerations
  <1>5. \A k \in Generation : Reserved(k)' <=> Reserved(k)
    BY <1>1, <1>4 DEF Reserved
  <1>6. ClaimInFlight' = ClaimInFlight
    BY <1>1, <1>4 DEF MappedForm
  <1>7. /\ LiveGenerations' = LiveGenerations
        /\ SettledOwner' = IF Reserved(g) THEN SettledOwner ELSE [SettledOwner EXCEPT ![g] = None]
    BY <1>1, <1>2, <1>3, <1>5, OwnerWrittenMapped
  <1>8. CASE Reserved(g)
    BY <1>6, <1>7, <1>8 DEF Ownership!vars
  <1>9. CASE ~ Reserved(g)
    <2>1. SettledOwner[g] = s
      BY <1>1, <1>2, <1>9 DEF MappedForm
    <2>2. Ownership!Release(g, s)
      BY <1>6, <1>7, <1>9, <2>1 DEF Ownership!Release
    <2> QED
      BY <1>2, <2>2 DEF Ownership!Next
  <1> QED
    BY <1>8, <1>9

(* An adoption that is cancelled or fails withdraws its claim; the session    *)
(* that claimed a page it owned and has released since loses it.             *)
LEMMA RollbackImplements ==
  ASSUME OwnInv, OwnInv', CancelAdoption \/ FailAdoption
  PROVE  Ownership!Next \/ UNCHANGED Ownership!vars
  <1> DEFINE res == adoption.reservation
             g == res.targetSession
             r == targetsByTargetId[res.id]
  <1>1. /\ RootInv /\ PendingInv /\ MappedForm /\ MappedForm'
        /\ adoption # None /\ RollbackTargetOwnership(res)
        /\ pendingOwnershipReservations' = [pendingOwnershipReservations EXCEPT ![res.id] = None]
    BY Mapped, MappedNext DEF OwnInv, PendingInv, CancelAdoption, FailAdoption, RollbackTargetOwnership
  <1>2. res \in Reservation /\ res.id \in TargetId
        /\ res.previous \in {None, res.session} /\ res.previous \in BrSession \cup {None}
    BY <1>1 DEF RootInv, TypeOK, Adoption, Reservation, OwnInv, ClaimantOwns
  <1>3. ~ Stands'
    BY <1>1 DEF CancelAdoption, FailAdoption, Stands, RootInv, TypeOK, Adoption
  <1>4. (\A k \in Generation : ~ Reserved(k)') /\ ClaimInFlight' = None
    BY <1>1, <1>3 DEF Reserved, MappedForm
  <1>5. CASE Stands
    <2>1. /\ targets[g] # None /\ r = targets[g] /\ g \in Generation /\ r.session = g
          /\ r.browserRigSession \in {None, res.session}
      BY <1>1, <1>2, <1>5 DEF MappedForm, Stands, IsRegistered, OwnInv, ClaimantOwns, Reservation
    <2>2. ClaimInFlight # None /\ ClaimInFlight.gen = g /\ ClaimInFlight.session = res.session
      BY <1>1, <1>2, <1>5, AbsenceAssumption DEF MappedForm, Reservation, Claim
    <2>3. SettledOwner = [k \in Generation |-> IF k = g THEN res.previous
             ELSE IF targets[k] = None THEN None ELSE targets[k].browserRigSession]
      BY <1>1, <1>5, <2>1 DEF MappedForm, Reserved
    <2>4. CASE StillReserved(res)
      <3>1. OwnerWritten(g, res.previous)
        BY <1>1, <1>2, <2>1, <2>4, SetOwnerWrites DEF RollbackTargetOwnership, StillReserved
      <3>2. LiveGenerations' = LiveGenerations /\ SettledOwner' = SettledOwner
        BY <1>2, <1>4, <2>1, <2>3, <3>1, OwnerWrittenMapped
      <3>3. Ownership!Withdraw
        BY <1>4, <2>2, <3>2 DEF Ownership!Withdraw
      <3> QED
        BY <3>3 DEF Ownership!Next
    <2>5. CASE ~ StillReserved(res)
      <3>1. UNCHANGED rootVars /\ r.browserRigSession = None
        BY <1>1, <2>1, <2>5 DEF RollbackTargetOwnership, StillReserved
      <3>2. LiveGenerations' = LiveGenerations
        BY <3>1 DEF LiveGenerations, rootVars
      <3>3. SettledOwner' = [SettledOwner EXCEPT ![g] = None]
        BY <1>1, <1>4, <2>1, <2>3, <3>1 DEF MappedForm, rootVars
      <3>4. CASE res.previous = None
        <4>1. SettledOwner' = SettledOwner
          BY <2>1, <2>3, <3>3, <3>4
        <4>2. Ownership!Withdraw
          BY <1>4, <2>2, <3>2, <4>1 DEF Ownership!Withdraw
        <4> QED
          BY <4>2 DEF Ownership!Next
      <3>5. CASE res.previous = res.session
        <4>1. SettledOwner[g] = res.session
          BY <2>1, <2>3, <3>5
        <4>2. Ownership!WithdrawReleased
          BY <1>4, <2>2, <3>2, <3>3, <4>1 DEF Ownership!WithdrawReleased
        <4> QED
          BY <4>2 DEF Ownership!Next
      <3> QED
        BY <1>2, <3>4, <3>5
    <2> QED
      BY <2>4, <2>5
  <1>6. CASE ~ Stands
    <2>1. pendingOwnershipReservations' = pendingOwnershipReservations
      BY <1>1, <1>2, <1>6 DEF PendingInv, PendingIsTheReservation, Stands, RootInv, TypeOK
    <2>2. CASE ~ StillReserved(res)
      BY <1>1, <2>1, <2>2, Stutters DEF RollbackTargetOwnership, rootVars, SameOwners
    <2>3. CASE StillReserved(res)
      <3>1. /\ r # None /\ r.session = g /\ r.browserRigSession = res.session
            /\ g \in Generation /\ targets[g] = r /\ res.session \in BrSession
        BY <1>1, <1>2, <2>3 DEF StillReserved, RootInv, TypeOK, IndexesAgree, Root, Reservation
      <3>2. OwnerWritten(g, res.previous)
        BY <1>1, <1>2, <2>3, <3>1, SetOwnerWrites DEF RollbackTargetOwnership
      <3>3. LiveGenerations' = LiveGenerations /\ ClaimInFlight' = ClaimInFlight
        BY <1>1, <1>2, <1>4, <1>6, <3>1, <3>2, OwnerWrittenMapped DEF MappedForm
      <3>4. SettledOwner = [k \in Generation |->
               IF targets[k] = None THEN None ELSE targets[k].browserRigSession]
        BY <1>1, <1>6 DEF MappedForm, Reserved
      <3>5. SettledOwner' = [SettledOwner EXCEPT ![g] = res.previous]
        BY <1>2, <1>4, <3>1, <3>2, <3>4, OwnerWrittenMapped
      <3>6. SettledOwner[g] = res.session
        BY <3>1, <3>4
      <3>7. CASE res.previous = res.session
        BY <3>3, <3>4, <3>5, <3>6, <3>7 DEF Ownership!vars
      <3>8. CASE res.previous = None
        <4>1. Ownership!Release(g, res.session)
          BY <3>3, <3>5, <3>6, <3>8 DEF Ownership!Release
        <4> QED
          BY <3>1, <4>1 DEF Ownership!Next
      <3> QED
        BY <1>2, <3>7, <3>8
    <2> QED
      BY <2>2, <2>3
  <1> QED
    BY <1>5, <1>6

(* A committed adoption settles its claim, and with it gives up the page the  *)
(* session had before.                                                      *)
LEMMA CommitOwnershipImplements ==
  ASSUME OwnInv, OwnInv', NEW old \in TargetId \cup {None}, CommitTargetOwnership(old)
  PROVE  Ownership!Next
  <1> DEFINE res == adoption.reservation
             g == res.targetSession
             r == targetsByTargetId[res.id]
             o == targetsByTargetId[old]
  <1>1. /\ RootInv /\ PendingInv /\ MappedForm /\ MappedForm'
        /\ adoption # None /\ adoption' = None /\ StillReserved(res)
    BY Mapped, MappedNext DEF OwnInv, PendingInv, CommitTargetOwnership
  <1>2. Stands /\ ~ Stands'
    BY <1>1 DEF CommitTargetOwnership, Stands, StillReserved, IsRegistered
  <1>3. /\ res \in Reservation /\ res.session \in BrSession /\ g \in Generation
        /\ targets[g] # None /\ r = targets[g] /\ r.session = g
        /\ r.browserRigSession = res.session
    BY <1>1, <1>2 DEF MappedForm, StillReserved, Reservation
  <1>4. /\ ClaimInFlight # None /\ ClaimInFlight.gen = g /\ ClaimInFlight.session = res.session
        /\ ClaimInFlight' = None /\ \A k \in Generation : ~ Reserved(k)'
    BY <1>1, <1>2, <1>3, AbsenceAssumption DEF MappedForm, Reserved, Claim
  <1>5. SettledOwner = [k \in Generation |-> IF targets[k] = None THEN None
           ELSE IF k = g THEN res.previous ELSE targets[k].browserRigSession]
    BY <1>1, <1>2 DEF MappedForm, Reserved
  <1>6. CASE old \notin {None, res.id} /\ Releases(old, res.session)
    <2>1. /\ old \in TargetId /\ o # None /\ o.browserRigSession = res.session
          /\ o.id = old /\ o.session \in Generation /\ targets[o.session] = o
          /\ SetOwner(old, None)
      BY <1>1, <1>6 DEF Releases, CommitTargetOwnership, RootInv, TypeOK, IndexesAgree, Root
    <2>2. o.session # g
      BY <1>1, <1>3, <1>6, <2>1 DEF MappedForm, StillReserved, RootInv, IndexesAgree, Reservation
    <2>3. OwnerWritten(o.session, None)
      BY <1>1, <2>1, SetOwnerWrites
    <2>4. /\ LiveGenerations' = LiveGenerations
          /\ SettledOwner' = [k \in Generation |-> IF k = o.session THEN None
                ELSE IF targets[k] = None THEN None ELSE targets[k].browserRigSession]
      BY <1>4, <2>1, <2>3, OwnerWrittenMapped
    <2>5. SettledOwner' = [k \in Generation |-> IF k = g THEN res.session
             ELSE IF k \in {o.session} THEN None ELSE SettledOwner[k]]
      BY <1>3, <1>5, <2>2, <2>4
    <2>6. SettledOwner[o.session] = res.session
      BY <1>5, <2>1, <2>2
    <2>7. g \in LiveGenerations
      BY <1>3 DEF LiveGenerations
    <2>8. Ownership!Settle({o.session})
      BY <1>4, <2>2, <2>4, <2>5, <2>6, <2>7 DEF Ownership!Settle
    <2> QED
      BY <2>1, <2>8 DEF Ownership!Next
  <1>7. CASE ~ (old \notin {None, res.id} /\ Releases(old, res.session))
    <2>1. UNCHANGED rootVars
      BY <1>7 DEF CommitTargetOwnership
    <2>2. SettledOwner' = [k \in Generation |->
             IF targets[k] = None THEN None ELSE targets[k].browserRigSession]
      BY <1>1, <1>4, <2>1 DEF MappedForm, rootVars
    <2>3. SettledOwner' = [k \in Generation |-> IF k = g THEN res.session
             ELSE IF k \in {} THEN None ELSE SettledOwner[k]]
      BY <1>3, <1>5, <2>2
    <2>4. g \in LiveGenerations /\ LiveGenerations' = LiveGenerations
      BY <1>3, <2>1 DEF LiveGenerations, rootVars
    <2>5. Ownership!Settle({})
      BY <1>4, <2>3, <2>4 DEF Ownership!Settle
    <2> QED
      BY <2>5 DEF Ownership!Next
  <1> QED
    BY <1>6, <1>7

LEMMA StepImplements ==
  ASSUME OwnInv, OwnInv', [Next]_vars
  PROVE  Ownership!Next \/ UNCHANGED Ownership!vars
  <1>1. RootInv
    BY DEF OwnInv, PendingInv
  <1>2. ASSUME UNCHANGED <<rootVars, pendingOwnershipReservations>>
        PROVE  UNCHANGED Ownership!vars
    BY <1>2, Stutters DEF SameOwners, rootVars
  <1>3. ASSUME NEW tab \in Tab, RootStep(tab)
        PROVE  Ownership!Next \/ UNCHANGED Ownership!vars
    <2>1. CASE MarkRootTargetCrashed(tab) \/ UpdateTargetUrl(tab)
      BY <1>1, <2>1, RoutingKeepsOwners, Stutters DEF MarkRootTargetCrashed, UpdateTargetUrl
    <2>2. CASE \/ \E id \in TargetId, s \in BrSession \cup {None} : StageRootTarget(tab, id, s)
               \/ DetachStagedOnly(tab) \/ RememberFrameEvent(tab)
      BY <1>2, <2>2 DEF StageRootTarget, DetachStagedOnly, RememberFrameEvent
    <2> QED
      BY <1>3, <2>1, <2>2, CommitImplements, DetachImplements DEF RootStep
  <1>4. CASE OwnershipStep
    BY <1>4, ReserveImplements, ReleaseImplements, RollbackImplements, CommitOwnershipImplements
       DEF OwnershipStep
  <1>5. CASE (\E c \in ChildSession : ChildStep(c)) \/ UNCHANGED vars
    BY <1>2, <1>5 DEF ChildStep, AddChildTarget, DetachChildTargetState, vars
  <1> QED
    BY <1>3, <1>4, <1>5, ClearImplements DEF Next

(* Every behaviour of the registry, its owners read through the adoption in   *)
(* flight, is one of TargetOwnership: a provisional owner never becomes       *)
(* settled except by a commit, and no owner is inherited from a claim.       *)
THEOREM RegistryImplementsOwnership == Spec => ImplementsOwnership
  <1>1. OwnInv /\ OwnInv' /\ [Next]_vars => [Ownership!Next]_(Ownership!vars)
    BY StepImplements
  <1> QED
    BY <1>1, OwnershipInit, OwnInvInit, OwnInvNext, PTL DEF Spec, ImplementsOwnership, Ownership!Spec
=============================================================================
