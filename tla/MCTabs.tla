------------------------------- MODULE MCTabs -------------------------------
(***************************************************************************)
(* Two parts of the relay that deal with the user's tabs and share nothing: *)
(* a handoff on a tab of two sessions (Handoff; two handoffs, of one session *)
(* or of both), and the root targets of the tabs (RootLifecycle).  A behaviour *)
(* is one of one part, chosen at first; the other part stays as it began.    *)
(***************************************************************************)
EXTENDS Handoff

CONSTANTS Tab, Call, MaxPage, MaxRootEvents, MaxFailures, None, Closed   \* RootLifecycle

ASSUME LifecycleAssumption ==
  /\ MaxPage \in Nat \ {0} /\ MaxRootEvents \in Nat /\ MaxFailures \in Nat
  /\ IsFiniteSet(Tab) /\ IsFiniteSet(Call)
  /\ None \notin Nat \cup Tab \cup Call /\ Closed \notin Nat \cup {None}

VARIABLES part,
          rootPage, debugged, steady, link, snapshot, inbox, socket, ready, settling, announced,
          failed, committed, staged, semaphores, rootCall, rootEvents, failures   \* RootLifecycle

Roots == INSTANCE RootLifecycle WITH
  page <- rootPage, call <- rootCall, events <- rootEvents, MaxEvents <- MaxRootEvents

rootVars == <<rootPage, debugged, steady, link, snapshot, inbox, socket, ready, settling, announced,
              failed, committed, staged, semaphores, rootCall, rootEvents, failures>>

Is(p) == part = p

TabsInit ==
  /\ part \in {"handoff", "roots"}
  /\ Init /\ Roots!Init
  /\ Is("handoff") => \A t \in Tab : rootPage[t] = 0

HandoffMoves(A) == Is("handoff") /\ A /\ UNCHANGED <<part, rootVars>>
RootsMove(A) == Is("roots") /\ A /\ UNCHANGED <<part, vars>>

TabsNext == HandoffMoves(Next) \/ RootsMove(Roots!Next)

tabs == <<part, vars, rootVars>>

\* Fairness: see Handoff; and the relay's timers expire and its promises settle, the extension
\* reconnects (reconnectTimer, the alarm) and answers what it receives.
TabsSpec ==
  /\ TabsInit /\ [][TabsNext]_tabs
  /\ \A h \in Handoffs : /\ WF_tabs(HandoffMoves(Proceed(h))) /\ WF_tabs(HandoffMoves(Timeout(h)))
                         /\ WF_tabs(HandoffMoves(MustSettle(h)))
  /\ WF_tabs(HandoffMoves(Receive)) /\ WF_tabs(HandoffMoves(Deliver)) /\ WF_tabs(HandoffMoves(ScriptLoads))
  /\ WF_tabs(RootsMove(Roots!RelayStep)) /\ WF_tabs(RootsMove(Roots!ExtensionStep))

-----------------------------------------------------------------------------

\* While no command has failed, the roots of a relay that is ready and at rest are pages the
\* debugger is attached to (detachTargetState, queueRootReconciliation): see RootLifecycle.
RootsAreLive == Roots!RootsAreLive

\* When the relay becomes ready, every tab of the inventory has a root (releaseRelayTarget
\* relies on it): see RootLifecycle.
InventoryIsVisible == [][Is("roots") => Roots!StepShowsInventory]_tabs

\* The extension's tabs become usable again after every lost connection and every rejected
\* inventory: see RootLifecycle.
EventuallyReady == Is("roots") => Roots!EventuallyReady
=============================================================================
