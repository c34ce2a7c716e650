------------------------------ MODULE Handoff ------------------------------
(***************************************************************************)
(* The human handoff: a script asks for it, the page shows a control, an      *)
(* optional action starts once the control is there, and the script goes on     *)
(* when the user has clicked, the time is up or the page is gone                *)
(* (src/src/handoff.ts, requestHandoff and the page status of src/src/relay.ts,   *)
(* the handoff helper of src/src/execute.ts, the content script of the            *)
(* extension).                                                              *)
(*                                                                         *)
(* One tab.  The targets it has one after the other are numbers, 0 when it is    *)
(* not attached.  Commands to the content script, and what the extension sends   *)
(* back, arrive in order; what reaches a page whose script is not loaded is lost. *)
(* A script awaits the handoffs it asks for.                                  *)
(***************************************************************************)
EXTENDS Naturals, Sequences, FiniteSets

CONSTANTS Session, Handoffs, NoOne,
          MaxTargets, MaxEvents   \* bounds: targets of the tab, choices of users and browser

ASSUME HandoffAssumption == NoOne \notin Handoffs

VARIABLES
  tab,       \* the tab as the relay knows it: target, owner, an accepted toolbar click
  pending,   \* HandoffRegistry.pending, by session
  active,    \* the sessions whose activeHandoffTabs holds the tab
  call,      \* every handoff from its request to its end
  run,       \* what the sessions execute
  down, up,  \* relay to content script, extension to relay
  page,      \* the document: its content script, what it shows, the controls clicked
  events     \* choices so far

vars == <<tab, pending, active, call, run, down, up, page, events>>

NoCall == [pc |-> "none", session |-> NoOne, target |-> 0, starts |-> FALSE, action |-> "none",
           connection |-> "open", outcome |-> "none",
           crowded |-> FALSE]   \* history: another handoff or execute used the tab meanwhile

Shows(state, h) == [state |-> state, handoff |-> h]
Cleared == Shows("none", NoOne)

Live(c, h) == c[h].pc \notin {"none", "ended"}
PendingHere(p) == {h \in Handoffs : \E s \in Session : p[s] = h}
Attached == tab.target # 0
Chosen == events < MaxEvents /\ events' = events + 1

-----------------------------------------------------------------------------
(* The page status.                                                         *)
\* pageStatusSessionId, activeHandoffSessionIdForTab
SessionOfTab == IF tab.owner # NoOne THEN {tab.owner} ELSE active

Activity(s) == Shows(IF run[s] = "running" THEN "running" ELSE "attached", NoOne)

\* refreshPageStatus: a tab without a target is cleared, one with a handoff waits
Refreshed(target, p, sessions) ==
  IF target = 0 THEN {Cleared}
  ELSE IF PendingHere(p) # {} THEN {Shows("waiting", h) : h \in PendingHere(p)}
  ELSE IF sessions = {} THEN {Shows("attached", NoOne)}
  ELSE {Activity(s) : s \in sessions}

Command(status, h) == [status |-> status, ack |-> h]
Sends(status) == down' = Append(down, Command(status, NoOne))

-----------------------------------------------------------------------------
(* HandoffRegistry.                                                         *)
Without(p, h) == [s \in Session |-> IF p[s] = h THEN NoOne ELSE p[s]]
Resolved(c, hs, outcome) ==
  [h \in Handoffs |-> IF h \in hs /\ c[h].outcome = "none" THEN [c[h] EXCEPT !.outcome = outcome] ELSE c[h]]

OfTarget(target) == {h \in PendingHere(pending) : call[h].target = target}

\* cancelTargetHandoffs
CancelOfTarget(target) ==
  LET hs == OfTarget(target)
  IN  /\ pending' = [s \in Session |-> IF pending[s] \in hs THEN NoOne ELSE pending[s]]
      /\ call' = Resolved(call, hs, "cancelled")
      /\ active' = active \ {call[h].session : h \in hs}

-----------------------------------------------------------------------------
(* The executes.                                                            *)
Begin(s) ==
  /\ run[s] = "idle" /\ Chosen
  /\ run' = [run EXCEPT ![s] = "running"]
  /\ call' = [h \in Handoffs |-> IF Live(call, h) THEN [call[h] EXCEPT !.crowded = TRUE] ELSE call[h]]
  /\ IF Attached /\ tab.owner = s THEN Sends(Shows("running", NoOne)) ELSE UNCHANGED down
  /\ UNCHANGED <<tab, pending, active, up, page>>

\* onExecuteStateChange: the tabs of the session, and those its handoffs used
End(s) ==
  /\ run[s] = "running" /\ \A h \in Handoffs : call[h].session = s => ~ Live(call, h)
  /\ run' = [run EXCEPT ![s] = "idle"]
  /\ active' = active \ {s}
  /\ IF Attached /\ (tab.owner = s \/ s \in active) THEN Sends(Shows("attached", NoOne)) ELSE UNCHANGED down
  /\ UNCHANGED <<tab, pending, call, up, page, events>>

\* handoff, requestHandoff, wait: a handoff of the same session that is pending times out
Request(h, s, starts) ==
  /\ run[s] = "running" /\ call[h].pc = "none" /\ Attached /\ tab.owner \in {NoOne, s} /\ Chosen
  /\ LET others == {g \in Handoffs \ {h} : Live(call, g)}
         crowded == others # {} \/ \E t \in Session \ {s} : run[t] = "running"
         timed == Resolved(call, {pending[s]} \cap Handoffs, "timeout")
     IN  call' = [g \in Handoffs |->
                    IF g = h THEN [NoCall EXCEPT !.pc = "presenting", !.session = s, !.target = tab.target,
                                                 !.starts = starts, !.crowded = crowded]
                    ELSE IF g \in others THEN [timed[g] EXCEPT !.crowded = TRUE] ELSE timed[g]]
  /\ pending' = [pending EXCEPT ![s] = h]
  /\ active' = active \cup {s}
  /\ down' = Append(down, Command(Shows("waiting", h), h))
  /\ UNCHANGED <<tab, run, up, page>>

-----------------------------------------------------------------------------
(* awaitHandoffAction and the finally block of requestHandoff.               *)

\* The handoff fails with the error of its presentation or of its action.
Throws(h) ==
  /\ pending' = Without(pending, h)
  /\ active' = active \ {call[h].session}
  /\ call' = [call EXCEPT ![h].pc = "ended"]
  /\ IF Attached THEN Sends(Activity(call[h].session)) ELSE UNCHANGED down

\* present has been acknowledged: only now may the action start
Presented ==
  /\ up # <<>> /\ Head(up).kind = "ack"
  /\ LET h == Head(up).handoff
     IN  IF call[h].pc # "presenting" \/ call[h].outcome # "none"
         THEN UNCHANGED <<pending, active, call, down>>
         ELSE IF ~ Head(up).ok THEN Throws(h)
         ELSE /\ call' = [call EXCEPT ![h].pc = IF @ = "presenting" /\ call[h].starts THEN "acting" ELSE "waiting",
                                      ![h].action = IF call[h].starts THEN "running" ELSE @]
              /\ UNCHANGED <<pending, active, down>>
  /\ up' = Tail(up)
  /\ UNCHANGED <<tab, run, page, events>>

\* The action of the script settles; what it does through a cut connection fails.
ActionSettles(h, how) ==
  /\ call[h].action = "running"
  /\ call[h].connection = "cut" => how = "failed"
  /\ call' = [call EXCEPT ![h].action = how]
  /\ UNCHANGED <<tab, pending, active, run, down, up, page, events>>

ActionFails(h) ==
  /\ call[h].pc \in {"acting", "settling"} /\ call[h].action = "failed"
  /\ Throws(h)
  /\ UNCHANGED <<tab, run, up, page, events>>

ActionDone(h) ==
  /\ call[h].pc = "acting" /\ call[h].action = "done"
  /\ call' = [call EXCEPT ![h].pc = "waiting"]
  /\ UNCHANGED <<tab, pending, active, run, down, up, page, events>>

\* The outcome comes first: a click waits for the action, anything else ends its connection.
AwaitsTheAction(h) == "settling"           \* variant: as after a click
LeavesActionRunning(h) == "returning"   \* variant: the permit is released under the action
AfterOutcome(h) == IF call[h].outcome = "resolved" THEN "settling" ELSE "cutting"

OutcomeFirst(h) ==
  /\ call[h].pc = "acting" /\ call[h].outcome # "none"
  /\ call' = [call EXCEPT ![h].pc = AfterOutcome(h)]
  /\ UNCHANGED <<tab, pending, active, run, down, up, page, events>>

\* cancelStart: disconnectSettled closes the connection of the session
CutConnection(h) ==
  /\ call[h].pc = "cutting"
  /\ call' = [g \in Handoffs |->
                LET c == IF call[g].session = call[h].session /\ Live(call, g)
                         THEN [call[g] EXCEPT !.connection = "cut"] ELSE call[g]
                IN  IF g = h THEN [c EXCEPT !.pc = "returning"] ELSE c]
  /\ UNCHANGED <<tab, pending, active, run, down, up, page, events>>

Return(h) ==
  /\ call[h].outcome # "none"
  /\ \/ call[h].pc \in {"presenting", "waiting", "returning"}
     \/ call[h].pc = "settling" /\ call[h].action = "done"
  /\ call' = [call EXCEPT ![h].pc = IF call[h].outcome = "resolved" THEN "context" ELSE "ended"]
  /\ active' = IF call[h].outcome = "cancelled" THEN active \ {call[h].session} ELSE active
  /\ IF ~ Attached THEN UNCHANGED down
     ELSE IF call[h].outcome = "cancelled"
     THEN \E status \in Refreshed(tab.target, pending,
                          IF tab.owner # NoOne THEN {tab.owner} ELSE active') : Sends(status)
     ELSE Sends(Activity(call[h].session))
  /\ UNCHANGED <<tab, pending, run, up, page, events>>

\* waitForHandoffPageContext: the script goes on in the document that is there, or fails
Continues(h) ==
  /\ call[h].pc = "context" /\ (page.live \/ call[h].target # tab.target)
  /\ call' = [call EXCEPT ![h].pc = "ended"]
  /\ UNCHANGED <<tab, pending, active, run, down, up, page, events>>

Timeout(h) ==
  /\ Live(call, h) /\ call[h].outcome = "none"
  /\ call' = Resolved(call, {h}, "timeout")
  /\ pending' = Without(pending, h)
  /\ UNCHANGED <<tab, active, run, down, up, page, events>>

-----------------------------------------------------------------------------
(* The content script.                                                      *)
Deliver ==
  /\ down # <<>>
  /\ LET m == Head(down)
     IN  /\ page' = IF page.live THEN [page EXCEPT !.shows = m.status, !.completing = NoOne] ELSE page
         /\ up' = IF m.ack = NoOne THEN up
                  ELSE Append(up, [kind |-> "ack", handoff |-> m.ack, ok |-> page.live])
  /\ down' = Tail(down)
  /\ UNCHANGED <<tab, pending, active, call, run, events>>

\* completeHandoff: once per control
Click ==
  /\ page.shows.state = "waiting" /\ page.completing = NoOne /\ Chosen
  /\ page' = [page EXCEPT !.completing = page.shows.handoff, !.clicked = @ \cup {page.shows.handoff}]
  /\ up' = Append(up, [kind |-> "completed", handoff |-> page.shows.handoff, ok |-> TRUE])
  /\ UNCHANGED <<tab, pending, active, call, run, down>>

Navigate ==
  /\ page.live /\ Chosen
  /\ page' = [page EXCEPT !.live = FALSE, !.shows = Cleared, !.completing = NoOne]
  /\ UNCHANGED <<tab, pending, active, call, run, down, up>>

ScriptLoads ==
  /\ ~ page.live
  /\ page' = [page EXCEPT !.live = TRUE]
  /\ up' = Append(up, [kind |-> "ready", handoff |-> NoOne, ok |-> TRUE])
  /\ UNCHANGED <<tab, pending, active, call, run, down, events>>

\* page-status.ready, pageStatus.requested
PageStatusRequested ==
  /\ up # <<>> /\ Head(up).kind = "ready"
  /\ \E status \in Refreshed(tab.target, pending, SessionOfTab) : Sends(status)
  /\ up' = Tail(up)
  /\ UNCHANGED <<tab, pending, active, call, run, page, events>>

Named(h) == IF h \in OfTarget(tab.target) THEN h ELSE NoOne

\* handoff.completed, complete: the handoff it names, of the target the tab has now
Complete ==
  /\ up # <<>> /\ Head(up).kind = "completed"
  /\ LET h == Named(Head(up).handoff)
     IN  IF ~ Attached \/ h = NoOne THEN UNCHANGED <<pending, call, down>>
         ELSE /\ call' = Resolved(call, {h}, "resolved")
              /\ pending' = Without(pending, h)
              /\ \E status \in Refreshed(tab.target, pending', SessionOfTab) : Sends(status)
  /\ up' = Tail(up)
  /\ UNCHANGED <<tab, active, run, page, events>>

-----------------------------------------------------------------------------
(* The tab.                                                                 *)
\* commitRootAttachment: what a new target shows
Presentation(p) ==
  IF PendingHere(p) # {} THEN {Shows("waiting", h) : h \in PendingHere(p)}
  ELSE {IF tab.owner # NoOne THEN Activity(tab.owner) ELSE Shows("attached", NoOne)}

Attach(toggling) ==
  /\ tab' = [tab EXCEPT !.target = tab.targets + 1, !.targets = @ + 1, !.toggling = toggling]
  /\ \E status \in Presentation(pending) : Sends(status)
  /\ UNCHANGED <<pending, active, call>>

\* detachTargetState
Detach(toggling) ==
  /\ tab' = [tab EXCEPT !.target = 0, !.owner = NoOne, !.toggling = toggling]
  /\ Sends(Cleared)
  /\ CancelOfTarget(tab.target)

UserAttaches ==
  /\ ~ Attached /\ tab.targets < MaxTargets /\ Chosen /\ Attach(tab.toggling)
  /\ UNCHANGED <<run, up, page>>

UserDetaches ==
  /\ Attached /\ Chosen /\ Detach(tab.toggling)
  /\ UNCHANGED <<run, up, page>>

\* rebindTarget: the handoff of the previous target waits for the new one
KeepsTarget(h) == FALSE   \* variant: the binding stays behind
Rebound(h) == call[h].target = tab.target

Replace ==
  /\ Attached /\ tab.targets < MaxTargets /\ Chosen
  /\ tab' = [tab EXCEPT !.target = tab.targets + 1, !.targets = @ + 1]
  /\ LET bound == {h \in PendingHere(pending) : Rebound(h)}
     IN  IF bound = {} THEN UNCHANGED call
         ELSE \E h \in bound : call' = [call EXCEPT ![h].target = tab'.target]
  /\ \E status \in Presentation(pending) : Sends(status)
  /\ UNCHANGED <<pending, active, run, up, page>>

Crash ==
  /\ Attached /\ Chosen /\ CancelOfTarget(tab.target)
  /\ UNCHANGED <<tab, run, down, up, page>>

\* reconcileTargetOwnership: an adoption, or the end of one
Own(s) ==
  /\ Attached /\ tab.owner # s /\ NoOne \in {tab.owner, s} /\ Chosen
  /\ tab' = [tab EXCEPT !.owner = s]
  /\ \E status \in Refreshed(tab.target, pending, IF s # NoOne THEN {s} ELSE active) : Sends(status)
  /\ UNCHANGED <<pending, active, call, run, up, page>>

ToolbarClick ==
  /\ Chosen
  /\ up' = Append(up, [kind |-> "toolbar", handoff |-> NoOne, ok |-> TRUE])
  /\ UNCHANGED <<tab, pending, active, call, run, down, page>>

\* toolbarClickAction: no toggle while a handoff is pending or the session executes
HandleToolbarClick ==
  /\ up # <<>> /\ Head(up).kind = "toolbar"
  /\ LET busy == PendingHere(pending) # {} \/ \E s \in SessionOfTab : run[s] = "running"
     IN  tab' = IF Attached /\ busy THEN tab
                ELSE [tab EXCEPT !.toggling = IF Attached THEN "detach" ELSE "attach"]
  /\ up' = Tail(up)
  /\ UNCHANGED <<pending, active, call, run, down, page, events>>

ToggleTab ==
  /\ \/ tab.toggling = "detach" /\ Attached /\ Detach("no")
     \/ tab.toggling = "attach" /\ ~ Attached /\ tab.targets < MaxTargets /\ Attach("no")
     \/ /\ tab.toggling = IF Attached THEN "attach" ELSE "detach"
        /\ tab' = [tab EXCEPT !.toggling = "no"]
        /\ UNCHANGED <<pending, active, call, down>>
  /\ UNCHANGED <<run, up, page, events>>

-----------------------------------------------------------------------------
Init ==
  /\ tab = [target |-> 1, targets |-> 1, owner |-> NoOne, toggling |-> "no"]
  /\ pending = [s \in Session |-> NoOne] /\ active = {}
  /\ call = [h \in Handoffs |-> NoCall] /\ run = [s \in Session |-> "idle"]
  /\ down = <<>> /\ up = <<>> /\ events = 0
  /\ page = [live |-> TRUE, shows |-> Shows("attached", NoOne), completing |-> NoOne, clicked |-> {}]

Receive == Presented \/ PageStatusRequested \/ Complete \/ HandleToolbarClick

Proceed(h) == ActionFails(h) \/ ActionDone(h) \/ OutcomeFirst(h) \/ CutConnection(h) \/ Return(h) \/ Continues(h)

Next ==
  \/ \E s \in Session : Begin(s) \/ End(s)
  \/ \E h \in Handoffs, s \in Session, starts \in BOOLEAN : Request(h, s, starts)
  \/ \E h \in Handoffs : Proceed(h) \/ Timeout(h)
  \/ \E h \in Handoffs, how \in {"done", "failed"} : ActionSettles(h, how)
  \/ Receive \/ Deliver \/ Click \/ Navigate \/ ScriptLoads
  \/ UserAttaches \/ UserDetaches \/ Replace \/ Crash \/ ToolbarClick \/ ToggleTab
  \/ \E s \in Session \cup {NoOne} : Own(s)

\* A script bounds the action it starts; one whose connection is cut fails.
MustSettle(h) ==
  /\ call[h].outcome = "resolved" \/ call[h].connection = "cut"
  /\ \E how \in {"done", "failed"} : ActionSettles(h, how)

Fairness ==
  /\ \A h \in Handoffs : /\ WF_vars(Proceed(h)) /\ WF_vars(Timeout(h)) /\ WF_vars(MustSettle(h))
  /\ WF_vars(Receive) /\ WF_vars(Deliver) /\ WF_vars(ScriptLoads)

Spec == Init /\ [][Next]_vars /\ Fairness

-----------------------------------------------------------------------------
(* Properties.                                                              *)

\* An action that a handoff has started acts on the page only while the execute that
\* started it has its permit and waits for it: afterwards the action has settled or its
\* connection is cut.
NoActionAfterRelease ==
  \A h \in Handoffs :
    call[h].action = "running" /\ call[h].connection = "open"
      => run[call[h].session] = "running" /\ Live(call, h)

\* A handoff is resolved by the click on its own control and by nothing else, and only
\* while its session executes.
ResolvedByItsControl ==
  \A h \in Handoffs :
    call[h].outcome = "resolved" =>
      h \in page.clicked /\ (Live(call, h) => run[call[h].session] = "running")

\* A handoff does nothing outside the execute that started it: see above.
HandoffsKeepToTheirExecute == NoActionAfterRelease /\ ResolvedByItsControl

Quiet == up = <<>> /\ down = <<>> /\ page.live

\* When nothing is under way, a handoff that has the tab for itself can be completed: the
\* page shows its control and a click on it will count, over navigations and new targets.
\* And no control of a handoff that has ended is left in the page.
ControlIsShown ==
  Quiet => /\ \A h \in PendingHere(pending) :
                ~ call[h].crowded => page.shows = Shows("waiting", h) /\ call[h].target = tab.target
           /\ page.shows.state = "waiting" => Live(call, page.shows.handoff)

\* Every handoff ends: again and again there is none.
HandoffsEnd == []<>(\A h \in Handoffs : ~ Live(call, h))
=============================================================================
