--------------------------- MODULE Handoff_proofs ---------------------------
(***************************************************************************)
(* Proofs about Handoff for every set of sessions and handoffs: a handoff    *)
(* does nothing outside the execute that started it, whatever the user, the  *)
(* page and the browser do.                                                 *)
(***************************************************************************)
EXTENDS Handoff, TLAPS

CallRecord ==
  [pc : {"none", "presenting", "acting", "settling", "cutting", "returning", "waiting", "context", "ended"},
   session : Session \cup {NoOne}, target : Nat, starts : BOOLEAN,
   action : {"none", "running", "done", "failed"}, connection : {"open", "cut"},
   outcome : {"none", "resolved", "timeout", "cancelled"}, crowded : BOOLEAN]

Status == [state : {"none", "attached", "running", "waiting"}, handoff : Handoffs \cup {NoOne}]
Message == [kind : {"ack", "completed", "ready", "toolbar"}, handoff : Handoffs \cup {NoOne}, ok : BOOLEAN]
Page == [live : BOOLEAN, shows : Status, completing : Handoffs \cup {NoOne}, clicked : SUBSET (Handoffs \cup {NoOne})]

TypeOK ==
  /\ tab \in [target : Nat, targets : Nat, owner : Session \cup {NoOne}, toggling : {"no", "attach", "detach"}]
  /\ pending \in [Session -> Handoffs \cup {NoOne}]
  /\ active \subseteq Session \cup {NoOne}
  /\ call \in [Handoffs -> CallRecord]
  /\ run \in [Session -> {"idle", "running"}]
  /\ down \in Seq([status : Status, ack : Handoffs \cup {NoOne}])
  /\ up \in Seq(Message)
  /\ page \in Page
  /\ events \in Nat

-----------------------------------------------------------------------------
(* A handoff under way belongs to a session that executes.                   *)
Held(c) == c.pc \notin {"none", "ended"} => c.session \in Session /\ run[c.session] = "running"

(* The action of a handoff is awaited until it settles or is cut off.         *)
Awaited(c) ==
  /\ c.action = "running" => c.pc \in {"acting", "settling", "cutting"} \/ c.connection = "cut"
  /\ c.pc \in {"none", "presenting"} => c.action = "none"

CallInv == \A h \in Handoffs : Held(call[h]) /\ Awaited(call[h])

(* What is reported as completed, and what counts as resolved, was clicked.  *)
ClickInv ==
  /\ \A i \in 1..Len(up) : /\ up[i].kind = "completed" => up[i].handoff \in page.clicked
                           /\ up[i].kind = "ack" => up[i].handoff \in Handoffs
  /\ \A h \in Handoffs : call[h].outcome = "resolved" => h \in page.clicked

HandoffInv == TypeOK /\ CallInv /\ ClickInv

-----------------------------------------------------------------------------
(* The oldest message, and those behind it.                                  *)
LEMMA HeadAndTail ==
  ASSUME NEW S, NEW q \in Seq(S), q # <<>>
  PROVE  /\ Head(q) = q[1] /\ 1 \in 1..Len(q) /\ Head(q) \in S
         /\ Tail(q) \in Seq(S)
         /\ \A i \in 1..Len(Tail(q)) : Tail(q)[i] = q[i + 1] /\ i + 1 \in 1..Len(q)
  OBVIOUS

(* What a step makes of a call c: it goes on, d, in the same session; its     *)
(* action stays awaited, and only a click that has arrived resolves it.      *)
Follows(c, d) ==
  /\ c.pc # "none" => d.session = c.session
  /\ Awaited(c) => Awaited(d)
  /\ d.pc \in {"none", "ended"} \/ c.pc \notin {"none", "ended"}
Marked(h, d) == d.outcome = "resolved" => call[h].outcome = "resolved" \/ h \in page.clicked

Steps(h, d) == d \in CallRecord /\ Follows(call[h], d) /\ Marked(h, d)
Requested(h, d) ==
  /\ call[h].pc = "none" /\ d \in CallRecord /\ d.pc = "presenting" /\ d.session \in Session
  /\ run[d.session] = "running" /\ d.action = "none" /\ d.outcome = "none"

LEMMA SameSteps ==
  ASSUME TypeOK, NEW h \in Handoffs
  PROVE  Steps(h, call[h])
  BY DEF TypeOK, Steps, Follows, Marked, CallRecord

(* A call that keeps its phase and its action, or whose connection is cut.    *)
LEMMA KeptSteps ==
  ASSUME TypeOK, NEW h \in Handoffs, NEW d \in CallRecord, d.pc = call[h].pc, d.session = call[h].session,
         d.action = call[h].action, d.connection = call[h].connection \/ d.connection = "cut",
         d.outcome = "resolved" => call[h].outcome = "resolved" \/ h \in page.clicked
  PROVE  Steps(h, d)
  BY DEF TypeOK, Steps, Follows, Marked, Awaited, CallRecord

LEMMA ResolvedSteps ==
  ASSUME TypeOK, NEW hs, NEW outcome \in {"resolved", "timeout", "cancelled"}, NEW h \in Handoffs,
         outcome = "resolved" => hs \cap Handoffs \subseteq page.clicked
  PROVE  LET d == Resolved(call, hs, outcome)[h]
         IN  /\ d \in CallRecord /\ d.pc = call[h].pc /\ d.session = call[h].session /\ d.action = call[h].action
             /\ d.connection = call[h].connection
             /\ d.outcome = "resolved" => call[h].outcome = "resolved" \/ h \in page.clicked
  <1> DEFINE e == [call[h] EXCEPT !.outcome = outcome]
  <1>1. call[h] \in CallRecord
    BY DEF TypeOK
  <1>2. e \in CallRecord /\ e.pc = call[h].pc /\ e.session = call[h].session /\ e.action = call[h].action
        /\ e.connection = call[h].connection /\ e.outcome = outcome
    BY <1>1 DEF CallRecord
  <1>3. Resolved(call, hs, outcome)[h] = IF h \in hs /\ call[h].outcome = "none" THEN e ELSE call[h]
    BY DEF Resolved
  <1> HIDE DEF e
  <1> QED
    BY <1>1, <1>2, <1>3

(* One call moves to another phase, its action with it.                      *)
Moves(g, pc, action) == call' = [call EXCEPT ![g].pc = pc, ![g].action = action]

LEMMA MovesSteps ==
  ASSUME TypeOK, NEW g \in Handoffs, NEW pc, NEW action,
         pc \in {"acting", "settling", "cutting", "returning", "waiting", "context", "ended"},
         action \in {"running", "done", "failed", call[g].action},
         Moves(g, pc, action),
         call[g].pc \notin {"none", "ended"},
         Awaited(call[g]) => \/ action # "running" \/ call[g].connection = "cut"
                             \/ pc \in {"acting", "settling", "cutting"}
  PROVE  \A h \in Handoffs : Steps(h, call'[h])
  <1> DEFINE q == [call[g] EXCEPT !.pc = pc, !.action = action]
  <1>1. call[g] \in CallRecord
    BY DEF TypeOK
  <1>2. q \in CallRecord /\ q.pc = pc /\ q.action = action /\ q.session = call[g].session
        /\ q.connection = call[g].connection /\ q.outcome = call[g].outcome
    BY <1>1 DEF CallRecord
  <1>3. call' = [call EXCEPT ![g] = q]
    BY DEF Moves
  <1> HIDE DEF q
  <1>4. Steps(g, q)
    BY <1>2 DEF Steps, Follows, Marked, Awaited
  <1> QED
    BY <1>3, <1>4, SameSteps DEF TypeOK

LEMMA PhaseSteps ==
  ASSUME TypeOK, NEW g \in Handoffs, NEW pc,
         pc \in {"acting", "settling", "cutting", "returning", "waiting", "context", "ended"},
         call' = [call EXCEPT ![g].pc = pc],
         call[g].pc \notin {"none", "ended"},
         Awaited(call[g]) => \/ call[g].action # "running" \/ call[g].connection = "cut"
                             \/ pc \in {"acting", "settling", "cutting"}
  PROVE  \A h \in Handoffs : Steps(h, call'[h])
  <1>1. Moves(g, pc, call[g].action)
    BY DEF Moves, TypeOK, CallRecord
  <1> QED
    BY <1>1, MovesSteps

LEMMA CancelSteps ==
  ASSUME TypeOK, NEW target, CancelOfTarget(target)
  PROVE  \A h \in Handoffs : Steps(h, call'[h])
  BY ResolvedSteps, KeptSteps DEF CancelOfTarget

(* What an action does that is about the calls only.                         *)
LEMMA CallSteps ==
  ASSUME TypeOK, CallInv, ClickInv, [Next]_vars
  PROVE  \A h \in Handoffs : Steps(h, call'[h]) \/ Requested(h, call'[h])
  <1>1. CASE UNCHANGED call
    BY <1>1, SameSteps
  <1>2. ASSUME NEW s \in Session, Begin(s)
        PROVE  \A h \in Handoffs : Steps(h, call'[h])
    <2> SUFFICES ASSUME NEW h \in Handoffs PROVE Steps(h, call'[h])
      OBVIOUS
    <2> DEFINE q == [call[h] EXCEPT !.crowded = TRUE]
    <2>1. call[h] \in CallRecord
      BY DEF TypeOK
    <2>2. q \in CallRecord /\ q.pc = call[h].pc /\ q.action = call[h].action /\ q.session = call[h].session
          /\ q.connection = call[h].connection /\ q.outcome = call[h].outcome
      BY <2>1 DEF CallRecord
    <2>3. call'[h] = q \/ call'[h] = call[h]
      BY <1>2 DEF Begin
    <2> HIDE DEF q
    <2> QED
      BY <2>2, <2>3, SameSteps, KeptSteps
  <1>3. ASSUME NEW g \in Handoffs, NEW s \in Session, NEW starts \in BOOLEAN, Request(g, s, starts)
        PROVE  \A h \in Handoffs : Steps(h, call'[h]) \/ Requested(h, call'[h])
    <2> SUFFICES ASSUME NEW h \in Handoffs PROVE Steps(h, call'[h]) \/ Requested(h, call'[h])
      OBVIOUS
    <2> DEFINE hs == {pending[s]} \cap Handoffs
               d == Resolved(call, hs, "timeout")[h]
               e == [d EXCEPT !.crowded = TRUE]
    <2>1. d \in CallRecord /\ d.pc = call[h].pc /\ d.session = call[h].session /\ d.action = call[h].action
          /\ d.connection = call[h].connection
          /\ (d.outcome = "resolved" => call[h].outcome = "resolved" \/ h \in page.clicked)
      BY ResolvedSteps
    <2>2. e \in CallRecord /\ e.pc = d.pc /\ e.session = d.session /\ e.action = d.action
          /\ e.connection = d.connection /\ e.outcome = d.outcome
      BY <2>1 DEF CallRecord
    <2>3. h # g => call'[h] \in {d, e}
      BY <1>3 DEF Request
    <2>4. ASSUME h = g PROVE Requested(h, call'[h])
      <3>1. \E crowded \in BOOLEAN :
              call'[g] = [NoCall EXCEPT !.pc = "presenting", !.session = s, !.target = tab.target,
                                        !.starts = starts, !.crowded = crowded]
        BY <1>3 DEF Request
      <3>2. PICK crowded \in BOOLEAN :
              call'[g] = [NoCall EXCEPT !.pc = "presenting", !.session = s, !.target = tab.target,
                                        !.starts = starts, !.crowded = crowded]
        BY <3>1
      <3>3. /\ call'[g] \in CallRecord /\ call'[g].pc = "presenting" /\ call'[g].session = s
            /\ call'[g].action = "none" /\ call'[g].outcome = "none"
        BY <3>2 DEF NoCall, CallRecord, TypeOK
      <3> QED
        BY <1>3, <2>4, <3>3 DEF Requested, Request
    <2> HIDE DEF d, e
    <2> QED
      BY <2>1, <2>2, <2>3, <2>4, KeptSteps
  <1>4. ASSUME Presented PROVE \A h \in Handoffs : Steps(h, call'[h])
    <2> DEFINE g == Head(up).handoff
    <2>1. CASE UNCHANGED call
      BY <2>1, SameSteps
    <2>2. CASE Throws(g) /\ call[g].pc = "presenting"
      <3>1. g \in Handoffs
        BY <1>4, HeadAndTail DEF Presented, TypeOK, ClickInv
      <3> QED
        BY <2>2, <3>1, PhaseSteps DEF Throws, CallInv, Awaited
    <2>3. CASE call[g].pc = "presenting"
                 /\ call' = [call EXCEPT ![g].pc = IF @ = "presenting" /\ call[g].starts THEN "acting" ELSE "waiting",
                                         ![g].action = IF call[g].starts THEN "running" ELSE @]
      <3>1. g \in Handoffs
        BY <1>4, HeadAndTail DEF Presented, TypeOK, ClickInv
      <3> DEFINE pc == IF call[g].starts THEN "acting" ELSE "waiting"
                 action == IF call[g].starts THEN "running" ELSE call[g].action
      <3>2. Moves(g, pc, action)
        BY <2>3, <3>1 DEF Moves, TypeOK, CallRecord
      <3>4. call[g].action = "none"
        BY <2>3, <3>1 DEF CallInv, Awaited
      <3>3. /\ pc \in {"acting", "settling", "cutting", "returning", "waiting", "context", "ended"}
            /\ action \in {"running", "done", "failed", call[g].action}
            /\ action # "running" \/ pc \in {"acting", "settling", "cutting"}
        BY <3>4
      <3> HIDE DEF pc, action
      <3>5. call[g].pc \notin {"none", "ended"}
        BY <2>3
      <3> HIDE DEF g
      <3> QED
        BY <3>1, <3>2, <3>3, <3>5, MovesSteps
    <2> QED
      BY <1>4, <2>1, <2>2, <2>3 DEF Presented
  <1>5. ASSUME NEW g \in Handoffs, NEW how \in {"done", "failed"}, ActionSettles(g, how)
        PROVE  \A h \in Handoffs : Steps(h, call'[h])
    <2>1. call[g].action = "running" /\ call[g].pc \notin {"none", "presenting"}
      BY <1>5 DEF ActionSettles, CallInv, Awaited
    <2> SUFFICES ASSUME NEW h \in Handoffs PROVE Steps(h, call'[h])
      OBVIOUS
    <2> DEFINE q == [call[g] EXCEPT !.action = how]
    <2>2. call[g] \in CallRecord
      BY DEF TypeOK
    <2>3. q \in CallRecord /\ q.pc = call[g].pc /\ q.action = how /\ q.session = call[g].session
          /\ q.connection = call[g].connection /\ q.outcome = call[g].outcome
      BY <2>2 DEF CallRecord
    <2>4. call' = [call EXCEPT ![g] = q]
      BY <1>5 DEF ActionSettles
    <2> HIDE DEF q
    <2>5. Steps(g, q)
      BY <2>1, <2>2, <2>3 DEF Steps, Follows, Marked, Awaited, CallRecord
    <2> QED
      BY <2>4, <2>5, SameSteps DEF TypeOK
  <1>6. ASSUME NEW g \in Handoffs, ActionFails(g) \/ ActionDone(g) \/ OutcomeFirst(g) \/ Continues(g)
        PROVE  \A h \in Handoffs : Steps(h, call'[h])
    <2>1. CASE ActionFails(g)
      BY <2>1, PhaseSteps DEF ActionFails, Throws
    <2>2. CASE ActionDone(g)
      BY <2>2, PhaseSteps DEF ActionDone
    <2>3. CASE OutcomeFirst(g)
      BY <2>3, PhaseSteps DEF OutcomeFirst, AfterOutcome
    <2>4. CASE Continues(g)
      BY <2>4, PhaseSteps DEF Continues, Awaited
    <2> QED
      BY <1>6, <2>1, <2>2, <2>3, <2>4
  <1>7. ASSUME NEW g \in Handoffs, Return(g) PROVE \A h \in Handoffs : Steps(h, call'[h])
    BY <1>7, PhaseSteps DEF Return, Awaited
  <1>8. ASSUME NEW g \in Handoffs, CutConnection(g) PROVE \A h \in Handoffs : Steps(h, call'[h])
    <2> SUFFICES ASSUME NEW h \in Handoffs PROVE Steps(h, call'[h])
      OBVIOUS
    <2> DEFINE c == IF call[h].session = call[g].session /\ Live(call, h)
                    THEN [call[h] EXCEPT !.connection = "cut"] ELSE call[h]
               q == [c EXCEPT !.pc = "returning"]
    <2>1. call[h] \in CallRecord
      BY DEF TypeOK
    <2>2. c \in CallRecord /\ c.pc = call[h].pc /\ c.action = call[h].action /\ c.session = call[h].session
          /\ c.outcome = call[h].outcome /\ c.connection \in {"cut", call[h].connection}
      BY <2>1 DEF CallRecord
    <2>3. h = g => c.connection = "cut"
      BY <1>8, <2>1 DEF CutConnection, Live, CallRecord
    <2>4. call'[h] = IF h = g THEN q ELSE c
      BY <1>8 DEF CutConnection
    <2> HIDE DEF c
    <2>5. q \in CallRecord /\ q.pc = "returning" /\ q.action = c.action /\ q.session = c.session
          /\ q.outcome = c.outcome /\ q.connection = c.connection
      BY <2>2 DEF CallRecord
    <2> HIDE DEF q
    <2>6. CASE h = g
      BY <1>8, <2>2, <2>3, <2>4, <2>5, <2>6 DEF CutConnection, Steps, Follows, Marked, Awaited
    <2>7. CASE h # g
      BY <2>2, <2>4, <2>7, KeptSteps
    <2> QED
      BY <2>6, <2>7
  <1>9. ASSUME NEW g \in Handoffs, Timeout(g) PROVE \A h \in Handoffs : Steps(h, call'[h])
    BY <1>9, ResolvedSteps, KeptSteps DEF Timeout
  <1>10. ASSUME Complete PROVE \A h \in Handoffs : Steps(h, call'[h])
    <2>1. CASE \E g \in Handoffs : g \in page.clicked /\ call' = Resolved(call, {g}, "resolved")
      BY <2>1, ResolvedSteps, KeptSteps
    <2> DEFINE k == Named(Head(up).handoff)
    <2>2. UNCHANGED call \/ (k # NoOne /\ call' = Resolved(call, {k}, "resolved"))
      BY <1>10 DEF Complete
    <2>3. k # NoOne => k \in Handoffs /\ k \in page.clicked
      BY <1>10, HeadAndTail DEF Complete, Named, OfTarget, PendingHere, ClickInv, TypeOK
    <2> HIDE DEF k
    <2> QED
      BY <2>1, <2>2, <2>3, SameSteps
  <1>11. CASE Replace
    <2>1. CASE \E g \in Handoffs : call' = [call EXCEPT ![g].target = tab'.target]
      <3>1. PICK g \in Handoffs : call' = [call EXCEPT ![g].target = tab'.target]
        BY <2>1
      <3> DEFINE target == tab'.target
                 q == [call[g] EXCEPT !.target = target]
      <3>2. target \in Nat /\ call[g] \in CallRecord
        BY <1>11 DEF Replace, TypeOK
      <3>3. call' = [call EXCEPT ![g] = q]
        BY <3>1
      <3> HIDE DEF target
      <3>4. q \in CallRecord /\ q.pc = call[g].pc /\ q.action = call[g].action /\ q.session = call[g].session
            /\ q.connection = call[g].connection /\ q.outcome = call[g].outcome
        BY <3>2 DEF CallRecord
      <3> HIDE DEF q
      <3>5. Steps(g, q)
        BY <3>4, KeptSteps
      <3> QED
        BY <3>3, <3>5, SameSteps DEF TypeOK
    <2> QED
      BY <1>1, <1>11, <2>1 DEF Replace, PendingHere
  <1>12. CASE UserDetaches \/ ToggleTab \/ Crash
    BY <1>1, <1>12, CancelSteps DEF UserDetaches, ToggleTab, Crash, Detach, Attach
  <1> QED
    <2>1. ASSUME NEW h \in Handoffs, Proceed(h) \/ Timeout(h) PROVE \A g \in Handoffs : Steps(g, call'[g])
      BY <1>6, <1>7, <1>8, <1>9, <2>1 DEF Proceed
    <2>2. CASE Receive
      BY <1>1, <1>4, <1>10, <2>2 DEF Receive, PageStatusRequested, HandleToolbarClick
    <2> QED
      BY <1>1, <1>2, <1>3, <1>5, <1>11, <1>12, <2>1, <2>2 DEF Next, End, Deliver, Click, Navigate, ScriptLoads,
         UserAttaches, Attach, ToolbarClick, Own, vars

-----------------------------------------------------------------------------
(* The types.                                                               *)
LEMMA CallDomain ==
  ASSUME TypeOK, [Next]_vars
  PROVE  call' = [h \in Handoffs |-> call'[h]]
  <1>1. call = [h \in Handoffs |-> call[h]]
    BY DEF TypeOK
  <1>2. ASSUME NEW target, CancelOfTarget(target) PROVE call' = [h \in Handoffs |-> call'[h]]
    BY <1>2 DEF CancelOfTarget, Resolved
  <1>3. ASSUME NEW g \in Handoffs, Throws(g) PROVE call' = [h \in Handoffs |-> call'[h]]
    BY <1>1, <1>3 DEF Throws
  <1>4. CASE Presented
    BY <1>1, <1>4 DEF Presented, Throws
  <1>5. CASE \/ UNCHANGED call
             \/ \E s \in Session : Begin(s)
             \/ \E h \in Handoffs, s \in Session, starts \in BOOLEAN : Request(h, s, starts)
             \/ Complete \/ \E h \in Handoffs : Timeout(h)
    BY <1>1, <1>5 DEF Begin, Request, Complete, Timeout, Resolved
  <1>6. CASE \/ \E h \in Handoffs : Proceed(h)
             \/ \E h \in Handoffs, how \in {"done", "failed"} : ActionSettles(h, how)
    BY <1>1, <1>3, <1>6 DEF Proceed, ActionFails, ActionDone, OutcomeFirst, CutConnection, Return, Continues, ActionSettles
  <1>7. CASE UserDetaches \/ ToggleTab \/ Crash \/ Replace
    BY <1>1, <1>2, <1>7 DEF UserDetaches, ToggleTab, Crash, Detach, Attach, Replace
  <1> QED
    BY <1>4, <1>5, <1>6, <1>7 DEF Next, Receive, PageStatusRequested, HandleToolbarClick, End, Deliver, Click,
       Navigate, ScriptLoads, UserAttaches, Attach, ToolbarClick, Own, vars

LEMMA StatusType ==
  /\ Cleared \in Status /\ Shows("attached", NoOne) \in Status
  /\ \A h \in Handoffs : Shows("waiting", h) \in Status
  /\ \A s : Activity(s) \in Status
  /\ \A target, p, sessions : Refreshed(target, p, sessions) \subseteq Status
  /\ \A p : Presentation(p) \subseteq Status
  BY DEF Cleared, Shows, Status, Activity, Refreshed, Presentation, PendingHere

LEMMA SendsType ==
  ASSUME TypeOK, NEW status \in Status, Sends(status)
  PROVE  down' \in Seq([status : Status, ack : Handoffs \cup {NoOne}])
  <1>1. Command(status, NoOne) \in [status : Status, ack : Handoffs \cup {NoOne}]
    BY DEF Command
  <1> QED
    BY <1>1 DEF Sends, TypeOK

LEMMA CancelType ==
  ASSUME TypeOK, NEW target, CancelOfTarget(target)
  PROVE  pending' \in [Session -> Handoffs \cup {NoOne}] /\ active' \subseteq Session \cup {NoOne}
  BY DEF TypeOK, CancelOfTarget

LEMMA TypeNext ==
  ASSUME TypeOK, CallInv, ClickInv, [Next]_vars
  PROVE  TypeOK'
  <1>1. call' \in [Handoffs -> CallRecord]
    <2>1. \A h \in Handoffs : call'[h] \in CallRecord
      BY CallSteps DEF Steps, Requested
    <2> QED
      BY <2>1, CallDomain
  <1> DEFINE Commands == Seq([status : Status, ack : Handoffs \cup {NoOne}])
             Tab == [target : Nat, targets : Nat, owner : Session \cup {NoOne}, toggling : {"no", "attach", "detach"}]
  <1>2. down \in Commands /\ tab \in Tab /\ up \in Seq(Message) /\ page \in Page
    BY DEF TypeOK
  <1>3. ASSUME NEW status \in Status, Sends(status) PROVE down' \in Commands
    BY <1>3, SendsType
  <1> HIDE DEF Commands, Tab
  <1>4. run' \in [Session -> {"idle", "running"}]
    <2>1. (\E s \in Session : Begin(s) \/ End(s)) \/ UNCHANGED run
      BY DEF Next, Request, Proceed, ActionFails, ActionDone, OutcomeFirst, CutConnection, Return, Continues, Timeout,
         ActionSettles, Receive, Presented, PageStatusRequested, Complete, HandleToolbarClick, Deliver, Click,
         Navigate, ScriptLoads, UserAttaches, UserDetaches, Replace, Crash, ToolbarClick, ToggleTab, Own, vars
    <2> QED
      BY <2>1 DEF TypeOK, Begin, End
  <1>5. tab' \in Tab
    <2>4. ASSUME NEW how \in {"no", "attach", "detach"}
          PROVE  /\ [tab EXCEPT !.target = tab.targets + 1, !.targets = tab.targets + 1, !.toggling = how] \in Tab
                 /\ [tab EXCEPT !.target = tab.targets + 1, !.targets = tab.targets + 1] \in Tab
                 /\ [tab EXCEPT !.target = 0, !.owner = NoOne, !.toggling = how] \in Tab
                 /\ [tab EXCEPT !.toggling = how] \in Tab
                 /\ tab.toggling \in {"no", "attach", "detach"}
      <3>1. /\ tab = [target |-> tab.target, targets |-> tab.targets, owner |-> tab.owner, toggling |-> tab.toggling]
            /\ tab.target \in Nat /\ tab.targets \in Nat /\ tab.owner \in Session \cup {NoOne}
            /\ tab.toggling \in {"no", "attach", "detach"}
        BY <1>2 DEF Tab
      <3> DEFINE n == tab.targets + 1
      <3>2. n \in Nat
        BY <3>1
      <3> HIDE DEF n
      <3>3. [tab EXCEPT !.target = n, !.targets = n, !.toggling = how] \in Tab
        BY <1>2, <3>1, <3>2 DEF Tab
      <3>4. [tab EXCEPT !.target = n, !.targets = n] \in Tab
        BY <1>2, <3>1, <3>2 DEF Tab
      <3>5. [tab EXCEPT !.target = 0, !.owner = NoOne, !.toggling = how] \in Tab /\ [tab EXCEPT !.toggling = how] \in Tab
        BY <1>2, <3>1 DEF Tab
      <3> QED
        BY <3>1, <3>3, <3>4, <3>5 DEF n
    <2>5. \A s \in Session \cup {NoOne} : [tab EXCEPT !.owner = s] \in Tab
      BY <1>2 DEF Tab
    <2>1. CASE UserAttaches \/ UserDetaches \/ ToggleTab
      BY <1>2, <2>1, <2>4 DEF UserAttaches, UserDetaches, ToggleTab, Attach, Detach
    <2>2. CASE Replace \/ HandleToolbarClick \/ \E s \in Session \cup {NoOne} : Own(s)
      BY <1>2, <2>2, <2>4, <2>5 DEF Replace, HandleToolbarClick, Own
    <2>3. \/ UserAttaches \/ UserDetaches \/ ToggleTab
          \/ Replace \/ HandleToolbarClick \/ \E s \in Session \cup {NoOne} : Own(s)
          \/ UNCHANGED tab
      BY DEF Next, Begin, End, Request, Proceed, ActionFails, ActionDone, OutcomeFirst, CutConnection, Return,
         Continues, Timeout, ActionSettles, Receive, Presented, PageStatusRequested, Complete, Deliver, Click,
         Navigate, ScriptLoads, Crash, ToolbarClick, vars
    <2> QED
      BY <1>2, <2>1, <2>2, <2>3
  <1>6. pending' \in [Session -> Handoffs \cup {NoOne}] /\ active' \subseteq Session \cup {NoOne}
    <2>1. CASE \E h \in Handoffs : Timeout(h) \/ Proceed(h)
      BY <2>1 DEF TypeOK, Timeout, Proceed, ActionFails, Throws, ActionDone, OutcomeFirst, CutConnection, Return,
         Continues, Without
    <2>2. CASE Complete \/ Presented
      BY <2>2 DEF TypeOK, Complete, Presented, Throws, Without
    <2>3. CASE \E h \in Handoffs, s \in Session, starts \in BOOLEAN : Request(h, s, starts)
      <3>1. PICK h \in Handoffs, s \in Session :
              pending' = [pending EXCEPT ![s] = h] /\ active' = active \cup {s}
        BY <2>3 DEF Request
      <3> QED
        BY <3>1 DEF TypeOK
    <2>4. CASE \E s \in Session : Begin(s) \/ End(s)
      BY <2>4 DEF TypeOK, Begin, End
    <2>5. CASE UserDetaches \/ ToggleTab \/ Crash
      BY <2>5, CancelType DEF TypeOK, UserDetaches, ToggleTab, Crash, Detach, Attach
    <2>6. CASE UNCHANGED <<pending, active>>
      BY <2>6 DEF TypeOK
    <2> QED
      BY <2>1, <2>2, <2>3, <2>4, <2>5, <2>6 DEF Next, ActionSettles, Receive, PageStatusRequested,
         HandleToolbarClick, Deliver, Click, Navigate, ScriptLoads, UserAttaches, Attach, Replace, ToolbarClick,
         Own, vars
  <1>7. down' \in Commands
    <2>1. CASE UNCHANGED down
      BY <1>2, <2>1
    <2>2. CASE \E s \in Session : Begin(s) \/ End(s)
      <3>1. Shows("running", NoOne) \in Status /\ Shows("attached", NoOne) \in Status
        BY DEF Shows, Status
      <3> QED
        BY <1>3, <2>1, <2>2, <3>1 DEF Begin, End
    <2>3. CASE \E h \in Handoffs, s \in Session, starts \in BOOLEAN : Request(h, s, starts)
      <3>1. PICK h \in Handoffs : down' = Append(down, Command(Shows("waiting", h), h))
        BY <2>3 DEF Request
      <3>2. Command(Shows("waiting", h), h) \in [status : Status, ack : Handoffs \cup {NoOne}]
        BY StatusType DEF Command
      <3> QED
        BY <1>2, <3>1, <3>2 DEF Commands
    <2>4. CASE \E h \in Handoffs : Proceed(h)
      BY <1>3, <2>1, <2>4, StatusType DEF Proceed, ActionFails, Throws, ActionDone, OutcomeFirst, CutConnection,
         Return, Continues
    <2>5. CASE Receive
      BY <1>3, <2>1, <2>5, StatusType DEF Receive, Presented, Throws, PageStatusRequested, Complete, HandleToolbarClick
    <2>6. CASE Deliver
      BY <1>2, <2>6, HeadAndTail DEF Deliver, Commands
    <2>7. CASE UserAttaches \/ UserDetaches \/ ToggleTab \/ Replace \/ \E s \in Session \cup {NoOne} : Own(s)
      BY <1>3, <2>1, <2>7, StatusType DEF UserAttaches, UserDetaches, ToggleTab, Attach, Detach, Replace, Own
    <2> QED
      BY <2>1, <2>2, <2>3, <2>4, <2>5, <2>6, <2>7 DEF Next, Timeout, ActionSettles, Click, Navigate, ScriptLoads,
         Crash, ToolbarClick, vars
  <1>8. page' \in Page /\ up' \in Seq(Message)
    <2>1. CASE Deliver
      <3>1. Head(down) \in [status : Status, ack : Handoffs \cup {NoOne}]
        BY <1>2, <2>1, HeadAndTail DEF Deliver, Commands
      <3>2. page' \in Page
        BY <1>2, <2>1, <3>1 DEF Deliver, Page
      <3>3. page.live \in BOOLEAN
        BY <1>2 DEF Page
      <3>4. [kind |-> "ack", handoff |-> Head(down).ack, ok |-> page.live] \in Message
        BY <3>1, <3>3 DEF Message
      <3> QED
        BY <1>2, <2>1, <3>2, <3>4 DEF Deliver
    <2>2. CASE Click
      <3>1. page.shows.handoff \in Handoffs \cup {NoOne}
        BY <1>2 DEF Page, Status
      <3>2. [kind |-> "completed", handoff |-> page.shows.handoff, ok |-> TRUE] \in Message
        BY <3>1 DEF Message
      <3>3. page' \in Page
        BY <1>2, <2>2, <3>1 DEF Click, Page
      <3> QED
        BY <1>2, <2>2, <3>2, <3>3 DEF Click
    <2>3. CASE Navigate \/ ScriptLoads \/ ToolbarClick
      <3>1. page' \in Page
        BY <1>2, <2>3, StatusType DEF Navigate, ScriptLoads, ToolbarClick, Page
      <3>2. \A kind \in {"ready", "toolbar"} : [kind |-> kind, handoff |-> NoOne, ok |-> TRUE] \in Message
        BY DEF Message
      <3> QED
        BY <1>2, <2>3, <3>1, <3>2 DEF Navigate, ScriptLoads, ToolbarClick
    <2>4. CASE Receive
      <3>1. up # <<>> /\ up' = Tail(up) /\ UNCHANGED page
        BY <2>4 DEF Receive, Presented, PageStatusRequested, Complete, HandleToolbarClick
      <3> QED
        BY <1>2, <3>1, HeadAndTail
    <2>5. CASE UNCHANGED <<page, up>>
      BY <1>2, <2>5
    <2> QED
      BY <2>1, <2>2, <2>3, <2>4, <2>5 DEF Next, Begin, End, Request, Proceed, ActionFails, ActionDone, OutcomeFirst,
         CutConnection, Return, Continues, Timeout, ActionSettles, UserAttaches, UserDetaches, Replace, Crash,
         ToggleTab, Own, vars
  <1>9. events' \in Nat
    <2>1. UNCHANGED events \/ Chosen
      BY DEF Next, Begin, End, Request, Proceed, ActionFails, ActionDone, OutcomeFirst, CutConnection,
         Return, Continues, Timeout, ActionSettles, Receive, Presented, PageStatusRequested, Complete,
         HandleToolbarClick, Deliver, Click, Navigate, ScriptLoads, UserAttaches, UserDetaches, Replace, Crash,
         ToolbarClick, ToggleTab, Own, vars
    <2> QED
      BY <2>1 DEF TypeOK, Chosen
  <1> QED
    BY <1>1, <1>4, <1>5, <1>6, <1>7, <1>8, <1>9 DEF TypeOK, Commands, Tab

-----------------------------------------------------------------------------
(* A session ends its execute only when no handoff of it is under way.        *)
LEMMA RunSteps ==
  ASSUME TypeOK, [Next]_vars, NEW s \in Session, run[s] = "running", run'[s] # "running"
  PROVE  UNCHANGED call /\ \A h \in Handoffs : call[h].session = s => call[h].pc \in {"none", "ended"}
  <1>1. (\E k \in Session : Begin(k) \/ End(k)) \/ UNCHANGED run
    BY DEF Next, Request, Proceed, ActionFails, ActionDone, OutcomeFirst, CutConnection, Return, Continues, Timeout,
       ActionSettles, Receive, Presented, PageStatusRequested, Complete, HandleToolbarClick, Deliver, Click,
       Navigate, ScriptLoads, UserAttaches, UserDetaches, Replace, Crash, ToolbarClick, ToggleTab, Own, vars
  <1> QED
    BY <1>1 DEF TypeOK, Begin, End, Live

LEMMA CallInvNext ==
  ASSUME TypeOK, CallInv, ClickInv, [Next]_vars
  PROVE  CallInv'
  <1> SUFFICES ASSUME NEW h \in Handoffs
               PROVE  /\ call'[h].pc \notin {"none", "ended"} =>
                           call'[h].session \in Session /\ run'[call'[h].session] = "running"
                      /\ Awaited(call'[h])
    BY DEF CallInv, Held, Awaited
  <1>1. CASE Requested(h, call'[h])
    <2>1. run'[call'[h].session] = "running"
      BY <1>1, RunSteps DEF Requested
    <2> QED
      BY <1>1, <2>1 DEF Requested, Awaited
  <1>2. CASE Steps(h, call'[h])
    <2>1. Held(call[h]) /\ Awaited(call[h])
      BY DEF CallInv
    <2>2. ASSUME call'[h].pc \notin {"none", "ended"}
          PROVE  call'[h].session \in Session /\ run'[call'[h].session] = "running"
      <3>1. call'[h].session = call[h].session /\ call[h].session \in Session /\ run[call[h].session] = "running"
            /\ call[h].pc \notin {"none", "ended"}
        BY <1>2, <2>1, <2>2 DEF Steps, Follows, Held
      <3> QED
        BY <3>1, RunSteps
    <2> QED
      BY <1>2, <2>1, <2>2 DEF Steps, Follows
  <1> QED
    BY <1>1, <1>2, CallSteps

LEMMA ClickInvNext ==
  ASSUME TypeOK, CallInv, ClickInv, [Next]_vars
  PROVE  ClickInv'
  <1> DEFINE Good(m, clicked) == /\ m.kind = "completed" => m.handoff \in clicked
                                 /\ m.kind = "ack" => m.handoff \in Handoffs
  <1>1. page.clicked \subseteq page'.clicked
    <2>1. Click => page.clicked \subseteq page'.clicked
      BY DEF Click, TypeOK, Page
    <2>2. Deliver \/ Navigate \/ ScriptLoads \/ UNCHANGED page => page'.clicked = page.clicked
      BY DEF Deliver, Navigate, ScriptLoads, TypeOK, Page
    <2> QED
      BY <2>1, <2>2 DEF Next, Begin, End, Request, Proceed, ActionFails, ActionDone, OutcomeFirst, CutConnection,
         Return, Continues, Timeout, ActionSettles, Receive, Presented, PageStatusRequested, Complete,
         HandleToolbarClick, UserAttaches, UserDetaches, Replace, Crash, ToolbarClick, ToggleTab, Own, vars
  <1>2. \A h \in Handoffs : call'[h].outcome = "resolved" => h \in page'.clicked
    BY <1>1, CallSteps DEF Steps, Marked, Requested, ClickInv
  <1>3. \/ UNCHANGED up
        \/ up # <<>> /\ up' = Tail(up)
        \/ \E m \in Message : Good(m, page'.clicked) /\ up' = Append(up, m)
    <2>1. CASE Deliver
      <3>3. Head(down) \in [status : Status, ack : Handoffs \cup {NoOne}]
        BY <2>1, HeadAndTail DEF Deliver, TypeOK
      <3>1. Head(down).ack \in Handoffs \cup {NoOne} /\ page.live \in BOOLEAN
        BY <3>3 DEF TypeOK, Page
      <3>2. Head(down).ack # NoOne =>
              LET m == [kind |-> "ack", handoff |-> Head(down).ack, ok |-> page.live]
              IN  m \in Message /\ Good(m, page'.clicked)
        BY <3>1 DEF Message
      <3> QED
        BY <2>1, <3>2 DEF Deliver
    <2>2. CASE Click
      <3>1. page.shows.handoff \in Handoffs \cup {NoOne} /\ page.shows.handoff \in page'.clicked
        BY <2>2 DEF Click, TypeOK, Page, Status
      <3>2. LET m == [kind |-> "completed", handoff |-> page.shows.handoff, ok |-> TRUE]
            IN  m \in Message /\ Good(m, page'.clicked)
        BY <3>1 DEF Message
      <3> QED
        BY <2>2, <3>2 DEF Click
    <2>3. CASE ScriptLoads \/ ToolbarClick
      <3>1. \A kind \in {"ready", "toolbar"} :
              LET m == [kind |-> kind, handoff |-> NoOne, ok |-> TRUE]
              IN  m \in Message /\ Good(m, page'.clicked)
        BY DEF Message
      <3> QED
        BY <2>3, <3>1 DEF ScriptLoads, ToolbarClick
    <2>4. CASE Receive
      BY <2>4 DEF Receive, Presented, PageStatusRequested, Complete, HandleToolbarClick
    <2> QED
      BY <2>1, <2>2, <2>3, <2>4 DEF Next, Begin, End, Request, Proceed, ActionFails, ActionDone, OutcomeFirst,
         CutConnection, Return, Continues, Timeout, ActionSettles, Navigate, UserAttaches, UserDetaches, Replace,
         Crash, ToggleTab, Own, vars
  <1>4. \A i \in 1..Len(up) : Good(up[i], page'.clicked)
    BY <1>1 DEF ClickInv
  <1>5. \A i \in 1..Len(up') : Good(up'[i], page'.clicked)
    <2>1. CASE up # <<>> /\ up' = Tail(up)
      BY <1>4, <2>1, HeadAndTail DEF TypeOK
    <2>2. ASSUME NEW m \in Message, Good(m, page'.clicked), up' = Append(up, m)
          PROVE  \A i \in 1..Len(up') : Good(up'[i], page'.clicked)
      <3>1. \A i \in 1..Len(up') : up'[i] = m \/ (i \in 1..Len(up) /\ up'[i] = up[i])
        BY <2>2 DEF TypeOK
      <3> QED
        BY <1>4, <2>2, <3>1
    <2> QED
      BY <1>3, <1>4, <2>1, <2>2
  <1> QED
    BY <1>2, <1>5 DEF ClickInv

LEMMA HandoffInvInit == Init => HandoffInv
  <1> SUFFICES ASSUME Init PROVE HandoffInv
    OBVIOUS
  <1>1. NoCall \in CallRecord /\ NoCall.pc = "none" /\ NoCall.action = "none" /\ NoCall.outcome = "none"
    BY DEF NoCall, CallRecord
  <1>2. page \in Page
    BY StatusType DEF Init, Page
  <1> QED
    BY <1>1, <1>2 DEF Init, HandoffInv, TypeOK, CallInv, ClickInv, Held, Awaited

(* A handoff does nothing outside the execute that started it: its action is   *)
(* awaited or cut off (awaitHandoffAction in relay.ts), and it is resolved by  *)
(* the click on its own control and by nothing else (handoff.ts).            *)
THEOREM HandoffsAreConfined == Spec => []HandoffsKeepToTheirExecute
  <1>1. HandoffInv /\ [Next]_vars => HandoffInv'
    BY TypeNext, CallInvNext, ClickInvNext DEF HandoffInv
  <1>2. HandoffInv => HandoffsKeepToTheirExecute
    BY DEF HandoffInv, CallInv, ClickInv, Held, Awaited, TypeOK, CallRecord, HandoffsKeepToTheirExecute, NoActionAfterRelease, ResolvedByItsControl, Live
  <1> QED
    BY <1>1, <1>2, HandoffInvInit, PTL DEF Spec

-----------------------------------------------------------------------------
(* What is shown.  A handoff that is pending is under way, its session's, and  *)
(* without an outcome; one that resolved waits for its page to load.           *)
Fit(c, p, r, target) ==
  /\ \A s \in Session : p[s] # NoOne => Live(c, p[s]) /\ c[p[s]].session = s /\ c[p[s]].outcome = "none"
  /\ \A h \in Handoffs : c[h].pc = "context" => c[h].outcome = "resolved"
  /\ \A h \in Handoffs : Live(c, h) /\ ~ c[h].crowded =>     \* it is alone
       /\ \A g \in Handoffs \ {h} : ~ Live(c, g)
       /\ \A s \in Session : r[s] = "running" => s = c[h].session
  /\ \A h \in PendingHere(p) : ~ c[h].crowded => target # 0 /\ c[h].target = target

(* A status that may be the last the page gets: its handoff is under way, and   *)
(* it is the one that has the tab for itself, if there is one.                  *)
Right(status, c, p, target) ==
  /\ status.state = "waiting" =>
       target # 0 /\ status.handoff \in Handoffs /\ Live(c, status.handoff) /\ c[status.handoff].pc # "context"
  /\ \A h \in PendingHere(p) : ~ c[h].crowded => status = Shows("waiting", h)

(* The page shows the last status that it was sent, unless its script has yet   *)
(* to load or to ask for the status.                                           *)
Due == ~ page.live \/ \E i \in 1..Len(up) : up[i].kind = "ready"
Final == IF down = <<>> THEN page.shows ELSE down[Len(down)].status
ShownInv == ~ Due => Right(Final, call, pending, tab.target)

ControlInv == Fit(call, pending, run, tab.target) /\ ShownInv

-----------------------------------------------------------------------------
(* A status that the relay computes from what is pending is right.             *)
LEMMA RefreshedIsRight ==
  ASSUME NEW c, NEW p, NEW r, NEW target, Fit(c, p, r, target),
         NEW sessions, NEW status \in Refreshed(target, p, sessions)
  PROVE  Right(status, c, p, target)
  <1>1. Cleared.state # "waiting" /\ Shows("attached", NoOne).state # "waiting"
        /\ \A s : Activity(s).state # "waiting"
    BY DEF Cleared, Shows, Activity
  <1>2. \A h \in Handoffs : Shows("waiting", h).handoff = h
    BY DEF Shows
  <1>3. \A h \in PendingHere(p) : h \in Handoffs /\ h # NoOne /\ Live(c, h) /\ c[h].outcome = "none" /\ c[h].pc # "context"
    BY HandoffAssumption DEF Fit, PendingHere
  <1>4. \A h, g \in PendingHere(p) : ~ c[h].crowded => g = h
    BY <1>3 DEF Fit
  <1>5. CASE target # 0 /\ PendingHere(p) # {}
    BY <1>2, <1>3, <1>4, <1>5 DEF Refreshed, Right
  <1>6. CASE target = 0 \/ PendingHere(p) = {}
    <2>1. \A h \in PendingHere(p) : c[h].crowded
      BY <1>6 DEF Fit
    <2>2. status.state # "waiting"
      BY <1>1, <1>6 DEF Refreshed
    <2> QED
      BY <2>1, <2>2 DEF Right
  <1> QED
    BY <1>5, <1>6

(* What present sends says what the handoff is waiting for. *)
LEMMA PresentedIsRight ==
  ASSUME NEW c, NEW p, NEW r, NEW target, Fit(c, p, r, target), target # 0, NEW status \in Presentation(p)
  PROVE  Right(status, c, p, target)
  <1>1. \A s : Activity(s).state # "waiting"
    BY DEF Activity, Shows
  <1>2. CASE PendingHere(p) # {}
    BY <1>2, RefreshedIsRight DEF Refreshed, Presentation
  <1>3. CASE PendingHere(p) = {}
    BY <1>1, <1>3 DEF Presentation, Right, Shows
  <1> QED
    BY <1>2, <1>3

(* A status without a control is right while nothing pending has the tab alone. *)
LEMMA PlainIsRight ==
  ASSUME NEW status, NEW c, NEW p, NEW target, status.state # "waiting", \A h \in PendingHere(p) : c[h].crowded
  PROVE  Right(status, c, p, target)
  BY DEF Right

(* No status but that of a handoff says that the page waits. *)
LEMMA PlainStatus ==
  /\ Cleared.state # "waiting" /\ Shows("attached", NoOne).state # "waiting" /\ Shows("running", NoOne).state # "waiting"
  /\ \A s : Activity(s).state # "waiting"
  BY DEF Cleared, Shows, Activity

-----------------------------------------------------------------------------
(* The last command is the one sent last, and the page shows it in the end.     *)
LEMMA LastOfAppend ==
  ASSUME NEW S, NEW q \in Seq(S), NEW m \in S
  PROVE  Append(q, m) # <<>> /\ Append(q, m)[Len(Append(q, m))] = m
  OBVIOUS

(* Taking the first of several messages leaves the last one the last. *)
LEMMA LastOfTail ==
  ASSUME NEW S, NEW q \in Seq(S), q # <<>>, Len(q) # 1
  PROVE  Tail(q) # <<>> /\ Tail(q)[Len(Tail(q))] = q[Len(q)]
  <1>1. Len(q) \in Nat /\ 1 \in 1..Len(q) /\ Tail(q) \in Seq(S)
    BY HeadAndTail
  <1>2. PICK n \in Nat : n = Len(q)
    BY <1>1
  <1>3. n > 1 /\ n - 1 \in 1..(n - 1)
    BY <1>1, <1>2
  <1>4. Len(Tail(q)) = n - 1
    BY <1>2
  <1>5. Tail(q)[n - 1] = q[n - 1 + 1]
    BY <1>3, <1>4, HeadAndTail
  <1>6. Tail(q) # <<>>
    BY <1>3, <1>4
  <1> QED
    BY <1>2, <1>3, <1>4, <1>5, <1>6

(* A status that is sent becomes the last one the page will show. *)
LEMMA SentIsFinal ==
  ASSUME TypeOK, NEW status \in Status, NEW h \in Handoffs \cup {NoOne}, down' = Append(down, Command(status, h))
  PROVE  Final' = status
  <1> DEFINE m == Command(status, h)
  <1>1. m \in [status : Status, ack : Handoffs \cup {NoOne}] /\ m.status = status /\ down' = Append(down, m)
    BY DEF Command
  <1> HIDE DEF m
  <1>2. down' # <<>> /\ down'[Len(down')] = m
    BY <1>1, LastOfAppend DEF TypeOK
  <1> QED
    BY <1>1, <1>2 DEF Final

(* While nothing is sent, the last status stays the last. *)
LEMMA KeptIsFinal ==
  ASSUME UNCHANGED <<down, page>>
  PROVE  Final' = Final
  BY DEF Final

(* Delivery to the page does not change what will be shown last. *)
LEMMA DeliveredIsFinal ==
  ASSUME TypeOK, Deliver, page.live
  PROVE  Final' = Final
  <1> DEFINE S == [status : Status, ack : Handoffs \cup {NoOne}]
  <1>1. down \in Seq(S) /\ down # <<>> /\ down' = Tail(down) /\ page \in Page
    BY DEF Deliver, TypeOK
  <1>2. Head(down) = down[1] /\ Tail(down) \in Seq(S) /\ Len(Tail(down)) = Len(down) - 1 /\ 1 \in 1..Len(down)
        /\ \A i \in 1..Len(Tail(down)) : Tail(down)[i] = down[i + 1]
    BY <1>1, HeadAndTail
  <1>3. page'.shows = Head(down).status
    BY <1>1 DEF Deliver, Page
  <1>4. CASE Len(down) = 1
    BY <1>1, <1>2, <1>3, <1>4 DEF Final
  <1>5. CASE Len(down) # 1
    BY <1>1, <1>5, LastOfTail DEF Final
  <1> QED
    BY <1>4, <1>5

(* A page asks for its status when its script loads; the question stays until    *)
(* it is answered.                                                            *)
LEMMA DueStays ==
  ASSUME TypeOK, [Next]_vars, Due, ~ Due'
  PROVE  PageStatusRequested
  <1>1. \/ page' = page \/ Deliver \/ Click \/ Navigate \/ ScriptLoads
    BY DEF Next, Begin, End, Request, Proceed, ActionFails, ActionDone, OutcomeFirst, CutConnection, Return,
       Continues, Timeout, ActionSettles, Receive, Presented, PageStatusRequested, Complete, HandleToolbarClick,
       UserAttaches, UserDetaches, Replace, Crash, ToolbarClick, ToggleTab, Own, vars
  <1>2. page'.live = page.live \/ Navigate \/ ScriptLoads
    BY <1>1 DEF Deliver, Click, TypeOK, Page
  <1>3. ~ Navigate
    BY DEF Navigate, Due, TypeOK, Page
  <1>4. ASSUME NEW m \in Message, up' = Append(up, m)
        PROVE  /\ Len(up') \in 1..Len(up') /\ up'[Len(up')] = m
               /\ \A i \in 1..Len(up) : i \in 1..Len(up') /\ up'[i] = up[i]
    BY <1>4 DEF TypeOK
  <1>5. ~ ScriptLoads
    <2> SUFFICES ASSUME ScriptLoads PROVE Due'
      OBVIOUS
    <2> DEFINE m == [kind |-> "ready", handoff |-> NoOne, ok |-> TRUE]
    <2>1. m \in Message /\ m.kind = "ready" /\ up' = Append(up, m)
      BY DEF ScriptLoads, Message
    <2> HIDE DEF m
    <2> QED
      BY <1>4, <2>1 DEF Due
  <1>6. PICK i \in 1..Len(up) : up[i].kind = "ready"
    BY <1>2, <1>3, <1>5 DEF Due
  <1>7. up' = up \/ Receive \/ \E m \in Message : up' = Append(up, m)
    <2>1. CASE Deliver
      <3>3. Head(down) \in [status : Status, ack : Handoffs \cup {NoOne}]
        BY <2>1, HeadAndTail DEF Deliver, TypeOK
      <3>1. Head(down).ack \in Handoffs \cup {NoOne} /\ page.live \in BOOLEAN
        BY <3>3 DEF TypeOK, Page
      <3>2. [kind |-> "ack", handoff |-> Head(down).ack, ok |-> page.live] \in Message
        BY <3>1 DEF Message
      <3> QED
        BY <2>1, <3>2 DEF Deliver
    <2>2. CASE Click
      <3>1. page.shows.handoff \in Handoffs \cup {NoOne}
        BY <2>2 DEF Click, TypeOK, Page, Status
      <3>2. [kind |-> "completed", handoff |-> page.shows.handoff, ok |-> TRUE] \in Message
        BY <3>1 DEF Message
      <3> QED
        BY <2>2, <3>2 DEF Click
    <2>3. CASE ToolbarClick
      BY <2>3 DEF ToolbarClick, Message
    <2> QED
      BY <1>5, <2>1, <2>2, <2>3 DEF Next, Begin, End, Request, Proceed, ActionFails, ActionDone, OutcomeFirst,
         CutConnection, Return, Continues, Timeout, ActionSettles, Navigate, UserAttaches, UserDetaches, Replace,
         Crash, ToggleTab, Own, vars
  <1>8. Receive
    BY <1>4, <1>6, <1>7 DEF Due
  <1>9. up # <<>> /\ up' = Tail(up)
    BY <1>8 DEF Receive, Presented, PageStatusRequested, Complete, HandleToolbarClick
  <1>10. Head(up).kind = "ready"
    <2>1. Head(up) = up[1] /\ Len(Tail(up)) = Len(up) - 1 /\ \A j \in 1..Len(Tail(up)) : Tail(up)[j] = up[j + 1]
      BY <1>9, HeadAndTail DEF TypeOK
    <2>2. i # 1 => i - 1 \in 1..Len(Tail(up)) /\ Tail(up)[i - 1] = up[i]
      BY <1>6, <1>9, <2>1 DEF TypeOK
    <2> QED
      BY <1>6, <1>9, <2>1, <2>2 DEF Due
  <1> QED
    BY <1>8, <1>10 DEF Receive, Presented, Complete, HandleToolbarClick

-----------------------------------------------------------------------------
(* What a step may do to a handoff that it does not start or bind anew.         *)
Mild(c, d) ==
  /\ d.session = c.session /\ d.target = c.target /\ (c.crowded => d.crowded)
  /\ d.pc \notin {"none", "ended"} => c.pc \notin {"none", "ended"}
  /\ c.outcome # "none" => d.outcome = c.outcome
  /\ d.pc = "context" => c.pc = "context" \/ c.outcome = "resolved"
Stays(c, d) == c.pc \notin {"none", "ended", "context"} => d.pc \notin {"none", "ended", "context"}

(* Resolving some handoffs leaves the place in the action, and the others as they are. *)
LEMMA ResolvedMild ==
  ASSUME TypeOK, NEW hs, NEW outcome \in {"resolved", "timeout", "cancelled"}, NEW h \in Handoffs
  PROVE  LET d == Resolved(call, hs, outcome)[h]
         IN  /\ Mild(call[h], d) /\ Stays(call[h], d) /\ d.pc = call[h].pc
             /\ h \notin hs => d = call[h]
  <1> DEFINE e == [call[h] EXCEPT !.outcome = outcome]
  <1>1. call[h] \in CallRecord
    BY DEF TypeOK
  <1>2. e.pc = call[h].pc /\ e.session = call[h].session /\ e.target = call[h].target /\ e.crowded = call[h].crowded
        /\ e.outcome = outcome
    BY <1>1 DEF CallRecord
  <1>3. Resolved(call, hs, outcome)[h] = IF h \in hs /\ call[h].outcome = "none" THEN e ELSE call[h]
    BY DEF Resolved
  <1> HIDE DEF e
  <1> QED
    BY <1>1, <1>2, <1>3 DEF Mild, Stays, CallRecord

(* One handoff moves to another phase.                                        *)
LEMMA PhaseMild ==
  ASSUME TypeOK, NEW g \in Handoffs, NEW pc, NEW action, Moves(g, pc, action),
         call[g].pc \notin {"none", "ended"}, pc = "context" => call[g].outcome = "resolved"
  PROVE  /\ \A h \in Handoffs : Mild(call[h], call'[h]) /\ call'[h].outcome = call[h].outcome
         /\ \A h \in Handoffs : h # g => call'[h] = call[h]
         /\ call'[g].pc = pc
  <1> DEFINE q == [call[g] EXCEPT !.pc = pc, !.action = action]
  <1>1. call[g] \in CallRecord /\ \A h \in Handoffs : call[h] \in CallRecord
    BY DEF TypeOK
  <1>2. q.pc = pc /\ q.session = call[g].session /\ q.target = call[g].target /\ q.crowded = call[g].crowded
        /\ q.outcome = call[g].outcome
    BY <1>1 DEF CallRecord
  <1>3. call' = [call EXCEPT ![g] = q]
    BY DEF Moves
  <1>4. call'[g] = q /\ \A h \in Handoffs : h # g => call'[h] = call[h]
    BY <1>3 DEF TypeOK
  <1> HIDE DEF q
  <1>5. Mild(call[g], q) /\ \A h \in Handoffs : Mild(call[h], call[h])
    BY <1>1, <1>2 DEF Mild
  <1> QED
    BY <1>2, <1>4, <1>5

(* A step of a handoff from one await to the next is such a move. *)
LEMMA PhaseIsMove ==
  ASSUME TypeOK, NEW g \in Handoffs, NEW pc, call' = [call EXCEPT ![g].pc = pc]
  PROVE  Moves(g, pc, call[g].action)
  BY DEF Moves, TypeOK, CallRecord

(* Where handoffs only go on, end or lose their place in pending, they fit.     *)
LEMMA FitAfter ==
  ASSUME TypeOK, Fit(call, pending, run, tab.target),
         \A h \in Handoffs : Mild(call[h], call'[h]),
         \A s \in Session : pending'[s] # NoOne =>
           pending'[s] = pending[s] /\ Live(call', pending[s]) /\ call'[pending[s]].outcome = "none",
         \A s \in Session : run'[s] = "running" => run[s] = "running",
         \A h \in PendingHere(pending') : ~ call'[h].crowded => tab'.target = tab.target
  PROVE  /\ Fit(call', pending', run', tab'.target)
         /\ \A h \in PendingHere(pending') : h \in PendingHere(pending) /\ (~ call'[h].crowded => ~ call[h].crowded)
  <1>1. \A h \in PendingHere(pending') : h \in Handoffs /\ h \in PendingHere(pending)
    BY HandoffAssumption DEF PendingHere
  <1>2. \A s \in Session : pending'[s] # NoOne =>
          Live(call', pending'[s]) /\ call'[pending'[s]].session = s /\ call'[pending'[s]].outcome = "none"
    BY DEF Fit, Mild, TypeOK
  <1>3. \A h \in Handoffs : call'[h].pc = "context" => call'[h].outcome = "resolved"
    BY DEF Fit, Mild
  <1>4. \A h \in Handoffs : Live(call', h) /\ ~ call'[h].crowded =>
          /\ \A g \in Handoffs \ {h} : ~ Live(call', g)
          /\ \A s \in Session : run'[s] = "running" => s = call'[h].session
    BY DEF Fit, Mild, Live
  <1>5. \A h \in PendingHere(pending') : ~ call'[h].crowded => tab'.target # 0 /\ call'[h].target = tab'.target
    BY <1>1 DEF Fit, Mild
  <1>6. \A h \in PendingHere(pending') : ~ call'[h].crowded => ~ call[h].crowded
    BY <1>1 DEF Mild
  <1> QED
    BY <1>1, <1>2, <1>3, <1>4, <1>5, <1>6 DEF Fit

(* What is pending is under way; so is what is pending after a step like that.   *)
LEMMA PendingGoesOn ==
  ASSUME TypeOK, Fit(call, pending, run, tab.target),
         \A h \in Handoffs : Stays(call[h], call'[h]) \/ call[h].outcome # "none",
         \A h \in Handoffs : call'[h].outcome = call[h].outcome
  PROVE  \A s \in Session : pending[s] # NoOne => Live(call', pending[s]) /\ call'[pending[s]].outcome = "none"
  BY DEF Fit, Stays, Live, TypeOK

(* The page keeps a right status.                                            *)
LEMMA ShownKept ==
  ASSUME TypeOK, ControlInv, ~ Due' => ~ Due /\ Final' = Final,
         tab.target # 0 => tab'.target # 0 /\ \A h \in Handoffs : Stays(call[h], call'[h]),
         \A h \in PendingHere(pending') : h \in PendingHere(pending) /\ (~ call'[h].crowded => ~ call[h].crowded)
  PROVE  ShownInv'
  <1> SUFFICES ASSUME ~ Due' PROVE Right(Final, call, pending, tab.target)'
    BY DEF ShownInv
  <1>1. Right(Final, call, pending, tab.target) /\ Final' = Final
    BY DEF ControlInv, ShownInv
  <1>2. ASSUME NEW st, st = Final
        PROVE  Right(st, call', pending', tab'.target)
    BY <1>1, <1>2 DEF Right, Stays, Live
  <1> QED
    BY <1>1, <1>2 DEF Right

(* The page is sent a right status.                                          *)
LEMMA ShownSaid ==
  ASSUME NEW status, Final' = status, Right(status, call', pending', tab'.target)
  PROVE  ShownInv'
  BY DEF ShownInv, Right

(* Handoffs go on, and the page is told nothing.                             *)
LEMMA GoesOn ==
  ASSUME TypeOK, ControlInv, ~ Due' => ~ Due, UNCHANGED <<tab, pending, run, down, page>>,
         \A h \in Handoffs : /\ Mild(call[h], call'[h]) /\ Stays(call[h], call'[h])
                             /\ call'[h].outcome = call[h].outcome
  PROVE  ControlInv'
  <1>1. Fit(call, pending, run, tab.target)
    BY DEF ControlInv
  <1>2. \A s \in Session : pending[s] # NoOne => Live(call', pending[s]) /\ call'[pending[s]].outcome = "none"
    BY <1>1, PendingGoesOn
  <1>3. /\ Fit(call', pending', run', tab'.target)
        /\ \A h \in PendingHere(pending') : h \in PendingHere(pending) /\ (~ call'[h].crowded => ~ call[h].crowded)
    BY <1>1, <1>2, FitAfter
  <1>4. ShownInv'
    BY <1>3, KeptIsFinal, ShownKept
  <1> QED
    BY <1>3, <1>4 DEF ControlInv

(* While a handoff that is not pending is under way, none has the tab alone.     *)
LEMMA CrowdedBeside ==
  ASSUME TypeOK, NEW c, NEW p, NEW r, NEW target, Fit(c, p, r, target),
         NEW g \in Handoffs, Live(c, g), NEW q, \A s \in Session : q[s] # NoOne => q[s] = p[s] /\ q[s] # g
  PROVE  \A h \in PendingHere(q) : c[h].crowded
  BY HandoffAssumption DEF Fit, PendingHere

-----------------------------------------------------------------------------
(* Each action keeps what is shown.                                          *)
ControlPre == TypeOK /\ CallInv /\ ClickInv /\ ControlInv

(* An execute begins: what was shown stays, or says that it runs; every handoff is crowded. *)
LEMMA BeginControl ==
  ASSUME ControlPre, ~ Due' => ~ Due, NEW s \in Session, Begin(s)
  PROVE  ControlInv'
  <1>0. TypeOK /\ Fit(call, pending, run, tab.target) /\ \A h \in Handoffs : call[h] \in CallRecord
    BY DEF ControlPre, ControlInv, TypeOK
  <1>1. \A h \in Handoffs : /\ call'[h].pc = call[h].pc /\ call'[h].session = call[h].session
                            /\ call'[h].target = call[h].target /\ call'[h].outcome = call[h].outcome
                            /\ Live(call', h) <=> Live(call, h)
                            /\ Live(call, h) => call'[h].crowded
    <2> SUFFICES ASSUME NEW h \in Handoffs
                 PROVE  /\ call'[h].pc = call[h].pc /\ call'[h].session = call[h].session
                        /\ call'[h].target = call[h].target /\ call'[h].outcome = call[h].outcome
                        /\ Live(call', h) <=> Live(call, h)
                        /\ Live(call, h) => call'[h].crowded
      OBVIOUS
    <2> DEFINE q == [call[h] EXCEPT !.crowded = TRUE]
    <2>1. q.pc = call[h].pc /\ q.session = call[h].session /\ q.target = call[h].target /\ q.outcome = call[h].outcome
          /\ q.crowded
      BY <1>0 DEF CallRecord
    <2>2. call'[h] = IF Live(call, h) THEN q ELSE call[h]
      BY DEF Begin
    <2> HIDE DEF q
    <2> QED
      BY <2>1, <2>2 DEF Live
  <1>2. pending' = pending /\ tab' = tab /\ page' = page
    BY DEF Begin
  <1>3. \A h \in PendingHere(pending') : h \in Handoffs /\ h # NoOne /\ call'[h].crowded
    BY <1>0, <1>1, <1>2, HandoffAssumption DEF Fit, PendingHere
  <1>4. Fit(call', pending', run', tab'.target)
    BY <1>0, <1>1, <1>2, <1>3 DEF Fit, TypeOK
  <1>5. CASE Sends(Shows("running", NoOne))
    <2>1. Shows("running", NoOne) \in Status /\ NoOne \in Handoffs \cup {NoOne}
      BY DEF Shows, Status
    <2>2. Final' = Shows("running", NoOne)
      BY <1>0, <1>5, <2>1, SentIsFinal DEF Sends
    <2> QED
      BY <1>3, <1>4, <2>2, PlainStatus, PlainIsRight, ShownSaid DEF ControlInv
  <1>6. CASE UNCHANGED down
    <2>1. \A h \in Handoffs : Stays(call[h], call'[h])
      BY <1>1 DEF Stays
    <2>2. ShownInv'
      BY <1>0, <1>2, <1>3, <1>6, <2>1, KeptIsFinal, ShownKept DEF ControlPre
    <2> QED
      BY <1>4, <2>2 DEF ControlInv
  <1> QED
    BY <1>5, <1>6 DEF Begin

(* An execute ends, when no handoff of its session is left. *)
LEMMA EndControl ==
  ASSUME ControlPre, ~ Due' => ~ Due, NEW s \in Session, End(s)
  PROVE  ControlInv'
  <1>0. TypeOK /\ Fit(call, pending, run, tab.target)
    BY DEF ControlPre, ControlInv
  <1>1. pending' = pending /\ call' = call /\ tab' = tab /\ page' = page
        /\ \A t \in Session : run'[t] = "running" => run[t] = "running"
    BY <1>0 DEF End, TypeOK
  <1>2. \A h \in PendingHere(pending') : h \in PendingHere(pending) /\ call[h].crowded
    BY <1>0, <1>1, HandoffAssumption DEF Fit, PendingHere, End
  <1>4. Fit(call', pending', run', tab'.target)
    BY <1>0, <1>1 DEF Fit
  <1>5. CASE Sends(Shows("attached", NoOne))
    <2>2. Final' = Shows("attached", NoOne)
      BY <1>0, <1>5, StatusType, SentIsFinal DEF Sends
    <2> QED
      BY <1>1, <1>2, <1>4, <2>2, PlainStatus, PlainIsRight, ShownSaid DEF ControlInv
  <1>6. CASE UNCHANGED down
    <2>1. ShownInv'
      BY <1>0, <1>1, <1>6, KeptIsFinal, ShownKept DEF ControlPre, Stays
    <2> QED
      BY <1>4, <2>1 DEF ControlInv
  <1> QED
    BY <1>5, <1>6 DEF End

(* A new handoff takes the place of one of its session; what else is under way   *)
(* does not have the tab for itself any more.                                 *)
LEMMA RequestControl ==
  ASSUME ControlPre, NEW h \in Handoffs, NEW s \in Session, NEW starts \in BOOLEAN, Request(h, s, starts)
  PROVE  ControlInv'
  <1> DEFINE timed == Resolved(call, {pending[s]} \cap Handoffs, "timeout")
             others == {g \in Handoffs \ {h} : Live(call, g)}
  <1>0. TypeOK /\ Fit(call, pending, run, tab.target) /\ \A g \in Handoffs : call[g] \in CallRecord
    BY DEF ControlPre, ControlInv, TypeOK
  <1>1. \A g \in Handoffs : Mild(call[g], timed[g]) /\ timed[g].pc = call[g].pc /\ (g # pending[s] => timed[g] = call[g])
    BY <1>0, ResolvedMild
  <1>2. /\ call'[h].pc = "presenting" /\ call'[h].session = s /\ call'[h].target = tab.target
        /\ call'[h].outcome = "none"
        /\ ~ call'[h].crowded => /\ \A g \in Handoffs \ {h} : ~ Live(call, g)
                               /\ \A t \in Session \ {s} : run[t] # "running"
    BY DEF Request, NoCall
  <1>3. ASSUME NEW g \in Handoffs, g # h
        PROVE  /\ call'[g].pc = call[g].pc /\ Mild(call[g], call'[g]) /\ (Live(call', g) <=> Live(call, g))
               /\ Live(call, g) => call'[g].crowded
               /\ g # pending[s] => call'[g].outcome = call[g].outcome
    <2> DEFINE q == [timed[g] EXCEPT !.crowded = TRUE]
    <2>1. timed[g] \in CallRecord
      BY <1>0, ResolvedSteps
    <2>2. q.pc = timed[g].pc /\ q.session = timed[g].session /\ q.target = timed[g].target
          /\ q.outcome = timed[g].outcome /\ q.crowded
      BY <2>1 DEF CallRecord
    <2>3. call'[g] = IF g \in others THEN q ELSE timed[g]
      BY <1>3 DEF Request
    <2> HIDE DEF q
    <2>4. g \in others <=> Live(call, g)
      BY <1>3
    <2> HIDE DEF timed, others
    <2> QED
      BY <1>1, <2>2, <2>3, <2>4 DEF Mild, Live
  <1> HIDE DEF timed, others
  <1>4. /\ run' = run /\ tab' = tab /\ page' = page /\ up' = up /\ pending' = [pending EXCEPT ![s] = h] /\ tab.target # 0
        /\ call[h].pc = "none" /\ run[s] = "running" /\ down' = Append(down, Command(Shows("waiting", h), h))
    BY DEF Request, Attached
  <1>5. /\ pending'[s] = h /\ h # NoOne /\ \A t \in Session : t # s => pending'[t] = pending[t]
        /\ \A t \in Session : pending[t] \in Handoffs \cup {NoOne}
    BY <1>0, <1>4, HandoffAssumption DEF TypeOK
  <1>6. ASSUME NEW t \in Session, pending'[t] # NoOne
        PROVE  Live(call', pending'[t]) /\ call'[pending'[t]].session = t /\ call'[pending'[t]].outcome = "none"
    <2>1. CASE t = s
      BY <1>2, <1>5, <2>1 DEF Live
    <2>2. CASE t # s
      <3>1. PICK g \in Handoffs : g = pending[t] /\ pending'[t] = g
        BY <1>5, <1>6, <2>2
      <3>2. Live(call, g) /\ call[g].session = t /\ call[g].outcome = "none" /\ (pending[s] # NoOne => call[pending[s]].session = s)
        BY <1>5, <1>6, <2>2, <3>1 DEF Fit, ControlInv, ControlPre
      <3>3. g # h /\ g # pending[s]
        BY <1>4, <1>5, <1>6, <2>2, <3>1, <3>2 DEF Live
      <3> QED
        BY <1>3, <3>1, <3>2, <3>3 DEF Mild
    <2> QED
      BY <2>1, <2>2
  <1>7. \A g \in Handoffs : call'[g].pc = "context" => call'[g].outcome = "resolved"
    BY <1>0, <1>2, <1>3 DEF Fit, Mild
  <1>8. ASSUME NEW g \in Handoffs, Live(call', g), ~ call'[g].crowded
        PROVE  /\ g = h /\ \A k \in Handoffs \ {g} : ~ Live(call', k)
               /\ \A t \in Session : run'[t] = "running" => t = call'[g].session
    <2>1. g = h
      BY <1>3, <1>8
    <2> QED
      BY <1>2, <1>3, <1>4, <1>8, <2>1
  <1>9. \A g \in PendingHere(pending') : ~ call'[g].crowded => g = h
    BY <1>6, <1>8, HandoffAssumption DEF PendingHere
  <1>10. Fit(call', pending', run', tab'.target)
    BY <1>2, <1>4, <1>6, <1>7, <1>8, <1>9 DEF Fit
  <1>11. Final' = Shows("waiting", h)
    BY <1>0, <1>4, StatusType, SentIsFinal
  <1>12. Right(Shows("waiting", h), call', pending', tab'.target)
    BY <1>2, <1>4, <1>9 DEF Right, Shows, Live
  <1> QED
    BY <1>10, <1>11, <1>12, ShownSaid DEF ControlInv

(* A handoff that fails leaves the page to what its session does.              *)
LEMMA ThrowsControl ==
  ASSUME ControlPre, ~ Due' => ~ Due, NEW g \in Handoffs, Live(call, g), Throws(g), UNCHANGED <<tab, run, page>>
  PROVE  ControlInv'
  <1>0. TypeOK /\ ControlInv /\ Fit(call, pending, run, tab.target) /\ \A h \in Handoffs : call[h] \in CallRecord
    BY DEF ControlPre, ControlInv, TypeOK
  <1>1. /\ \A h \in Handoffs : Mild(call[h], call'[h])
        /\ \A h \in Handoffs : h # g => call'[h] = call[h]
    <2>1. Moves(g, "ended", call[g].action)
      BY <1>0, PhaseIsMove DEF Throws
    <2> QED
      BY <1>0, <2>1, PhaseMild DEF Live
  <1>2. \A s \in Session : pending'[s] # NoOne => pending'[s] = pending[s] /\ pending[s] # g
    BY DEF Throws, Without
  <1>3. \A s \in Session : pending'[s] # NoOne =>
          pending'[s] = pending[s] /\ Live(call', pending[s]) /\ call'[pending[s]].outcome = "none"
    BY <1>0, <1>1, <1>2 DEF Fit, Live, TypeOK
  <1>4. /\ Fit(call', pending', run', tab'.target)
        /\ \A h \in PendingHere(pending') : h \in PendingHere(pending) /\ (~ call'[h].crowded => ~ call[h].crowded)
    BY <1>0, <1>1, <1>3, FitAfter
  <1>5. \A h \in PendingHere(pending') : call[h].crowded
    BY <1>0, <1>2, CrowdedBeside
  <1>6. \A h \in PendingHere(pending') : call'[h].crowded
    BY <1>1, <1>5 DEF Mild, PendingHere
  <1>7. CASE Sends(Activity(call[g].session))
    <2>1. Final' = Activity(call[g].session)
      BY <1>0, <1>7, StatusType, SentIsFinal DEF Sends
    <2> QED
      BY <1>4, <1>6, <2>1, PlainStatus, PlainIsRight, ShownSaid DEF ControlInv
  <1>8. CASE tab.target = 0 /\ UNCHANGED down
    <2>1. ShownInv'
      BY <1>0, <1>4, <1>8, KeptIsFinal, ShownKept
    <2> QED
      BY <1>4, <2>1 DEF ControlInv
  <1> QED
    BY <1>7, <1>8 DEF Throws, Attached

(* The answer of the page starts the action, or the wait for a click.           *)
LEMMA PresentedControl ==
  ASSUME ControlPre, ~ Due' => ~ Due, Presented
  PROVE  ControlInv'
  <1> DEFINE g == Head(up).handoff
  <1>0. TypeOK /\ ControlInv /\ g \in Handoffs
    <2>1. TypeOK /\ ClickInv /\ ControlInv
      BY DEF ControlPre
    <2>2. g \in Handoffs
      BY <2>1, HeadAndTail DEF Presented, TypeOK, ClickInv
    <2> QED
      BY <2>1, <2>2
  <1>1. UNCHANGED <<tab, run, page>>
    BY DEF Presented
  <1>2. CASE UNCHANGED <<pending, call, down>>
    BY <1>0, <1>1, <1>2, GoesOn DEF Mild, Stays
  <1>3. CASE Throws(g) /\ call[g].pc = "presenting"
    BY <1>0, <1>1, <1>3, ThrowsControl DEF Live
  <1>4. CASE /\ call[g].pc = "presenting" /\ UNCHANGED <<pending, down>>
             /\ call' = [call EXCEPT ![g].pc = IF @ = "presenting" /\ call[g].starts THEN "acting" ELSE "waiting",
                                     ![g].action = IF call[g].starts THEN "running" ELSE @]
    <2> DEFINE pc == IF call[g].starts THEN "acting" ELSE "waiting"
               action == IF call[g].starts THEN "running" ELSE call[g].action
    <2>1. Moves(g, pc, action) /\ pc \in {"acting", "waiting"}
      BY <1>0, <1>4 DEF Moves, TypeOK, CallRecord
    <2> HIDE DEF pc, action, g
    <2>2. /\ \A h \in Handoffs : Mild(call[h], call'[h]) /\ call'[h].outcome = call[h].outcome
          /\ \A h \in Handoffs : h # g => call'[h] = call[h]
          /\ call'[g].pc = pc
      BY <1>0, <1>4, <2>1, PhaseMild
    <2>3. \A h \in Handoffs : Stays(call[h], call'[h])
      BY <2>1, <2>2 DEF Stays
    <2> QED
      BY <1>0, <1>1, <1>4, <2>2, <2>3, GoesOn
  <1> QED
    BY <1>2, <1>3, <1>4 DEF Presented

(* The awaits of an action, one after the other. *)
LEMMA ActionControl ==
  ASSUME ControlPre, ~ Due' => ~ Due, NEW g \in Handoffs,
         \/ \E how \in {"done", "failed"} : ActionSettles(g, how)
         \/ ActionFails(g) \/ ActionDone(g) \/ OutcomeFirst(g) \/ Continues(g)
  PROVE  ControlInv'
  <1>0. TypeOK /\ ControlInv
    BY DEF ControlPre
  <1>1. CASE ActionFails(g)
    BY <1>1, ThrowsControl DEF ActionFails, Live
  <1>2. ASSUME NEW pc, NEW action, Moves(g, pc, action), call[g].pc \notin {"none", "ended"},
               \/ pc = call[g].pc \/ pc \in {"waiting", "settling", "cutting"}
               \/ call[g].pc = "context" /\ pc = "ended",
               UNCHANGED <<tab, pending, run, down, page>>
        PROVE  ControlInv'
    <2>1. pc = "context" => call[g].outcome = "resolved"
      BY <1>2 DEF ControlPre, ControlInv, Fit
    <2>2. /\ \A h \in Handoffs : Mild(call[h], call'[h]) /\ call'[h].outcome = call[h].outcome
          /\ \A h \in Handoffs : h # g => call'[h] = call[h]
          /\ call'[g].pc = pc
      BY <1>0, <1>2, <2>1, PhaseMild
    <2>3. \A h \in Handoffs : Stays(call[h], call'[h])
      BY <1>2, <2>2 DEF Stays
    <2> QED
      BY <1>0, <1>2, <2>2, <2>3, GoesOn
  <1>3. ASSUME NEW how \in {"done", "failed"}, ActionSettles(g, how)
        PROVE  ControlInv'
    <2>1. Moves(g, call[g].pc, how)
      BY <1>0, <1>3 DEF ActionSettles, Moves, TypeOK, CallRecord
    <2>2. CASE call[g].pc \notin {"none", "ended"}
      BY <1>2, <1>3, <2>1, <2>2 DEF ActionSettles
    <2>3. CASE call[g].pc \in {"none", "ended"}
      <3> DEFINE q == [call[g] EXCEPT !.action = how]
      <3>1. call' = [call EXCEPT ![g] = q] /\ call[g] \in CallRecord
        BY <1>0, <1>3 DEF ActionSettles, TypeOK
      <3>2. q.pc = call[g].pc /\ q.session = call[g].session /\ q.target = call[g].target
            /\ q.crowded = call[g].crowded /\ q.outcome = call[g].outcome
        BY <3>1 DEF CallRecord
      <3> HIDE DEF q
      <3>3. \A h \in Handoffs : /\ Mild(call[h], call'[h]) /\ Stays(call[h], call'[h])
                                /\ call'[h].outcome = call[h].outcome
        BY <1>0, <2>3, <3>1, <3>2 DEF Mild, Stays, TypeOK
      <3> QED
        BY <1>0, <1>3, <3>3, GoesOn DEF ActionSettles
    <2> QED
      BY <2>2, <2>3
  <1>4. CASE ActionDone(g)
    <2>1. Moves(g, "waiting", call[g].action)
      BY <1>0, <1>4, PhaseIsMove DEF ActionDone
    <2> QED
      BY <1>2, <1>4, <2>1 DEF ActionDone
  <1>5. CASE OutcomeFirst(g)
    <2>1. Moves(g, AfterOutcome(g), call[g].action) /\ AfterOutcome(g) \in {"settling", "cutting"}
      BY <1>0, <1>5, PhaseIsMove DEF OutcomeFirst, AfterOutcome
    <2> QED
      BY <1>2, <1>5, <2>1 DEF OutcomeFirst
  <1>6. CASE Continues(g)
    <2>1. Moves(g, "ended", call[g].action)
      BY <1>0, <1>6, PhaseIsMove DEF Continues
    <2> QED
      BY <1>2, <1>6, <2>1 DEF Continues
  <1> QED
    BY <1>1, <1>3, <1>4, <1>5, <1>6

(* An action that did not settle in time has the connection of its session cut. *)
LEMMA CutControl ==
  ASSUME ControlPre, ~ Due' => ~ Due, NEW g \in Handoffs, CutConnection(g)
  PROVE  ControlInv'
  <1>1. ASSUME NEW h \in Handoffs
        PROVE  /\ Mild(call[h], call'[h]) /\ Stays(call[h], call'[h])
               /\ call'[h].outcome = call[h].outcome
    <2> DEFINE c == IF call[h].session = call[g].session /\ Live(call, h)
                    THEN [call[h] EXCEPT !.connection = "cut"] ELSE call[h]
               q == [c EXCEPT !.pc = "returning"]
    <2>1. call[h] \in CallRecord
      BY DEF ControlPre, TypeOK
    <2>2. c \in CallRecord /\ c.pc = call[h].pc /\ c.session = call[h].session /\ c.target = call[h].target
          /\ c.crowded = call[h].crowded /\ c.outcome = call[h].outcome
      BY <2>1 DEF CallRecord
    <2>3. call'[h] = IF h = g THEN q ELSE c
      BY DEF CutConnection
    <2> HIDE DEF c
    <2>4. q.pc = "returning" /\ q.session = c.session /\ q.target = c.target /\ q.crowded = c.crowded
          /\ q.outcome = c.outcome
      BY <2>2 DEF CallRecord
    <2> HIDE DEF q
    <2>5. call[g].pc = "cutting"
      BY DEF CutConnection
    <2> QED
      BY <2>2, <2>3, <2>4, <2>5 DEF Mild, Stays
  <1> QED
    BY <1>1, GoesOn DEF ControlPre, CutConnection

(* A handoff that returns is not pending any more.                            *)
LEMMA ReturnControl ==
  ASSUME ControlPre, ~ Due' => ~ Due, NEW g \in Handoffs, Return(g)
  PROVE  ControlInv'
  <1> DEFINE pc == IF call[g].outcome = "resolved" THEN "context" ELSE "ended"
  <1>0. TypeOK /\ ControlInv /\ Fit(call, pending, run, tab.target) /\ call[g].outcome # "none"
        /\ tab' = tab /\ pending' = pending /\ run' = run /\ page' = page
        /\ call[g].pc \notin {"none", "ended"}
    BY DEF ControlPre, ControlInv, Return
  <1>1. Moves(g, pc, call[g].action) /\ (pc = "context" => call[g].outcome = "resolved")
    BY <1>0, PhaseIsMove DEF Return
  <1> HIDE DEF pc
  <1>2. /\ \A h \in Handoffs : Mild(call[h], call'[h]) /\ call'[h].outcome = call[h].outcome
        /\ \A h \in Handoffs : h # g => call'[h] = call[h]
    BY <1>0, <1>1, PhaseMild
  <1>3. \A s \in Session : pending[s] # NoOne =>
          pending[s] # g /\ Live(call', pending[s]) /\ call'[pending[s]].outcome = "none"
    BY <1>0, <1>2 DEF Fit, Live, TypeOK
  <1>4. /\ Fit(call', pending', run', tab'.target)
        /\ \A h \in PendingHere(pending') : h \in PendingHere(pending) /\ (~ call'[h].crowded => ~ call[h].crowded)
    BY <1>0, <1>2, <1>3, FitAfter
  <1>5. \A h \in PendingHere(pending') : call'[h].crowded
    <2>1. Live(call, g)
      BY <1>0 DEF Live
    <2>2. \A h \in PendingHere(pending') : call[h].crowded
      BY <1>0, <1>3, <2>1, CrowdedBeside
    <2> QED
      BY <1>2, <2>2 DEF Mild, PendingHere
  <1>6. CASE tab.target = 0 /\ UNCHANGED down
    <2>1. ShownInv'
      BY <1>0, <1>4, <1>6, KeptIsFinal, ShownKept
    <2> QED
      BY <1>4, <2>1 DEF ControlInv
  <1>7. CASE Sends(Activity(call[g].session))
    <2>1. Final' = Activity(call[g].session)
      BY <1>0, <1>7, StatusType, SentIsFinal DEF Sends
    <2> QED
      BY <1>4, <1>5, <2>1, PlainStatus, PlainIsRight, ShownSaid DEF ControlInv
  <1>8. ASSUME NEW sessions, NEW status \in Refreshed(tab.target, pending, sessions), Sends(status)
        PROVE  ControlInv'
    <2>1. status \in Status /\ Final' = status
      BY <1>0, <1>8, StatusType, SentIsFinal DEF Sends
    <2>2. Right(status, call', pending', tab'.target)
      BY <1>0, <1>4, RefreshedIsRight
    <2> QED
      BY <1>4, <2>1, <2>2, ShownSaid DEF ControlInv
  <1> QED
    BY <1>6, <1>7, <1>8 DEF Return, Attached

(* Removing one pending handoff keeps the others. *)
LEMMA WithoutIsPending ==
  ASSUME TypeOK, Fit(call, pending, run, tab.target), NEW g \in Handoffs, pending' = Without(pending, g),
         \A h \in Handoffs : call'[h].pc = call[h].pc,
         \A h \in Handoffs : h # g => call'[h] = call[h]
  PROVE  \A s \in Session : pending'[s] # NoOne =>
           pending'[s] = pending[s] /\ Live(call', pending[s]) /\ call'[pending[s]].outcome = "none"
  BY DEF Fit, Live, Without, TypeOK

(* The timer of a handoff fires. *)
LEMMA TimeoutControl ==
  ASSUME ControlPre, ~ Due' => ~ Due, NEW g \in Handoffs, Timeout(g)
  PROVE  ControlInv'
  <1>0. TypeOK /\ ControlInv /\ Fit(call, pending, run, tab.target)
        /\ tab' = tab /\ run' = run /\ page' = page /\ down' = down /\ pending' = Without(pending, g)
    BY DEF ControlPre, ControlInv, Timeout
  <1>1. \A h \in Handoffs : /\ Mild(call[h], call'[h]) /\ Stays(call[h], call'[h]) /\ call'[h].pc = call[h].pc
                            /\ h # g => call'[h] = call[h]
    BY <1>0, ResolvedMild DEF Timeout
  <1>2. \A s \in Session : pending'[s] # NoOne =>
          pending'[s] = pending[s] /\ Live(call', pending[s]) /\ call'[pending[s]].outcome = "none"
    BY <1>0, <1>1, WithoutIsPending
  <1>3. /\ Fit(call', pending', run', tab'.target)
        /\ \A h \in PendingHere(pending') : h \in PendingHere(pending) /\ (~ call'[h].crowded => ~ call[h].crowded)
    BY <1>0, <1>1, <1>2, FitAfter
  <1>4. ShownInv'
    BY <1>0, <1>1, <1>3, KeptIsFinal, ShownKept
  <1> QED
    BY <1>3, <1>4 DEF ControlInv

(* A click resolves the handoff it names, and the page gets what is left.        *)
LEMMA CompleteControl ==
  ASSUME ControlPre, ~ Due' => ~ Due, Complete
  PROVE  ControlInv'
  <1>0. TypeOK /\ ControlInv /\ Fit(call, pending, run, tab.target) /\ tab' = tab /\ run' = run /\ page' = page
    BY DEF ControlPre, ControlInv, Complete
  <1>1. CASE UNCHANGED <<pending, call, down>>
    BY <1>0, <1>1, GoesOn DEF Mild, Stays
  <1>2. ASSUME NEW g \in Handoffs, call' = Resolved(call, {g}, "resolved"), pending' = Without(pending, g),
               NEW status \in Refreshed(tab.target, pending', SessionOfTab), Sends(status)
        PROVE  ControlInv'
    <2>1. \A h \in Handoffs : /\ Mild(call[h], call'[h]) /\ call'[h].pc = call[h].pc
                              /\ h # g => call'[h] = call[h]
      BY <1>0, <1>2, ResolvedMild
    <2>2. \A s \in Session : pending'[s] # NoOne =>
            pending'[s] = pending[s] /\ Live(call', pending[s]) /\ call'[pending[s]].outcome = "none"
      BY <1>0, <1>2, <2>1, WithoutIsPending
    <2>3. Fit(call', pending', run', tab'.target)
      BY <1>0, <2>1, <2>2, FitAfter
    <2>4. status \in Status /\ Final' = status
      BY <1>0, <1>2, StatusType, SentIsFinal DEF Sends
    <2>5. Right(status, call', pending', tab'.target)
      BY <1>0, <1>2, <2>3, RefreshedIsRight
    <2> QED
      BY <2>3, <2>4, <2>5, ShownSaid DEF ControlInv
  <1> DEFINE k == Named(Head(up).handoff)
  <1>3. k # NoOne => k \in Handoffs
    BY DEF Named, OfTarget, PendingHere
  <1>4. \/ UNCHANGED <<pending, call, down>>
        \/ /\ k # NoOne /\ call' = Resolved(call, {k}, "resolved") /\ pending' = Without(pending, k)
           /\ \E status \in Refreshed(tab.target, pending', SessionOfTab) : Sends(status)
    BY DEF Complete
  <1> HIDE DEF k
  <1> QED
    BY <1>1, <1>2, <1>3, <1>4

-----------------------------------------------------------------------------
(* The page and the tab.                                                    *)
LEMMA AnswerControl ==
  ASSUME ControlPre, PageStatusRequested
  PROVE  ControlInv'
  <1>0. TypeOK /\ Fit(call, pending, run, tab.target)
        /\ call' = call /\ pending' = pending /\ run' = run /\ tab' = tab
    BY DEF ControlPre, ControlInv, PageStatusRequested
  <1>1. PICK status \in Refreshed(tab.target, pending, SessionOfTab) : Sends(status)
    BY DEF PageStatusRequested
  <1>2. status \in Status /\ Final' = status
    BY <1>0, <1>1, StatusType, SentIsFinal DEF Sends
  <1>3. Right(status, call', pending', tab'.target)
    BY <1>0, <1>1, RefreshedIsRight
  <1> QED
    BY <1>0, <1>2, <1>3, ShownSaid DEF ControlInv

(* Messages arrive, documents come and go.                                    *)
LEMMA PageControl ==
  ASSUME ControlPre, ~ Due' => ~ Due, Deliver \/ Click \/ Navigate \/ ScriptLoads \/ ToolbarClick \/ HandleToolbarClick
  PROVE  ControlInv'
  <1>0. TypeOK /\ ControlInv /\ Fit(call, pending, run, tab.target)
    BY DEF ControlPre, ControlInv
  <1>1. call' = call /\ pending' = pending /\ run' = run /\ tab'.target = tab.target
    <2>1. tab' = tab \/ HandleToolbarClick
      BY DEF Deliver, Click, Navigate, ScriptLoads, ToolbarClick
    <2>2. HandleToolbarClick => tab'.target = tab.target
      BY <1>0 DEF HandleToolbarClick, TypeOK
    <2> QED
      BY <2>1, <2>2 DEF Deliver, Click, Navigate, ScriptLoads, ToolbarClick, HandleToolbarClick
  <1>2. ~ Due' => Final' = Final
    <2>1. CASE Deliver
      <3>1. page'.live = page.live
        BY <1>0, <2>1 DEF Deliver, TypeOK, Page
      <3> QED
        BY <1>0, <2>1, <3>1, DeliveredIsFinal DEF Due
    <2>2. CASE Click
      <3>1. page'.shows = page.shows /\ down' = down
        BY <1>0, <2>2 DEF Click, TypeOK, Page
      <3> QED
        BY <3>1 DEF Final
    <2>3. CASE Navigate
      BY <1>0, <2>3 DEF Navigate, Due, TypeOK, Page
    <2>4. CASE ScriptLoads
      <3>1. page'.shows = page.shows /\ down' = down
        BY <1>0, <2>4 DEF ScriptLoads, TypeOK, Page
      <3> QED
        BY <3>1 DEF Final
    <2>5. CASE ToolbarClick \/ HandleToolbarClick
      BY <2>5, KeptIsFinal DEF ToolbarClick, HandleToolbarClick
    <2> QED
      BY <2>1, <2>2, <2>3, <2>4, <2>5
  <1>3. ShownInv'
    BY <1>0, <1>1, <1>2, ShownKept DEF Stays
  <1> QED
    BY <1>0, <1>1, <1>3 DEF ControlInv

(* A tab is attached: its page will ask. *)
LEMMA AttachControl ==
  ASSUME ControlPre, NEW toggling, ~ Attached, Attach(toggling), UNCHANGED run
  PROVE  ControlInv'
  <1>0. TypeOK /\ Fit(call, pending, run, tab.target) /\ call' = call /\ pending' = pending /\ run' = run /\ tab.target = 0
    BY DEF ControlPre, ControlInv, Attach, Attached
  <1>1. tab'.target # 0
    BY <1>0 DEF Attach, TypeOK
  <1>2. Fit(call', pending', run', tab'.target)
    BY <1>0 DEF Fit
  <1>3. PICK status \in Presentation(pending) : Sends(status)
    BY DEF Attach
  <1>4. status \in Status /\ Final' = status
    BY <1>0, <1>3, StatusType, SentIsFinal DEF Sends
  <1>5. Right(status, call', pending', tab'.target)
    BY <1>0, <1>1, <1>2, <1>3, PresentedIsRight
  <1> QED
    BY <1>2, <1>4, <1>5, ShownSaid DEF ControlInv

(* What is cancelled with its target is not pending any more.                   *)
LEMMA CancelledPending ==
  ASSUME TypeOK, Fit(call, pending, run, tab.target), CancelOfTarget(tab.target)
  PROVE  /\ \A h \in Handoffs : Mild(call[h], call'[h]) /\ Stays(call[h], call'[h])
         /\ \A s \in Session : pending'[s] # NoOne =>
              pending'[s] = pending[s] /\ Live(call', pending[s]) /\ call'[pending[s]].outcome = "none"
         /\ \A h \in PendingHere(pending') : h \in Handoffs /\ call'[h].crowded
  <1> DEFINE hs == OfTarget(tab.target)
  <1>1. /\ call' = Resolved(call, hs, "cancelled")
        /\ pending' = [s \in Session |-> IF pending[s] \in hs THEN NoOne ELSE pending[s]]
    BY DEF CancelOfTarget
  <1>2. \A h \in Handoffs : h \in hs <=> h \in PendingHere(pending) /\ call[h].target = tab.target
    BY DEF OfTarget, PendingHere
  <1> HIDE DEF hs
  <1>3. \A h \in Handoffs : /\ Mild(call[h], call'[h]) /\ Stays(call[h], call'[h]) /\ call'[h].pc = call[h].pc
                            /\ h \notin hs => call'[h] = call[h]
    BY <1>1, ResolvedMild
  <1>4. \A s \in Session : pending'[s] # NoOne =>
          /\ pending'[s] = pending[s] /\ pending[s] \notin hs /\ pending[s] \in Handoffs
          /\ Live(call', pending[s]) /\ call'[pending[s]].outcome = "none"
    BY <1>1, <1>3 DEF Fit, Live, TypeOK
  <1>5. \A h \in PendingHere(pending') : h \in Handoffs /\ h \in PendingHere(pending) /\ h \notin hs
    BY <1>4, HandoffAssumption DEF PendingHere
  <1>6. \A h \in PendingHere(pending') : call'[h].crowded
    BY <1>2, <1>3, <1>5 DEF Fit, Mild
  <1> QED
    BY <1>3, <1>4, <1>5, <1>6

(* A tab is detached: its handoffs are cancelled. *)
LEMMA DetachControl ==
  ASSUME ControlPre, NEW toggling, Detach(toggling), UNCHANGED run
  PROVE  ControlInv'
  <1>0. TypeOK /\ Fit(call, pending, run, tab.target) /\ run' = run
    BY DEF ControlPre, ControlInv
  <1>1. /\ \A h \in Handoffs : Mild(call[h], call'[h]) /\ Stays(call[h], call'[h])
        /\ \A s \in Session : pending'[s] # NoOne =>
             pending'[s] = pending[s] /\ Live(call', pending[s]) /\ call'[pending[s]].outcome = "none"
        /\ \A h \in PendingHere(pending') : h \in Handoffs /\ call'[h].crowded
    BY <1>0, CancelledPending DEF Detach
  <1>2. Fit(call', pending', run', tab'.target)
    BY <1>0, <1>1, FitAfter
  <1>3. Final' = Cleared
    BY <1>0, StatusType, SentIsFinal DEF Detach, Sends
  <1> QED
    BY <1>1, <1>2, <1>3, PlainStatus, PlainIsRight, ShownSaid DEF ControlInv

(* The renderer of the tab crashes: the handoffs of its target are cancelled. *)
LEMMA CrashControl ==
  ASSUME ControlPre, ~ Due' => ~ Due, Crash
  PROVE  ControlInv'
  <1>0. TypeOK /\ ControlInv /\ Fit(call, pending, run, tab.target) /\ run' = run /\ tab' = tab
    BY DEF ControlPre, ControlInv, Crash
  <1>1. /\ \A h \in Handoffs : Mild(call[h], call'[h]) /\ Stays(call[h], call'[h])
        /\ \A s \in Session : pending'[s] # NoOne =>
             pending'[s] = pending[s] /\ Live(call', pending[s]) /\ call'[pending[s]].outcome = "none"
    BY <1>0, CancelledPending DEF Crash
  <1>2. /\ Fit(call', pending', run', tab'.target)
        /\ \A h \in PendingHere(pending') : h \in PendingHere(pending) /\ (~ call'[h].crowded => ~ call[h].crowded)
    BY <1>0, <1>1, FitAfter
  <1>3. ShownInv'
    BY <1>0, <1>1, <1>2, KeptIsFinal, ShownKept DEF Crash
  <1> QED
    BY <1>2, <1>3 DEF ControlInv

(* The target is adopted, or an adoption of it ends. *)
LEMMA OwnControl ==
  ASSUME ControlPre, NEW s \in Session \cup {NoOne}, Own(s)
  PROVE  ControlInv'
  <1>0. TypeOK /\ Fit(call, pending, run, tab.target) /\ call' = call /\ pending' = pending /\ run' = run
    BY DEF ControlPre, ControlInv, Own
  <1>1. tab'.target = tab.target
    BY <1>0 DEF Own, TypeOK
  <1>2. PICK status \in Refreshed(tab.target, pending, IF s # NoOne THEN {s} ELSE active) : Sends(status)
    BY DEF Own
  <1>3. status \in Status /\ Final' = status
    BY <1>0, <1>2, StatusType, SentIsFinal DEF Sends
  <1>4. Right(status, call', pending', tab'.target)
    BY <1>0, <1>1, <1>2, RefreshedIsRight
  <1> QED
    BY <1>0, <1>1, <1>3, <1>4, ShownSaid DEF ControlInv

(* A handoff that has the tab for itself is bound to the new target with it.     *)
LEMMA ReplaceControl ==
  ASSUME ControlPre, Replace
  PROVE  ControlInv'
  <1>0. TypeOK /\ Fit(call, pending, run, tab.target) /\ pending' = pending /\ run' = run
        /\ \A h \in Handoffs : call[h] \in CallRecord
    BY DEF ControlPre, ControlInv, Replace, TypeOK
  <1>1. tab'.target # 0 /\ tab.target # 0
    BY <1>0 DEF Replace, TypeOK, Attached
  <1>2. \A h \in PendingHere(pending) : h \in Handoffs /\ h # NoOne /\ Live(call, h)
    BY <1>0, HandoffAssumption DEF Fit, PendingHere
  <1> DEFINE bound == {h \in PendingHere(pending) : Rebound(h)}
  <1>3. /\ \A h \in Handoffs : /\ call'[h].pc = call[h].pc /\ call'[h].session = call[h].session
                               /\ call'[h].outcome = call[h].outcome /\ call'[h].crowded = call[h].crowded
        /\ bound # {} => \E g \in bound : call'[g].target = tab'.target
    <2>1. CASE bound = {}
      BY <2>1 DEF Replace
    <2>2. ASSUME NEW g \in bound, call' = [call EXCEPT ![g].target = tab'.target]
          PROVE  <1>3!:
      <3> DEFINE new == tab'.target
                 q == [call[g] EXCEPT !.target = new]
      <3>1. g \in Handoffs /\ call' = [call EXCEPT ![g] = q]
        BY <1>2, <2>2
      <3>2. q.target = new /\ q.pc = call[g].pc /\ q.session = call[g].session /\ q.outcome = call[g].outcome
            /\ q.crowded = call[g].crowded
        BY <1>0, <3>1 DEF CallRecord
      <3> HIDE DEF q, new, bound
      <3>3. call'[g].target = new
        BY <1>0, <3>1, <3>2 DEF TypeOK
      <3>4. \A h \in Handoffs : /\ call'[h].pc = call[h].pc /\ call'[h].session = call[h].session
                                /\ call'[h].outcome = call[h].outcome /\ call'[h].crowded = call[h].crowded
        BY <1>0, <3>1, <3>2 DEF TypeOK
      <3> QED
        BY <2>2, <3>3, <3>4 DEF new
    <2> QED
      BY <2>1, <2>2 DEF Replace
  <1>4. \A h \in PendingHere(pending) : ~ call[h].crowded => call'[h].target = tab'.target
    <2> SUFFICES ASSUME NEW h \in PendingHere(pending), ~ call[h].crowded
                 PROVE  call'[h].target = tab'.target
      OBVIOUS
    <2>1. h \in bound
      BY <1>0 DEF Fit, Rebound
    <2>2. \A g \in PendingHere(pending) : g = h
      BY <1>0, <1>2 DEF Fit
    <2> QED
      BY <1>3, <2>1, <2>2
  <1> HIDE DEF bound
  <1>5. Fit(call', pending', run', tab'.target)
    <2>1. \A s \in Session : pending'[s] # NoOne =>
            Live(call', pending'[s]) /\ call'[pending'[s]].session = s /\ call'[pending'[s]].outcome = "none"
      BY <1>0, <1>3 DEF Fit, Live, TypeOK
    <2>2. \A h \in Handoffs : call'[h].pc = "context" => call'[h].outcome = "resolved"
      BY <1>0, <1>3 DEF Fit
    <2>3. \A h \in Handoffs : Live(call', h) /\ ~ call'[h].crowded =>
            /\ \A g \in Handoffs \ {h} : ~ Live(call', g)
            /\ \A s \in Session : run'[s] = "running" => s = call'[h].session
      BY <1>0, <1>3 DEF Fit, Live
    <2>4. \A h \in PendingHere(pending') : ~ call'[h].crowded => tab'.target # 0 /\ call'[h].target = tab'.target
      BY <1>0, <1>1, <1>2, <1>3, <1>4
    <2> QED
      BY <2>1, <2>2, <2>3, <2>4 DEF Fit
  <1>6. PICK status \in Presentation(pending) : Sends(status)
    BY DEF Replace
  <1>7. status \in Status /\ Final' = status
    BY <1>0, <1>6, StatusType, SentIsFinal DEF Sends
  <1>8. Right(status, call', pending', tab'.target)
    BY <1>0, <1>1, <1>5, <1>6, PresentedIsRight
  <1> QED
    BY <1>5, <1>7, <1>8, ShownSaid DEF ControlInv

(* The switch of the extension. *)
LEMMA ToggleControl ==
  ASSUME ControlPre, ~ Due' => ~ Due, ToggleTab
  PROVE  ControlInv'
  <1>1. CASE tab.toggling = "detach" /\ Attached /\ Detach("no")
    BY <1>1, DetachControl DEF ToggleTab
  <1>2. CASE tab.toggling = "attach" /\ ~ Attached /\ tab.targets < MaxTargets /\ Attach("no")
    BY <1>2, AttachControl DEF ToggleTab
  <1>3. CASE tab' = [tab EXCEPT !.toggling = "no"] /\ UNCHANGED <<pending, active, call, down>>
    <2>1. TypeOK /\ ControlInv /\ Fit(call, pending, run, tab.target)
      BY DEF ControlPre, ControlInv
    <2>2. call' = call /\ pending' = pending /\ run' = run /\ tab'.target = tab.target
      BY <1>3, <2>1 DEF ToggleTab, TypeOK
    <2>3. ShownInv'
      BY <1>3, <2>1, <2>2, KeptIsFinal, ShownKept DEF ToggleTab, Stays
    <2> QED
      BY <2>1, <2>2, <2>3 DEF ControlInv
  <1> QED
    BY <1>1, <1>2, <1>3 DEF ToggleTab

(* Every step keeps the invariant: one lemma per action. *)
LEMMA ControlNext ==
  ASSUME ControlPre, [Next]_vars
  PROVE  ControlInv'
  <1>0. TypeOK /\ (~ PageStatusRequested => (~ Due' => ~ Due))
    BY DueStays DEF ControlPre
  <1>1. CASE PageStatusRequested
    BY <1>1, AnswerControl
  <1>2. CASE ~ PageStatusRequested
    <2>0. ~ Due' => ~ Due
      BY <1>0, <1>2
    <2>1. ASSUME NEW s \in Session, Begin(s) \/ End(s) PROVE ControlInv'
      BY <2>0, <2>1, BeginControl, EndControl
    <2>2. ASSUME NEW h \in Handoffs, NEW s \in Session, NEW starts \in BOOLEAN, Request(h, s, starts) PROVE ControlInv'
      BY <2>2, RequestControl
    <2>3. ASSUME NEW h \in Handoffs, Proceed(h) \/ Timeout(h) PROVE ControlInv'
      BY <2>0, <2>3, ActionControl, CutControl, ReturnControl, TimeoutControl DEF Proceed
    <2>4. ASSUME NEW h \in Handoffs, NEW how \in {"done", "failed"}, ActionSettles(h, how) PROVE ControlInv'
      BY <2>0, <2>4, ActionControl
    <2>5. CASE Presented \/ Complete
      BY <2>0, <2>5, PresentedControl, CompleteControl
    <2>6. CASE HandleToolbarClick \/ Deliver \/ Click \/ Navigate \/ ScriptLoads \/ ToolbarClick
      BY <2>0, <2>6, PageControl
    <2>7. CASE UserAttaches \/ UserDetaches
      BY <2>7, AttachControl, DetachControl DEF UserAttaches, UserDetaches
    <2>8. CASE Replace \/ Crash \/ ToggleTab \/ \E s \in Session \cup {NoOne} : Own(s)
      BY <2>0, <2>8, ReplaceControl, CrashControl, ToggleControl, OwnControl
    <2>9. CASE UNCHANGED vars
      <3>1. UNCHANGED <<tab, pending, call, run, down, page>>
        BY <2>9 DEF vars
      <3> QED
        BY <2>0, <3>1, GoesOn DEF ControlPre, Mild, Stays
    <2> QED
      BY <1>2, <2>1, <2>2, <2>3, <2>4, <2>5, <2>6, <2>7, <2>8, <2>9 DEF Next, Receive
  <1> QED
    BY <1>1, <1>2

(* It holds at first. *)
LEMMA ControlInit == Init => ControlInv
  <1> SUFFICES ASSUME Init PROVE ControlInv
    OBVIOUS
  <1>1. \A h \in Handoffs : call[h].pc = "none"
    BY DEF Init, NoCall
  <1>2. PendingHere(pending) = {}
    BY HandoffAssumption DEF Init, PendingHere
  <1>3. Fit(call, pending, run, tab.target)
    BY <1>1, <1>2 DEF Init, Fit, Live
  <1>4. Final.state # "waiting"
    BY PlainStatus DEF Init, Final
  <1> QED
    BY <1>2, <1>3, <1>4 DEF ControlInv, ShownInv, Right

(* When nothing is under way, the page shows the control of the handoff that has   *)
(* the tab for itself, bound to the target of the tab, and no control of a handoff  *)
(* that has ended (requestHandoff and the page status of relay.ts).               *)
THEOREM ControlsAreShown == Spec => []ControlIsShown
  <1>1. HandoffInv /\ ControlInv /\ [Next]_vars => HandoffInv' /\ ControlInv'
    BY TypeNext, CallInvNext, ClickInvNext, ControlNext DEF HandoffInv, ControlPre
  <1>2. HandoffInv /\ ControlInv => ControlIsShown
    <2> SUFFICES ASSUME HandoffInv, ControlInv, Quiet PROVE
            /\ \A h \in PendingHere(pending) :
                 ~ call[h].crowded => page.shows = Shows("waiting", h) /\ call[h].target = tab.target
            /\ page.shows.state = "waiting" => Live(call, page.shows.handoff)
      BY DEF ControlIsShown
    <2>1. ~ Due /\ Final = page.shows
      BY DEF Quiet, Due, Final
    <2> QED
      BY <2>1 DEF ControlInv, Fit, ShownInv, Right
  <1> QED
    BY <1>1, <1>2, HandoffInvInit, ControlInit, PTL DEF Spec
=============================================================================
