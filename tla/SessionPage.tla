---------------------------- MODULE SessionPage ----------------------------
(***************************************************************************)
(* The sandbox of one session: its Playwright connection to the relay and  *)
(* the default page it keeps across operations (src/src/execute.ts).  One  *)
(* operation runs at a time, under the execute permit, and every await of  *)
(* it lets the browser and the relay act: a tab is closed, replaced,       *)
(* navigated or crashes, the connection drops, and the relay tells the     *)
(* sandbox so synchronously (markTarget...).                               *)
(***************************************************************************)
EXTENDS Naturals, FiniteSets

CONSTANTS Target,    \* CDP target ids; a fresh one is taken for each new document target
          UserTab,   \* some of them: the targets of tabs the user opened, attached from the start
          MaxConn,   \* bound: Playwright connections made
          MaxDoc,    \* bound: documents a tab loads
          MaxOp,     \* bound: operations run
          None

VARIABLES
  sandbox,   \* the ExecuteSandbox object: browser, page, default target, owner, flags
  tabs,      \* Chrome's tabs by target: state, who opened it, what it holds
  link,      \* the newest Playwright connection: number, alive, the targets it exposes
  op,        \* the running operation and its locals; its pc is the await it stands at
  pointer,   \* session.target of the session manager
  closing    \* targets with a page.close() of the sandbox in flight, with what it saw

vars == <<sandbox, tabs, link, op, pointer, closing>>

\* What an operation remembers across its awaits.
NoLocals == [page |-> None, target |-> None, owns |-> FALSE, disposable |-> FALSE,
             doc |-> 0, url |-> None, repaired |-> FALSE, pending |-> None, previous |-> None]
Idle == [pc |-> "idle", at |-> NoLocals, count |-> 0]

Fresh == [browser |-> 0, page |-> None, target |-> None, owns |-> FALSE, health |-> FALSE,
          crashed |-> FALSE, protectedUi |-> FALSE, pending |-> None, generation |-> 0]

Open(t) == tabs[t].state = "open"
BrowserConnected == sandbox.browser # 0 /\ sandbox.browser = link.conn /\ link.up
IsClosed(p) == ~ (p.conn = link.conn /\ link.up /\ p.target \in link.shown)
HasLivePage == sandbox.page # None /\ ~ IsClosed(sandbox.page)
PageOf(t) == [conn |-> link.conn, target |-> t]

\* A document that holds nothing of the user's: a crashed renderer, about:blank, chrome-error.
Disposable(t) == sandbox.crashed \/ tabs[t].content \in {"blank", "error"}

Go(pc) == op' = [op EXCEPT !.pc = pc]
GoWith(pc, locals) == op' = [op EXCEPT !.pc = pc, !.at = locals]
Finish == op' = [op EXCEPT !.pc = "idle", !.at = NoLocals]

\* notifyDefaultTargetChange: the manager follows the sandbox.
Notified(s) == IF s.target = None THEN None
               ELSE [id |-> s.target, owner |-> IF s.owns THEN "relay" ELSE "user"]
Forgotten(s) == [s EXCEPT !.page = None, !.target = None, !.owns = FALSE, !.pending = None]

Bound(s, page, t, owns) ==
  [s EXCEPT !.page = page, !.target = t, !.owns = owns,
            !.crashed = IF t = None \/ t # s.target THEN FALSE ELSE @,
            !.protectedUi = IF t = None \/ t # s.target THEN FALSE ELSE @]

(***************************************************************************)
(* Connecting.                                                             *)
(***************************************************************************)
NewLink == link' = [conn |-> link.conn + 1, up |-> TRUE, shown |-> {}]

\* connectContext: a new connection re-resolves the tab the sandbox remembers.
Reconnected ==
  [sandbox EXCEPT
     !.browser = link.conn + 1, !.page = None, !.health = FALSE,
     !.pending = IF sandbox.target # None
                    /\ (sandbox.pending = None \/ sandbox.pending.target # sandbox.target)
                 THEN [target |-> sandbox.target, repaired |-> FALSE] ELSE @]

Connect ==
  /\ op.pc = "connect"
  /\ \/ /\ BrowserConnected
        /\ Go("select") /\ UNCHANGED <<sandbox, link>>
     \/ /\ ~ BrowserConnected /\ link.conn < MaxConn
        /\ NewLink /\ sandbox' = Reconnected /\ Go("select")
     \/ /\ ~ BrowserConnected                     \* connectOverCDP rejects
        /\ Finish /\ UNCHANGED <<sandbox, link>>
  /\ UNCHANGED <<tabs, pointer, closing>>

(***************************************************************************)
(* getSessionPage, with the health check of the page it keeps.             *)
(***************************************************************************)
StartExecute ==
  /\ op.pc = "idle" /\ op.count < MaxOp
  /\ op' = [pc |-> "connect", at |-> NoLocals, count |-> op.count + 1]
  /\ UNCHANGED <<sandbox, tabs, link, pointer, closing>>

\* The locals checkSessionPage captures before its first await.
Checked(page, s, repaired) ==
  [NoLocals EXCEPT !.page = page, !.target = s.target, !.owns = s.owns,
                   !.disposable = Disposable(page.target), !.doc = s.generation,
                   !.url = tabs[page.target].content, !.repaired = repaired]

NeedsCheck == (sandbox.health /\ ~ sandbox.protectedUi) \/ tabs[sandbox.page.target].content = "error"

Select ==
  /\ op.pc = "select"
  /\ \/ /\ sandbox.pending # None
        /\ GoWith("await", [NoLocals EXCEPT !.pending = sandbox.pending])
        /\ UNCHANGED <<sandbox, pointer>>
     \/ /\ sandbox.pending = None /\ HasLivePage
        /\ IF NeedsCheck THEN GoWith("probe", Checked(sandbox.page, sandbox, FALSE))
                         ELSE GoWith("run", [NoLocals EXCEPT !.page = sandbox.page])
        /\ UNCHANGED <<sandbox, pointer>>
     \/ /\ sandbox.pending = None /\ sandbox.page # None /\ IsClosed(sandbox.page)
        /\ sandbox' = [sandbox EXCEPT !.target = None, !.owns = FALSE]
        /\ pointer' = None /\ Go("create")
     \/ /\ sandbox.pending = None /\ sandbox.page = None
        /\ Go("create") /\ UNCHANGED <<sandbox, pointer>>
  /\ UNCHANGED <<tabs, link, closing>>

AnyPending == TRUE   \* variant
StillPending == sandbox.pending = op.at.pending

\* waitForPageTarget answers: the page of the exact target, unless the target moved meanwhile.
PageFound ==
  /\ op.pc = "await" /\ link.up /\ op.at.pending.target \in link.shown
  /\ StillPending
  /\ LET t == op.at.pending.target
         s == [Bound(sandbox, PageOf(t), t, sandbox.owns) EXCEPT !.pending = None]
     IN IF op.at.pending.repaired
        THEN /\ sandbox' = [s EXCEPT !.health = TRUE]
             /\ GoWith("probe", Checked(PageOf(t), s, TRUE))
        ELSE /\ sandbox' = s
             /\ GoWith("run", [NoLocals EXCEPT !.page = PageOf(t)])
  /\ UNCHANGED <<tabs, link, pointer, closing>>

\* It times out, or the pending target is another one by now: the operation fails.
PageUnavailable ==
  /\ op.pc = "await" /\ Finish
  /\ UNCHANGED <<sandbox, tabs, link, pointer, closing>>

\* assertCurrent
StillCurrent ==
  sandbox.page = op.at.page /\ sandbox.target = op.at.target /\ sandbox.pending = None

ProbeAnswered ==
  /\ op.pc = "probe" /\ ~ IsClosed(op.at.page)
  /\ Open(op.at.page.target) /\ ~ tabs[op.at.page.target].crashed
  /\ IF StillCurrent
     THEN /\ sandbox' = [sandbox EXCEPT !.health = FALSE, !.crashed = FALSE]
          /\ GoWith("run", [NoLocals EXCEPT !.page = op.at.page])
     ELSE Finish /\ UNCHANGED sandbox
  /\ UNCHANGED <<tabs, link, pointer, closing>>

\* The probe fails and the page is kept: an adopted tab, or a live one already repaired.
KeepUnresponsive ==
  /\ op.pc = "probe" /\ (~ op.at.owns \/ (~ op.at.disposable /\ op.at.repaired))
  /\ Finish /\ UNCHANGED <<sandbox, tabs, link, pointer, closing>>

\* A live relay page is looked up again over a fresh connection (repairSessionPage).
Repair ==
  /\ op.pc = "probe" /\ op.at.owns /\ ~ op.at.disposable /\ ~ op.at.repaired
  /\ IF StillCurrent
     THEN /\ sandbox' = [sandbox EXCEPT
                !.browser = 0, !.page = None,
                !.pending = IF sandbox.target # None
                            THEN [target |-> sandbox.target, repaired |-> TRUE] ELSE None]
          /\ link' = [link EXCEPT !.up = FALSE, !.shown = {}]
          /\ GoWith("connect", NoLocals)
     ELSE Finish /\ UNCHANGED <<sandbox, link>>
  /\ UNCHANGED <<tabs, pointer, closing>>

\* A disposable relay page is closed, if it is still the page and document that was checked.
SendClose(t, why) ==
  closing' = closing \cup {[target |-> t, why |-> why, content |-> tabs[t].content,
                            crashed |-> tabs[t].crashed, mine |-> tabs[t].mine]}

SameUrl == tabs[op.at.page.target].content = op.at.url
SamePath == SameUrl \/ sandbox.generation # op.at.doc   \* variant
SameDocument == sandbox.generation = op.at.doc /\ SameUrl

CloseUnhealthy ==
  /\ op.pc = "probe" /\ op.at.owns /\ op.at.disposable
  /\ IF StillCurrent /\ SameDocument
     THEN /\ IF IsClosed(op.at.page) THEN UNCHANGED closing
             ELSE SendClose(op.at.page.target, "unhealthy")
          /\ Go("close")
     ELSE Finish /\ UNCHANGED closing
  /\ UNCHANGED <<sandbox, tabs, link, pointer>>

\* page.close() answered: the state is reset unless another target took its place.
TargetTaken ==
  \/ sandbox.pending # None
  \/ sandbox.target \notin {None, op.at.target}
  \/ sandbox.page \notin {None, op.at.page}

Recreate ==
  /\ op.pc = "close" /\ IsClosed(op.at.page)
  /\ IF TargetTaken
     THEN Finish /\ UNCHANGED <<sandbox, pointer>>
     ELSE /\ sandbox' = [Fresh EXCEPT !.browser = sandbox.browser, !.generation = sandbox.generation]
          /\ pointer' = None /\ GoWith("create", NoLocals)
  /\ UNCHANGED <<tabs, link, closing>>

CloseTimedOut ==
  /\ op.pc = "close" /\ Finish
  /\ UNCHANGED <<sandbox, tabs, link, pointer, closing>>

(***************************************************************************)
(* A new relay page.                                                       *)
(***************************************************************************)
NewTab(mine, content) ==
  [state |-> "open", mine |-> mine, content |-> content, crashed |-> FALSE, docs |-> 0]

NewPage ==
  /\ op.pc = "create"
  /\ \/ \E t \in Target :
          /\ tabs[t].state = "none" /\ BrowserConnected
          /\ tabs' = [tabs EXCEPT ![t] = NewTab(TRUE, "blank")]
          /\ link' = [link EXCEPT !.shown = @ \cup {t}]
          /\ GoWith("created", [NoLocals EXCEPT !.page = PageOf(t)])
     \/ Finish /\ UNCHANGED <<tabs, link>>        \* newPage rejects
  /\ UNCHANGED <<sandbox, pointer, closing>>

\* resolvePageTargetId answers, or fails or times out and leaves the page without a target id.
BindCreated ==
  /\ op.pc = "created"
  /\ \E id \in {None} \cup (IF IsClosed(op.at.page) THEN {} ELSE {op.at.page.target}) :
       LET s == Bound(sandbox, op.at.page, id, TRUE)
       IN  sandbox' = s /\ pointer' = Notified(s)
  /\ GoWith("run", [NoLocals EXCEPT !.page = op.at.page])
  /\ UNCHANGED <<tabs, link, closing>>

\* runUserCode: the script returns.
ScriptReturns == op.pc = "run" /\ Finish /\ UNCHANGED <<sandbox, tabs, link, pointer, closing>>

\* execute: a failure that names a lost execution context asks for a check, unless the page shows
\* an extension's protected UI, which looks the same to Playwright.
ScriptFails ==
  /\ op.pc = "run" /\ Finish
  /\ \E lost \in BOOLEAN :
       sandbox' = [sandbox EXCEPT !.health = @ \/ (lost /\ ~ sandbox.protectedUi)]
  /\ UNCHANGED <<tabs, link, pointer, closing>>

\* A handoff whose start fails drops the connection in the middle of the script (disconnectSettled).
CancelHandoff ==
  /\ op.pc = "run" /\ sandbox.browser # 0
  /\ sandbox' = [sandbox EXCEPT
        !.browser = 0, !.page = None, !.health = FALSE,
        !.pending = IF sandbox.target # None
                    THEN [target |-> sandbox.target, repaired |-> FALSE] ELSE @]
  /\ link' = [link EXCEPT !.up = FALSE, !.shown = {}]
  /\ UNCHANGED <<tabs, op, pointer, closing>>

(***************************************************************************)
(* Adoption of a user tab, with the manager's steps around adoptPage.      *)
(***************************************************************************)
StartAdopt(t) ==
  /\ op.pc = "idle" /\ op.count < MaxOp /\ Open(t) /\ ~ tabs[t].mine
  /\ op' = [pc |-> "adoptConnect", count |-> op.count + 1,
            at |-> [NoLocals EXCEPT !.target = t, !.previous = pointer]]
  /\ UNCHANGED <<sandbox, tabs, link, pointer, closing>>

AdoptConnect ==
  /\ op.pc = "adoptConnect"
  /\ \/ BrowserConnected /\ Go("adoptSelect") /\ UNCHANGED <<sandbox, link>>
     \/ /\ ~ BrowserConnected /\ link.conn < MaxConn
        /\ NewLink /\ Go("adoptSelect")
        /\ sandbox' = [Forgotten(sandbox) EXCEPT !.browser = link.conn + 1, !.health = FALSE]
     \/ ~ BrowserConnected /\ Go("adoptFailed") /\ UNCHANGED <<sandbox, link>>
  /\ UNCHANGED <<tabs, pointer, closing>>

\* bindDefaultPage(selected, target, false, false) and the flags reset after it.
Adopted(page, t) ==
  [Bound(sandbox, page, t, FALSE) EXCEPT !.health = FALSE, !.crashed = FALSE,
                                         !.protectedUi = FALSE, !.pending = None]

\* shouldCloseCurrentPageOnAdopt
ClosesCurrent(t) == HasLivePage /\ sandbox.owns /\ sandbox.page # PageOf(t)

AdoptSelect ==
  /\ op.pc = "adoptSelect"
  /\ LET t == op.at.target IN
     \/ /\ link.up /\ t \in link.shown /\ ClosesCurrent(t)
        /\ SendClose(sandbox.page.target, "adopted")
        /\ sandbox' = [sandbox EXCEPT !.page = None]
        /\ GoWith("adoptClose", [op.at EXCEPT !.page = PageOf(t), !.pending = sandbox.page])
     \/ /\ link.up /\ t \in link.shown /\ ~ ClosesCurrent(t)
        /\ sandbox' = Adopted(PageOf(t), t)
        /\ Go("adoptPoint") /\ UNCHANGED closing
     \/ Go("adoptFailed") /\ UNCHANGED <<sandbox, closing>>
  /\ UNCHANGED <<tabs, link, pointer>>

\* The previous page has closed, or its close failed: both are ignored.
AdoptBind ==
  /\ op.pc = "adoptClose"
  /\ sandbox' = Adopted(op.at.page, op.at.target)
  /\ Go("adoptPoint")
  /\ UNCHANGED <<tabs, link, pointer, closing>>

\* The manager closes the relay page the pointer named, then points at the adopted tab;
\* the ownership commit fails when the tab has gone meanwhile.
AdoptPoint ==
  /\ op.pc = "adoptPoint"
  /\ LET previous == IF pointer # None THEN pointer ELSE op.at.previous IN
     IF Open(op.at.target)
     THEN /\ IF previous # None /\ previous.owner = "relay" /\ Open(previous.id)
             THEN SendClose(previous.id, "previous") ELSE UNCHANGED closing
          /\ pointer' = [id |-> op.at.target, owner |-> "user"]
          /\ Finish
     ELSE Go("adoptFailed") /\ UNCHANGED <<pointer, closing>>
  /\ UNCHANGED <<sandbox, tabs, link>>

(***************************************************************************)
(* closeSettled: a reset, a delete or a failed adoption.  The manager puts *)
(* a fresh sandbox in the place of the closed one.                         *)
(***************************************************************************)
OwnsOpenPage == HasLivePage /\ sandbox.owns

CloseSandbox ==
  /\ IF OwnsOpenPage THEN SendClose(sandbox.page.target, "closed") ELSE UNCHANGED closing
  /\ sandbox' = Fresh /\ pointer' = None
  /\ link' = [link EXCEPT !.up = FALSE, !.shown = {}]

Close ==
  /\ op.pc = "idle" /\ op.count < MaxOp
  /\ CloseSandbox /\ op' = [op EXCEPT !.count = @ + 1] /\ UNCHANGED tabs

AdoptFails ==
  /\ op.pc = "adoptFailed"
  /\ CloseSandbox /\ Finish /\ UNCHANGED tabs

\* A relay restart: the sandbox is built from the catalog (restore).
Restart ==
  /\ op.pc = "idle" /\ op.count < MaxOp
  /\ op' = [op EXCEPT !.count = @ + 1]
  /\ link' = [link EXCEPT !.up = FALSE, !.shown = {}]
  /\ sandbox' = IF pointer = None THEN Fresh
                ELSE [Fresh EXCEPT !.target = pointer.id, !.owns = pointer.owner = "relay",
                                   !.pending = [target |-> pointer.id, repaired |-> FALSE]]
  /\ UNCHANGED <<tabs, pointer, closing>>

(***************************************************************************)
(* Chrome, Playwright's view of it, and what the relay reports.            *)
(***************************************************************************)
\* markTargetDetached, in the manager and in the sandbox.
Gone(t) == [tabs[t] EXCEPT !.state = "gone", !.crashed = FALSE, !.docs = 0]
Detached(t) ==
  /\ tabs' = [tabs EXCEPT ![t] = Gone(t)]
  /\ sandbox' = IF sandbox.target = t
                THEN [Forgotten(sandbox) EXCEPT !.health = FALSE, !.crashed = FALSE, !.protectedUi = FALSE]
                ELSE sandbox
  /\ pointer' = IF pointer # None /\ pointer.id = t THEN None ELSE pointer

CloseTab(t) ==
  /\ Open(t) /\ Detached(t) /\ UNCHANGED <<link, op, closing>>

PerformClose(c) ==
  /\ closing' = closing \ {c}
  /\ IF Open(c.target) THEN Detached(c.target) ELSE UNCHANGED <<sandbox, tabs, pointer>>
  /\ UNCHANGED <<link, op>>

\* Playwright learns of it afterwards; the close listener of the bound page runs.
PageClosed(t) ==
  /\ tabs[t].state = "gone" /\ t \in link.shown
  /\ link' = [link EXCEPT !.shown = @ \ {t}]
  /\ IF sandbox.page = PageOf(t) THEN sandbox' = Forgotten(sandbox) /\ pointer' = None
                          ELSE UNCHANGED <<sandbox, pointer>>
  /\ UNCHANGED <<tabs, op, closing>>

\* markTargetReplaced: the same tab shows its document under a new target.
ReplaceTarget(t, u) ==
  /\ Open(t) /\ tabs[u].state = "none"
  /\ tabs' = [tabs EXCEPT ![u] = tabs[t], ![t] = Gone(t)]
  /\ pointer' = IF pointer # None /\ pointer.id = t THEN [pointer EXCEPT !.id = u] ELSE pointer
  /\ sandbox' = IF sandbox.target = t
                THEN [sandbox EXCEPT !.page = None, !.target = u, !.health = FALSE, !.crashed = FALSE,
                                     !.protectedUi = FALSE,
                                     !.pending = [target |-> u, repaired |-> FALSE]]
                ELSE sandbox
  /\ UNCHANGED <<link, op, closing>>

\* markTargetCrashed
Crash(t) ==
  /\ Open(t) /\ ~ tabs[t].crashed
  /\ tabs' = [tabs EXCEPT ![t].crashed = TRUE]
  /\ sandbox' = IF sandbox.target = t THEN [sandbox EXCEPT !.health = TRUE, !.crashed = TRUE] ELSE sandbox
  /\ UNCHANGED <<link, op, pointer, closing>>

\* markTargetNavigated: the document is another one, and a renderer runs again.
Navigate(t, content) ==
  /\ Open(t) /\ tabs[t].docs < MaxDoc
  /\ tabs' = [tabs EXCEPT ![t].content = content, ![t].crashed = FALSE, ![t].docs = @ + 1]
  /\ sandbox' = IF pointer # None /\ pointer.id = t /\ sandbox.target = t
                THEN [sandbox EXCEPT !.generation = @ + 1, !.crashed = FALSE] ELSE sandbox
  /\ UNCHANGED <<link, op, pointer, closing>>

\* markTargetProtectedUi
ProtectedUi(t) ==
  /\ Open(t) /\ sandbox.target = t
  /\ sandbox' = [sandbox EXCEPT !.protectedUi = ~ @]
  /\ UNCHANGED <<tabs, link, op, pointer, closing>>

\* The relay announces an open tab to the newest connection.
Expose(t) ==
  /\ link.up /\ Open(t) /\ t \notin link.shown
  /\ link' = [link EXCEPT !.shown = @ \cup {t}]
  /\ UNCHANGED <<sandbox, tabs, op, pointer, closing>>

\* The connection drops.  Its pages are closed without their close event: the sandbox keeps its
\* default target and re-resolves it over the next connection (connectContext).
LinkDown ==
  /\ link.up
  /\ link' = [link EXCEPT !.up = FALSE, !.shown = {}]
  /\ UNCHANGED <<sandbox, tabs, op, pointer, closing>>

Init ==
  /\ sandbox = Fresh /\ pointer = None /\ closing = {} /\ op = Idle
  /\ tabs = [t \in Target |-> IF t \in UserTab THEN NewTab(FALSE, "live")
                              ELSE [NewTab(FALSE, "blank") EXCEPT !.state = "none"]]
  /\ link = [conn |-> 0, up |-> FALSE, shown |-> {}]

Operate ==
  \/ StartExecute \/ Connect \/ Select \/ PageFound \/ PageUnavailable \/ ProbeAnswered
  \/ KeepUnresponsive \/ Repair \/ CloseUnhealthy \/ Recreate \/ CloseTimedOut \/ NewPage
  \/ BindCreated \/ ScriptReturns \/ ScriptFails \/ CancelHandoff \/ (\E t \in Target : StartAdopt(t))
  \/ AdoptConnect \/ AdoptSelect \/ AdoptBind \/ AdoptPoint \/ AdoptFails \/ Close \/ Restart

Environment ==
  \/ (\E c \in closing : PerformClose(c)) \/ LinkDown
  \/ \E t \in Target :
        \/ CloseTab(t) \/ PageClosed(t) \/ Crash(t) \/ ProtectedUi(t) \/ Expose(t)
        \/ (\E u \in Target : ReplaceTarget(t, u))
        \/ (\E content \in {"live", "error"} : Navigate(t, content))

Next == Operate \/ Environment
Spec == Init /\ [][Next]_vars

(***************************************************************************)
(* Properties.                                                             *)
(***************************************************************************)

\* The sandbox closes only tabs it opened itself, and after a failed health check only one whose
\* document is gone at that moment: a page that reloads during its check is kept
\* (checkSessionPage, recoverSessionPage, closeSettled, shouldCloseCurrentPageOnAdopt).
OnlyDisposablePagesAreClosed ==
  \A c \in closing :
    /\ c.mine
    /\ c.why = "unhealthy" => c.crashed \/ c.content \in {"blank", "error"}

\* Between operations the session manager's pointer, which is what the catalog stores, names the
\* default target of the sandbox and its owner (notifyDefaultTargetChange).
PointerFollowsTheSandbox == op.pc = "idle" => pointer = Notified(sandbox)

\* No page is lost that matters to the user, and none is remembered that is not the session's
\* (isDisposableSessionPage, bindDefaultPage).
PageIsTheSessions == OnlyDisposablePagesAreClosed /\ PointerFollowsTheSandbox

\* A script is handed the page of the default target, the one the session manager points at, never
\* one that was replaced, detached or disconnected while the operation waited (getSessionPage).
StepHandsOutItsPage ==
  op.pc # "run" /\ op'.pc = "run" =>
    /\ sandbox'.page = op'.at.page /\ sandbox'.pending = None
    /\ sandbox'.target \in {None, sandbox'.page.target}
    /\ pointer' = Notified(sandbox')
ScriptsGetTheSessionPage == [][StepHandsOutItsPage]_vars
=============================================================================
