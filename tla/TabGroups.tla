----------------------------- MODULE TabGroups -----------------------------
(***************************************************************************)
(* The visible BrowserRig group of a tab that a session owns                  *)
(* (scheduleTabGrouping of src/src/relay.ts, the grouping commands and the      *)
(* reconciliation pass of src/extension/src/background.ts, tab-groups.ts).       *)
(*                                                                         *)
(* One tab.  The relay keeps the latest intent and one command in flight; the    *)
(* extension runs the commands of the tab one at a time, each bound to the         *)
(* connection it came on, and after every handshake one pass takes the tabs it     *)
(* does not debug out of the group.  The user moves the tab at will.  The calls of  *)
(* Chrome that change groups succeed: the code calls ungrouping best effort.       *)
(***************************************************************************)
EXTENDS Naturals, Sequences

CONSTANTS MaxGenerations, MaxChoices   \* bounds: connections, choices of users and sessions

VARIABLES
  link,      \* the connection: its generation, whether it is up, whether the relay is ready
  target,    \* the relay: is the tab attached, has it an owner, is a detach in flight
             \* (and history: an older intent of the worker was waiting when active-tab attachment sent its own)
  worker,    \* the grouping worker: whether it waits for an answer, the intent it will send then
  down,      \* commands on their way to the extension
  jobs, job, \* the promise chain of the tab: waiting commands, the one that runs
  pass,      \* the reconciliation pass
  browser,   \* Chrome: the debugger of the tab, its group, a detach event on its way
  choices

vars == <<link, target, worker, down, jobs, job, pass, browser, choices>>

Idle == [pc |-> "idle", kind |-> "none", generation |-> 0, answers |-> "nobody"]
Up(generation) == link.up /\ generation = link.generation
NoWorker == [waiting |-> FALSE, pending |-> "none"]
Chosen == choices < MaxChoices /\ choices' = choices + 1

-----------------------------------------------------------------------------
(* The relay.                                                               *)
\* refreshTabGrouping: the intent is the ownership of the tab
Intent(t) == IF t.attached /\ t.owned THEN "group" ELSE "ungroup"

Sends(intent) == IF link.up THEN /\ worker' = [waiting |-> TRUE, pending |-> "none"]
                                /\ down' = Append(down, [kind |-> intent, answers |-> "worker"])
                 ELSE worker' = NoWorker /\ UNCHANGED down   \* an intent that cannot be sent is not kept

\* scheduleTabGrouping: behind a command in flight only the latest intent waits
Schedule(intent) == IF worker.waiting THEN worker' = [worker EXCEPT !.pending = intent] /\ UNCHANGED down
                    ELSE Sends(intent)

Continues == IF worker.pending # "none" THEN Sends(worker.pending) ELSE worker' = NoWorker /\ UNCHANGED down

\* the command times out, while the extension may still run it
GiveUp == /\ worker.waiting /\ Continues
          /\ UNCHANGED <<link, target, jobs, job, pass, browser, choices>>

Attach(active) ==
  /\ link.up /\ link.ready /\ ~ target.attached /\ Chosen
  /\ target' = [target EXCEPT !.attached = TRUE, !.overtaken = active /\ worker.pending # "none"]
  /\ browser' = [browser EXCEPT !.debugged = TRUE]
  /\ IF active   \* attachActiveUserTab sends the command of its generation itself
     THEN /\ down' = Append(down, [kind |-> Intent(target'), answers |-> "nobody"])
          /\ UNCHANGED worker
     ELSE Schedule(Intent(target'))
  /\ UNCHANGED <<link, jobs, job, pass>>

ChangeOwner == /\ target.attached /\ Chosen
               /\ target' = [target EXCEPT !.owned = ~ @, !.overtaken = FALSE]
               /\ Schedule(Intent(target'))
               /\ UNCHANGED <<link, jobs, job, pass, browser>>

Detached(t) == [t EXCEPT !.attached = FALSE, !.overtaken = FALSE]

\* toggleTab: the debugger first, then the state of the tab
Detach == /\ link.up /\ target.attached /\ ~ target.detaching /\ Chosen
          /\ target' = [target EXCEPT !.detaching = TRUE]
          /\ down' = Append(down, [kind |-> "detach", answers |-> "toggle"])
          /\ UNCHANGED <<link, worker, jobs, job, pass, browser>>

DetachGivesUp == /\ target.detaching /\ target' = [target EXCEPT !.detaching = FALSE]
                 /\ UNCHANGED <<link, worker, down, jobs, job, pass, browser, choices>>

DetachEvent == /\ link.up /\ browser.event
               /\ browser' = [browser EXCEPT !.event = FALSE]
               /\ target' = Detached(target) /\ Schedule("ungroup")
               /\ UNCHANGED <<link, jobs, job, pass, choices>>

-----------------------------------------------------------------------------
(* The connection.                                                          *)
\* clearLiveExtensionState, rejectPending
Disconnect == /\ link.up /\ link.generation < MaxGenerations
              /\ link' = [link EXCEPT !.up = FALSE, !.ready = FALSE]
              /\ target' = [Detached(target) EXCEPT !.detaching = FALSE]
              /\ worker' = NoWorker /\ down' = <<>>
              /\ browser' = [browser EXCEPT !.event = FALSE]
              /\ UNCHANGED <<jobs, job, pass, choices>>

NewPass(generation) == [pc |-> "query", generation |-> generation, attached |-> FALSE]
NoPass == [pc |-> "none", generation |-> 0, attached |-> FALSE]

\* the end of a pass: one that outlived its connection is repeated for the current one
NotRestarted == NoPass   \* variant
Restarted == IF link.up /\ pass.generation # link.generation THEN NewPass(link.generation) ELSE NoPass

\* startGroupReconciliation: one pass at a time
Connect == /\ ~ link.up
           /\ link' = [generation |-> link.generation + 1, up |-> TRUE, ready |-> FALSE]
           /\ pass' = IF pass.pc = "none" THEN NewPass(link.generation + 1) ELSE pass
           /\ UNCHANGED <<target, worker, down, jobs, job, browser, choices>>

\* the announced tab has been attached again, then the intent of every tab is refreshed
Ready == /\ link.up /\ ~ link.ready
         /\ link' = [link EXCEPT !.ready = TRUE]
         /\ target' = [target EXCEPT !.attached = browser.debugged]
         /\ IF browser.debugged THEN Schedule(Intent(target')) ELSE UNCHANGED <<worker, down>>
         /\ UNCHANGED <<jobs, job, pass, browser, choices>>

-----------------------------------------------------------------------------
(* The extension.                                                           *)
Queue(kind, generation, answers) ==
  Append(jobs, [pc |-> "get", kind |-> kind, generation |-> generation, answers |-> answers])

HandleCommand == /\ down # <<>> /\ down' = Tail(down)
                 /\ LET c == Head(down)
                        kind == IF c.kind = "group" THEN "group" ELSE "ungroup"
                    IN  /\ jobs' = Queue(kind, link.generation, c.answers)
                        /\ browser' = IF c.kind = "detach" THEN [browser EXCEPT !.debugged = FALSE] ELSE browser
                 /\ UNCHANGED <<link, target, worker, job, pass, choices>>

\* runTabGroupingCommand: the next command of the chain
Start == /\ job.pc = "idle" /\ jobs # <<>>
         /\ job' = Head(jobs) /\ jobs' = Tail(jobs)
         /\ UNCHANGED <<link, target, worker, down, pass, browser, choices>>

\* the end of a command: what waits for its answer on its connection goes on
Ends == /\ job' = Idle
        /\ pass' = IF job.answers = "pass" THEN Restarted ELSE pass
        /\ \/ /\ job.answers = "toggle" /\ Up(job.generation) /\ target.detaching
              /\ target' = [Detached(target) EXCEPT !.detaching = FALSE]
              /\ Schedule("ungroup")
           \/ /\ job.answers = "worker" /\ Up(job.generation)
              /\ Continues /\ UNCHANGED target
           \/ /\ ~ (job.answers \in {"toggle", "worker"} /\ Up(job.generation))
                 \/ (job.answers = "toggle" /\ ~ target.detaching)
              /\ UNCHANGED <<target, worker, down>>

Moves(group) == browser' = [browser EXCEPT !.group = group, !.moved = FALSE]
Stale(generation) == ~ Up(generation)

\* groupBrowserRigTab and finalizeBrowserRigGrouping: a new group has no title at first,
\* and one that went stale is undone
Group == /\ job.kind = "group" /\ job.pc \in {"get", "mutate", "finalize"}
         /\ \/ /\ job.pc = "get"
               /\ IF browser.group = "ours" \/ Stale(job.generation) THEN Ends
                  ELSE job' = [job EXCEPT !.pc = "mutate"] /\ UNCHANGED <<target, worker, down, pass>>
               /\ UNCHANGED browser
            \/ /\ job.pc = "mutate"
               /\ IF Stale(job.generation) THEN Ends /\ UNCHANGED browser
                  ELSE /\ job' = [job EXCEPT !.pc = "finalize"]
                       /\ \E group \in {"ours", "anonymous"} : Moves(group)
                       /\ UNCHANGED <<target, worker, down, pass>>
            \/ /\ job.pc = "finalize"
               /\ Ends /\ IF browser.moved THEN UNCHANGED browser
                          ELSE Moves(IF Stale(job.generation) THEN "none" ELSE "ours")
         /\ UNCHANGED <<link, jobs, choices>>

\* guardedUngroupBrowserRigTab: only a group of ours, and for a pass only a tab not debugged
Ungroup == /\ job.kind \in {"ungroup", "reconcile"} /\ job.pc \in {"get", "mutate"}
           /\ \/ /\ job.pc = "get"
                 /\ IF Stale(job.generation) \/ browser.group # "ours"
                       \/ (job.kind = "reconcile" /\ browser.debugged)
                    THEN Ends
                    ELSE job' = [job EXCEPT !.pc = "mutate"] /\ UNCHANGED <<target, worker, down, pass>>
                 /\ UNCHANGED browser
              \/ /\ job.pc = "mutate"
                 /\ Ends /\ IF Stale(job.generation) THEN UNCHANGED browser ELSE Moves("none")
           /\ UNCHANGED <<link, jobs, choices>>

-----------------------------------------------------------------------------
(* reconcileBrowserRigGroups.                                               *)
Query == /\ pass.pc = "query"
         /\ pass' = IF Stale(pass.generation) THEN Restarted
                    ELSE [pass EXCEPT !.pc = "visit", !.attached = browser.debugged]
         /\ UNCHANGED <<link, target, worker, down, jobs, job, browser, choices>>

Visit == /\ pass.pc = "visit"
         /\ IF Stale(pass.generation) \/ browser.group # "ours" \/ pass.attached
            THEN pass' = Restarted /\ UNCHANGED jobs
            ELSE /\ pass' = [pass EXCEPT !.pc = "waits"]
                 /\ jobs' = Queue("reconcile", pass.generation, "pass")
         /\ UNCHANGED <<link, target, worker, down, job, browser, choices>>

-----------------------------------------------------------------------------
(* The user.                                                                *)
MoveTab == /\ Chosen
           /\ \E group \in {"none", "users"} \ {browser.group} :
                browser' = [browser EXCEPT !.group = group, !.moved = TRUE]
           /\ UNCHANGED <<link, target, worker, down, jobs, job, pass>>

DismissDebugger == /\ browser.debugged /\ Chosen
                   /\ browser' = [browser EXCEPT !.debugged = FALSE, !.event = link.up]
                   /\ UNCHANGED <<link, target, worker, down, jobs, job, pass>>

Init == /\ link = [generation |-> 0, up |-> FALSE, ready |-> FALSE]
        /\ target = [attached |-> FALSE, owned |-> FALSE, detaching |-> FALSE, overtaken |-> FALSE]
        /\ worker = NoWorker
        /\ down = <<>> /\ jobs = <<>> /\ job = Idle /\ pass = NoPass
        /\ \E group \in {"none", "users"} :
             browser = [debugged |-> FALSE, group |-> group, event |-> FALSE, moved |-> FALSE]
        /\ choices = 0

Next == \/ GiveUp \/ Attach(TRUE) \/ Attach(FALSE) \/ ChangeOwner \/ Detach \/ DetachGivesUp
        \/ DetachEvent \/ Disconnect \/ Connect \/ Ready
        \/ HandleCommand \/ Start \/ Group \/ Ungroup \/ Query \/ Visit \/ MoveTab \/ DismissDebugger

Spec == Init /\ [][Next]_vars

Quiet == /\ link.up /\ link.ready /\ worker = NoWorker
         /\ down = <<>> /\ jobs = <<>> /\ job.pc = "idle" /\ pass.pc = "none"
         /\ ~ target.detaching /\ ~ browser.event

\* When the connection is settled and nothing is under way, a tab that nobody attaches is in
\* no group that BrowserRig made, whatever commands were overtaken, timed out or outlived
\* their connection; and a tab that a session owns is in the group, unless the user has moved it or
\* an older intent was still waiting when active-tab attachment sent its own command.
GroupFollowsOwnership ==
  Quiet =>
    /\ ~ target.attached /\ ~ browser.debugged => browser.group \notin {"ours", "anonymous"}
    /\ target.attached /\ browser.debugged /\ target.owned /\ ~ browser.moved /\ ~ target.overtaken
         => browser.group = "ours"
-----------------------------------------------------------------------------
(* Why GroupFollowsOwnership is always true: the states that the steps above can reach.       *)

JobRecord == [pc : {"idle", "get", "mutate", "finalize"}, kind : {"none", "group", "ungroup", "reconcile"},
              generation : Nat, answers : {"nobody", "worker", "toggle", "pass"}]
Message == [kind : {"group", "ungroup", "detach"}, answers : {"nobody", "worker", "toggle"}]

TypeOK ==
  /\ link \in [generation : Nat, up : BOOLEAN, ready : BOOLEAN]
  /\ target \in [attached : BOOLEAN, owned : BOOLEAN, detaching : BOOLEAN, overtaken : BOOLEAN]
  /\ worker \in [waiting : BOOLEAN, pending : {"none", "group", "ungroup"}]
  /\ down \in Seq(Message) /\ jobs \in Seq(JobRecord) /\ job \in JobRecord
  /\ pass \in [pc : {"none", "query", "visit", "waits"}, generation : Nat, attached : BOOLEAN]
  /\ browser \in [debugged : BOOLEAN, group : {"none", "users", "ours", "anonymous"}, event : BOOLEAN,
                  moved : BOOLEAN]

\* Without a connection the relay has no tab and nothing is under way to the extension.
LinkOK ==
  /\ target.attached => link.up /\ link.ready
  /\ ~ link.up => worker = NoWorker /\ down = <<>>
  /\ link.up => link.generation > 0

\* Jobs and passes are of this connection or an earlier one; a group has no title only while its
\* command is about to give it one; a group of ours is one that the user has not moved the tab from.
JobsOK ==
  /\ \A i \in DOMAIN jobs : jobs[i].pc = "get" /\ jobs[i].kind # "none" /\ jobs[i].generation <= link.generation
  /\ (job.pc = "idle" <=> job.kind = "none") /\ (job.pc = "finalize" => job.kind = "group")
  /\ job.generation <= link.generation /\ pass.generation <= link.generation
  /\ browser.group = "anonymous" => job.pc = "finalize"
  /\ browser.group \in {"ours", "anonymous"} => ~ browser.moved

\* A command of a pass is the one that the pass waits for.
PassOK ==
  /\ \A i \in DOMAIN jobs :
       /\ jobs[i].kind = "reconcile" <=> jobs[i].answers = "pass"
       /\ jobs[i].kind = "reconcile" =>
            /\ pass.pc = "waits" /\ jobs[i].generation = pass.generation /\ job.kind # "reconcile"
            /\ \A k \in DOMAIN jobs : k # i => jobs[k].kind # "reconcile"
  /\ job.kind = "reconcile" <=> job.answers = "pass"
  /\ job.kind = "reconcile" => pass.pc = "waits" /\ job.generation = pass.generation

\* The last word of the relay to the extension is not `other`: it is `kind`, and that is still to be
\* carried out, or is shown.
Orders(j, kind) == j.kind = kind /\ j.generation = link.generation
Shown(kind) ==
  IF kind = "group"
  THEN /\ browser.group = "ours" \/ browser.moved
       /\ job.pc # "finalize" /\ ~ Orders(job, "ungroup") /\ ~ (Orders(job, "reconcile") /\ job.pc = "mutate")
  ELSE /\ browser.group \notin {"ours", "anonymous"} \/ job.pc = "finalize"
       /\ ~ Orders(job, "group")
InChain(kind, other) ==
  \/ \E i \in DOMAIN jobs : Orders(jobs[i], kind) /\ \A k \in DOMAIN jobs : k > i => ~ Orders(jobs[k], other)
  \/ (\A k \in DOMAIN jobs : ~ Orders(jobs[k], other)) /\ (Orders(job, kind) \/ Shown(kind))
LastWord(kind, other) ==
  /\ worker.pending # other
  /\ worker.pending = "none" /\ down # <<>> => down[Len(down)].kind # other
  /\ worker.pending = "none" /\ down = <<>> => InChain(kind, other)

\* Nothing has been said on this connection; a group left from an earlier one is known of.
PassWill == pass.pc # "none" /\ (pass.generation # link.generation \/ pass.pc # "visit" \/ ~ pass.attached)
Afresh ==
  /\ worker = NoWorker /\ down = <<>>
  /\ \A k \in DOMAIN jobs : jobs[k].kind = "reconcile" \/ jobs[k].generation # link.generation
  /\ job.kind = "reconcile" \/ job.generation # link.generation
  /\ browser.group = "ours" /\ job.pc # "finalize" => browser.debugged \/ browser.event \/ PassWill

AloneOK == link.up /\ ~ target.attached => LastWord("ungroup", "group") \/ Afresh
OwnedOK == target.attached /\ browser.debugged /\ target.owned /\ ~ target.overtaken => LastWord("group", "ungroup")

GroupsInv == TypeOK /\ LinkOK /\ JobsOK /\ PassOK /\ AloneOK /\ OwnedOK
=============================================================================
