------------------------------- MODULE WebMcp -------------------------------
(***************************************************************************)
(* The tools a website declares, as an execute of a session uses them       *)
(* (src/src/webmcp.ts, the webmcp helpers of src/src/execute.ts and the      *)
(* transport of src/src/relay.ts): a WebMcpSession follows the tools of one   *)
(* root target through Chrome's events, hands out handles, invokes tools and   *)
(* waits for their results.                                                  *)
(*                                                                         *)
(* Events and command answers reach the session on one wire, in order.  What   *)
(* a command resolves runs later than its answer is delivered: further        *)
(* messages may be handled in between.  A frame declares at most one tool at a  *)
(* time; a registration number stands for the tool and its document.          *)
(* A tool that needs confirmation runs inside a handoff, whose end may leave    *)
(* the call behind (src/src/handoff.ts).                                     *)
(***************************************************************************)
EXTENDS Naturals, Sequences, FiniteSets, SequencesExt

CONSTANTS Frame, Main,     \* the frames of the page; Main is the root frame
          Parent,          \* the frame around each other frame
          Iframe,          \* the frame of another process, with a channel of its own
          Call,            \* the tool calls of an execute
          MaxTools,        \* registry limit (maxTools)
          MaxEarly,        \* limit of responses kept for calls without an id (maxEarlyResponses)
          MaxRegistrations, MaxEvents, MaxRuns   \* bounds: registrations, choices (page events, calls, cancellations), executes

Channel == {Main, Iframe}
ChannelOf(f) == IF f = Iframe THEN Iframe ELSE Main

VARIABLES
  page,     \* Chrome: the frames, the tools they declare, the channels attached and enabled, the invocations
  wire,     \* events and answers on their way to the session
  object,   \* the WebMcpSession of the sandbox
  call,     \* the calls of the current execute, and those an earlier one has left behind
  run,      \* the execute
  told,     \* what the last report told the caller
  events    \* choices so far

vars == <<page, wire, object, call, run, told, events>>

NoTool == [frame |-> Main, registration |-> 0]
NoCall == [pc |-> "idle", tool |-> NoTool, channel |-> Main, id |-> 0, cancelled |-> FALSE,
           cancellation |-> "none", result |-> {}, handoff |-> "none"]
NotStarted == [pc |-> "none", served |-> FALSE]
NewObject == [status |-> "unavailable", disposed |-> FALSE, channels |-> {}, tools |-> {},
              frames |-> {}, omitted |-> FALSE, changed |-> TRUE, early |-> {}, requested |-> FALSE,
              dropped |-> FALSE,     \* history: a response came when the limit was reached
              hasty |-> {},          \* history: registrations heard before the channel was disabled
              initialization |-> [ch \in Channel |-> NotStarted]]

Waiting == {"sent", "invoked", "answered", "pending"}
Rests(k) == k.pc \in {"idle", "ended"}
\* Its handoff has timed out or was cancelled, and with it the object of the call is disposed.
Abandoned(k) == k.handoff \in {"leaving", "left"}
\* issuingCalls, of the object there is now
Issues(k) == ~ Rests(k) /\ k.pc # "confirming" /\ ~ Abandoned(k)
Issuing == {c \in Call : Issues(call[c])}
Registered(o) == {t.registration : t \in o.tools}
Alive(ch) == page.alive /\ ch \in page.attached

-----------------------------------------------------------------------------
(* The inventory.                                                           *)
\* changed: the revision is not the one reported last
Changes(o) == [o EXCEPT !.changed = TRUE]
RemoveWhere(o, gone) == [o EXCEPT !.tools = @ \ gone, !.changed = @ \/ gone # {}]

\* A frame and, as far as the links among these frames show, those inside it.
Family(frames, f) ==
  {g \in Frame : \A S \in SUBSET Frame :
     f \in S /\ (\A h \in frames \ {Main} : Parent[h] \in S => h \in S) => g \in S}

OfFrame(o, f) == {t \in o.tools : t.frame = f}
OfChannel(o, ch) == {t \in o.tools : ChannelOf(t.frame) = ch}

InvalidateFrame(o, f) ==
  LET removed == Family(o.frames, f)
  IN  [RemoveWhere(o, {t \in o.tools : t.frame \in removed}) EXCEPT !.frames = @ \ removed]

AddTool(o, f, r) ==
  LET refreshed == o.initialization[ChannelOf(f)].pc # "disable"
      kept == [RemoveWhere(o, OfFrame(o, f)) EXCEPT !.hasty = IF refreshed THEN @ \ {r} ELSE @ \cup {r}]
  IN  IF Cardinality(kept.tools) >= MaxTools
      THEN Changes([kept EXCEPT !.omitted = TRUE])
      ELSE Changes([kept EXCEPT !.tools = @ \cup {[frame |-> f, registration |-> r]}])

Enable(o, ch) ==
  IF o.initialization[ch].pc # "none" THEN o
  ELSE [o EXCEPT !.channels = @ \cup {ch}, !.initialization[ch] = [pc |-> "disable", served |-> FALSE]]

Initialized(o) == \A ch \in Channel : o.initialization[ch].pc \in {"none", "done"}

-----------------------------------------------------------------------------
(* What ends a call.                                                        *)
EndsAfterCancel(c) ==   \* the finally block awaits the cancel command
  [call[c] EXCEPT !.pc = IF call[c].cancellation = "sent" THEN "finishing" ELSE "ended"]
Fails(c) == [EndsAfterCancel(c) EXCEPT !.result = {}]

\* issuingCalls reaches zero with the last call.
ForgetEarly(o, calls) ==
  IF \A c \in Call : ~ Issues(calls[c]) THEN [o EXCEPT !.early = {}] ELSE o

FailPending(channels) ==
  [c \in Call |-> IF call[c].pc = "pending" /\ call[c].channel \in channels THEN Fails(c) ELSE call[c]]

\* dispose: a call that waits for its response fails; one whose command is not answered finds out later
Dispose(o) ==
  [NewObject EXCEPT !.disposed = TRUE, !.requested = o.requested, !.omitted = o.omitted,
                    !.initialization = o.initialization]

-----------------------------------------------------------------------------
(* Chrome.                                                                  *)
Event(kind, f, n) == [kind |-> kind, channel |-> ChannelOf(f), frame |-> f, number |-> n]
Answer(who, ok, n) == [kind |-> "answer", who |-> who, ok |-> ok, number |-> n, frames |-> {}]
\* Page.getFrameTree: the frames of the channel
TreeAnswer(who, ch, ok) ==
  [Answer(who, ok, 0) EXCEPT !.frames = IF ok THEN {f \in page.frames : ChannelOf(f) = ch} ELSE {}]
Emit(f, messages) == IF ChannelOf(f) \in page.enabled THEN wire \o messages ELSE wire
OnWire(w) == {w[i] : i \in DOMAIN w}
Chosen == events < MaxEvents /\ events' = events + 1
Happens == page.alive /\ Chosen

Register(f) ==
  /\ Happens /\ Alive(ChannelOf(f)) /\ f \in page.frames
  /\ page.tool[f] = 0 /\ page.registrations < MaxRegistrations
  /\ LET r == page.registrations + 1
     IN  /\ page' = [page EXCEPT !.tool[f] = r, !.registrations = r]
         /\ wire' = Emit(f, <<Event("added", f, r)>>)
  /\ UNCHANGED <<object, call, run, told>>

Unregister(f) ==
  /\ Happens /\ page.tool[f] # 0
  /\ page' = [page EXCEPT !.tool[f] = 0]
  /\ wire' = Emit(f, <<Event("removed", f, 0)>>)
  /\ UNCHANGED <<object, call, run, told>>

\* A frame that goes takes those inside it with it, one of another process included.
Loses(gone) ==
  [page EXCEPT !.tool = [g \in Frame |-> IF g \in gone THEN 0 ELSE @[g]], !.frames = @ \ gone,
               !.attached = IF Iframe \in gone THEN @ \ {Iframe} ELSE @]
LosesIframe(gone) == IF Iframe \in gone \cap page.attached THEN <<Event("detached", Iframe, 0)>> ELSE <<>>

Navigate(f) ==
  /\ Happens /\ Alive(ChannelOf(f)) /\ f \in page.frames
  /\ LET gone == IF f = Main THEN Frame ELSE Family(page.frames, f)
         inside == IF f = Iframe THEN gone \ {f} ELSE gone
     IN  /\ page' = [Loses(inside) EXCEPT !.frames = @ \cup {f}, !.tool[f] = 0]
         /\ wire' = (wire \o <<Event("navigated", f, 0)>>) \o LosesIframe(inside)
  /\ UNCHANGED <<object, call, run, told>>

AttachFrame(f) ==
  /\ Happens /\ f \notin page.frames \cup {Main, Iframe} /\ Parent[f] \in page.frames
  /\ page' = [page EXCEPT !.frames = @ \cup {f}]
  /\ wire' = Append(wire, Event("frameAttached", f, 0))
  /\ UNCHANGED <<object, call, run, told>>

DetachFrame(f) ==
  /\ Happens /\ f \in page.frames \ {Main, Iframe}
  /\ LET gone == Family(page.frames, f)
     IN  /\ page' = Loses(gone)
         /\ wire' = (wire \o <<Event("frameDetached", f, 0)>>) \o LosesIframe(gone)
  /\ UNCHANGED <<object, call, run, told>>

AttachIframe ==
  /\ Happens /\ ~ page.hadIframe /\ Parent[Iframe] \in page.frames
  /\ page' = [page EXCEPT !.attached = @ \cup {Iframe}, !.frames = @ \cup {Iframe}, !.hadIframe = TRUE]
  /\ wire' = Append(wire, Event("attached", Iframe, 0))
  /\ UNCHANGED <<object, call, run, told>>

DetachIframe(kind) ==
  /\ Happens /\ Iframe \in page.attached
  /\ page' = Loses({Iframe})
  /\ wire' = Append(wire, Event(kind, Iframe, 0))
  /\ UNCHANGED <<object, call, run, told>>

\* The page has finished an invocation; it may never do.
Respond(i) ==
  /\ Alive(i.channel)
  /\ page' = [page EXCEPT !.running = @ \ {i}]
  /\ wire' = Append(wire, [kind |-> "responded", channel |-> i.channel, number |-> i.id])
  /\ UNCHANGED <<object, call, run, told, events>>

\* The answer to an enable may overtake the inventory it starts.
ServeInitialization(ch) ==
  LET i == object.initialization[ch]
      inventory == SetToSeq({Event("added", f, page.tool[f]) :
                               f \in {g \in Frame : ChannelOf(g) = ch /\ page.tool[g] # 0}})
      answer == <<IF i.pc = "tree" THEN TreeAnswer(ch, ch, Alive(ch)) ELSE Answer(ch, Alive(ch), 0)>>
  IN  /\ i.pc \in {"disable", "enable", "tree"} /\ ~ i.served
      /\ object' = [object EXCEPT !.initialization[ch].served = TRUE]
      /\ page' = [page EXCEPT !.enabled = IF i.pc = "disable" THEN @ \ {ch}
                                          ELSE IF i.pc = "enable" /\ Alive(ch) THEN @ \cup {ch}
                                          ELSE @]
      /\ wire' \in IF i.pc = "enable" /\ Alive(ch)
                   THEN {wire \o answer \o inventory, wire \o inventory \o answer}
                   ELSE {wire \o answer}
      /\ UNCHANGED <<call, run, told, events>>

ServeSynchronize ==
  /\ run.sync = "asked"
  /\ run' = [run EXCEPT !.sync = "served"]
  /\ wire' = Append(wire, TreeAnswer("sync", Main, page.alive))
  /\ UNCHANGED <<page, object, call, told, events>>

\* Chrome invokes by frame and name: whatever tool the frame declares now.
ServeCall(c) ==
  LET ch == call[c].channel
      f == call[c].tool.frame
      id == page.invocations[ch] + 1
      found == Alive(ch) /\ page.tool[f] # 0
  IN  /\ call[c].pc = "sent"
      /\ call' = [call EXCEPT ![c].pc = "invoked"]
      /\ page' = IF found THEN [page EXCEPT !.invocations[ch] = id,
                                            !.running = @ \cup {[channel |-> ch, id |-> id, by |-> c]}]
                 ELSE page
      /\ wire' = Append(wire, Answer(c, found, id))
      /\ UNCHANGED <<object, run, told, events>>

CancelIsServed(r) ==
  [r EXCEPT !.cancellation = "done", !.result = IF r.pc = "pending" THEN {} ELSE @,
            !.pc = IF @ \in {"pending", "finishing"} THEN "ended" ELSE @]

ServeCancel(c) ==
  LET invocation == {i \in page.running : i.by = c}
  IN  /\ call[c].cancellation = "sent"
      /\ page' \in {page, [page EXCEPT !.running = @ \ invocation]}
      /\ call' = [call EXCEPT ![c] = CancelIsServed(@)]
      /\ object' = ForgetEarly(object, call')
      /\ UNCHANGED <<wire, run, told, events>>

-----------------------------------------------------------------------------
(* WebMcpSession.onEvent: the events, each in its turn.                      *)
Next1 == Head(wire)
Delivered(kind) == wire # <<>> /\ Next1.kind = kind /\ wire' = Tail(wire)
Followed == ~ object.disposed /\ Next1.channel \in object.channels
Unheard == UNCHANGED <<object, call>>

ToolsAdded ==
  /\ Delivered("added")
  /\ IF Followed THEN object' = AddTool(object, Next1.frame, Next1.number) ELSE UNCHANGED object
  /\ UNCHANGED <<page, call, run, told, events>>

ToolsRemoved ==
  /\ Delivered("removed")
  /\ IF Followed THEN object' = RemoveWhere(object, OfFrame(object, Next1.frame)) ELSE UNCHANGED object
  /\ UNCHANGED <<page, call, run, told, events>>

\* variant: the tools of another frame stay
RootNavigated(o, f) == IF f = Main THEN Changes([RemoveWhere(o, o.tools) EXCEPT !.omitted = FALSE]) ELSE Changes(o)
Navigated(o, f) ==
  LET left == IF f = Main THEN [RemoveWhere(o, o.tools) EXCEPT !.frames = {}, !.omitted = FALSE]
              ELSE InvalidateFrame(o, f)
  IN  Changes([left EXCEPT !.frames = @ \cup {f}])

FrameNavigated ==
  /\ Delivered("navigated")
  /\ IF Followed THEN object' = Navigated(object, Next1.frame) ELSE UNCHANGED object
  /\ UNCHANGED <<page, call, run, told, events>>

FrameAttached ==
  /\ Delivered("frameAttached")
  /\ IF Followed THEN object' = [object EXCEPT !.frames = @ \cup {Next1.frame}] ELSE UNCHANGED object
  /\ UNCHANGED <<page, call, run, told, events>>

FrameDetached ==
  /\ Delivered("frameDetached")
  /\ IF Followed THEN object' = InvalidateFrame(object, Next1.frame) ELSE UNCHANGED object
  /\ UNCHANGED <<page, call, run, told, events>>

AttachedToTarget ==
  /\ Delivered("attached")
  /\ object' = IF object.disposed THEN object ELSE Enable(object, Iframe)
  /\ UNCHANGED <<page, call, run, told, events>>

DetachedFromTarget ==
  /\ Delivered("detached")
  /\ IF object.disposed THEN Unheard
     ELSE /\ call' = FailPending({Iframe})
          /\ object' = ForgetEarly([RemoveWhere(object, OfChannel(object, Iframe))
                          EXCEPT !.channels = @ \ {Iframe}, !.initialization[Iframe] = NotStarted], call')
  /\ UNCHANGED <<page, run, told, events>>

IframeCrashed ==
  /\ Delivered("crashed")
  /\ IF object.disposed THEN Unheard
     ELSE /\ call' = FailPending({Iframe})
          /\ object' = ForgetEarly(RemoveWhere(object, OfChannel(object, Iframe)), call')
  /\ UNCHANGED <<page, run, told, events>>

IsInvocation(c, m) == call[c].channel = m.channel /\ call[c].id = m.number

ToolResponded ==
  /\ Delivered("responded")
  /\ LET key == [channel |-> Next1.channel, id |-> Next1.number]
         waiting == {c \in Call : call[c].pc = "pending" /\ IsInvocation(c, Next1)}
     IN  IF ~ Followed THEN Unheard
         ELSE IF waiting # {}
         THEN LET c == CHOOSE x \in waiting : TRUE
              IN  /\ call' = [call EXCEPT ![c].pc = "resolved", ![c].result = {key}]
                  /\ UNCHANGED object
         ELSE /\ object' = IF Issuing = {} THEN object
                           ELSE IF Cardinality(object.early) >= MaxEarly
                           THEN [object EXCEPT !.dropped = TRUE]
                           ELSE [object EXCEPT !.early = @ \cup {key}]
              /\ UNCHANGED call
  /\ UNCHANGED <<page, run, told, events>>

\* The answers to the commands of an initialization.
Initialize ==
  /\ Delivered("answer") /\ Next1.who \in Channel
  /\ LET ch == Next1.who
         i == object.initialization[ch]
         told1 == IF object.disposed THEN {} ELSE Next1.frames   \* rememberFrameTree
         moves(pc) == [object EXCEPT !.initialization[ch] = [pc |-> pc, served |-> FALSE],
                                     !.frames = @ \cup told1]
     IN  object' =
          IF i.pc = "none" THEN object   \* the iframe has been detached meanwhile
          ELSE IF object.disposed THEN moves("done")
          ELSE IF ~ Next1.ok THEN Changes(moves("done"))
          ELSE IF i.pc = "disable" THEN moves(IF ch \in object.channels THEN "enable" ELSE "done")
          ELSE IF i.pc = "enable" THEN moves("tree")
          ELSE IF ch = Main THEN Changes([moves("done") EXCEPT !.status = "available"])
          ELSE moves("done")
  /\ UNCHANGED <<page, call, run, told, events>>

-----------------------------------------------------------------------------
(* WebMcpSession.call.                                                      *)
Answered ==
  /\ Delivered("answer") /\ Next1.who \in Call
  /\ LET c == Next1.who
     IN  call' = [call EXCEPT ![c] = IF Next1.ok THEN [@ EXCEPT !.pc = "answered", !.id = Next1.number]
                                     ELSE Fails(c)]
  /\ object' = ForgetEarly(object, call')
  /\ UNCHANGED <<page, run, told, events>>

SendCancel(r) == IF r.cancellation = "none" THEN [r EXCEPT !.cancellation = "sent"] ELSE r

\* The continuation of the answered command: the invocation gets its waiter, or the
\* response that came before it.
RegisterInvocation(c) ==
  LET key == [channel |-> call[c].channel, id |-> call[c].id]
      early == key \in object.early
      disposed == object.disposed \/ Abandoned(call[c])
      r == IF early THEN [call[c] EXCEPT !.pc = "resolved", !.result = {key}]
           ELSE [call[c] EXCEPT !.pc = "pending"]
  IN  /\ call[c].pc = "answered"
      /\ call' = [call EXCEPT ![c] = IF disposed THEN Fails(c)
                                     ELSE IF call[c].cancelled THEN SendCancel(r) ELSE r]
      /\ object' = IF disposed THEN ForgetEarly(object, call')
                   ELSE ForgetEarly([object EXCEPT !.early = @ \ {key}], call')
      /\ UNCHANGED <<page, wire, run, told, events>>

\* The timer of the call, or the signal of the caller.
Cancel(c) ==
  /\ call[c].pc \in Waiting \cup {"resolved"} /\ ~ call[c].cancelled /\ Chosen
  /\ call' = [call EXCEPT ![c] = LET r == [@ EXCEPT !.cancelled = TRUE]
                                 IN  IF @.pc \in {"pending", "resolved"} THEN SendCancel(r) ELSE r]
  /\ UNCHANGED <<page, wire, object, run, told>>

\* The response is there: a cancelled call reports an uncertain outcome instead.
Returns(c) == IF call[c].cancelled THEN Fails(c) ELSE [call[c] EXCEPT !.pc = "ended"]

Return(c) ==
  /\ call[c].pc = "resolved"
  /\ call' = [call EXCEPT ![c] = Returns(c)]
  /\ object' = ForgetEarly(object, call')
  /\ UNCHANGED <<page, wire, run, told, events>>

-----------------------------------------------------------------------------
(* A call inside a handoff (awaitHandoffAction).                             *)
\* The handoff is shown: the call starts, if its handle is still good.
StartAction(c) ==
  /\ call[c].pc = "confirming"
  /\ call' = [call EXCEPT ![c].pc = IF call[c].tool \in object.tools /\ object.status = "available"
                                    THEN "sent" ELSE "ended"]
  /\ UNCHANGED <<page, wire, object, run, told, events>>

\* The user continues, or the call has ended, or the handoff ends before it is shown: what is
\* left to wait for is the call itself.
HandoffReturns(c) ==
  /\ call[c].handoff = "waiting"
  /\ LET left == IF call[c].pc = "confirming" THEN "ended" ELSE call[c].pc
     IN  call' = [call EXCEPT ![c].handoff = "none", ![c].pc = left]
  /\ UNCHANGED <<page, wire, object, run, told, events>>

\* It times out or is cancelled while the call runs: the sandbox disconnects (cancelStart).
HandoffLeaves(c) ==
  /\ call[c].handoff = "waiting" /\ ~ Rests(call[c]) /\ call[c].pc # "confirming"
  /\ call' = [FailPending(Channel) EXCEPT ![c].handoff = "leaving"]
  /\ object' = IF object.disposed THEN object ELSE Dispose(object)
  /\ UNCHANGED <<page, wire, run, told, events>>

\* The sandbox has disconnected: the operation is over, the call is not waited for.
Disconnected(c) ==
  /\ call[c].handoff = "leaving"
  /\ call' = [call EXCEPT ![c].handoff = "left"]
  /\ UNCHANGED <<page, wire, object, run, told, events>>

-----------------------------------------------------------------------------
(* The execute.                                                             *)
\* A command of a disposed object is served before those of the next one.
Start ==
  /\ run.pc = "idle" /\ run.count < MaxRuns /\ page.alive
  /\ object.disposed => Initialized(object)
  /\ run' = [run EXCEPT !.pc = "starting", !.count = @ + 1]
  /\ call' = [c \in Call |-> IF Rests(call[c]) THEN NoCall ELSE call[c]]
  /\ LET fresh == object.disposed \/ object.status = "unavailable"
     IN  object' = IF fresh THEN Enable(NewObject, Main) ELSE object
  /\ UNCHANGED <<page, wire, told, events>>

\* An execute without tools disposes of the object and disables its channels.
Stop ==
  /\ run.pc = "idle" /\ ~ object.disposed /\ Initialized(object) /\ Happens
  /\ object' = Dispose(object)
  /\ page' = [page EXCEPT !.enabled = @ \ object.channels]
  /\ wire' = SetToSeq({m \in OnWire(wire) : m.kind = "answer"})   \* what comes before its answers is unheard
  /\ UNCHANGED <<call, run, told>>

\* start: after the root, the iframes that are attached by then.
StartChildren ==
  /\ run.pc = "starting" /\ object.initialization[Main].pc = "done"
  /\ run' = [run EXCEPT !.pc = "children"]
  /\ object' = IF object.status = "available" /\ ~ object.disposed /\ Alive(Iframe)
               THEN Enable(object, Iframe) ELSE object
  /\ UNCHANGED <<page, wire, call, told, events>>

Started ==
  /\ run.pc = "children" /\ Initialized(object)
  /\ run' = [run EXCEPT !.pc = "script"]
  /\ UNCHANGED <<page, wire, object, call, told, events>>

\* call, for a handle of the current inventory: at once, or inside a handoff
Invoke(c, t, requiresConfirmation) ==
  /\ run.pc = "script" /\ call[c].pc = "idle" /\ object.status = "available" /\ Chosen
  /\ call' = [call EXCEPT ![c] = [NoCall EXCEPT !.pc = IF requiresConfirmation THEN "confirming" ELSE "sent",
                                                !.handoff = IF requiresConfirmation THEN "waiting" ELSE "none",
                                                !.tool = t, !.channel = ChannelOf(t.frame)]]
  /\ UNCHANGED <<page, wire, object, run, told>>

\* settleWebMcp: no further calls, and the operations of the running ones are awaited
SettlesPending == \A c \in Call : call[c].pc # "pending"   \* variant
IsOver(k) == k.handoff = "left" \/ (Rests(k) /\ k.handoff = "none")
Settles == \A c \in Call : IsOver(call[c])
ScriptEnds ==
  /\ run.pc = "script"
  /\ run' = [run EXCEPT !.pc = "settling"]
  /\ UNCHANGED <<page, wire, object, call, told, events>>

\* synchronize, for a list of the script and for the report of the execute
AsksThePage == ~ object.disposed /\ object.status = "available"

Synchronize ==
  /\ run.sync = "none" /\ Initialized(object)
  /\ \/ run.pc = "script" /\ ~ object.requested /\ ~ object.disposed
     \/ run.pc = "settling" /\ Settles
  /\ run' = [run EXCEPT !.sync = IF AsksThePage THEN "asked" ELSE "done",
                        !.pc = IF @ = "settling" THEN "reporting" ELSE @]
  /\ UNCHANGED <<page, wire, object, call, told, events>>

Synchronized ==
  /\ Delivered("answer") /\ Next1.who = "sync"
  /\ run' = [run EXCEPT !.sync = "done"]
  /\ object' = IF object.disposed THEN object
               ELSE IF Next1.ok THEN [object EXCEPT !.frames = @ \cup Next1.frames]
               ELSE Changes([object EXCEPT !.status = "unavailable"])
  /\ UNCHANGED <<page, call, told, events>>

List ==
  /\ run.pc \in {"script", "settling"} /\ run.sync = "done"
  /\ object' = [object EXCEPT !.requested = TRUE]
  /\ run' = [run EXCEPT !.sync = "none"]
  /\ UNCHANGED <<page, wire, call, told, events>>

Report ==
  /\ run.pc = "reporting" /\ run.sync = "done"
  /\ run' = [run EXCEPT !.pc = "idle", !.sync = "none"]
  /\ told' = IF object.changed \/ object.requested THEN Registered(object) ELSE told
  /\ object' = [object EXCEPT !.changed = FALSE, !.requested = FALSE]
  /\ UNCHANGED <<page, wire, call, events>>

\* BrowserRig.targetInvalidated, or the sandbox forgets its page (clearWebMcp)
Invalidate(dead) ==
  /\ Chosen /\ ~ object.disposed
  /\ object' = Dispose(object)
  /\ call' = FailPending(Channel)
  /\ page' = [page EXCEPT !.alive = @ /\ ~ dead]
  /\ UNCHANGED <<wire, run, told>>

-----------------------------------------------------------------------------
NewPage(declared) ==   \* the page before the first execute
  [frames |-> Frame \ ({Iframe} \ declared), tool |-> [f \in Frame |-> IF f \notin declared THEN 0 ELSE IF f = Main THEN 1 ELSE 2],
   registrations |-> IF declared = {} THEN 0 ELSE 2, attached |-> {Main} \cup (declared \cap {Iframe}),
   hadIframe |-> Iframe \in declared, enabled |-> {}, running |-> {},
   invocations |-> [ch \in Channel |-> 0], alive |-> TRUE]

Init ==
  /\ page \in {NewPage(declared) : declared \in {{}, {Main}, {Main, Iframe}}}
  /\ wire = <<>> /\ object = [NewObject EXCEPT !.disposed = TRUE] /\ told = {} /\ events = 0
  /\ call = [c \in Call |-> NoCall]
  /\ run = [pc |-> "idle", sync |-> "none", count |-> 0]

Chrome ==
  \/ \E f \in Frame : Register(f) \/ Unregister(f) \/ Navigate(f) \/ AttachFrame(f) \/ DetachFrame(f)
  \/ AttachIframe \/ \E kind \in {"detached", "crashed"} : DetachIframe(kind)
  \/ \E i \in page.running : Respond(i)
  \/ \E dead \in BOOLEAN : Invalidate(dead)

Serve == (\E ch \in Channel : ServeInitialization(ch)) \/ ServeSynchronize
           \/ \E c \in Call : ServeCall(c) \/ ServeCancel(c)

Deliver == ToolsAdded \/ ToolsRemoved \/ FrameNavigated \/ FrameAttached \/ FrameDetached \/ AttachedToTarget \/ DetachedFromTarget
             \/ IframeCrashed \/ ToolResponded \/ Initialize \/ Answered \/ Synchronized

Continue == StartChildren \/ Started \/ Synchronize \/ List \/ Report \/ ScriptEnds
              \/ \E c \in Call : RegisterInvocation(c) \/ Return(c) \/ StartAction(c)

Next == Chrome \/ Serve \/ Deliver \/ Continue \/ Start \/ Stop
          \/ (\E c \in Call : Cancel(c) \/ HandoffReturns(c) \/ HandoffLeaves(c) \/ Disconnected(c))
          \/ \E c \in Call, t \in object.tools, confirm \in BOOLEAN : Invoke(c, t, confirm)
Spec == Init /\ [][Next]_vars

-----------------------------------------------------------------------------
(* Properties.                                                              *)

\* A call completes with the answer of its own invocation, in the channel it was made
\* in, and no answer is lost: a call does not go on waiting once its response has
\* been delivered, unless the responses that are kept for later had reached their limit.
AnswersReachTheirCall ==
  \A c \in Call :
    /\ call[c].result \subseteq {[channel |-> call[c].channel, id |-> call[c].id]}
    /\ call[c].pc = "pending" /\ call[c].channel \in object.channels
         => \/ [channel |-> call[c].channel, id |-> call[c].id, by |-> c] \in page.running
            \/ call[c].cancellation = "sent"
            \/ \E i \in DOMAIN wire : /\ wire[i].kind \in {"detached", "crashed"}
                                        \/ /\ wire[i].kind = "responded" /\ IsInvocation(c, wire[i])
            \/ object.dropped

\* When all events have been heard, every handle the script can call stands for a tool
\* the page declares now: navigations, frames that go, alone or with the frame around them,
\* and registrations that are replaced leave no stale handle, in an object that is created
\* anew either.  Except for a tool the object heard of before its channel was disabled and
\* enabled again: one that goes in between stays in the inventory.
HandlesAreCurrent ==
  wire = <<>> /\ run.pc = "script" =>
    \A t \in object.tools : page.tool[t.frame] = t.registration \/ t.registration \in object.hasty

\* An execute reports its tools as unchanged only when they are the ones it told last.
ReportIsTrue == run.pc = "reporting" /\ run'.pc = "idle" => told' = Registered(object)

\* What a script and its caller know of the tools is what the page declares: see above.
StepKeepsToolsCurrent == HandlesAreCurrent' /\ ReportIsTrue
ToolsAreCurrent == [][StepKeepsToolsCurrent]_vars

\* No call and no cancellation outlives its execute, awaited by the script or not, but one
\* whose handoff has timed out or was cancelled under it; and that one waits for no
\* answer of the page any more, whatever an object created since then hears.
NoCallOutlivesItsRun ==
  \A c \in Call :
    /\ run.pc \in {"idle", "reporting"} /\ call[c].handoff # "left" =>
         call[c].pc \in {"idle", "ended"} /\ call[c].cancellation # "sent"
    /\ call[c].handoff = "left" => call[c].pc # "pending"

CallsAreAnswered == AnswersReachTheirCall /\ NoCallOutlivesItsRun
-----------------------------------------------------------------------------
(* Why CallsAreAnswered is always true: the states that the steps above can reach.            *)

CallRecord ==
  [pc : Waiting \cup {"idle", "confirming", "resolved", "finishing", "ended"}, tool : [frame : Frame, registration : Nat],
   channel : Channel, id : Nat, cancelled : BOOLEAN, cancellation : {"none", "sent", "done"},
   result : SUBSET [channel : Channel, id : Nat], handoff : {"none", "waiting", "leaving", "left"}]
Message ==
  [kind : {"added", "removed", "navigated", "frameAttached", "frameDetached", "attached", "detached", "crashed"}, channel : Channel, frame : Frame,
   number : Nat]
    \cup [kind : {"answer"}, who : Channel \cup Call \cup {"sync"}, ok : BOOLEAN, number : Nat, frames : SUBSET Frame]
    \cup [kind : {"responded"}, channel : Channel, number : Nat]

PageRecord ==
  [frames : SUBSET Frame, tool : [Frame -> Nat], registrations : Nat, attached : SUBSET Channel, hadIframe : BOOLEAN,
   enabled : SUBSET Channel, running : SUBSET [channel : Channel, id : Nat, by : Call],
   invocations : [Channel -> Nat], alive : BOOLEAN]
ObjectRecord ==
  [status : {"available", "unavailable"}, disposed : BOOLEAN, channels : SUBSET Channel,
   tools : SUBSET [frame : Frame, registration : Nat], frames : SUBSET Frame, omitted : BOOLEAN, changed : BOOLEAN,
   early : SUBSET [channel : Channel, id : Nat], requested : BOOLEAN, dropped : BOOLEAN, hasty : SUBSET Nat,
   initialization : [Channel -> [pc : {"none", "disable", "enable", "tree", "done"}, served : BOOLEAN]]]

TypeOK ==
  /\ page \in PageRecord
  /\ wire \in Seq(Message)
  /\ object \in ObjectRecord
  /\ call \in [Call -> CallRecord]
  /\ run \in [pc : {"idle", "starting", "children", "script", "settling", "reporting"},
              sync : {"none", "asked", "served", "done"}, count : Nat]

\* A call is cancelled before its cancellation is sent, which waits for its invocation; before its response
\* it has no result; and there are calls only while a script runs or is awaited.
CallOK(k) ==
  /\ ~ k.cancelled => k.cancellation = "none"
  /\ k.pc \in {"idle", "confirming", "sent", "invoked", "answered"} => k.cancellation = "none" /\ k.result = {}
  /\ k.pc = "pending" => k.cancellation # "done" /\ k.result = {}
  /\ k.pc = "ended" => k.cancellation # "sent"
  /\ k.result \subseteq {[channel |-> k.channel, id |-> k.id]}
  /\ Abandoned(k) => k.pc \notin {"confirming", "pending"}
CallsOK ==
  /\ \A c \in Call : CallOK(call[c])
  /\ run.pc \in {"idle", "reporting"} => \A c \in Call : IsOver(call[c])
  /\ run.pc \in {"starting", "children"} => \A c \in Call : call[c] = NoCall \/ call[c].handoff = "left"

\* The wire: what is on it, and what may not come before something else.
OfIframe(m) == m.kind = "added" /\ m.frame = Iframe
Answers(m, c) == m.kind = "answer" /\ m.who = c
Clash(m, n) ==
  \/ \E c \in Call : Answers(m, c) /\ Answers(n, c)
  \/ OfIframe(m) /\ n.kind = "attached"
InOrder(w) == \A i, j \in DOMAIN w : i < j => ~ Clash(w[i], w[j])

\* The invocation of a call that waits for its response: it has been told of it, or will be.
Tells(m, c, n) == Answers(m, c) /\ m.ok /\ m.number = n
Waits(k, m, c, n) ==
  \/ k[c].pc \in {"answered", "pending"} /\ k[c].id = n
  \/ \E a \in m : Tells(a, c, n)
Live(r) == r.pc \in {"invoked", "answered", "pending"}
AnswersAreDue(k, m) == \A c \in Call : k[c].pc = "invoked" <=> \E a \in m : Answers(a, c)
Numbered(k, m, last) == \A c \in Call : \A n \in Nat : Waits(k, m, c, n) => n \in 1 .. last[k[c].channel]
Distinct(k, m) == \A c, d \in Call : \A n \in Nat :
  Waits(k, m, c, n) /\ Waits(k, m, d, n) /\ k[c].channel = k[d].channel => c = d

\* Its response is under way, or kept for it.
Key(ch, n) == [channel |-> ch, id |-> n]
Kept(k, m, running, o, c, n) ==
  \/ [channel |-> k[c].channel, id |-> n, by |-> c] \in running
  \/ \E a \in m : a.kind = "responded" /\ a.channel = k[c].channel /\ a.number = n
  \/ k[c].pc # "pending" /\ Key(k[c].channel, n) \in o.early
  \/ k[c].cancellation = "sent" \/ o.dropped
NoneIsLost(k, m, running, o) == \A c \in Call : \A n \in Nat :
  Waits(k, m, c, n) /\ k[c].channel \in o.channels /\ ~ Abandoned(k[c]) => Kept(k, m, running, o, c, n)

\* The iframe is attached once, before its tools are known and called.
IframeIsNew(hadIframe, m) == ~ hadIframe \/ \E a \in m : a.kind = "attached"
NewIframeIsUnknown(p, m, o, k) ==
  /\ IframeIsNew(p.hadIframe, m) =>
       /\ \A t \in o.tools : t.frame # Iframe
       /\ \A c \in Call : k[c].channel # Iframe
  /\ ~ p.hadIframe =>
       /\ \A a \in m : ~ OfIframe(a)
       /\ p.tool[Iframe] = 0 /\ Iframe \notin p.attached

ToolsInv ==
  /\ TypeOK /\ CallsOK
  /\ object.disposed => object.channels = {}
  /\ InOrder(wire) /\ AnswersAreDue(call, OnWire(wire)) /\ Numbered(call, OnWire(wire), page.invocations)
  /\ Distinct(call, OnWire(wire)) /\ NoneIsLost(call, OnWire(wire), page.running, object)
  /\ NewIframeIsUnknown(page, OnWire(wire), object, call)
=============================================================================
