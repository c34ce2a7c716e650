--------------------------- MODULE NetworkCapture ---------------------------
(***************************************************************************)
(* The network capture of a session (src/src/network-capture.ts): requests *)
(* of the bound page become pending entries, a few workers finalize them   *)
(* by asking the browser for headers and bodies, and a stop or a cancel,   *)
(* which hold one permit, wait for the workers no longer than a timeout.   *)
(* A finalization may hang for ever and may answer after the stop gave up  *)
(* on it.  Headers, urls and credentials are data; bodies are their size.  *)
(***************************************************************************)
EXTENDS Naturals, FiniteSets, FiniteSetsExt

CONSTANTS Page,
          MaxRequest,   \* bound: requests the pages make; a request is named by its order
          BodySize,     \* sizes of bodies, in units
          MaxEntries,   \* options.maxEntries
          MaxBody,      \* options.maxBodyBytes, in units
          MaxTotal,     \* options.maxTotalBodyBytes, in units
          MaxWorkers,   \* maxFinalizeWorkers
          MaxEpoch,     \* bound: pages bound in one capture
          MaxCall,      \* bound: starts, stops and cancels
          None

ASSUME CaptureAssumption ==
  /\ {MaxEntries, MaxBody, MaxTotal, MaxWorkers} \subseteq Nat \ {0}
  /\ {MaxEpoch, MaxCall, MaxRequest} \subseteq Nat /\ BodySize \subseteq 0..MaxBody

Request == 1..MaxRequest
Worker == [request : Request, generation : Nat, at : {"headers", "response", "body"}, size : Nat]
Entry == [id : Nat, request : Request]
Capture ==   \* the type ActiveCapture
  [pending : SUBSET Request, entries : SUBSET Entry, queue : SUBSET Request, workers : SUBSET Worker,
   generation : Nat, bytes : Nat, dropped : Nat, stopping : BOOLEAN, cancelled : BOOLEAN]

ASSUME AbsenceAssumption == None \notin Page \cup Capture

VARIABLES
  active,    \* the ActiveCapture, or None
  bound,     \* the page whose events reach the recorder, and the epoch of the binding
  entry,     \* the PendingEntry object made for a request
  net,       \* the requests of the pages: their page, how far they are
  call,      \* the operation that holds the transition permit
  seen,      \* requests that onRequest took in this capture
  report     \* what the last stop returned, and the entries its artifact holds

vars == <<active, bound, entry, net, call, seen, report>>

NewCapture ==
  [pending |-> {}, entries |-> {}, queue |-> {}, workers |-> {}, generation |-> 0,
   bytes |-> 0, dropped |-> 0, stopping |-> FALSE, cancelled |-> FALSE]
NoEntry == [id |-> 0, response |-> FALSE, finalized |-> FALSE, epoch |-> 0]
IdleCall == [pc |-> "idle", page |-> None, artifact |-> None, count |-> 0]
Step(pc) == call' = [call EXCEPT !.pc = pc]

(***************************************************************************)
(* The finalization queue.                                                 *)
(***************************************************************************)
\* pumpFinalizers: what the capture may become; the queue's order is not kept.
Pumped(c) ==
  IF c.cancelled THEN {[c EXCEPT !.queue = {}]}
  ELSE LET free == MaxWorkers - Cardinality(c.workers)
           n == IF free < Cardinality(c.queue) THEN free ELSE Cardinality(c.queue)
           worker(r) == [request |-> r, generation |-> c.generation, at |-> "headers", size |-> 0]
       IN {[c EXCEPT !.queue = @ \ taken, !.workers = @ \cup {worker(r) : r \in taken}] :
             taken \in kSubset(n, c.queue)}

Schedule(requests, c) == [c EXCEPT !.queue = @ \cup {r \in requests : ~ entry[r].finalized}]
Finalized(requests) ==
  [r \in Request |-> IF r \in requests THEN [entry[r] EXCEPT !.finalized = TRUE] ELSE entry[r]]
\* On a stop and on a page change an entry loses its response and is scheduled (failure is data).
Failed(requests) ==
  [r \in Request |-> IF r \in requests /\ ~ entry[r].finalized
                     THEN [entry[r] EXCEPT !.response = FALSE, !.finalized = TRUE]
                     ELSE entry[r]]

ClearFinalizers(c) == [c EXCEPT !.queue = {}, !.pending = {}]   \* variant
DiscardFinalizers(c) == [c EXCEPT !.generation = @ + 1, !.queue = {}, !.pending = {}]

Settled(c) == c.pending = {} /\ c.queue = {} /\ c.workers = {}

(***************************************************************************)
(* bindPage.                                                               *)
(***************************************************************************)
MayBind(c, p) == c # None /\ ~ c.stopping /\ bound.page # p
Ended == {r \in active.pending : entry[r].epoch = bound.epoch /\ ~ entry[r].finalized}
BoundTo(p) == [page |-> p, epoch |-> IF p = None THEN bound.epoch ELSE bound.epoch + 1]

\* The sandbox binds its page at every operation, and none when its target goes.
BindPage(p) ==
  /\ MayBind(active, p) /\ (p = None \/ bound.epoch < MaxEpoch)
  /\ bound' = BoundTo(p)
  /\ LET ended == IF bound.page = None THEN {} ELSE Ended IN
     /\ entry' = Failed(ended)
     /\ active' \in Pumped(Schedule(ended, active))
  /\ UNCHANGED <<net, call, seen, report>>

(***************************************************************************)
(* The page's events.                                                      *)
(***************************************************************************)
\* Requests nobody listens to, and the events of entries that are gone, change nothing.
Heard(r) == net[r].page = bound.page

IsFull == Cardinality(active.entries) + Cardinality(active.pending) >= MaxEntries

OnRequest(r) ==
  /\ active # None /\ bound.page # None
  /\ net[r].state = "none" /\ \A q \in Request : q < r => net[q].state # "none"
  /\ net' = [net EXCEPT ![r] = [state |-> "sent", page |-> bound.page]]
  /\ seen' = seen + 1
  /\ IF IsFull
     THEN active' = [active EXCEPT !.dropped = @ + 1] /\ UNCHANGED entry
     ELSE /\ active' = [active EXCEPT !.pending = @ \cup {r}]
          /\ entry' = [entry EXCEPT ![r] = [NoEntry EXCEPT
               !.id = Cardinality(active.entries) + Cardinality(active.pending) + 1,
               !.epoch = bound.epoch]]
  /\ UNCHANGED <<bound, call, report>>

OnResponse(r) ==
  /\ active # None /\ r \in active.pending /\ net[r].state = "sent"
  /\ net' = [net EXCEPT ![r].state = "answered"]
  /\ entry' = IF Heard(r) THEN [entry EXCEPT ![r].response = TRUE] ELSE entry
  /\ UNCHANGED <<active, bound, call, seen, report>>

\* onRequestFinished after a response, onRequestFailed at any time.
OnRequestEnds(r) ==
  /\ active # None /\ r \in active.pending
  /\ net[r].state \in {"sent", "answered"}
  /\ net' = [net EXCEPT ![r].state = "ended"]
  /\ IF Heard(r)
     THEN /\ entry' = Finalized({r})
          /\ active' \in Pumped(Schedule({r}, active))
     ELSE UNCHANGED <<active, entry>>
  /\ UNCHANGED <<bound, call, seen, report>>

(***************************************************************************)
(* finalize: three awaits, each of which the browser may leave open.       *)
(***************************************************************************)
Least(a, b) == IF a < b THEN a ELSE b
Remaining(c) == IF c.bytes < MaxTotal THEN MaxTotal - c.bytes ELSE 0

CaptureBuffer(c, size) == [c EXCEPT !.bytes = @ + Least(Least(size, MaxBody), Remaining(c))]

\* recordEntry, the end of finalize and the next pump.
Recorded(c, w) ==
  LET live == ~ c.cancelled /\ w.generation = c.generation
      new == [id |-> entry[w.request].id, request |-> w.request]
  IN [c EXCEPT !.workers = @ \ {w}, !.pending = @ \ {w.request},
               !.entries = IF live THEN @ \cup {new} ELSE @]

Awaits(w, c, at, size) ==
  active' = [c EXCEPT !.workers = (@ \ {w}) \cup {[w EXCEPT !.at = at, !.size = size]}]

RequestHeaders(w, size) ==
  /\ w.at = "headers"
  /\ LET c == IF size <= Least(MaxBody, Remaining(active)) THEN CaptureBuffer(active, size) ELSE active
     IN IF entry[w.request].response THEN Awaits(w, c, "response", 0)
                                     ELSE active' \in Pumped(Recorded(c, w))

ResponseHeaders(w, size) ==
  /\ w.at = "response"
  /\ IF active.bytes < MaxTotal /\ size <= Least(MaxBody, Remaining(active))
     THEN Awaits(w, active, "body", size)
     ELSE active' \in Pumped(Recorded(active, w))

ResponseBody(w) ==
  /\ w.at = "body" /\ active' \in Pumped(Recorded(CaptureBuffer(active, w.size), w))
BodyTimesOut(w) ==
  /\ w.at = "body" /\ active' \in Pumped(Recorded(active, w))
FinalizeThrows(w) == active' \in Pumped(Recorded(active, w))

Finalize ==
  /\ active # None
  /\ \E w \in active.workers :
       \/ (\E size \in BodySize : RequestHeaders(w, size) \/ ResponseHeaders(w, size))
       \/ ResponseBody(w) \/ BodyTimesOut(w) \/ FinalizeThrows(w)
  /\ UNCHANGED <<bound, entry, net, call, seen, report>>

(***************************************************************************)
(* start, stop and cancel.                                                 *)
(***************************************************************************)
Start(p) ==
  /\ call.pc = "idle" /\ call.count < MaxCall /\ active = None
  /\ active' = NewCapture /\ seen' = 0 /\ entry' = [r \in Request |-> NoEntry]
  /\ bound' = [page |-> p, epoch |-> 1]
  /\ call' = [IdleCall EXCEPT !.count = call.count + 1]
  /\ UNCHANGED <<net, report>>

Unbound == [bound EXCEPT !.page = None]

Stop ==
  /\ call.pc = "idle" /\ call.count < MaxCall /\ active # None
  /\ call' = [IdleCall EXCEPT !.pc = "settle", !.page = bound.page, !.count = call.count + 1]
  /\ bound' = Unbound
  /\ entry' = Failed(active.pending)
  /\ active' \in Pumped([Schedule(active.pending, active) EXCEPT !.stopping = TRUE])
  /\ UNCHANGED <<net, seen, report>>

StopSettles ==
  /\ call.pc = "settle" /\ Settled(active) /\ Step("finish")
  /\ UNCHANGED <<active, bound, entry, net, seen, report>>

TimerRuns == active.workers = {}   \* variant: it waits for the headers
TimerRunsOut == TRUE   \* settleFinalizers races a timer of 5 s

StopGivesUp ==
  /\ call.pc = "settle" /\ ~ Settled(active) /\ TimerRunsOut
  /\ active' = DiscardFinalizers([active EXCEPT !.dropped = @ + Cardinality(active.pending)])
  /\ Step("finish") /\ UNCHANGED <<bound, entry, net, seen, report>>

\* finishCapture: the entries are read for the profile and the artifact, then both are written.
FinishCapture ==
  /\ call.pc = "finish"
  /\ call' = [call EXCEPT !.pc = "write", !.artifact = active.entries]
  /\ UNCHANGED <<active, bound, entry, net, seen, report>>

\* The result is counted after the writes (statusForFinished).
StopReturns ==
  /\ call.pc = "write"
  /\ report' = [artifact |-> call.artifact, entries |-> Cardinality(active.entries),
                dropped |-> active.dropped, seen |-> seen]
  /\ active' = None /\ Step("idle")
  /\ UNCHANGED <<bound, entry, net, seen>>

\* The profile cannot be locked, read or written, or the artifact cannot: capturing goes on.
StopFails ==
  /\ call.pc \in {"finish", "write"}
  /\ active' = [active EXCEPT !.stopping = FALSE]
  /\ bound' = IF call.page = None THEN bound ELSE BoundTo(call.page)
  /\ Step("idle") /\ UNCHANGED <<entry, net, seen, report>>

Cancel ==
  /\ call.pc = "idle" /\ call.count < MaxCall /\ active # None
  /\ call' = [IdleCall EXCEPT !.pc = "cancel", !.count = call.count + 1]
  /\ bound' = Unbound
  /\ active' = DiscardFinalizers([active EXCEPT !.stopping = TRUE, !.cancelled = TRUE])
  /\ UNCHANGED <<entry, net, seen, report>>

\* The workers have ended, or the timeout has.
CancelEnds ==
  /\ call.pc = "cancel" /\ active' = None /\ Step("idle")
  /\ UNCHANGED <<bound, entry, net, seen, report>>

Init ==
  /\ active = None /\ call = IdleCall /\ seen = 0 /\ report = None
  /\ bound = [page |-> None, epoch |-> 0]
  /\ entry = [r \in Request |-> NoEntry]
  /\ net = [r \in Request |-> [state |-> "none", page |-> None]]

Operate ==
  \/ (\E p \in Page : Start(p)) \/ Stop \/ StopSettles \/ StopGivesUp \/ FinishCapture
  \/ StopReturns \/ StopFails \/ Cancel \/ CancelEnds

Next ==
  \/ Operate \/ Finalize
  \/ (\E p \in Page \cup {None} : BindPage(p))
  \/ \E r \in Request : OnRequest(r) \/ OnResponse(r)
                          \/ OnRequestEnds(r)

Spec == Init /\ [][Next]_vars
\* The timers of a stop and of a cancel fire and file operations end; the browser owes nothing.
FairSpec == Spec /\ WF_vars(StopSettles \/ StopGivesUp) /\ WF_vars(FinishCapture)
                 /\ WF_vars(StopReturns \/ StopFails) /\ WF_vars(CancelEnds)

(***************************************************************************)
(* Properties.                                                             *)
(***************************************************************************)
\* Every request the recorder took is an entry, is pending or was counted as dropped, also while
\* late finalizations of a stop that gave up still answer.
EveryRequestIsAccounted ==
  active # None /\ ~ active.cancelled =>
    seen = Cardinality(active.entries) + Cardinality(active.pending) + active.dropped

\* A stop reports exactly the entries that its artifact holds.
ReportMatchesArtifact ==
  report # None => /\ report.entries = Cardinality(report.artifact)
                   /\ report.seen = report.entries + report.dropped

\* What a stop reports is complete: see above.
ReportsAreComplete == EveryRequestIsAccounted /\ ReportMatchesArtifact

\* The limits hold whatever finalizes concurrently: all bodies within the total, all requests
\* within maxEntries, and an id names one entry unless a stop gave up on entries before it failed.
LimitsHold ==
  active # None =>
    /\ active.bytes <= MaxTotal
    /\ Cardinality(active.entries) + Cardinality(active.pending) <= MaxEntries
    /\ active.generation = 0 =>
         \A e1, e2 \in active.entries : e1.id = e2.id => e1 = e2

\* What a stop reports is complete, and the limits are kept on the way there: see above.
CaptureIsAccounted == ReportsAreComplete /\ LimitsHold

\* A stop or a cancel returns although finalizations hang.
OperationsReturn == call.pc # "idle" ~> call.pc = "idle"
=============================================================================
