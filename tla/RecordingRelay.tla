---------------------------- MODULE RecordingRelay ----------------------------
(***************************************************************************)
(* The recordings of one tab: RecordingRelay (src/recording-relay.ts) with  *)
(* the extension's recorder of that tab (extension/src/offscreen.ts) at the *)
(* other end of a socket whose messages arrive in order.                    *)
(*                                                                         *)
(* A recording is either a tab capture, whose numbered chunks the extension *)
(* sends and the relay writes to a partial file that a final frame turns    *)
(* into the output, or a screencast, whose frames the relay feeds to an     *)
(* encoder.  A call is a start, a stop or a cancel by a client; a stop by   *)
(* the maximum-duration timer is a call too.  Calls that are refused at     *)
(* once (nothing to stop, a recording in progress) change nothing and have  *)
(* no step.  A chunk's content is the recorder and the number it came from. *)
(***************************************************************************)
EXTENDS Naturals, Sequences, FiniteSets

CONSTANTS Call,
          Requests,      \* what clients ask for: among "auto", "cdp", "stop", "cancel"
          MaxRecording,  \* bound on the recordings made of the tab
          MaxChunk,      \* bound on the chunks of a recorder, the frames of a screencast
          MaxPending,    \* maxPendingCdpFrames, and the room for pending writes, in chunks
          MaxTick,       \* bound on the clock, in frame intervals
          MaxMishaps,    \* bound on detached tabs, lost connections, failures and timeouts
          None

ASSUME RecordingAssumption ==
  /\ IsFiniteSet(Call) /\ Requests \subseteq {"auto", "cdp", "stop", "cancel"}
  /\ {MaxRecording, MaxPending} \subseteq Nat \ {0}
  /\ {MaxChunk, MaxTick, MaxMishaps} \subseteq Nat
  /\ None \notin Call \cup Nat

VARIABLES
  active,     \* activeRecordings.get(tab)
  starting,   \* the call that holds startingRecordings.get(tab)
  rec,        \* the recordings, numbered in the order in which they became active
  call,       \* the calls
  connected,  \* isExtensionConnected()
  waiting,    \* the commands whose answer the relay awaits
  outbox,     \* commands on their way to the extension
  inbox,      \* answers, frames and events on their way to the relay
  recorder,   \* extension: the MediaRecorder a start command made for a recording
  live,       \* extension: recordings.get(tab)
  owed,       \* extension: a cancelled event that waits for a new connection
  now, mishaps

relay == <<active, starting, rec, call>>
socket == <<waiting, outbox, inbox>>
extension == <<recorder, live, owed>>
bounds == <<mishaps>>
vars == <<relay, connected, socket, extension, now, bounds>>

Recording == 1..MaxRecording

NoRecording ==
  [mode |-> "none", stopping |-> FALSE, timer |-> FALSE, stopper |-> None,
   outcome |-> "none", cleanup |-> "none", file |-> "none", error |-> FALSE,
   queue |-> <<>>, chunks |-> <<>>, expected |-> 0, finalize |-> "none",
   resolver |-> None, cancelled |-> FALSE, last |-> None, spans |-> <<>>,
   source |-> 0, coalesced |-> 0, dropped |-> 0, encoded |-> 0, since |-> 0, until |-> 0]

IdleCall ==
  [pc |-> "idle", want |-> "none", rec |-> None, of |-> None, result |-> "none",
   cancelled |-> FALSE, final |-> "none"]

NoRecorder == [state |-> "none", data |-> 0, next |-> 0, by |-> <<>>, cancelled |-> FALSE]

Made == {r \in Recording : rec[r].mode # "none"}
Next1 == Cardinality(Made) + 1

Fails == mishaps < MaxMishaps /\ mishaps' = mishaps + 1
Works == UNCHANGED mishaps

-----------------------------------------------------------------------------
(* What a call returns, and what it leaves of startingRecordings.           *)
Returned(c, result) == [call EXCEPT ![c].pc = "done", ![c].result = result]
Released(c) == IF starting = c THEN None ELSE starting

Return(c, result) ==
  call' = Returned(c, result) /\ starting' = Released(c)

Await(c, pc, result) ==
  call' = [call EXCEPT ![c].pc = pc, ![c].result = result] /\ UNCHANGED starting

(* sendToExtension: without a connection the command is refused at once.    *)
Command(method, c, r) == [method |-> method, of |-> c, rec |-> r]
CancelOf(r) == Command("cancel", None, r)

Send(q) ==
  IF connected
  THEN waiting' = waiting \cup {q} /\ outbox' = Append(outbox, q)
  ELSE UNCHANGED <<waiting, outbox>>

Rejected(q) == q \notin waiting

(* resolveStop: the stop that waits for the recording's end gets a result,  *)
(* unless it has one.                                                       *)
Resolved(r, result) ==
  LET c == rec[r].resolver IN
  IF c = None \/ call[c].final # "none" THEN call
  ELSE [call EXCEPT ![c].final = result]

(* cleanupTabCaptureRecording and cleanupCdpRecording: the second caller    *)
(* joins the first.  A cancelled encoder refuses what is written to it.     *)
CleanedUp(x) ==
  IF x.cleanup # "none" THEN x
  ELSE [x EXCEPT !.stopping = TRUE, !.timer = FALSE, !.cleanup = "running",
                 !.cancelled = x.mode = "cdp"]

(* What ends a recording: one that is finalizing, or that a stop is          *)
(* finishing, is left alone and awaited.  cleanupRecording also disarms the *)
(* timer.                                                                   *)
Ended(x) ==
  IF x.finalize # "none" \/ (x.mode = "cdp" /\ x.stopper # None) THEN x ELSE CleanedUp(x)

EndActive ==
  rec' = IF active = None THEN rec
         ELSE [rec EXCEPT ![active] = Ended([@ EXCEPT !.timer = FALSE])]

(* A variant of Settled: the end of a screencast is always that of its stop. *)
SettledByStop(r) ==
  r # None => IF rec[r].mode = "cdp" THEN rec[r].outcome # "none" ELSE rec[r].cleanup = "done"

(* When what ends a recording is over.                                      *)
Settled(r) ==
  r # None => IF rec[r].mode = "cdp" /\ rec[r].stopper # None
              THEN rec[r].outcome # "none"
              ELSE rec[r].cleanup = "done"

(* failTabCaptureRecording, without the resolution of a stop.               *)
MayFail(r) == ~rec[r].stopping
Failed(r) == [rec EXCEPT ![r] = CleanedUp(@)]
FailAndCancel(r) ==
  IF MayFail(r)
  THEN rec' = Failed(r) /\ Send(CancelOf(r))
  ELSE UNCHANGED <<rec, waiting, outbox>>
FailCapture(r) ==
  /\ FailAndCancel(r)
  /\ call' = IF MayFail(r) THEN Resolved(r, "fail") ELSE call

-----------------------------------------------------------------------------
(* startRecording, startReservedRecording and startCdpRecording.            *)
Start(c, want) ==
  /\ want \in {"auto", "cdp"} \cap Requests
  /\ call[c].pc = "idle" /\ connected /\ active = None /\ starting = None
  /\ Next1 \in Recording
  /\ starting' = c
  /\ call' = [call EXCEPT ![c].pc = IF want = "cdp" THEN "prepare" ELSE "mkdir",
                          ![c].want = want]
  /\ UNCHANGED <<active, rec, connected, socket, extension, now, bounds>>

MakeDirectory(c) ==
  /\ call[c].pc = "mkdir"
  /\ IF call[c].cancelled THEN Return(c, "fail") ELSE Await(c, "open", "none")
  /\ UNCHANGED <<active, rec, connected, socket, extension, now, bounds>>

OpenFile(c) ==
  /\ call[c].pc = "open"
  /\ \/ Fails /\ Return(c, "fail") /\ UNCHANGED <<active, rec, waiting, outbox>>
     \/ /\ Works
        /\ active' = Next1
        /\ rec' = [rec EXCEPT ![Next1] = [NoRecording EXCEPT !.mode = "tab", !.file = "partial"]]
        /\ call' = [call EXCEPT ![c].pc = "start", ![c].rec = Next1]
        /\ Send(Command("start", c, Next1))
        /\ UNCHANGED starting
  /\ UNCHANGED <<connected, inbox, extension, now>>

Armed(r) == [rec EXCEPT ![r].timer = TRUE]

IsStillStarting(c) == ~call[c].cancelled /\ active = call[c].rec

(* The extension's answer to recording.start.                               *)
StartAnswered(c, m) ==
  LET r == call[c].rec IN
  IF m.ok
  THEN IF IsStillStarting(c)
       THEN Return(c, "ok") /\ rec' = Armed(r) /\ UNCHANGED outbox /\ waiting' = waiting \ {m.to}
       ELSE /\ Await(c, "undo", "fail") /\ UNCHANGED rec
            /\ waiting' = (waiting \ {m.to}) \cup {Command("undo", c, r)}
            /\ outbox' = Append(outbox, Command("undo", c, r))
  ELSE /\ Await(c, "settle", IF m.grant /\ call[c].want = "auto" THEN "cdp" ELSE "fail")
       /\ EndActive /\ UNCHANGED outbox /\ waiting' = waiting \ {m.to}

(* The start command failed, or the command that undoes a start is over.    *)
StartRejected(c) ==
  /\ \/ call[c].pc = "start" /\ Rejected(Command("start", c, call[c].rec))
     \/ call[c].pc = "undo" /\ Rejected(Command("undo", c, call[c].rec))
  /\ Await(c, "settle", "fail") /\ EndActive
  /\ UNCHANGED <<active, connected, socket, extension, now, bounds>>

(* A call that awaited the end of a recording returns; a capture for want   *)
(* of a grant falls back to a screencast.                                   *)
Settle(c) ==
  /\ \/ call[c].pc = "settle" /\ Settled(call[c].rec)
     \/ call[c].pc = "cleaned" /\ rec[call[c].rec].cleanup = "done"
  /\ IF call[c].result = "cdp" /\ ~call[c].cancelled
     THEN Await(c, "prepare", "none")
     ELSE Return(c, IF call[c].result = "ok" THEN "ok" ELSE "fail")
  /\ LET r == call[c].rec IN
     rec' = IF r # None /\ rec[r].mode = "tab" /\ rec[r].stopper = c
            THEN [rec EXCEPT ![r].outcome = "fail"] ELSE rec
  /\ UNCHANGED <<active, connected, socket, extension, now, bounds>>

(* The page is brought to the front and measured.                           *)
PreparePage(c) ==
  /\ call[c].pc = "prepare"
  /\ \/ (call[c].cancelled \/ ~connected) /\ Works /\ Return(c, "fail")
     \/ Fails /\ Return(c, "fail")
     \/ ~call[c].cancelled /\ connected /\ Works /\ Await(c, "encoder", "none")
  /\ UNCHANGED <<active, rec, connected, socket, extension, now>>

StartEncoder(c) ==
  /\ call[c].pc = "encoder"
  /\ \/ Fails /\ Return(c, "fail") /\ UNCHANGED <<active, rec>>
     \/ call[c].cancelled /\ Works /\ Return(c, "fail") /\ UNCHANGED <<active, rec>>
     \/ /\ ~call[c].cancelled /\ Works
        /\ active' = Next1
        /\ rec' = [rec EXCEPT ![Next1] =
                     [NoRecording EXCEPT !.mode = "cdp", !.file = "partial", !.since = now]]
        /\ call' = [call EXCEPT ![c].pc = "cast", ![c].rec = Next1]
        /\ UNCHANGED starting
  /\ UNCHANGED <<connected, socket, extension, now>>

StartScreencast(c) ==
  LET r == call[c].rec IN
  /\ call[c].pc = "cast"
  /\ \/ /\ \/ (~connected \/ ~IsStillStarting(c)) /\ Works
           \/ Fails
        /\ rec' = [rec EXCEPT ![r] = CleanedUp(@)] /\ Await(c, "cleaned", "fail")
     \/ connected /\ IsStillStarting(c) /\ Works /\ rec' = Armed(r) /\ Return(c, "ok")
  /\ UNCHANGED <<active, connected, socket, extension, now>>

-----------------------------------------------------------------------------
(* stopRecording, by a client or by the timer of a recording: the caller    *)
(* joins a stop or a cleanup that is under way.                             *)
StopActive(c, recs) ==
  LET r == active IN
  \/ /\ recs[r].stopper # None
     /\ rec' = recs /\ call' = [call EXCEPT ![c].pc = "shared", ![c].rec = r]
     /\ UNCHANGED <<waiting, outbox>>
  \/ /\ recs[r].stopper = None /\ recs[r].cleanup # "none"
     /\ rec' = recs
     /\ call' = [call EXCEPT ![c].pc = "settle", ![c].rec = r, ![c].result = "fail"]
     /\ UNCHANGED <<waiting, outbox>>
  \/ /\ recs[r].stopper = None /\ recs[r].cleanup = "none" /\ recs[r].mode = "cdp"
     /\ rec' = [recs EXCEPT ![r].stopper = c, ![r].stopping = TRUE, ![r].timer = FALSE,
                            ![r].until = now]
     /\ call' = [call EXCEPT ![c].pc = "shared", ![c].rec = r]
     /\ UNCHANGED <<waiting, outbox>>
  \/ /\ recs[r].stopper = None /\ recs[r].cleanup = "none" /\ recs[r].mode = "tab"
     /\ rec' = [recs EXCEPT ![r].stopper = c, ![r].resolver = c]
     /\ call' = [call EXCEPT ![c].pc = "stop", ![c].rec = r]
     /\ Send(Command("stop", c, r))

Stop(c) ==
  /\ "stop" \in Requests /\ call[c].pc = "idle" /\ connected /\ active # None
  /\ StopActive(c, rec)
  /\ UNCHANGED <<active, starting, connected, inbox, extension, now, bounds>>

(* armMaxDuration: the timer of a recording stops the tab's active one.      *)
TimerFires(c, r) ==
  /\ call[c].pc = "idle" /\ rec[r].timer
  /\ LET recs == [rec EXCEPT ![r].timer = FALSE] IN
     IF connected /\ active # None
     THEN StopActive(c, recs)
     ELSE rec' = recs /\ UNCHANGED <<call, waiting, outbox>>
  /\ UNCHANGED <<active, starting, connected, inbox, extension, now, bounds>>

(* stopTabCaptureRecording: the extension has stopped, or could not; without *)
(* an answer the stop fails likewise.                                        *)
StopFails(c, recs) ==
  LET r == call[c].rec
      unresolved == [recs EXCEPT ![r].resolver = None] IN
  IF MayFail(r)
  THEN /\ rec' = [unresolved EXCEPT ![r] = CleanedUp(@)]
       /\ call' = [call EXCEPT ![c].pc = "settle", ![c].result = "fail"]
  ELSE /\ rec' = [unresolved EXCEPT ![r].outcome = "fail"]
       /\ call' = Returned(c, "fail")

StopAnswered(c, m) ==
  LET r == call[c].rec IN
  /\ UNCHANGED starting
  /\ IF m.ok
     THEN /\ call' = [call EXCEPT ![c].pc = "final"] /\ UNCHANGED <<rec, outbox>>
          /\ waiting' = waiting \ {m.to}
     ELSE /\ StopFails(c, rec)
          /\ IF MayFail(r)
             THEN /\ waiting' = (waiting \ {m.to}) \cup {CancelOf(r)}
                  /\ outbox' = Append(outbox, CancelOf(r))
             ELSE waiting' = waiting \ {m.to} /\ UNCHANGED outbox

StopRejected(c) ==
  /\ call[c].pc = "stop" /\ Rejected(Command("stop", c, call[c].rec))
  /\ StopFails(c, rec)
  /\ IF MayFail(call[c].rec) THEN Send(CancelOf(call[c].rec))
                             ELSE UNCHANGED <<waiting, outbox>>
  /\ UNCHANGED <<active, starting, connected, inbox, extension, now, bounds>>

StopReturns(c) ==
  /\ call[c].pc = "final" /\ call[c].final # "none"
  /\ call' = Returned(c, call[c].final)
  /\ rec' = [rec EXCEPT ![call[c].rec].outcome = call[c].final]
  /\ UNCHANGED <<active, starting, connected, socket, extension, now, bounds>>

(* Thirty seconds after the stop the recording's data is given up.           *)
StopTimesOut(c) ==
  LET r == call[c].rec
      unresolved == [rec EXCEPT ![r].resolver = None] IN
  /\ call[c].pc = "final" /\ call[c].final = "none"
  /\ call' = [call EXCEPT ![c].final = "fail"]
  /\ IF active = r /\ rec[r].cleanup = "none" /\ rec[r].finalize = "none"
     THEN rec' = [unresolved EXCEPT ![r] = CleanedUp(@)] /\ Send(CancelOf(r))
     ELSE rec' = unresolved /\ UNCHANGED <<waiting, outbox>>
  /\ UNCHANGED <<active, starting, connected, inbox, extension, now, bounds>>

SharedStopReturns(c) ==
  /\ call[c].pc = "shared" /\ rec[call[c].rec].outcome # "none"
  /\ call' = Returned(c, rec[call[c].rec].outcome)
  /\ UNCHANGED <<active, starting, rec, connected, socket, extension, now, bounds>>

-----------------------------------------------------------------------------
(* cancelRecording.                                                         *)
CancelStarting(c) ==
  /\ starting # None
  /\ call' = [call EXCEPT ![starting].cancelled = TRUE, ![c].pc = "starting",
                          ![c].want = "cancel", ![c].of = starting]
  /\ UNCHANGED <<rec, waiting, outbox>>

CancelActive(c) ==
  LET r == active IN
  /\ starting = None /\ active # None
  /\ \/ /\ rec[r].cleanup # "none" \/ rec[r].mode = "cdp" \/ rec[r].finalize # "none"
        /\ rec' = [rec EXCEPT ![r] = Ended(@)]
        /\ call' = [call EXCEPT ![c].pc = "settle", ![c].want = "cancel", ![c].rec = r,
                                ![c].result = "ok"]
        /\ UNCHANGED <<waiting, outbox>>
     \/ /\ rec[r].cleanup = "none" /\ rec[r].mode = "tab" /\ rec[r].finalize = "none"
        /\ rec' = Failed(r)
        /\ IF connected
           THEN call' = [call EXCEPT ![c].pc = "cancel", ![c].want = "cancel", ![c].rec = r]
           ELSE call' = [Resolved(r, "fail") EXCEPT
                           ![c].pc = "settle", ![c].want = "cancel", ![c].rec = r,
                           ![c].result = "fail"]
        /\ Send(CancelOf(r))

Cancel(c) ==
  /\ "cancel" \in Requests /\ call[c].pc = "idle"
  /\ CancelStarting(c) \/ CancelActive(c)
  /\ UNCHANGED <<active, starting, connected, inbox, extension, now, bounds>>

CancelledStartIsOver(c) ==
  /\ call[c].pc = "starting" /\ call[call[c].of].pc = "done"
  /\ call' = Returned(c, "ok")
  /\ UNCHANGED <<active, starting, rec, connected, socket, extension, now, bounds>>

(* The answer to a cancel command, or its failure, resolves the stop that    *)
(* waits for the recording.                                                  *)
CancelResult(r, result) ==
  [c \in Call |-> IF call[c].pc = "cancel" /\ call[c].rec = r
                  THEN [call[c] EXCEPT !.pc = "settle", !.result = result]
                  ELSE Resolved(r, "fail")[c]]

CancelAnswered(r, m) ==
  /\ waiting' = waiting \ {m.to}
  /\ call' = IF \E c \in Call : call[c].pc = "cancel" /\ call[c].rec = r
             THEN CancelResult(r, "ok") ELSE call
  /\ UNCHANGED <<rec, starting, outbox>>

CancelRejected(c) ==
  /\ call[c].pc = "cancel" /\ Rejected(CancelOf(call[c].rec))
  /\ call' = CancelResult(call[c].rec, "fail")
  /\ UNCHANGED <<active, starting, rec, connected, socket, extension, now, bounds>>

-----------------------------------------------------------------------------
(* abortRecordingForTab and cleanupAll: the tab has been detached, or the    *)
(* extension has gone.  The extension is not told.                           *)
AbortedCalls ==
  IF starting # None THEN [call EXCEPT ![starting].cancelled = TRUE]
  ELSE IF active = None \/ rec[active].finalize # "none" THEN call
  ELSE Resolved(active, "fail")

AbortedRecordings ==
  IF starting # None \/ active = None THEN rec ELSE [rec EXCEPT ![active] = Ended(@)]

-----------------------------------------------------------------------------
(* handleBinaryData.                                                        *)
Listens(r) == r # None /\ rec[r].mode = "tab" /\ ~rec[r].stopping

IsNext(r, m) == m.frame.number = rec[r].expected

HasRoom(r) == Len(rec[r].queue) < MaxPending

ReceiveFrame ==
  LET m == Head(inbox)
      r == active IN
  /\ connected /\ inbox # <<>> /\ m.kind = "frame"
  /\ inbox' = Tail(inbox)
  /\ \/ ~Listens(r) /\ UNCHANGED <<rec, call, waiting, outbox>>
     \/ /\ Listens(r) /\ (rec[r].error \/ ~IsNext(r, m) \/ (~m.final /\ ~HasRoom(r)))
        /\ FailCapture(r)
     \/ /\ Listens(r) /\ ~rec[r].error /\ IsNext(r, m) /\ m.final
        /\ rec' = [rec EXCEPT ![r].expected = @ + 1, ![r].stopping = TRUE,
                              ![r].timer = FALSE, ![r].finalize = "running"]
        /\ UNCHANGED <<call, waiting, outbox>>
     \/ /\ Listens(r) /\ ~rec[r].error /\ IsNext(r, m) /\ ~m.final /\ HasRoom(r)
        /\ rec' = [rec EXCEPT ![r].expected = @ + 1, ![r].queue = Append(@, m.frame)]
        /\ UNCHANGED <<call, waiting, outbox>>
  /\ UNCHANGED <<active, starting, connected, extension, now, bounds>>

(* handleRecordingCancelled.                                                *)
ReceiveCancelled ==
  /\ connected /\ inbox # <<>> /\ Head(inbox).kind = "cancelled"
  /\ inbox' = Tail(inbox)
  /\ IF active = None \/ rec[active].finalize # "none"
     THEN UNCHANGED <<rec, call>>
     ELSE EndActive /\ call' = Resolved(active, "fail")
  /\ UNCHANGED <<active, starting, connected, waiting, outbox, extension, now, bounds>>

(* An answer that is no longer awaited is dropped.                          *)
ReceiveAnswer ==
  LET m == Head(inbox) IN
  /\ connected /\ inbox # <<>> /\ m.kind = "answer"
  /\ inbox' = Tail(inbox)
  /\ \/ m.to \notin waiting /\ UNCHANGED <<rec, call, starting, waiting, outbox>>
     \/ /\ m.to \in waiting
        /\ \/ m.to.method = "start" /\ StartAnswered(m.to.of, m)
           \/ m.to.method = "stop" /\ StopAnswered(m.to.of, m)
           \/ m.to.method = "cancel" /\ CancelAnswered(m.to.rec, m)
           \/ /\ m.to.method = "undo" /\ waiting' = waiting \ {m.to}
              /\ UNCHANGED <<rec, call, starting, outbox>>
  /\ UNCHANGED <<active, connected, extension, now, bounds>>

CommandTimesOut ==
  \E q \in waiting :
    /\ Fails /\ waiting' = waiting \ {q}
    /\ UNCHANGED <<relay, connected, outbox, inbox, extension, now>>

-----------------------------------------------------------------------------
(* The chain of writes of a capture: each is of one chunk; a write that      *)
(* fails ends the recording, those behind it are still made.                 *)
WriteChunk(r) ==
  /\ rec[r].mode = "tab" /\ rec[r].queue # <<>>
  /\ LET written == [rec EXCEPT ![r].queue = Tail(@), ![r].chunks = Append(@, Head(rec[r].queue))]
         failing == [rec EXCEPT ![r].queue = Tail(@), ![r].error = TRUE] IN
     \/ Works /\ rec' = written /\ UNCHANGED <<call, waiting, outbox>>
     \/ /\ Fails
        /\ IF MayFail(r)
           THEN /\ rec' = [failing EXCEPT ![r] = CleanedUp(@)]
                /\ call' = Resolved(r, "fail") /\ Send(CancelOf(r))
           ELSE rec' = failing /\ UNCHANGED <<call, waiting, outbox>>
  /\ UNCHANGED <<active, starting, connected, inbox, extension, now>>

(* A variant of WritesAreOver: the chain of writes is not awaited.           *)
WritesNotAwaited(r) == rec[r].mode # "none"

(* finishTabCaptureRecording: when all is written the file is synced, closed *)
(* and renamed, and the stop gets its result; the cleanup follows.           *)
WritesAreOver(r) == rec[r].queue = <<>>

FinishCapture(r) ==
  LET over == [rec EXCEPT ![r] = CleanedUp([@ EXCEPT !.finalize = "over"])] IN
  /\ rec[r].finalize = "running" /\ WritesAreOver(r)
  /\ \/ /\ ~rec[r].error /\ rec[r].expected > 1 /\ Works
        /\ rec' = [over EXCEPT ![r].file = "published"] /\ call' = Resolved(r, "ok")
     \/ /\ \/ (rec[r].error \/ rec[r].expected = 1) /\ Works
           \/ Fails
        /\ rec' = over /\ call' = Resolved(r, "fail")
  /\ UNCHANGED <<active, starting, connected, socket, extension, now>>

(* cleanup removes the partial file, which the rename has taken away; the   *)
(* variant removes the output.                                              *)
RemovedOutput(file) == "gone"

Removed(file) == IF file = "published" THEN file ELSE "gone"

(* The end of a cleanup: the answer to its cancel command and the writes are *)
(* awaited, the partial file is removed, the tab is free.                    *)
CleanupEnds(r) ==
  /\ rec[r].cleanup = "running" /\ WritesAreOver(r)
  /\ rec[r].mode = "tab" => Rejected(CancelOf(r))
  /\ rec' = [rec EXCEPT ![r].cleanup = "done",
                        ![r].file = Removed(@)]
  /\ active' = IF active = r THEN None ELSE active
  /\ UNCHANGED <<starting, call, connected, socket, extension, now, bounds>>

-----------------------------------------------------------------------------
(* handleDebuggerEvent: a frame of the screencast gets its number on the     *)
(* output's timeline when it arrives.                                        *)
FrameNumber(x) == IF x.source = 0 THEN 0 ELSE now - x.since

ScreencastFrame(r) ==
  LET x == rec[r] IN
  /\ connected /\ active = r /\ x.mode = "cdp" /\ ~x.stopping /\ x.source < MaxChunk
  /\ rec' = [rec EXCEPT ![r] =
       IF Len(x.queue) >= MaxPending \/ x.error
       THEN [x EXCEPT !.source = @ + 1, !.dropped = @ + 1]
       ELSE [x EXCEPT !.source = @ + 1, !.queue = Append(@, FrameNumber(x))]]
  /\ UNCHANGED <<active, starting, call, connected, socket, extension, now, bounds>>

(* writeSourceFrame: the frame that is held is shown until the next one.     *)
Encoded(x, end) ==
  [x EXCEPT !.spans = Append(@, <<x.last, end>>), !.encoded = @ + 1]

(* A variant of Held: a frame with the number of the one that is held just   *)
(* replaces it.                                                             *)
HeldUncounted(x) ==
  LET n == Head(x.queue)
      rest == [x EXCEPT !.queue = Tail(@)] IN
  IF x.last = None \/ n = x.last THEN [rest EXCEPT !.last = n]
  ELSE [Encoded(rest, n) EXCEPT !.last = n]

Held(x) ==
  LET n == Head(x.queue)
      rest == [x EXCEPT !.queue = Tail(@)] IN
  IF x.last = None THEN [rest EXCEPT !.last = n]
  ELSE IF n = x.last THEN [rest EXCEPT !.coalesced = @ + 1, !.last = n]
  ELSE [Encoded(rest, n) EXCEPT !.last = n]

WriteFrame(r) ==
  LET x == rec[r]
      encodes == x.last # None /\ Head(x.queue) # x.last
      failing == [x EXCEPT !.queue = Tail(@), !.error = TRUE] IN
  /\ x.mode = "cdp" /\ x.queue # <<>>
  /\ \/ ~(encodes /\ x.cancelled) /\ Works /\ rec' = [rec EXCEPT ![r] = Held(x)]
     \/ /\ encodes /\ ((x.cancelled /\ Works) \/ Fails)
        /\ rec' = [rec EXCEPT ![r] = failing]
  /\ UNCHANGED <<active, starting, call, connected, socket, extension, now>>

(* finishCdpRecording: after the pending frames the last one is shown until  *)
(* the end, taken from a screenshot if there is none, and the encoder ends.  *)
End(x) ==
  LET elapsed == x.until - x.since IN
  IF elapsed > x.last + 1 THEN elapsed ELSE x.last + 1

FinishScreencast(r) ==
  LET x == rec[r]
      shown == IF x.last = None THEN [x EXCEPT !.last = 0] ELSE x
      over(y, outcome) == [y EXCEPT !.outcome = outcome, !.stopping = TRUE] IN
  /\ x.mode = "cdp" /\ x.stopper # None /\ x.outcome = "none" /\ WritesAreOver(r)
  /\ \/ /\ ~x.error /\ ~x.cancelled /\ (x.last # None \/ connected) /\ Works
        /\ rec' = [rec EXCEPT ![r] =
                     [over(Encoded(shown, End(shown)), "ok") EXCEPT !.file = "published"]]
     \/ /\ ~x.error /\ ~x.cancelled /\ Fails   \* the sidecar file could not be written
        /\ rec' = [rec EXCEPT ![r] =
                     [over(Encoded(shown, End(shown)), "fail") EXCEPT !.file = "published"]]
     \/ /\ \/ (x.error \/ x.cancelled \/ (x.last = None /\ ~connected)) /\ Works
           \/ Fails
        /\ rec' = [rec EXCEPT ![r] =
                     [over(x, "fail") EXCEPT !.cancelled = TRUE, !.file = "gone"]]
  /\ active' = IF active = r THEN None ELSE active
  /\ UNCHANGED <<starting, call, connected, socket, extension, now>>

-----------------------------------------------------------------------------
(* The extension: handleStartRecording, handleStopRecording and             *)
(* handleCancelRecordingForTab.  An answer without a connection is lost.     *)
Answer(q, ok, grant) == [kind |-> "answer", to |-> q, ok |-> ok, grant |-> grant]
Cancelled == [kind |-> "cancelled"]
Frame(r, final) ==
  [kind |-> "frame", final |-> final,
   frame |-> [of |-> r, number |-> recorder[r].next]]

Reply(ms) == inbox' = IF connected THEN inbox \o ms ELSE inbox

(* Commands are taken in order.  The answer to a start, and the end of a     *)
(* stop whose data has been sent, are under way before another is taken.     *)
IsPrompt(x) ==
  /\ x.state = "recording" => x.by = <<>>
  /\ x.state = "stopping" => x.data > 0

Takes(method) ==
  /\ outbox # <<>> /\ Head(outbox).method = method /\ outbox' = Tail(outbox)
  /\ \A r \in Recording : IsPrompt(recorder[r])

Records(r) == recorder[r].state = "recording" /\ ~recorder[r].cancelled

TakeStart ==
  LET q == Head(outbox)
      r == q.rec IN
  /\ Takes("start")
  /\ IF live # None
     THEN Reply(<<Answer(q, FALSE, FALSE)>>) /\ UNCHANGED recorder
     ELSE UNCHANGED inbox
          /\ recorder' = [recorder EXCEPT ![r] = [NoRecorder EXCEPT !.state = "starting", !.by = <<q>>]]
  /\ UNCHANGED <<relay, connected, waiting, live, owed, now, bounds>>

RecorderStarts(r) ==
  /\ recorder[r].state = "starting"
  /\ recorder' = [recorder EXCEPT ![r].state = "recording"] /\ live' = r
  /\ UNCHANGED <<relay, connected, socket, owed, now, bounds>>

AnswerStart(r) ==
  /\ recorder[r].state = "recording" /\ recorder[r].by # <<>>
  /\ Reply(<<Answer(Head(recorder[r].by), TRUE, FALSE)>>)
  /\ recorder' = [recorder EXCEPT ![r].by = <<>>]
  /\ UNCHANGED <<relay, connected, waiting, outbox, live, owed, now, bounds>>

(* No media stream, for want of a grant for the tab (while a recording       *)
(* number is left for the fallback) or otherwise.                           *)
RecorderFails(r) ==
  /\ recorder[r].state = "starting"
  /\ \E grant \in BOOLEAN :
       /\ grant => Next1 \in Recording
       /\ Reply(<<Answer(Head(recorder[r].by), FALSE, grant)>>)
  /\ recorder' = [recorder EXCEPT ![r].state = "over", ![r].by = <<>>]
  /\ UNCHANGED <<relay, connected, waiting, outbox, live, owed, now, bounds>>

(* The recorder pauses until the data it has is sent.                       *)
RecorderHasData(r) ==
  /\ Records(r) /\ recorder[r].data = 0 /\ recorder[r].next < MaxChunk
  /\ recorder' = [recorder EXCEPT ![r].data = 1]
  /\ UNCHANGED <<relay, connected, socket, live, owed, now, bounds>>

CancelLive == live' = None /\ recorder' = [recorder EXCEPT ![live].cancelled = TRUE]

(* Data is sent even when the recorder has been cancelled meanwhile; it      *)
(* waits for a connection.                                                  *)
SendChunk(r) ==
  /\ recorder[r].data > 0 /\ connected
  /\ Reply(<<Frame(r, FALSE)>>)
  /\ recorder' = [recorder EXCEPT ![r].data = @ - 1, ![r].next = @ + 1]
  /\ UNCHANGED <<relay, connected, waiting, outbox, live, owed, now, bounds>>

(* A stop makes the recorder give up the data it has, waits until it is      *)
(* sent, and then sends the final frame and its answer.                     *)
TakeStop ==
  LET q == Head(outbox) IN
  /\ Takes("stop")
  /\ IF live = None
     THEN Reply(<<Answer(q, FALSE, FALSE)>>) /\ UNCHANGED recorder
     ELSE /\ UNCHANGED inbox
          /\ \E rest \in 0..1 :
               /\ recorder[live].next + recorder[live].data + rest <= MaxChunk
               /\ recorder' = [recorder EXCEPT ![live].state = "stopping", ![live].by = Append(@, q),
                                               ![live].data = @ + rest]
  /\ UNCHANGED <<relay, connected, waiting, live, owed, now, bounds>>

RecorderStops(r) ==
  /\ recorder[r].state = "stopping" /\ recorder[r].data = 0 /\ connected
  /\ Reply(<<Frame(r, TRUE), Answer(Head(recorder[r].by), TRUE, FALSE)>>)
  /\ recorder' = [recorder EXCEPT ![r].by = Tail(@),
                                  ![r].state = IF Len(recorder[r].by) = 1 THEN "over" ELSE @]
  /\ live' = None
  /\ UNCHANGED <<relay, connected, waiting, outbox, owed, now, bounds>>

TakeCancel ==
  LET q == Head(outbox) IN
  /\ Takes("cancel") \/ Takes("undo")
  /\ IF live = None
     THEN Reply(<<Answer(q, TRUE, FALSE)>>) /\ UNCHANGED <<recorder, live>>
     ELSE Reply(<<Cancelled, Answer(q, TRUE, FALSE)>>) /\ CancelLive
  /\ UNCHANGED <<relay, connected, waiting, owed, now, bounds>>

RecorderError ==
  /\ live # None /\ Fails
  /\ Reply(<<Cancelled>>) /\ CancelLive
  /\ owed' = (owed \/ ~connected)
  /\ UNCHANGED <<relay, connected, waiting, outbox, now>>

-----------------------------------------------------------------------------
Event == mishaps < MaxMishaps /\ mishaps' = mishaps + 1

TabDetached ==
  /\ connected /\ Event
  /\ call' = AbortedCalls /\ rec' = AbortedRecordings
  /\ UNCHANGED <<active, starting, connected, socket, extension, now>>

(* Both ends give up what they do; the commands in flight are rejected.      *)
Disconnect ==
  /\ connected /\ Event
  /\ connected' = FALSE
  /\ call' = AbortedCalls /\ rec' = AbortedRecordings
  /\ waiting' = {} /\ outbox' = <<>> /\ inbox' = <<>>
  /\ IF live = None THEN UNCHANGED extension ELSE CancelLive /\ owed' = TRUE
  /\ UNCHANGED <<active, starting, now>>

Reconnect ==
  /\ ~connected
  /\ connected' = TRUE
  /\ inbox' = IF owed THEN <<Cancelled>> ELSE <<>>
  /\ owed' = FALSE
  /\ UNCHANGED <<relay, waiting, outbox, recorder, live, now, bounds>>

Tick ==
  /\ now < MaxTick /\ active # None /\ rec[active].mode = "cdp" /\ ~rec[active].stopping
  /\ now' = now + 1
  /\ UNCHANGED <<relay, connected, socket, extension, bounds>>

-----------------------------------------------------------------------------
Init ==
  /\ active = None /\ starting = None
  /\ rec = [r \in Recording |-> NoRecording]
  /\ call = [c \in Call |-> IdleCall]
  /\ connected = TRUE /\ waiting = {} /\ outbox = <<>> /\ inbox = <<>>
  /\ recorder = [r \in Recording |-> NoRecorder] /\ live = None /\ owed = FALSE
  /\ now = 0 /\ mishaps = 0

CallStep(c) ==
  \/ MakeDirectory(c) \/ OpenFile(c) \/ StartRejected(c) \/ Settle(c)
  \/ PreparePage(c) \/ StartEncoder(c) \/ StartScreencast(c)
  \/ StopRejected(c) \/ StopReturns(c) \/ StopTimesOut(c) \/ SharedStopReturns(c)
  \/ CancelledStartIsOver(c) \/ CancelRejected(c)

RecordingStep(r) ==
  WriteChunk(r) \/ FinishCapture(r) \/ CleanupEnds(r) \/ WriteFrame(r) \/ FinishScreencast(r)

Receive == ReceiveFrame \/ ReceiveCancelled \/ ReceiveAnswer

ExtensionStep ==
  \/ TakeStart \/ TakeStop \/ TakeCancel
  \/ \E r \in Recording : RecorderStarts(r) \/ AnswerStart(r) \/ RecorderFails(r)
                           \/ SendChunk(r) \/ RecorderStops(r)

Progress ==
  \/ \E c \in Call : CallStep(c)
  \/ \E r \in Recording : RecordingStep(r)
  \/ Receive \/ ExtensionStep \/ Reconnect

Environment ==
  \/ \E c \in Call : Stop(c) \/ Cancel(c) \/ \E want \in {"auto", "cdp"} : Start(c, want)
  \/ \E c \in Call, r \in Recording : TimerFires(c, r)
  \/ \E r \in Recording : RecorderHasData(r) \/ ScreencastFrame(r)
  \/ RecorderError \/ CommandTimesOut \/ TabDetached \/ Disconnect \/ Tick

Next == Progress \/ Environment

Spec == Init /\ [][Next]_vars
FairSpec == Spec /\ WF_vars(Progress)
-----------------------------------------------------------------------------

(* The output of a capture is every chunk that one recorder sent, in order:  *)
(* the sequence numbers keep out the chunks of another recorder of the tab,  *)
(* late or concurrent, and the rename waits for the writes.                  *)
IsWhole(r) ==
  \E g \in Recording :
    /\ recorder[g].state \in {"stopping", "over"} /\ recorder[g].next = Len(rec[r].chunks)
    /\ \A i \in DOMAIN rec[r].chunks : rec[r].chunks[i] = [of |-> g, number |-> i - 1]

PublishedIsWhole ==
  \A r \in Made : rec[r].mode = "tab" /\ rec[r].file = "published" => IsWhole(r)

(* It may fail only where a recorder has been cancelled while it stopped.    *)
ArtifactIsWhole ==
  (\A g \in Recording : recorder[g].state \in {"stopping", "over"} => ~recorder[g].cancelled)
    => PublishedIsWhole

(* A stop that succeeds has left the output in place, and no cleanup, cancel *)
(* or detach of the tab that raced it takes it away afterwards.              *)
StopLeavesTheOutput ==
  \A c \in Call : call[c].pc = "done" /\ call[c].rec # None
                   /\ rec[call[c].rec].outcome = "ok" =>
    rec[call[c].rec].file = "published"

(* A recording that still has a partial file, or writes to make, is the      *)
(* active one of its tab: it can be stopped and cancelled.                   *)
NoRecordingIsForgotten ==
  \A r \in Made : rec[r].file = "partial" \/ (rec[r].mode = "tab" /\ rec[r].queue # <<>>) =>
    active = r

(* The counters of a recording's receipt account for every compositor frame: *)
(* each was dropped, merged into another, encoded, is held or is pending.    *)
ReceiptsAddUp ==
  \A r \in Made : rec[r].mode = "cdp" /\ ~rec[r].error /\ rec[r].source > 0 =>
    LET held == IF rec[r].last # None /\ rec[r].file # "published" THEN 1 ELSE 0 IN
    rec[r].source = rec[r].dropped + rec[r].coalesced + rec[r].encoded + held + Len(rec[r].queue)

(* The encoded frames cover the output's timeline from its start to its end  *)
(* without a gap or an overlap.                                             *)
TimelineIsContiguous ==
  \A r \in Made : LET s == rec[r].spans IN
    /\ \A i \in DOMAIN s : s[i][1] < s[i][2] /\ s[i][1] = (IF i = 1 THEN 0 ELSE s[i - 1][2])
    /\ rec[r].mode = "cdp" /\ rec[r].outcome = "ok" =>
         s # <<>> /\ s[Len(s)][2] >= rec[r].until - rec[r].since

(* Every recording comes to an end that its caller was told of: see above.    *)
RecordingsAreResolved == StopLeavesTheOutput /\ NoRecordingIsForgotten

(* A screencast holds every frame it owes, at its time: see above.            *)
ScreencastsAreComplete == ReceiptsAddUp /\ TimelineIsContiguous

(* The extension records a tab only for a recording of the relay, or a       *)
(* command or an event is under way that will end it.                       *)
RecordersAreWanted ==
  live # None /\ connected /\ inbox = <<>> /\ outbox = <<>> /\ waiting = {} =>
    active # None /\ rec[active].mode = "tab"

(* Every call of a client returns.                                          *)
CallsReturn == \A c \in Call : call[c].pc # "idle" ~> call[c].pc = "done"
=============================================================================
