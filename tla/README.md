# BrowserRig: a formal model

BrowserRig lets agents drive a person's own Chromium browser. A client (the CLI,
an MCP client, a DSH plugin, or Playwright over CDP) talks to a local *relay*
process; the relay talks over one WebSocket to a *browser extension*; the
extension attaches `chrome.debugger` to tabs. This directory holds TLA+ modules
for the parts of that chain where order, interleaving and failure decide whether
it is right, the TLC configurations that check them, and proofs checked by TLAPS.

Contents: [the system](#the-system) ·
[modules](#what-is-modelled) · [runs](#what-the-runs-check) ·
[findings](#where-the-code-and-its-documents-disagree) ·
[fairness](#fairness) · [proofs](#what-is-proved) ·
[limits](#what-is-not-modelled-and-why) · [plan](#plan) · [how to run](#how-to-run)

## The system

### Components

Paths are relative to the repository's root. "State" is what outlives one call.

| Component | Source | State | Operations |
| --- | --- | --- | --- |
| Target registry | `src/target-registry.ts` | the root of each tab under three keys (tab, CDP session, Chrome target id), staged roots, children under two keys, frame events, pending ownership reservations | add, stage, commit, update, detach a root; attach, detach a child; reserve, roll back, commit, release an owner |
| Session lifecycle | `src/session-manager.ts`, `src/session-catalog.ts` | sessions by id with their target pointer, a permit per session and one for adoptions, a chain of catalog writes, admission | create, execute, adopt, reset, delete, restore, drain, resume, close |
| Root lifecycle | `src/relay.ts` | extension generation, per-tab revision, per-tab semaphore and worker, announced and failed tabs | hello, inventory, ready, attach, reconcile, toggle, create, detach, replace |
| Execute sandbox | `src/execute.ts` | a Playwright connection, the session's page and its target, flags of its health | connect, run, adopt, reset, recreate, close |
| CDP clients | `src/cdp-*.ts`, `src/protected-frames.ts` | connected clients, what each was told, aliases, restricted frames, the recovery of `Runtime` | connect, route a command, announce, retract |
| Handoff | `src/handoff.ts`, `relay.ts` | one handoff per session, its timer, its control in the page | begin, start an action, complete, cancel, expire, rebind |
| WebMCP | `src/webmcp.ts` | the tools of a page, pending calls, early answers | follow, list, call, cancel, dispose |
| Tab groups | `relay.ts`, `extension/src/background.ts`, `tab-groups.ts` | a worker per tab, a promise chain per tab | group, ungroup, reconcile |
| Extension connection | `src/extension-rpc.ts`, `relay.ts`, `background.ts` | the socket slot, pending requests, a liveness probe, a generation | hello, replace, send, answer, time out, disconnect |
| Recordings | `src/recording-relay.ts`, `extension/src/offscreen.ts` | the active and the starting recording of each tab, its file, write chain, counters; a `MediaRecorder` per tab | start, stop, cancel, frames, finalise, clean up |
| Network capture | `src/network-capture.ts` | bounded buffers, finalizers | start, bind, record, stop, cancel |
| Authentication profiles | `src/auth-profile.ts`, `src/network-redaction.ts` | a file of credentials, its lock file | collect, merge, write, remove |
| Relay process | `src/relay-lifecycle.ts`, `src/relay-work.ts`, `src/http-api.ts` | the port, accepted work, the catalog | find, start, drain, hand over, exit |
| Page requests | `src/browserrig-client.ts`, `src/authenticated-origin.ts` | none of their own | send, check, answer |
| DSH adapter | `src/dsh-adapter.ts`, `src/dsh-session-map.ts` | a map of sessions and its lock file | run, adopt, reset, close |
| Issue reports | `src/issue-report.ts` | a file per problem, a lock file | record, submit |
| Release publication | `scripts/finalize-github-release.ts`, `scripts/publish-chrome-web-store.ts` | none: GitHub, npm and the store keep it | choose, draft, upload, submit, publish |
| Fronts, journal, formats, schemas, overlays | `src/cli.ts`, `src/mcp*.ts`, … | little | parse, call, format, append |

`PROJECT.json` lists every part with its status and the reason.

### How they interact

```text
 CLI / MCP / HTTP / DSH        Playwright over CDP
        |                              |
   (relay process: port, drain)        v
        v                         cdp-router, cdp-client-pool
 session-manager --ownership--> target-registry <--roots, children-- relay.ts
   |         |                                                        |
 catalog   execute.ts -- page, handoff, WebMCP, capture     recordings, groups
 (file)                                                               |
                                                  extension-rpc (one socket)
                                                                      |
                                            background.ts -- offscreen.ts -- Chrome
```

* The **session lifecycle** calls the registry directly (reserve, roll back,
  commit, release) and is called back by the relay when a target is detached or
  replaced; an attachment in the relay reads a session's pointer first
  (`persistedTargetOwner`) and commits it as the owner several messages later.
* The **execute sandbox** of a session is a Playwright client of the same relay: it
  learns of its page through CDP, and of its end also by a direct call.
* The **root lifecycle** is driven by messages of the extension, by clients
  (create a page, attach the active tab) and by the user (toolbar, closing tabs).
  Its commands go through the **extension connection**, which rejects all of them
  when the socket goes.
* **CDP clients** hear of every change of a root, of its owner and of the targets
  inside it, and see those they may.
* **Recordings, groups, handoffs** are called by clients, and by the relay when a tab
  is detached, replaced or released or the extension is lost.
* Files are shared by *processes*: catalog (one relay at a time), credentials, the
  DSH map, issue reports (several, under lock files).

Everything in the relay runs on one JavaScript thread: code between two `await`s
is atomic, and a continuation of a settled promise runs before the next message or
timer. The modules use exactly that granularity.

### What is hard

* *Interleaving*: between any two awaits other operations, messages and timers
  run. Facts read before an await (owner, generation, revision, the active
  recording, the page of a session) may be stale after it.
* *Order*: one FIFO socket carries answers, events and binary frames; late
  answers arrive after the thing they are about is gone.
* *Replacement*: Chrome swaps the page under a tab and reports it by an ambiguous
  detach; a new root *generation* is staged next to the old one.
* *Failure in the middle*: a catalog write, a debugger command, a write of a
  recording, a request to the store may fail after other state has been changed.
* *Loss of the peer*: the extension's worker is killed or reconnects; the relay is
  replaced by a newer one; a release job dies; a lock's owner crashes.
* *Things that never answer*: a page, an action a script started, a finalizer, `gh`.

### What makes each component correct

* Registry: its indexes agree; ownership is exclusive, follows a replaced page,
  and an adoption is all or nothing; children go with their root.
* Sessions: the catalog can always be restored; a drained relay has saved what it
  has; a session owns the attached page it points at.
* Roots: what clients see is what the debugger is attached to; ready means the
  whole inventory is visible; the connection recovers.
* Sandbox: a script gets the session's page, and no page that holds something is closed.
* CDP clients: no restricted frame and no ended target stays with a client.
* Handoff: it is ended by its own control, nothing runs on behind it, it ends.
* WebMCP: each answer reaches its call; handles stand for tools the page has now.
* Groups: a tab is in the group exactly while a session owns it, unless its user moved it.
* Connection: an answering browser is not replaced; answers keep to their generation.
* Recordings: a published file is one recording, complete and in order; a receipt
  adds up; every call returns; nothing is left behind on either side.
* Capture and profiles: every request is accounted for; a reference keeps its credential.
* Relay process: sessions that were reported survive; accepted work is finished.
* Page requests: what was told as refused has not happened.
* DSH map: the session that answered stays. Issue reports: one file and one issue each.
* Release: what is public is whole and in the store.

## What is modelled

| Module | About | Lines of the code |
| --- | --- | --- |
| `TargetOwnership` | *abstract*: what ownership of a page promises | the contract of `TargetOwnership` in `target-registry.ts` |
| `TargetRegistry` | every operation of the registry | `target-registry.ts` |
| `TargetRegistry_proofs`, `NetworkCapture_proofs`, `Handoff_proofs`, `CdpClients_proofs`, `SessionLifecycle_proofs` | theorems about the module each is named after | |
| `Builds_proofs` | theorems about `Release` and `RelayProcess` | |
| `TabHelpers_proofs` | theorems about `WebMcp` and `TabGroups` | |
| `Helpers_proofs` | theorems about the other parts of `Helpers` | |
| `SessionLifecycle` | sessions, permits, adoption, catalog, drain | `session-manager.ts`, `session-catalog.ts` |
| `RootLifecycle` | handshake, attachments, workers, detaches | `relay.ts` |
| `RecordingRelay` | recordings at both ends of the socket | `recording-relay.ts`, `offscreen.ts` |
| `SessionPage` | the page of a session's sandbox | `execute.ts` |
| `CdpClients` | what CDP clients see and are told | `cdp-*.ts`, `protected-frames.ts`, `relay.ts` |
| `RelayProcess` | the relay as a process that others find, start and replace | `relay-lifecycle.ts`, `relay.ts`, `relay-work.ts`, `http-api.ts` |
| `NetworkCapture` | a capture and its limits | `network-capture.ts` |
| `Handoff` | a human handoff, from script to page and back | `handoff.ts`, `relay.ts`, `execute.ts`, the content script |
| `WebMcp` | tools of a website | `webmcp.ts`, `execute.ts`, `relay.ts` |
| `TabGroups` | the visible group of a tab | `relay.ts`, `background.ts`, `tab-groups.ts` |
| `ExtensionLink` | the sockets of several browsers | `extension-rpc.ts`, `relay.ts`, `background.ts` |
| `PageRequests` | requests in the user's page | `browserrig-client.ts`, `authenticated-origin.ts`, `execute.ts` |
| `DshAdapter` | sessions of DSH agents | `dsh-adapter.ts`, `dsh-session-map.ts` |
| `AuthProfiles`, `IssueReports` | two stores of files | `auth-profile.ts`, `network-redaction.ts`; `issue-report.ts` |
| `StoreLock` | the lock file that both use | `withLock`, `withIssueStoreLock` |
| `CurrentSession`, `SessionStore` | the session used by default, in the MCP server and in the CLI's file | `mcp.ts`; `cli.ts`, `session-store.ts` |
| `Release` | publication of a candidate | `finalize-github-release.ts`, `publish-chrome-web-store.ts` |
| `Helpers` | the ten small modules, put together | |
| `MC…` | symmetry sets, bounds and model values for TLC; `MCTabs` puts `Handoff` and `RootLifecycle` together | |

`Helpers` puts ten parts that share nothing (`SessionPage`, `WebMcp`,
`PageRequests`, `TabGroups`, `DshAdapter`, `IssueReports`, `ExtensionLink`,
`AuthProfiles`, `CurrentSession`, `SessionStore`) together: a behaviour belongs to
one of them, chosen at first, and the variables `x1` … `x10` are those of that part. The proofs are about
`Helpers`, for all constants; `MCHelpers` gives it the constants of one run. `MCTabs` does the same with `Handoff`
and `RootLifecycle`. `PROJECT.json` maps every
definition to the lines it stands for.

### TargetRegistry and TargetOwnership

The variables are the maps of the class, one for one: `tabTargets`, `targets`,
`targetsByTargetId`, `stagedRootTargets`, the two child maps, `tabFrameEvents`,
`pendingOwnershipReservations`; `adoption` is the object that `adopt` keeps
between its reserve and its commit or rollback. A CDP session is a number handed
out by the relay, so it is also the identity of a generation. `HomeTab` fixes the
tab of a Chrome target id: Chrome gives an id to one tab. Every method is one
action, since none of them awaits. The recursion of `detachChildTargetState` is
the least set of children closed under "parent".

`TargetOwnership` knows no tabs, indexes, staging or children: a generation has a
settled owner; at most one claim is in flight; a replaced page passes its owner
on, never a claim. `ImplementsOwnership` is the refinement: the settled owner of a
generation with a pending reservation is the *previous* owner of the reservation,
and the claim is the reservation.

### SessionLifecycle

A *fiber* is one admitted operation. Its `pc` names the await it stands at: the
adoption permit, the session's permit, the catalog write, the closing of a relay
page, the resolution of the target, the running script. An operation that waited
re-checks its session when it goes on (`findActive`), a caller's timeout cancels
an adoption while its worker runs on (`CancelAdopt`), and each failure path is a
disjunct. `Wake` settles promises; a woken fiber runs before anything else
(`Quiet`). `queue` is the chain of catalog writes: each entry holds the catalog as
captured *when it was scheduled* and the fibers that await it. `SaveCatalog` and
`FailSave` take the head; a failed save may still have replaced the file, as a
failure after `rename` does.

Of the registry a target keeps its owner and the running adoption's reservation
with its currency, the two things the sessions read. `BeginAttach`/`CommitAttach`
are the read and the write of `attachTabUnlocked`, several messages apart.
Sessions start as restored from any catalog that restore accepts.

`admission`, `drained`, `BeginDrain` … `CloseAll` are the hand-over to another
relay: refuse new work, wait for accepted work and the write chain, then close.

### RootLifecycle

The two sides of the handshake and the calls of the relay, one socket between
them. The relay's captured `generation` and `revision` numbers are kept as "still
current" flags which a hello or a detach clears; the per-tab semaphore is an
object with an identity, so that a call which holds a deleted semaphore and one
which made its successor can both run. A worker is a call that loops: its
`pending` flag is what coalesced requests set, and it retries twice. `Answer` has
the outcomes the extension's handler and `chrome.debugger` allow in the tab's state;
`FailCommand` is a command that fails for any other reason or times out.
Commands that follow one another with no decision between them are one exchange.

### RecordingRelay

One tab. `rec` numbers its recordings; a *call* is a client's start, stop or
cancel, or the stop by a maximum-duration timer, with its own `pc`. `outbox` and
`inbox` are the socket. The fields of a recording are the fields of the class:
`stopping`, `finalize` (`finalizePromise`), `cleanup` (`cleanupPromise`),
`stopper` (`stopPromise`), `resolver` (`resolveStop`), `timer`, the write chain.
The extension's recorder has the number its chunks carry on the way out; the
chunk's true origin travels with it as history, so that a mixed file can be told
from a whole one: the wire format has no such field. A screencast's frames get their
place on the output's timeline from the clock `now`, counted in frame intervals.
The encoder is an object that accepts frames until it is cancelled or fails.

### SessionPage

`sandbox` is the `ExecuteSandbox`: the browser it connected, its page (a connection
and a target), default target, owner and flags. `op` is the one operation that holds
the execute permit, with the locals it keeps across awaits; `link` is the Playwright
connection, which drops at any time; `pointer` is the session's target in the
manager. The relay's direct calls (`markTarget…`) and Playwright's events about the
same change come apart, in either order. The target id of a new page may not be found in time, on a
live page too (`resolvePageTargetId`). A page that is being closed for
disposal (`closing`) remembers what the sandbox saw of it when it decided.
Assumed: a lost connection takes its pages without a close event. The explicit
selection of a target by a command is an adoption, modelled in `SessionLifecycle`.

### CdpClients

Roots, staged roots and owners as the relay's maps have them; `told`, `seen` and
aliases are what each client has been told, on each connection. `job` is a command of a
client that waits for the browser (attach, a recovery of `Runtime.enable`), with what
it held when it began. A restricted document is one that `protected-frames.ts`
recognises. Assumed: target ids belong to one tab; root sessions are never used
again; targets inside pages nest two deep. The three maps of announcements are one
set; `seen` has frames shown by the relay's events, and by the replay of events the relay has stored,
which a `Target.setAutoAttach` on a page leads to (`Replay`): it comes after an await and asks nobody
again who may see the page (`relay.ts:1358-1359`, `cdp-shims.ts:134-148`).

### RelayProcess

Client commands, relay processes and what is on disk. A client's `pc` is the request it
waits for; requests are answered by the relay that holds the port when they arrive,
and the client acts later. A relay goes from binding the port over loading the
catalog to serving, draining (admission closed, handlers, scripts, background
work, commands to the browser, then the write chain) and closing. The last write may fail, which
`cleanup` ignores (`relay.ts:730`): `DrainFails` loses what it would have written. One session
stands for the catalog. A crash is a killed process or a fault while loading. A slot
of `Relay` is used again when nobody remembers who had it. What makes a client give
up waiting is not timed.

### NetworkCapture

`active` is the `ActiveCapture`; `entry` the pending object of a request; `bound` the
page whose events count, with the epoch that old events are told by. A finalizer asks
the browser three things in turn and may never hear of one. A stop waits for
finalizers or gives up on them; what finishes later must find that the capture
has been left. Body sizes are units.

### Handoff

One tab, from request to end: registration, the control shown by the content
script, the action started only when the control is there, click, timeout, the end
of the execute, a lost socket, a new target (`rebind`), and the status the page shows
afterwards. `down` and `up` are the queues to and from the content script, which
lose what reaches a page whose script is not loaded. `crowded` marks a handoff
while another session uses the tab. A script awaits its handoffs; an action settles
after a click; `browser.close` settles.

### WebMcp

A frame declares one tool at a time, on one of two channels (the main page's and that of a
frame in another process); a registration number stands for tool and document. The frame around
each frame is a constant: a navigated or detached frame takes the tools of those inside it along, as far as the
object has heard of them (`Family`). A tool that needs confirmation is called inside a handoff (`confirming`);
one that ends before its call, by its timeout or a cancellation, disconnects the sandbox, which disposes the
object and waits for the call no longer (`HandoffLeaves`). Such a call is `left`, and may outlive its execute. Events and answers are on one `wire`, in order; a command's continuation runs
later. `object` is the `WebMcpSession`, disposed and made again, by whoever asks for the tools next; `hasty`
are the registrations it heard of before it disabled the domain, and enabled it again; `told` what the last report
told the caller. A page may never answer. Schemas are data.

### TabGroups, ExtensionLink

`TabGroups`: the relay's worker keeps the latest intent and one command in flight; the
extension runs a tab's commands one by one, with the awaits inside each, bound to the
connection it came on; a pass after each handshake takes out tabs it does not
debug; the user moves tabs. Attachment is atomic here, and Chrome's group calls succeed.
`overtaken` marks that active-tab attachment sent its own command while an older
intent waited, which the property leaves out. `chrome.debugger.detach` and the queueing of the ungroup
that follows it (`background.ts:271-278`) are one step: commands that overtake a detach in between, and a connection
lost during it, are left out.

`ExtensionLink`: browsers whose workers sleep, die and wake, or stop answering
(`deaf`); sockets that both ends close at different times; the relay's slot, probe
and generation; commands that wait for the socket they went out on. A command is of an operation, or
reconciles a root of the inventory; `Settle` is what a ready message waits for: with a failed reconciliation the
relay closes the socket of its browser, although it answers, as it does on an invalid frame
of a recording (`ReadInvalidFrame`). A browser that answers does so within the probe's ten seconds. The `catch` at
`relay.ts:938-940`, for an exception in settling itself, closes the socket too and is left out.

### PageRequests, DshAdapter

`PageRequests`: a request holds the session's permit, is checked against the page's
origin before and in the page, may reach the server at any later time, and its answer
may be lost (`lost`, left out where the outcome is unknown to everyone). What the client tells
its caller is `told`.

`DshAdapter`: calls of an agent session are in a chain per key; the map is read, changed
and replaced under a lock with a token and an age; the command-line program may fail before
or after the relay did its work. An agent session lives in one process at a
time. A directory sync that fails after the rename is a `SaveFails` that replaced the
file. `taken` marks a lock removed under an owner at work.

### AuthProfiles, IssueReports, StoreLock

`StoreLock` is the lock of both stores: created exclusively, without a token, removed
when it looks a minute old, and removed by an owner who leaves, be it its own or not;
looking at the age and removing are two steps. `taken` marks the first removal
under an owner at work. `AuthProfiles` is the stop of a capture: read, collect, write the profile,
then the artifact. `IssueReports` is `recordIssueReport`: count under the lock, ask
GitHub without it, write the outcome under the lock; a crash anywhere; `gh` with its
outcomes (`runGh`).

### CurrentSession, SessionStore

`CurrentSession` is the current session of the MCP server: every tool reads it before
its request and writes it after the answer, while other calls of the agent, and other users of
the relay, do the same. Sessions of one id in turn have numbers. A call is `alone` until another is answered
between the moment it reads which session is current and its own answer; calls may overlap. What is left out
of the property: a call during which another was answered may tell of a recreated session wrongly; a
`network_start` whose session another call has left can call another id's session established (`astray`);
`network_start` and `session_adopt` make a session again without a word, and so nobody tells of a session that
another user of the relay, or a call that failed later, has made again.
`SessionStore` is the file in which CLI commands keep the current session of each endpoint. It is
read, changed and written without a lock, and opening it truncates it: two commands can lose one
another's entry, and a command that is killed while it writes leaves a file nobody can decode. No
property claims otherwise; what is checked is that an entry never names another endpoint's session.

### Release

`artifact` is what workflow runs retained, `npm`, `release`, `tag`, `store` the state of
the services, `job` the running job with what it has read. A job is a chain of
requests; `JobFails` ends it between any two. `Interfere` is a maintainer who tags, adds
a file or a second release, cancels a submission, or a store that warns. Assumed: tags are not moved once they are pushed; an
upload replaces one in progress; nobody else replaces the store's package between upload
and publication; one job at a time (the workflow's concurrency group).

### Conventions

* Bounds (`MaxEvents`, `MaxFailures`, `MaxSession`, `MaxPage`, `MaxRecording`, …) are
  constants used in guards and named where they are declared.
* History variables (`steady`, `taken`, the origin of a chunk) are read by properties only.
* Operators that a comment marks as a *variant* are plausible mistakes in the
  definition they precede (a dropped check, an off-by-one, a missing wait). No
  specification uses them. For each property `PROJECT.json` names the variant that
  makes it fail, as evidence that the property says something about the code.

## What the runs check

| Run | Configuration | Instance | Distinct states |
| --- | --- | --- | --- |
| `registry` | `MCTargetRegistry.cfg` | 2 tabs, 3 target ids, 2 sessions, 2 children, 2 generations | 66,788 |
| `sessions_durability` | `MCSessionLifecycle.cfg` | 1 session id, 2 pages, 2 operations at a time, 1 failing write | 2,630,138 |
| `sessions_owners` | `MCSessionLifecycleOwners.cfg` | 2 session ids, 1 page, 2 operations, 1 event | 1,587,944 |
| `tabs` | `MCTabs.cfg`, fair | 2 sessions, 2 handoffs, 2 targets, 4 events; or 1 tab, 3 calls, 2 events, 1 failing command | 704,057 |
| `recordings` | `MCRecordingRelay.cfg`, fair | 2 calls, 2 recordings, 2 chunks, 1 mishap | 186,633 |
| `recordings_orphan` | `MCRecordingRelayOrphan.cfg` | 2 calls, 1 recording, 1 mishap | *violation* |
| `capture` | `MCNetworkCapture.cfg`, fair | 3 requests, 2 workers, 2 bindings, 3 operations | 1,258,063 |
| `release` | `MCRelease.cfg`, fair | 2 runs, 2 versions, 2 files, 1 lost job, 1 interference | 548,554 |
| `processes` | `MCRelayProcess.cfg`, fair | 2 commands of 2 builds, 2 relays at a time, 1 crash | 712,291 |
| `clients` | `MCCdpClients.cfg` | 2 clients, 2 tabs, 3 roots, 1 frame, 1 popup, 3 events | 2,622,805 |
| `clients_owners` | `MCCdpClientsOwners.cfg` | as `clients` | *violation* |
| `helpers` | `MCHelpers.cfg` | ten parts, below | 3,552,651 |

**registry.** `IndexesAgree`: the three root indexes hold the same records.
`PendingIsTheReservation`: a provisional owner exists exactly while the adoption
holds its reservation and the generation lives. `ReplacementKeepsStagedSubtree`: a
commit keeps exactly the children below the new generation, at any depth.
`ImplementsOwnership`: the refinement.

**sessions.** `SettledSessionsAgree`: when a drain completes, the file is what the relay
has, in spite of events that schedule writes while it waits and of writes that
fail (`DrainedIsDurable`); and with no work left, a session owns the attached page it points
at, whatever adoptions, timeouts, detaches and replacements interleaved
(`PointerIsOwned`). The two runs are narrow where they are large: `sessions_durability` has one session id and no
events, `sessions_owners` has events but one page; the theorem `SettledSessionsAlwaysAgree` is for any number of
each, attachments that commit a late owner included. `CatalogIsRestorable`: the file never names a page twice, in which case
the next relay would refuse to start. The last two are claims about behaviours in
which no catalog write has failed; see [below](#where-the-code-and-its-documents-disagree).

**tabs**, the roots. `RootsAreLive`: when nothing is under way, each root shown is a page the
debugger is attached to, with the page's present id, in behaviours without a failed
command: `debugger.detach` may fail after the extension has detached
(`relay.ts:1502`) and then the root stays. `InventoryIsVisible`: at the moment of
ready, every tab of the inventory that has stayed attached has a root.
`EventuallyReady`: after any lost connection or rejected inventory the connection
becomes ready again.

**tabs**, the handoffs. `HandoffsKeepToTheirExecute`: an action of a handoff does not act after its
execute; a handoff is resolved by a click on its own control only. `ControlIsShown`: with
nothing under way, the page shows the control of a waiting handoff, over navigations and
replaced targets, and no control of one that ended. `HandoffsEnd`: every handoff ends.

**recordings.** `ArtifactIsWhole`: a published capture is all chunks of one
recorder, in order, as long as no recorder has been cancelled while it was stopping.
(Without that premise it fails: frames carry a tab and a number but no
recording, so when a stop times out, a new recording starts, and the old recorder's
chunks arrive late, they can match the new recording's numbers.)
`RecordingsAreResolved`: a stop that reported success has left its file, whatever
raced it, and whatever has a partial file or writes to make can still be stopped and
cancelled. `ScreencastsAreComplete`: every compositor frame is dropped, merged, encoded,
held or pending, once, and the encoded frames cover the output without hole or overlap.
`CallsReturn`: every start, stop and cancel returns, under a failure, a detach or a lost
connection at any point. `RecordersAreWanted` is the violated property of
`recordings_orphan`.

**capture.** `CaptureIsAccounted`: every request the recorder took is an entry, is pending,
or was counted as dropped, also while finalizations of a stop that gave up still
answer; the report is what was written; bodies, entries and ids keep to their limits.
`OperationsReturn`: a stop or a cancel returns although finalizations hang.

**release.** `ReportedReleaseIsWhole`: a release reported as made has the candidate's files,
under a tag of its commit. `PublicIsInStore`: it is public only when the store has
its extension. `ReleasesAdvance`: no version is submitted twice or after a later one, and
the newest candidate is released in the end unless someone interferes or the store refuses.

**processes.** `ReportedSessionsSurvive`: a session a client was told of is in the catalog,
and in the relay that serves, until a client deletes it. `AcceptedWorkIsFinished`: a relay
that closes has no accepted request, background work, browser command or unsaved
catalog left (`skills/browserrig/SKILL.md`: "Replacement waits for already accepted browser
and recording cleanup work"). `OnlyOlderRelaysStop`: a client stops none but a managed
relay of an older build, although the relay it confirmed may have been replaced
before its request arrives. `PortIsUsable`: no relay holds the port for ever without serving.

**clients.** `RestrictedFramesStayHidden`: a frame that shows a restricted document stays
with no client, in whatever order its attachment, navigations and target are
reported. `ClientsKnowTheLiving`: what a client was told of targets inside pages exists, and
aliases stand for what is there. `FramesAreShownToViewers`: a frame is shown only to a client
that may see its page at that moment, but by a replay: that shows a frame of the page's own targets to
a client that asked when it might see the page, and perhaps may no longer. `ResetsStayInTheirGeneration`: a recovery of
`Runtime.enable`, or its reset for nobody, is sent to the page it was meant for.
`SessionTargetsAreItsOwn` is the violated property of `clients_owners`.

**helpers**, ten parts:

* `SessionPage` (2 connections, 2 operations, 3 targets): `PageIsTheSessions`: the sandbox
  closes no page that holds something or that it did not open, and between operations
  the manager's pointer names its default target. `ScriptsGetTheSessionPage`: a script is
  handed the page of that target, never one replaced or detached during its setup.
* `WebMcp` (3 frames, 2 calls, 2 executes): `CallsAreAnswered`: a call gets the answer of its
  own invocation, none waits on after its answer came, none outlives its execute but one whose
  handoff ended before it, and that one waits for nothing of the page.
  `ToolsAreCurrent`: handles stand for tools the page has now, in an object made again too (but for a tool heard of
  before the domain was disabled), and "unchanged" is said only to a caller who was told.
* `PageRequests` (a mutation, a read, 4 choices): `RequestsKeepTheirWord`: a mutation reported as
  refused or not done does not happen; no document of another origin sends a
  request; no capture begins during a sensitive one.
* `TabGroups` (2 connections, 3 choices): `GroupFollowsOwnership`: with nothing under way, a tab that
  nobody attaches is in no group of ours, and one that a session owns is in it.
* `DshAdapter` (2 agents, 3 calls, 3 faults): `AnsweredSessionIsKept`: the session in which an
  agent was answered stays its session while the relay has it.
* `IssueReports` (3 reports, 1 fault): `ProblemsAreFiledOnce`: a problem has one file that counts
  its reports, and one issue at most, which its file knows of.
* `ExtensionLink` (3 browsers, 2 awake at a time, 3 sockets, 1 fault): `LinkHolds`: a command waits only on the
  socket that serves, and its answer is of its generation; a worker that is awake has a
  socket or a timer. `AnsweringBrowserKeepsTheRelay`: no other browser takes the relay from
  one that answers, and the relay hangs up on it only for an inventory it cannot reconcile or a broken frame.
* `AuthProfiles` (2 captures, 2 credentials each, 1 fault): `ReferencesKeepTheirCredential`.
* `CurrentSession` and `SessionStore`: `CurrentSessionsAreTheirs`: the MCP server says that a
  session was made again exactly when the call has done it, unless another call was answered meanwhile, and
  knows an established session by its number; a command that names no session works in one that was made current at its own endpoint.

`AnsweredSessionIsKept`, `ProblemsAreFiledOnce` and `ReferencesKeepTheirCredential` leave out
behaviours in which a lock, or a profile, was removed under an owner at work.

### Why the bounds are enough

The hazards need few actors: a page and its successor (two generations), two
operations that race (a third brings only waiting for the same permits), one event
between two awaits. `MaxSession` is not a limit on the operations but on the session
objects alive at a time; `MaxEvents`, `MaxFailures` and their like bound how many
faults one behaviour contains, at any points of it. Three calls of the roots are the worker of
a tab, a client's call and a toggle. Two calls of a recording are a start and
the stop, cancel or second start that races it, beside the stop by a timer. A capture
needs a request that is being finalized, one that waits and one over the limit. Two
runs of the release workflow are two versions or one version built twice, staged or, for a build of before
staging, damaged; the proofs of `Release` hold for every origin a candidate can have. In `clients`
the third root is a replacement, or the tab of a popup. Three issue reports are two of one
problem and a security report. Interchangeable values have `SYMMETRY` where it is
given (in `helpers` one exchange of the pairs of all parts, since a behaviour is one of a single part); the liveness runs use none.

`CHECK_DEADLOCK FALSE` stands in `tabs`, `recordings`, `capture`, `clients` and
`helpers`: when the events are used up and every call has returned, the bounded system stops.

## Where the code and its documents disagree

**A recorder nobody wants** (run `recordings_orphan`, `recording-relay.ts:448`). When
a tab is detached but stays open, the relay ends its capture without telling
the extension; the `MediaRecorder` runs on and later captures of the tab are
refused as already in progress. `docs/CHROME_WEB_STORE.md:61`: "`offscreen`:
hosts `MediaRecorder` while recording an authorized tab".

**A page of another session** (run `clients_owners`, `relay.ts:1349`). `Target.setAutoAttach` looks which roots
the client may see, waits for the browser, and announces them without looking again. When a session takes
one of the pages meanwhile, a client of another session, or of none, is told of it; the next
change of ownership takes it back (`relay.ts:2069`). `cdp-visibility.ts:12`: "Session-owned targets are visible
only to that session's clients." The replay of a page's frames (`relay.ts:1359`) has the same gap,
and `FramesAreShownToViewers` states what is left.

Behaviours of the code that the models contain, met while modelling, without a run of their own;
the properties name them as premises:

* *Ready prunes a live page* (`relay.ts:931`). A client creates a page after the
  extension has read its inventory; it is attached and committed; then ready settles and
  removes the root as "not announced", with the debugger attached. `CONTEXT.md:127–128`
  calls an attached tab "visible and controllable by agents".
* *A deleted session still owns a page* (`relay.ts:1579`). The attachment reads the
  persisted owner before awaits and commits it after; a delete in between finds nothing to
  release. `PLAN.md:412`: "Reset, delete, or detach releases an adopted tab without closing it."
* *A call outlives its execute* (`execute.ts:730`, `handoff.ts:66`). A tool that needs confirmation is called
  inside a handoff. When the handoff times out or is cancelled, its end disposes the `WebMcpSession`
  and disconnects, but nobody awaits the call: the comment at `execute.ts:1018` says "A dropped
  Effect.runPromise must not outlive the execute that started it". `CallsAreAnswered` leaves such a call out, and says
  that no answer of the page reaches it.
* *A tool heard of too early* (`webmcp.ts:108`). A channel counts before the command that disables its domain,
  so an event in between is heard; if the tool goes before the domain is enabled again, no event
  removes it, which the comment at `webmcp.ts:111` means to rule out. `ToolsAreCurrent` leaves it out (`hasty`).
* *Children of a staged root stay behind* (`target-registry.ts:323`).
  `detachRootTargetState` drops a staged root and returns when the tab has no committed root.
* *A failing catalog write.* `delete` and `reset` put a session back when the write fails,
  although its page may have been attached without an owner and adopted by another session
  meanwhile (`session-manager.ts:308`): the file may then name a page twice, and the next
  relay refuses it. A `create` whose write fails closes its sandbox without the permit, under
  a script that found the session in between (`session-manager.ts:203`).
* *A late timer.* A stop during the start of a screencast disarms a timer that the start then
  arms (`recording-relay.ts:825`); it later stops whatever the tab records.
* *`reconciled` stays false* after a coalesced pass succeeds late (`relay.ts:1866`).
* *A lock without a token.* An operation of more than a minute loses its lock to the next, and
  its own release removes the successor's (`issue-report.ts:557`, `auth-profile.ts:122`).
* *A removed profile comes back.* `remove` takes no lock; a stop that has read the profile
  writes it again (`auth-profile.ts:240`).

## Fairness

`TargetRegistry`, `SessionLifecycle`, `CdpClients` and the parts of `Helpers` are
checked for safety only and state none.

* `MCTabs!TabsSpec`, for `RootLifecycle`: weak fairness of the relay's steps and of the
  extension's. The relay's promises settle and its timers expire because Node's
  event loop runs them; the extension reconnects by its one-second timer and the
  alarm that wakes its worker, and answers every command, or the command is
  rejected after its timeout (`ExtensionRpc.send`). Browser events, client requests,
  toolbar clicks, lost connections and failing commands have no fairness.
* `RecordingRelay!FairSpec`: weak fairness of `Progress`, the union of continuations
  of calls, writes, the receipt of messages, the recorder's own steps and the
  reconnection. Writes settle because the file system answers; a stop has its
  thirty-second timer. Requests, frames, data, ticks and faults have none: no client
  must call, no page must paint.
* `NetworkCapture!FairSpec`: the timers of a stop and of a cancel fire, and file operations
  end. The finalizers and the browser have none: they may hang for ever.
* `RelayProcess!FairSpec`: per relay, the steps of the process, the admission of its
  shutdown request, its saves, the end of background work and the answers to commands
  in flight (each has a timeout in the code); per client, the end of its handler or script.
  Clients themselves owe nothing.
* `Release!FairReleaseSpec`: the schedule starts a job again, requests are answered or fail, an upload
  ends. npm's approval, the review and the maintainer have none.
* `MCTabs!TabsSpec`, for `Handoff` (the same as `Handoff!Fairness`, one part at a time): per handoff, its continuation, its timer, and an action that has
  nothing left to wait for; the queues between relay and page move, and a document loads its
  script. The user need not click.

## What is proved

Eight modules of theorems, each for every value of the constants: any number of tabs, pages,
sessions, requests, jobs, clients, and any bound. The assumptions are those the modules state
about their constants, each evaluated in the run of the module: sizes and limits are natural
numbers, an identity is not the value that stands for none, and an absent record is no record. Of the parts
of `Helpers` it is assumed besides that reports and frames are finitely many, that each report has a
class and each call of an agent its agent, that the MCP server's own session and the default endpoint are among the
sessions and endpoints, that the frames of a page are finitely many, that the main page and the iframe are two of them and the
other frames have a frame around them, and that no call is one of the channels. `SessionLifecycle` assumes finitely many fibers, since a drain counts them. `CdpClients` also
assumes finitely many tabs, and that the sessions Chrome names are not those the relay numbers
(`bc-tab-1`, `bc-tab-2`, …, `relay.ts:1581`).

| Theorem | States | Of |
| --- | --- | --- |
| `TypeCorrect`, `RootIndexesAgree` | `[]TypeOK`, `[]IndexesAgree` | `TargetRegistry` |
| `PendingIsTheAdoptions` | `[]PendingIsTheReservation` | `TargetRegistry` |
| `RegistryImplementsOwnership` | `ImplementsOwnership`: the refinement of `TargetOwnership` | `TargetRegistry` |
| `NothingCapturedIsLost` | `[]CaptureIsAccounted` | `NetworkCapture` |
| `HandoffsAreConfined` | `[]HandoffsKeepToTheirExecute` | `Handoff` |
| `ControlsAreShown` | `[]ControlIsShown` | `Handoff` |
| `NewerBuildsReplaceOlder` | `[]OnlyOlderRelaysStop` | `RelayProcess` |
| `DrainsBeforeItCloses` | `[]AcceptedWorkIsFinished` | `RelayProcess` |
| `SessionsSurvive` | `[]ReportedSessionsSurvive` | `RelayProcess` |
| `ReportsAreTrue`, `StoreComesFirst` | `[]ReportedReleaseIsWhole`, `[]PublicIsInStore` | `Release` |
| `RestrictedStaysHidden` | `[]RestrictedFramesStayHidden` | `CdpClients` |
| `ClientsHoldTheLiving` | `[]ClientsKnowTheLiving` | `CdpClients` |
| `FramesGoToViewers`, `ResetsAreAskedFor` | `FramesAreShownToViewers`, `ResetsStayInTheirGeneration` | `CdpClients` |
| `SessionsAreTyped` | `[]TypeOK` | `SessionLifecycle` |
| `SettledSessionsAlwaysAgree` | `[]SettledSessionsAgree` | `SessionLifecycle` |
| `CatalogStaysRestorable` | `[](failures = 0 => CatalogIsRestorable)` | `SessionLifecycle` |
| `NothingIsSubmittedTwice` | `[][…]`: the safety half of `ReleasesAdvance` | `Release` |
| `LinkIsTrue`, `AnsweringBrowserStays` | `[]LinkHolds`, `AnsweringBrowserKeepsTheRelay` | `Helpers` (`ExtensionLink`) |
| `CurrentSessionsAreTrue` | `[]CurrentSessionsAreTheirs` | `Helpers` (`CurrentSession`, `SessionStore`) |
| `AnsweredSessionStays` | `[]AnsweredSessionIsKept` | `Helpers` (`DshAdapter`) |
| `RequestsAreTold` | `[]RequestsKeepTheirWord` | `Helpers` (`PageRequests`) |
| `ProblemsFiled` | `[]ProblemsAreFiledOnce` | `Helpers` (`IssueReports`, `StoreLock`) |
| `CallsAnswered` | `[]CallsAreAnswered` | `Helpers` (`WebMcp`) |
| `GroupsFollowOwners` | `[]GroupFollowsOwnership` | `Helpers` (`TabGroups`) |

None of these invariants is inductive. Each proof states the strengthening it needs, shows it of
`Init`, shows with one lemma per action that every step keeps it, and derives the invariant. TLC
checks each strengthening on the instance of the module's run before it is proved. Lemmas on the
operators that actions share come first.

**TargetRegistry.** A commit of a staged generation replaces what the three indexes hold of its
tab; it would break another record if the staged session number were in use, or its target id
registered for another tab. So

    RootInv == TypeOK /\ IndexesAgree /\ StagedIsNew

says too that a staged session is in no index, that sessions handed out lie below the counter and
that a page stays in its tab; writing a record of a registered generation (`UpdateRootInv`) and
installing a new one (`InsertRootInv`) keep it. `PendingInv` adds that the generation an adoption
remembers has been handed out and is not staged, so that no later commit brings it back. For the
refinement, `OwnInv` adds that while the reservation stands its page has the claimant's session or,
once released, none; each registry action is then one action of `TargetOwnership`, or changes
nothing the mapping reads.

**NetworkCapture.** `Inv` says of a capture that a worker of the present generation has a pending
entry of its own that is not queued; that one a stop gave up on has none of the pending; that
what is recorded is no longer pending and carries its request's id; and that, until a stop gives
up, ids are `1..n` for the `n` requests recorded and pending. While a stop writes, nothing is
pending, no worker is of the present generation and no page is bound: so the number it reports
is still the number of entries in its artifact (`CallInv`). Every path of `finalize` is one of two steps, to wait
(`AwaitsKeeps`) or to record (`RecordedKeeps`), then to pump (`PumpedKeeps`).

**Handoff.** `HandoffInv` says that a handoff under way belongs to a session whose execute runs and that
its action is awaited until it settles or its connection is cut (`CallInv`), and that every completion
on its way to the relay, and every handoff that counts as resolved, was clicked (`ClickInv`). For the control,
`ControlInv` says that a pending handoff is under way, its session's, without an outcome and, if it has the tab
for itself, of the present target (`Fit`); and that, unless the page's script has yet to load or to ask
for its status, the last status sent is one that may be the last: a control of a handoff under way, and
that of the handoff which has the tab for itself, if there is one (`ShownInv`).

**RelayProcess.** `RelayInv`: one relay holds the port, and one that does not hold it has done nothing
(`PortInv`); a client about to send a shutdown names a relay it may restart (`ClientInv`); each phase of a
drain has no work left of the kinds before it (`WorkInv`); a relay's session is the catalog's unless it is
still to be written or the last write of a drain has failed (`CatalogInv`); and a request that changed the session, with no other request of
the opposite kind, is what the session is, in the relay until it is answered and on disk
afterwards (`SessionInv`).

**Release.** `ReleasesInv`: a submission is of a version that is at least the published one, and everything
accepted before is older (`StoreInv`); while a job submits, the store is behind its version and the
package it sees uploaded is its own (`SubmitInv`); what a job has read of its release still holds, and it goes
on to the store only with every file in place (`ReleaseInv`).

**CdpClients.** Nobody has heard of the session of a staged root, nor is about to: no announcement, command or
attachment in progress names it (`StagedInv`). So what events put inside a staged root is told to
nobody, and what an attachment that never was committed leaves behind is inside a session nobody
hears of (`ParentInv`). Announcements and aliases of what is inside pages name targets that exist, in tabs that
have a root (`ToldInv`, `AliasInv`): a detach ends both before the root goes, and a client that
is gone has neither, nor a command (`GoneInv`). Under `Inv`, a frame that shows a restricted document or is
protected is in no client's view of the page that routes (`HiddenInv`): a new root has a number that no
client has seen frames under (`SeenInv`), and an event shows a frame to those only who may see its page at that
moment, after protection was decided (`BroadcastShows`). The two action properties follow from `Inv` too: only
`Broadcast` adds to what clients see, and the two actions that send a reset (`RuntimeStep`, `ResetIdle`)
compare the page with what was captured first.

**SessionLifecycle.** `Inv` has three parts. `Struct`: an operation in flight is at a place of its kind and holds
the permits of that place (`WorkInv`), one settled promise is continued at a time (`WokenInv`), and exactly
the operations that await a write are behind one, each behind its own (`QueueInv`). `SavesInv`: the
last write of the chain, or the file when the chain is empty and its last write was good, is the catalog of
now, unless a cleanup in flight has yet to schedule its write (`DurableInv`); there is a reservation exactly
while an adoption runs (`ReservationInv`); an object being removed is not registered (`RemovedInv`). With no
work left no cleanup is in flight, so a drained relay's file is its catalog. `PointInv`: no two
sessions point at one target (`UniqueInv`); the target of a session is its own, or detached, or
an adoption is about to take the pointer back (`OwnerInv`); an attach in flight carries the owner that the
sessions remember (`AttachOwnerInv`). Two facts that only a long sequence of calls could break hold these up: a
removal is written before an adoption that follows it under the same id (`OrderInv`), and while a removed object
still names a target, nobody but that adoption points at it under its id (`RemovalInv`): so when
the removal lets go of its target late, after its write, it takes nothing from the new session. `PointInv` is
claimed while no write has failed: a removal whose write fails puts a session back, and its page may have been
taken by another (the hazard at `session-manager.ts:308`). Durability is proved with failed writes.
General lemmas for a step (`SteadyStep`, `CalmStep`, `LostPageStep`) leave each action
lemma what its action does.

**Helpers.** Each part has its inductive invariant at the end of its own module, and `Helpers` states that a
behaviour of the whole is one of a part, with the other parts at rest (`PartsOfHelpers`, `PartStays`);
a lemma per part carries its invariant to the whole (`LinkAlways`, …).

* `LinkInv`: the worker's socket is its own and not over; the socket that serves has said hello and
  carries the present generation; a command that waits is of that generation, and what was answered came
  over a socket whose generation no longer changes.
* `CurrentInv`: a call that no other has overtaken (`alone`) is for the current session unless its caller named
  another, and the session it made is none the agent knows (`AloneKeepsTheCurrent`); only a `network_start`
  makes the current session while it looks for it (`SettlesTheCurrent`).
* `StoredInv`: what the file holds, also while it cannot be decoded, and what a command is about to write, was
  made current for its endpoint.
* `AgentsInv`: one call of an agent is past its place in the chain; until a lock is taken under its owner,
  the owner writes what it has read and finds what it wrote (`OwnersHaveTheFile`), and a call works with the
  session of the mapping (`CallsSeeTheirMapping`).
* `RequestsInv`: the permit covers a request from its grant to its result; a request leaves the page
  once, and from then on no tag says that it did not happen (`TagsAreTrue`).
* `IssuesInv`: while `taken` is false, whoever is at work has the lock and has seen the files as they are; a
  file counts the reports of its problem; and of those that submit there is one per problem, whose file says
  "pending" until the outcome is known (`OneSubmits`).
* `ToolsInv`: of each invocation that a call waits for, the response is under way, or kept for the call, while
  the channel lives (`NoneIsLost`); numbers are not given twice (`Distinct`), and the wire is in order:
  the iframe is attached before its tools are known (`NewIframeIsUnknown`); what is left of a call by its handoff
  waits for no invocation.
* `GroupsInv`: the relay's last word to the extension about a tab (the intent that waits, else the last command
  under way, else the last job of this connection, else what is shown) is never the opposite of the tab's
  state (`LastWord`); or nothing has been said on this connection, and a group left from an earlier one is known to
  the pass after the handshake (`Afresh`).

The attempt on `IssuesInv` found a fault of an earlier model: two arms of a `CASE` in `mergeClassification`
overlapped, so that TLA+ left open which one applied where TLC took the first; the code is a chain of
`if`s (`issue-report.ts`) and so is the definition now.

**Model-checked only**: `RootsAreLive` and `InventoryIsVisible` of `RootLifecycle` and the three invariants of
`RecordingRelay`, which need strengthenings over many calls that have not been written yet;
`ToolsAreCurrent` and `ScriptsGetTheSessionPage`, action properties of the same kind;
`ReplacementKeepsStagedSubtree`, which follows chains of children through a depth that only an
induction over data could bound; `ReferencesKeepTheirCredential`, which counts references with a fold over a
sequence: a fact about every sequence is again an induction over data.

**Out of the prover's reach**: liveness under fairness and `ENABLED`
(`EventuallyReady`, `CallsReturn`, `OperationsReturn`, `PortIsUsable`, `HandoffsEnd`, half of
`ReleasesAdvance`), and induction over data (that the recursion of
`detachChildTargetState` computes the closure its model states). Modules meant for
proofs have no `RECURSIVE` operators.

## What is not modelled, and why

* **HTTP API, CLI and MCP fronts**: parsing and formatting around requests. Their search for a relay is
  in `RelayProcess`, admission in `SessionLifecycle` and `RelayProcess`, the session they use by default
  in `CurrentSession` and `SessionStore`.
* **Session journal**: an append of a line.
* **Recording formats, protocol, schemas, page helpers, content-script overlays**: pure text, image
  and data computations or browser APIs with little state; no order of calls can
  break them, and unit tests reach them.
* Inside the modelled components: read-only leases, the `fsync` steps inside a catalog save
  (sessions); protected-UI flags, urls and titles (registry); closing of pages by clients, extensions
  without ready (roots); status reads and the `ffmpeg` process (recordings); the choice of a root for
  cookie commands, blocked methods, Chrome's own frame tree (clients); how credentials are
  recognised, their expiry, running a command with a profile (profiles); status, journal and
  report calls (DSH); the mode change after a rename and unreadable files (issue reports);
  limits on the size of tools (WebMCP); archive parsing (release).
* Playwright, Chrome, npm, GitHub, the store and ffmpeg are what the code assumes of them.
* Several tabs at once in `RecordingRelay`, `Handoff` and `TabGroups`: their maps are keyed by tab and a
  call touches one key.
* A relay whose event loop is blocked for more than ten seconds would close an answering socket.

## Plan

Done: all components that keep state across awaits have a module.

Theorems worth proving next: `RecordingsAreResolved` of `RecordingRelay`; `RootsAreLive` of `RootLifecycle`.

Extensions of the present modules: closing of pages by clients and the failure of
`debugger.detach` (roots), a timer property (recordings), failing writes with two
sessions (sessions), two tabs in the handshake (roots), the page of a session composed with the
registry.

## How to run

    tlc -workers 2 -config MCTabs.cfg MCTabs
    tlapm NetworkCapture_proofs.tla

`PROJECT.json` lists each run with its module, configuration and properties.
