----------------------------- MODULE CdpClients -----------------------------
(***************************************************************************)
(* What the relay tells the programs that drive the browser over CDP: which *)
(* targets each client may see (src/cdp-visibility.ts, src/cdp-router.ts),   *)
(* what it has been told of them (src/cdp-client-pool.ts, src/cdp-shims.ts), *)
(* the events of a page and of the targets inside it, the frames it hides    *)
(* (src/protected-frames.ts) and the domain of a page that clients share     *)
(* (src/cdp-runtime.ts), all composed by src/relay.ts.                       *)
(*                                                                         *)
(* How a root comes to be staged and committed is RootLifecycle's matter;    *)
(* the indexes of the registry and its ownership operations are             *)
(* TargetRegistry's.  Here a tab has a committed and a staged root, and the  *)
(* attachment of a tab stops where the relay waits for the extension.        *)
(***************************************************************************)
EXTENDS Naturals, FiniteSets

CONSTANTS Client, Rig,     \* CDP clients; BrowserRig sessions
          RigOf,           \* the session a client names when it connects, or None
          Tab, Page,       \* tabs; target ids of their pages
          Frame, Popup,    \* target ids inside pages: child frames; pages whose url comes later
          AttachedAs,      \* the owners (user or relay, session or None) a tab may be attached with
          Before,          \* the root of each tab as the model begins, or None
          Within,          \* the targets that may be inside those roots by then
          TabOf,           \* the tab of a target id
          ChildSession,    \* the ids Chrome gives the sessions of targets inside pages
          MaxRoots,        \* bound on root sessions
          MaxConnections,  \* bound on connections of clients
          MaxEvents,       \* bound on events of pages, tabs let gos lost,
                           \* changes of ownership and commands of clients
          None

Inside == Frame \cup Popup
RootId == 1 .. MaxRoots

Root == [tab : Tab, session : RootId, page : Page, owner : {"user", "relay"}, rig : Rig \cup {None}]
Child == [session : ChildSession, target : Inside, parent : RootId \cup ChildSession, exposed : BOOLEAN]

First == Cardinality({t \in Tab : Before[t] # None})

ASSUME ClientsAssumption ==
  /\ RigOf \in [Client -> Rig \cup {None}]
  /\ TabOf \in [Page \cup Inside -> Tab]
  /\ AttachedAs \in [Tab -> SUBSET ({"user", "relay"} \X (Rig \cup {None}))]
  /\ Before \in [Tab -> Root \cup {None}]
  /\ IsFiniteSet(Tab)
  /\ Within \subseteq Child
  /\ \A k \in Within : k.exposed /\ Before[TabOf[k.target]] # None /\ k.parent = Before[TabOf[k.target]].session
  /\ \A t \in Tab : Before[t] # None => TabOf[Before[t].page] = t /\ Before[t].session <= First
  /\ MaxRoots \in Nat /\ MaxConnections \in Nat /\ MaxEvents \in Nat

(* The sessions that Chrome names are not those the relay numbers.           *)
ASSUME NamesAssumption ==
  /\ ChildSession \cap RootId = {} /\ None \notin Page \cup Inside \cup RootId \cup ChildSession \cup Rig \cup Root \cup Child
  /\ Page \cap Inside = {}

VARIABLES
  roots,      \* registry: the committed root of each tab
  staged,     \* registry: the root a tab is about to have
  children,   \* registry: targets inside pages
  pending,    \* registry: reservations of ownership
  known,      \* registry: frames whose attachment the relay has heard of (tabFrameEvents)
  suppressed, \* relay: sessions of restricted targets, with their tab
  protected,  \* relay: frames that show a restricted document
  attaching,  \* relay: the attachment of each tab that is under way
  connected,  \* pool: the clients, with their generation of connections
  generation,
  told,       \* pool: the announcements of each client
  aliases,    \* pool: the aliases of each client that stand for a target
  job,        \* relay: the command of each client that waits for the browser
  idle,       \* relay: the reset of the runtimes that nobody uses
  doc,        \* browser: what each child frame shows
  seen,       \* clients: the frames each believes to be in a page
  used        \* the counts the bounds are about

registry == <<roots, staged, children, pending, known>>
hidden == <<suppressed, protected>>
pool == <<connected, generation, told, aliases>>
vars == <<registry, hidden, attaching, pool, job, idle, doc, seen, used>>

Count(what) == used' = [used EXCEPT ![what] = @ + 1]
Happens == used.events < MaxEvents /\ Count("events")

-----------------------------------------------------------------------------
(* Who may see what.                                                        *)

Owned(rs, rig) == \E t \in Tab : rs[t] # None /\ rs[t].rig = rig

Sees(rs, c, root) ==
  IF root.rig = None
  THEN root.owner = "user" \/ RigOf[c] = None \/ ~Owned(rs, RigOf[c])
  ELSE RigOf[c] = root.rig

SeesTab(rs, c, t) == rs[t] # None /\ Sees(rs, c, rs[t])

Routing(t) == IF staged[t] # None THEN staged[t] ELSE roots[t]

Committed(rs, s) == {rs[t] : t \in {u \in Tab : rs[u] # None /\ rs[u].session = s}}

-----------------------------------------------------------------------------
(* What clients have been told.  An announcement names a session, its       *)
(* target and the session it was made on.                                   *)

RootAnnouncement(root) == [session |-> root.session, target |-> root.page, parent |-> None]
ChildAnnouncement(k) == [session |-> k.session, target |-> k.target, parent |-> k.parent]

HasTold(ann, s) == \E a \in ann : a.session = s

(* An announcement replaces what the client was told of its target and of   *)
(* its session, unless it repeats it.                                       *)
Announce(ann, a) ==
  IF \E b \in ann : b.target = a.target /\ b.session = a.session THEN ann
  ELSE {b \in ann : b.target # a.target /\ b.session # a.session} \cup {a}

(* Several at once, of targets and sessions that differ: in any order.        *)
AnnounceAll(ann, new) ==
  LET fresh == {a \in new : \A b \in ann : b.target # a.target \/ b.session # a.session}
  IN {b \in ann : \A a \in fresh : b.target # a.target /\ b.session # a.session} \cup fresh

(* The announcements that end with those of a set of sessions.              *)
Under(ann, S) ==
  LET inner == {a \in ann : a.parent \in S}
  IN {a \in ann : a.session \in S} \cup inner
     \cup {a \in ann : a.parent \in {b.session : b \in inner}}

Ended(ann, S) == ann \ Under(ann, S)
Dropped(ann, S) == {a \in ann : a.session \notin S}

(* A client that is told of the end of a root forgets its frames.           *)
Tell(new) == /\ told' = new
             /\ seen' = [c \in Client |-> {x \in seen[c] : HasTold(new[c], x[1])}]

(* The clients that an event of a root is sent to; one that was told of a   *)
(* root it may no longer see is told of its end instead.                    *)
EveryoneTold(rs, s) == {c \in connected : HasTold(told[c], s)}   \* variant
Viewers(rs, s) ==
  {c \in connected : HasTold(told[c], s) /\ \A root \in Committed(rs, s) : Sees(rs, c, root)}
Blinded(rs, s) == {c \in connected : HasTold(told[c], s)} \ Viewers(rs, s)

(* An event of a root ends what clients were told of it that may not see it. *)
Left(ann, s, c) == IF c \in Blinded(roots, s) THEN Under(ann, {s}) ELSE {}
NotOf(left, al) == {a \in al : \A b \in left : b.target # a.target}

Broadcast(s, shown, gone) ==
  /\ told' = [c \in Client |-> told[c] \ Left(told[c], s, c)]
  /\ aliases' = [c \in Client |-> NotOf(Left(told[c], s, c), aliases[c])]
  /\ seen' = [c \in Client |->
       IF c \in Viewers(roots, s)
       THEN {x \in seen[c] : ~(x[1] = s /\ x[2] \in gone)} \cup {<<s, f>> : f \in shown}
       ELSE {x \in seen[c] : HasTold(told'[c], x[1])}]

(* pruneInvisibleAnnouncementsForClient, with the tabs whose aliases go too. *)
Blind(rs, ch, c) ==
  {a \in told[c] : IF Committed(rs, a.session) # {}
                   THEN \E root \in Committed(rs, a.session) : ~Sees(rs, c, root)
                   ELSE \E k \in ch : k.session = a.session /\ ~SeesTab(rs, c, TabOf[k.target])}
Pruned(rs, ch, c) == Ended(told[c], {a.session : a \in Blind(rs, ch, c)})
BlindTabs(rs, ch, c) == {TabOf[a.target] : a \in told[c] \ Pruned(rs, ch, c)}

(* reconcileTargetOwnership: aliases and announcements that became          *)
(* invisible go, roots that became visible are announced.                   *)
ReconcileTargetOwnership(rs, tabs) ==
  /\ Tell([c \in Client |->
       IF c \notin connected THEN told[c]
       ELSE AnnounceAll(Pruned(rs, children, c),
              {RootAnnouncement(rs[t]) : t \in {u \in tabs : SeesTab(rs, c, u)}})])
  /\ aliases' = [c \in Client |->
       {a \in aliases[c] : /\ TabOf[a.target] \in tabs => SeesTab(rs, c, TabOf[a.target])
                           /\ TabOf[a.target] \notin BlindTabs(rs, children, c)}]

-----------------------------------------------------------------------------
Init ==
  /\ roots = Before /\ staged = [t \in Tab |-> None]
  /\ children \in {{}, Within} /\ known = Frame \cap {k.target : k \in children}
  /\ pending = {} /\ suppressed = {} /\ protected = {}
  /\ attaching = [t \in Tab |-> None]
  /\ connected = {} /\ generation = 0
  /\ told = [c \in Client |-> {}] /\ aliases = [c \in Client |-> {}]
  /\ job = [c \in Client |-> None] /\ idle = None
  /\ doc = [f \in Frame |-> IF f \in known THEN "ordinary" ELSE "absent"] /\ seen = [c \in Client |-> {}]
  /\ used = [roots |-> First, connections |-> 0, events |-> 0]

-----------------------------------------------------------------------------
(* The roots of tabs.                                                       *)

InTab(t) == {k \in children : TabOf[k.target] = t}
Below(S) ==
  LET inner == {k \in children : k.parent \in S}
  IN inner \cup {k \in children : k.parent \in {i.session : i \in inner}}

(* A root inherits the owner of the one it replaces; what a reservation     *)
(* changed for the time being is not inherited.                             *)
Heir(t, root) ==
  IF roots[t] = None THEN root
  ELSE LET held == {p \in pending : p.target = roots[t].page}
       IN [root EXCEPT !.owner = roots[t].owner,
                       !.rig = IF held = {} THEN roots[t].rig ELSE (CHOOSE p \in held : TRUE).previous]

Stage(t) ==
  /\ attaching[t] = None /\ used.roots < MaxRoots
  /\ \E page \in {p \in Page : TabOf[p] = t}, as \in AttachedAs[t] :
       LET root == Heir(t, [tab |-> t, session |-> used.roots + 1, page |-> page, owner |-> as[1], rig |-> as[2]])
       IN /\ staged' = [staged EXCEPT ![t] = root]
          /\ attaching' = [attaching EXCEPT ![t] = [at |-> "preparing", root |-> root]]
  /\ known' = {f \in known : TabOf[f] # t}
  /\ Count("roots")
  /\ UNCHANGED <<roots, children, pending, hidden, pool, job, idle, doc, seen>>

(* A reconciliation finds the root that an earlier attachment left staged.  *)
Resume(t) ==
  /\ attaching[t] = None /\ staged[t] # None
  /\ attaching' = [attaching EXCEPT ![t] = [at |-> "preparing", root |-> staged[t]]]
  /\ UNCHANGED <<registry, hidden, pool, job, idle, doc, seen, used>>

GiveUp(t) ==
  /\ attaching[t] # None /\ attaching[t].at = "preparing"
  /\ attaching' = [attaching EXCEPT ![t] = None]
  /\ UNCHANGED <<registry, hidden, pool, job, idle, doc, seen, used>>

(* reconcileRootReplacement: nothing that clients hold of the old root or of *)
(* what was inside it survives.                                             *)
ReplacedAliases(t) == [c \in Client |-> {a \in aliases[c] : TabOf[a.target] # t}]

Commit(t) ==
  /\ attaching[t] # None /\ attaching[t].at = "preparing"
  /\ staged[t] # None /\ staged[t].session = attaching[t].root.session
  /\ LET root == Heir(t, staged[t])
         old == roots[t]
         rs == [roots EXCEPT ![t] = root]
         gone == IF old = None THEN {} ELSE InTab(t) \ Below({root.session})
         ch == children \ gone
         ends == IF old = None THEN {} ELSE {k.session : k \in gone} \cup {old.session}
         mine(c) == c \in connected /\ root.rig # None /\ RigOf[c] = root.rig
         left(c) == Ended(told[c], ends)
         blind(c) == IF mine(c) THEN left(c) \ Ended(left(c), {a.session : a \in Blind(rs, ch, c)}) ELSE {}
     IN /\ roots' = rs /\ children' = ch
        /\ Tell([c \in Client |-> left(c) \ blind(c)])
        /\ aliases' = [c \in Client |->
             {a \in (IF old = None THEN aliases ELSE ReplacedAliases(t))[c] :
                \A b \in blind(c) : TabOf[b.target] # TabOf[a.target]}]
        /\ pending' = IF old = None THEN pending ELSE {p \in pending : p.target # old.page}
        /\ suppressed' = IF old = None THEN suppressed ELSE {x \in suppressed : x[2] # t}
        /\ protected' = IF old = None THEN protected ELSE {f \in protected : TabOf[f] # t}
        /\ attaching' = [attaching EXCEPT ![t] = [at |-> "presenting", root |-> root]]
  /\ staged' = [staged EXCEPT ![t] = None]
  /\ UNCHANGED <<known, connected, generation, job, idle, doc, used>>

(* The end of an attachment: the root it committed is announced as it was    *)
(* then, after the commands that present the tab.                           *)
Present(t) ==
  /\ attaching[t] # None /\ attaching[t].at = "presenting"
  /\ LET root == attaching[t].root
         inside == {ChildAnnouncement(k) : k \in {i \in InTab(t) : i.parent = root.session /\ i.exposed}}
         first(c) == IF Sees(roots, c, root) THEN Announce(told[c], RootAnnouncement(root)) ELSE told[c]
     IN Tell([c \in Client |->
          IF c \notin connected THEN told[c]
          ELSE IF HasTold(first(c), root.session) THEN AnnounceAll(first(c), inside) ELSE first(c)])
  /\ attaching' = [attaching EXCEPT ![t] = None]
  /\ UNCHANGED <<registry, hidden, connected, generation, aliases, job, idle, doc, used>>

(* detachTargetState.  A staged root alone goes without a trace, and leaves  *)
(* what was found inside it.                                                *)
Detached(t) ==
  LET ids == {k.session : k \in InTab(t)}
  IN /\ Tell([c \in Client |-> Dropped(Ended(told[c], ids), {roots[t].session})])
     /\ aliases' = ReplacedAliases(t)
     /\ protected' = {f \in protected : TabOf[f] # t}
     /\ suppressed' = {x \in suppressed : x[2] # t}

DetachTab(t) ==
  /\ Happens /\ Routing(t) # None
  /\ staged' = [staged EXCEPT ![t] = None]
  /\ roots' = [roots EXCEPT ![t] = None]
  /\ IF roots[t] = None
     THEN UNCHANGED <<children, pending, hidden, told, aliases, seen, known>>
     ELSE /\ children' = children \ InTab(t)
          /\ known' = {f \in known : TabOf[f] # t}
          /\ pending' = {p \in pending : p.target # roots[t].page}
          /\ Detached(t)
  /\ UNCHANGED <<attaching, connected, generation, job, idle, doc>>

(* clearLiveExtensionState, as another extension says hello: every root is   *)
(* detached, then the registry is emptied.                                  *)
LoseExtension ==
  /\ Happens
  /\ LET gone == {t \in Tab : roots[t] # None}
         ids == {k.session : k \in {i \in children : TabOf[i.target] \in gone}}
     IN /\ Tell([c \in Client |-> Dropped(Ended(told[c], ids), {roots[t].session : t \in gone})])
        /\ aliases' = [c \in Client |-> {a \in aliases[c] : TabOf[a.target] \notin gone}]
        /\ protected' = {f \in protected : TabOf[f] \notin gone}
  /\ roots' = [t \in Tab |-> None] /\ staged' = [t \in Tab |-> None]
  /\ children' = {} /\ pending' = {} /\ known' = {} /\ suppressed' = {}
  /\ UNCHANGED <<attaching, connected, generation, job, idle, doc>>

-----------------------------------------------------------------------------
(* Ownership, as sessions adopt and release pages: a reservation changes the *)
(* registry alone, its commit or rollback and a release are reconciled.     *)

Reserve(rig, t) ==
  /\ Happens
  /\ roots[t] # None /\ roots[t].rig \in {None, rig} /\ \A p \in pending : p.rig # rig
  /\ pending' = {p \in pending : p.target # roots[t].page} \cup
       {[rig |-> rig, target |-> roots[t].page, session |-> roots[t].session, previous |-> roots[t].rig]}
  /\ roots' = [roots EXCEPT ![t].rig = rig]
  /\ UNCHANGED <<staged, children, known, hidden, attaching, pool, job, idle, doc, seen>>

Held(p) == {t \in Tab : roots[t] # None /\ roots[t].page = p.target
                        /\ roots[t].session = p.session /\ roots[t].rig = p.rig}

(* The adoption may leave the page the session had adopted before.          *)
CommitOwnership(p) ==
  /\ p \in pending /\ Held(p) # {}
  /\ \E left \in {{}} \cup {{t} : t \in {u \in Tab : roots[u] # None /\ roots[u].rig = p.rig}} :
       LET rs == [t \in Tab |-> IF t \in left \ Held(p) THEN [roots[t] EXCEPT !.rig = None] ELSE roots[t]]
       IN roots' = rs /\ ReconcileTargetOwnership(rs, Held(p) \cup left)
  /\ pending' = pending \ {p}
  /\ UNCHANGED <<staged, children, known, hidden, attaching, connected, generation, job, idle, doc, used>>

RollbackOwnership(p) ==
  /\ p \in pending /\ pending' = pending \ {p}
  /\ roots' = [t \in Tab |-> IF t \in Held(p) THEN [roots[t] EXCEPT !.rig = p.previous] ELSE roots[t]]
  /\ ReconcileTargetOwnership(roots', Held(p))
  /\ UNCHANGED <<staged, children, known, hidden, attaching, connected, generation, job, idle, doc, used>>

ReleaseOwnership(t) ==
  /\ Happens
  /\ roots[t] # None /\ roots[t].rig # None
  /\ roots' = [roots EXCEPT ![t].rig = None]
  /\ ReconcileTargetOwnership(roots', {t})
  /\ UNCHANGED <<staged, children, pending, known, hidden, attaching, connected, generation, job, idle, doc>>

-----------------------------------------------------------------------------
(* Events about the frames of a page, from the session of its root.         *)

Event(t) == Happens /\ Routing(t) # None
Source(t) == Routing(t).session
Forward(t) == Broadcast(Source(t), {}, {})
ShowFrame(f) == Broadcast(Source(TabOf[f]), {f}, {})
HideFrame(f) == Broadcast(Source(TabOf[f]), {}, {f})
Nothing == UNCHANGED <<told, aliases, seen>>
aside == <<roots, staged, pending, attaching, connected, generation, job, idle>>

(* A frame is hidden from the moment the relay knows that its document is    *)
(* restricted, also from the clients that had seen it.                      *)
RetractSilently(f) ==   \* variant
  /\ protected' = protected \cup {f} /\ known' = known \ {f} /\ UNCHANGED <<told, aliases, seen>>

Retract(f) ==
  /\ protected' = protected \cup {f} /\ known' = known \ {f} /\ HideFrame(f)

FrameAttached(f) ==
  /\ Event(TabOf[f]) /\ doc[f] = "absent" /\ doc' = [doc EXCEPT ![f] = "ordinary"]
  /\ IF f \in protected THEN Nothing /\ UNCHANGED known
     ELSE known' = known \cup {f} /\ ShowFrame(f)
  /\ UNCHANGED <<aside, children, hidden>>

(* The intent to show a restricted document hides a frame only if the relay  *)
(* has heard that it has a parent.                                          *)
FrameStartedNavigating(f) ==
  /\ Event(TabOf[f]) /\ doc[f] = "ordinary"
  /\ IF f \in protected THEN Nothing /\ UNCHANGED <<known, protected>>
     ELSE IF f \in known THEN Retract(f)
     ELSE Forward(TabOf[f]) /\ UNCHANGED <<known, protected>>
  /\ UNCHANGED <<aside, children, suppressed, doc>>

FrameNavigated(f, d) ==
  /\ Event(TabOf[f]) /\ doc[f] # "absent" /\ doc' = [doc EXCEPT ![f] = d]
  /\ CASE d = "ordinary" /\ f \in protected ->
            protected' = protected \ {f} /\ known' = known \cup {f} /\ ShowFrame(f)
       [] d = "ordinary" /\ f \notin protected -> Forward(TabOf[f]) /\ UNCHANGED <<known, protected>>
       [] d = "restricted" /\ f \in protected -> Nothing /\ UNCHANGED <<known, protected>>
       [] d = "restricted" /\ f \notin protected -> Retract(f)
  /\ UNCHANGED <<aside, children, suppressed>>

FrameDetached(f) ==
  /\ Event(TabOf[f]) /\ doc[f] # "absent" /\ doc' = [doc EXCEPT ![f] = "absent"]
  /\ IF f \in protected THEN protected' = protected \ {f} /\ Nothing /\ UNCHANGED known
     ELSE known' = known \ {f} /\ HideFrame(f) /\ UNCHANGED protected
  /\ UNCHANGED <<aside, children, suppressed>>

MainFrameNavigated(t) ==
  /\ Event(t)
  /\ doc' = [f \in Frame |-> IF TabOf[f] = t THEN "absent" ELSE doc[f]]
  /\ protected' = {f \in protected : TabOf[f] # t}
  /\ Broadcast(Source(t), {}, {f \in Frame : TabOf[f] = t})
  /\ UNCHANGED <<aside, children, known, suppressed>>

(* Nobody hears of a frame while the tab has no root.                       *)
FrameChangesUnheard(f) ==
  /\ Happens /\ Routing(TabOf[f]) = None
  /\ \E d \in {"absent", "ordinary", "restricted"} \ {doc[f]} : doc' = [doc EXCEPT ![f] = d]
  /\ UNCHANGED <<registry, hidden, attaching, pool, job, idle, seen>>

-----------------------------------------------------------------------------
(* Events about the targets inside a page.                                  *)

Subtree(S) == {k \in children : k.session \in S} \cup Below(S)
WithoutAliasesOf(K, c) == {a \in aliases[c] : a.target \notin {k.target : k \in K}}

(* detachChildTargetState with clients notified: their announcements end.   *)
NotTakenBack(K) == told   \* variant
TakenBack(K) == [c \in Client |-> Ended(told[c], {k.session : k \in K})]

(* A restricted target stays out of the registry; if it is a child frame     *)
(* that was not known to be protected, clients are told that it is gone.     *)
HideTarget(x, ann, al) ==
  LET s == Source(TabOf[x])
      hide == x \in Frame \ protected
  IN /\ protected' = IF hide THEN protected \cup {x} ELSE protected
     /\ known' = IF hide THEN known \ {x} ELSE known
     /\ told' = [c \in Client |-> IF hide THEN ann[c] \ Left(ann[c], s, c) ELSE ann[c]]
     /\ aliases' = [c \in Client |-> IF hide THEN NotOf(Left(ann[c], s, c), al[c]) ELSE al[c]]
     /\ seen' = [c \in Client |-> {y \in seen[c] :
          HasTold(told'[c], y[1]) /\ (hide /\ c \in Viewers(roots, s) => y # <<s, x>>)}]

Parents(t) ==
  IF Routing(t) = None THEN {}
  ELSE {Source(t)} \cup {k.session : k \in {i \in InTab(t) : i.parent \in RootId}}

RestrictedTargetAttached(k, x) ==
  /\ Event(TabOf[x])
  /\ suppressed' = {y \in suppressed : y[1] # k} \cup {<<k, TabOf[x]>>}
  /\ HideTarget(x, told, aliases)
  /\ doc' = IF x \in Frame THEN [doc EXCEPT ![x] = "restricted"] ELSE doc
  /\ UNCHANGED <<aside, children>>

(* Another session of the target, or another target of the session, ends     *)
(* first.  A page is exposed once it has a url.                             *)
TargetAttached(k, x, parent, exposed) ==
  /\ Event(TabOf[x]) /\ parent \in Parents(TabOf[x]) /\ parent # k /\ (x \in Frame => exposed)
  /\ LET conflicts == {i \in children : (i.session = k) # (i.target = x)}
         ended == Subtree({i.session : i \in conflicts})
         child == [session |-> k, target |-> x, parent |-> parent, exposed |-> exposed]
         ann == TakenBack(ended)
     IN /\ parent \notin {i.session : i \in ended}
        /\ children' = {i \in children \ ended : i.session # k} \cup {child}
        /\ Tell([c \in Client |-> IF exposed /\ HasTold(ann[c], Source(TabOf[x]))
                                  THEN Announce(ann[c], ChildAnnouncement(child)) ELSE ann[c]])
        /\ aliases' = [c \in Client |-> WithoutAliasesOf(ended, c)]
  /\ suppressed' = {y \in suppressed : y[1] # k}
  /\ UNCHANGED <<aside, known, protected, doc>>

(* detachChildTargetState, clients hearing of it by the event itself.       *)
TargetDetached(k) ==
  /\ \E t \in Tab : (<<k, t>> \in suppressed \/ \E i \in InTab(t) : i.session = k) /\ Event(t)
       /\ LET gone == Subtree({k})
              s == Source(t)
              left(c) == Dropped(told[c], {k} \cup {i.session : i \in gone})
          IN /\ children' = children \ gone
             /\ Tell([c \in Client |-> left(c) \ Left(left(c), s, c)])
             /\ aliases' = [c \in Client |-> NotOf(Left(left(c), s, c), WithoutAliasesOf(gone, c))]
  /\ suppressed' = {y \in suppressed : y[1] # k}
  /\ UNCHANGED <<aside, known, protected, doc>>

TargetBecomesRestricted(i) ==
  /\ i \in children /\ Event(TabOf[i.target])
  /\ LET gone == Subtree({i.session})
     IN /\ children' = children \ gone
        /\ HideTarget(i.target, TakenBack(gone), [c \in Client |-> WithoutAliasesOf(gone, c)])
  /\ suppressed' = suppressed \cup {<<i.session, TabOf[i.target]>>}
  /\ doc' = IF i.target \in Frame THEN [doc EXCEPT ![i.target] = "restricted"] ELSE doc
  /\ UNCHANGED aside

TargetGetsUrl(i) ==
  /\ i \in children /\ ~i.exposed /\ Event(TabOf[i.target])
  /\ LET child == [i EXCEPT !.exposed = TRUE]
     IN /\ children' = (children \ {i}) \cup {child}
        /\ Tell([c \in Client |-> IF HasTold(told[c], Source(TabOf[i.target]))
                                  THEN Announce(told[c], ChildAnnouncement(child)) ELSE told[c]])
  /\ UNCHANGED <<aside, known, hidden, aliases, doc>>

-----------------------------------------------------------------------------
(* Clients.                                                                 *)

Register(c) ==
  /\ c \notin connected /\ used.connections < MaxConnections /\ Count("connections")
  /\ connected' = connected \cup {c} /\ generation' = generation + 1
  /\ UNCHANGED <<registry, hidden, attaching, told, aliases, job, idle, doc, seen>>

(* capture: what a command was resolved for, and whether it still is there.  *)
(* An extension that is replaced takes every root with it, and the ids of    *)
(* root sessions are not used twice, so its generation needs no check here.  *)
Routes == {[tab |-> t, root |-> roots[t].session, child |-> None] : t \in {u \in Tab : roots[u] # None}}
          \cup {[tab |-> TabOf[k.target], root |-> roots[TabOf[k.target]].session, child |-> k] :
                  k \in {i \in children : roots[TabOf[i.target]] # None}}
Capture(route) == [route |-> route, page |-> roots[route.tab].page]
SameChild(k, i) == k.session = i.session /\ k.target = i.target /\ k.parent = i.parent
Current(held) ==
  /\ Routing(held.route.tab) # None
  /\ Routing(held.route.tab).session = held.route.root /\ Routing(held.route.tab).page = held.page
  /\ held.route.child # None => \E k \in children : SameChild(k, held.route.child)

(* The last client to leave has the runtimes reset, the targets inside pages *)
(* after the pages.                                                         *)
Unregister(c) ==
  /\ c \in connected /\ connected' = connected \ {c}
  /\ told' = [told EXCEPT ![c] = {}] /\ aliases' = [aliases EXCEPT ![c] = {}] /\ seen' = [seen EXCEPT ![c] = {}]
  /\ job' = [job EXCEPT ![c] = None]
  /\ IF connected' # {} THEN UNCHANGED <<generation, idle>>
     ELSE /\ generation' = generation + 1
          /\ idle' = [generation |-> generation', left |-> {Capture(r) : r \in Routes}, sent |-> None]
  /\ UNCHANGED <<registry, hidden, attaching, doc, used>>

StillIdle == connected = {} /\ generation = idle.generation

NextReset == {held \in idle.left : held.route.child = None \/ \A other \in idle.left : other.route.child # None}

ResetIdle ==
  /\ idle # None
  /\ IF idle.left = {} \/ ~StillIdle THEN idle' = None
     ELSE \E held \in NextReset :
            idle' = [idle EXCEPT !.left = @ \ {held}, !.sent = IF Current(held) THEN held ELSE None]
  /\ UNCHANGED <<registry, hidden, attaching, pool, job, doc, seen, used>>

Request(c) == c \in connected /\ job[c] = None /\ Happens

(* Target.setAutoAttach of a client: one command for each root it sees now,  *)
(* each announced, as it was when the command began, once its tab answers.  *)
SetAutoAttach(c) ==
  /\ Request(c)
  /\ job' = [job EXCEPT ![c] =
       [kind |-> "attach", left |-> {roots[t] : t \in {u \in Tab : SeesTab(roots, c, u)}}]]
  /\ UNCHANGED <<registry, hidden, attaching, pool, idle, doc, seen>>

AutoAttached(c) ==
  /\ job[c] # None /\ job[c].kind = "attach"
  /\ IF job[c].left = {} THEN job' = [job EXCEPT ![c] = None] /\ UNCHANGED <<told, seen>>
     ELSE \E root \in job[c].left :
            /\ job' = [job EXCEPT ![c].left = @ \ {root}]
            /\ Tell([told EXCEPT ![c] = Announce(@, RootAnnouncement(root))])
  /\ UNCHANGED <<registry, hidden, attaching, connected, generation, aliases, idle, doc, used>>

(* Target.setAutoAttach on the session of a root replays its children once   *)
(* the tab has answered, each with what is stored of the frame it is: whether *)
(* the client may see the root still is not asked.  The navigation that       *)
(* follows is on the session of the child and tells of no other frame.        *)
SetAutoAttachOn(c, t) ==
  /\ Request(c) /\ SeesTab(roots, c, t)
  /\ job' = [job EXCEPT ![c] = [kind |-> "replay", root |-> roots[t].session]]
  /\ UNCHANGED <<registry, hidden, attaching, pool, idle, doc, seen>>

Replays(c, s) == job[c] # None /\ job[c].kind = "replay" /\ job[c].root = s

Replay(c) ==
  /\ \E s \in RootId :
       LET inside == {k \in children : k.parent = s /\ k.exposed}
           frames == {<<s, f>> : f \in known \cap {k.target : k \in inside}}
       IN /\ Replays(c, s)
          /\ told' = [told EXCEPT ![c] = AnnounceAll(@, {ChildAnnouncement(k) : k \in inside})]
          /\ seen' = [seen EXCEPT ![c] = {x \in @ \cup frames : HasTold(told'[c], x[1])}]
  /\ job' = [job EXCEPT ![c] = None]
  /\ UNCHANGED <<registry, hidden, attaching, connected, generation, aliases, idle, doc, used>>

CommandFails(c) ==
  /\ \E s \in RootId : Replays(c, s)
  /\ job' = [job EXCEPT ![c] = None]
  /\ UNCHANGED <<registry, hidden, attaching, pool, idle, doc, seen, used>>

(* Target.attachToTarget: an alias of what the client was told of already,   *)
(* or its announcement.                                                     *)
AttachTo(c, a, alias) ==
  IF HasTold(told[c], a.session)
  THEN aliases' = [aliases EXCEPT ![c] = @ \cup {alias}] /\ UNCHANGED <<told, seen>>
  ELSE Tell([told EXCEPT ![c] = Announce(@, a)]) /\ UNCHANGED aliases

AttachToTarget(c) ==
  /\ Request(c)
  /\ \E t \in {u \in Tab : SeesTab(roots, c, u)} :
       \/ AttachTo(c, RootAnnouncement(roots[t]), [target |-> roots[t].page, chrome |-> None])
       \/ \E k \in InTab(t) : AttachTo(c, ChildAnnouncement(k), [target |-> k.target, chrome |-> k.session])
  /\ UNCHANGED <<registry, hidden, attaching, connected, generation, job, idle, doc>>

(* Target.detachFromTarget of a session or of an alias.                     *)
DetachFromTarget(c) ==
  /\ Request(c)
  /\ \/ \E a \in told[c] : Tell([told EXCEPT ![c] = Dropped(@, {a.session})]) /\ UNCHANGED aliases
     \/ \E a \in aliases[c] : aliases' = [aliases EXCEPT ![c] = @ \ {a}] /\ UNCHANGED <<told, seen>>
  /\ UNCHANGED <<registry, hidden, attaching, connected, generation, job, idle, doc>>

(* Runtime.enable: if the browser answers without reporting the context of   *)
(* the page, the domain is disabled and enabled once more.                  *)
RuntimeEnable(c) ==
  /\ Request(c)
  /\ \E r \in {q \in Routes : SeesTab(roots, c, q.tab)} :
       /\ Current(Capture(r))
       /\ job' = [job EXCEPT ![c] = [kind |-> "runtime", at |-> "enabled", held |-> Capture(r)]]
  /\ UNCHANGED <<registry, hidden, attaching, pool, idle, doc, seen>>

PermittedAsBefore(c) == c \in connected   \* variant
Permitted(c) ==
  LET held == job[c].held
  IN /\ Current(held) /\ c \in connected /\ SeesTab(roots, c, held.route.tab)
     /\ roots[held.route.tab].session = held.route.root

RuntimeStep(c) ==
  /\ job[c] # None /\ job[c].kind = "runtime"
  /\ \/ job[c].at = "enabled" /\ Permitted(c) /\ job' = [job EXCEPT ![c].at = "disabled"]
     \/ job[c].at = "disabled" /\ Permitted(c) /\ job' = [job EXCEPT ![c].at = "again"]
     \/ (job[c].at = "disabled" => ~Permitted(c)) /\ job' = [job EXCEPT ![c] = None]
  /\ UNCHANGED <<registry, hidden, attaching, pool, idle, doc, seen, used>>

-----------------------------------------------------------------------------
Next ==
  \/ \E t \in Tab : \/ Stage(t) \/ Resume(t) \/ GiveUp(t) \/ Commit(t) \/ Present(t)
                    \/ DetachTab(t) \/ ReleaseOwnership(t) \/ MainFrameNavigated(t)
                    \/ \E rig \in Rig : Reserve(rig, t)
  \/ LoseExtension
  \/ \E p \in pending : CommitOwnership(p) \/ RollbackOwnership(p)
  \/ \E f \in Frame : \/ FrameAttached(f) \/ FrameStartedNavigating(f) \/ FrameDetached(f)
                      \/ FrameChangesUnheard(f)
                      \/ \E d \in {"ordinary", "restricted"} : FrameNavigated(f, d)
  \/ \E k \in ChildSession : \/ TargetDetached(k)
                             \/ \E x \in Inside : \/ RestrictedTargetAttached(k, x)
                                                  \/ \E p \in Parents(TabOf[x]), e \in BOOLEAN : TargetAttached(k, x, p, e)
  \/ \E i \in children : TargetBecomesRestricted(i) \/ TargetGetsUrl(i)
  \/ \E c \in Client : \/ Register(c) \/ Unregister(c) \/ SetAutoAttach(c) \/ AutoAttached(c)
                       \/ Replay(c) \/ CommandFails(c) \/ AttachToTarget(c) \/ DetachFromTarget(c)
                       \/ RuntimeEnable(c) \/ RuntimeStep(c)
                       \/ \E t \in Tab : SetAutoAttachOn(c, t)
  \/ ResetIdle

Spec == Init /\ [][Next]_vars

-----------------------------------------------------------------------------
(* A frame that shows a restricted document is in nobody's page: whatever   *)
(* the order in which its attachment, its navigations and the target of its  *)
(* own are reported, clients that had seen it have been told that it is gone. *)
RestrictedFramesStayHidden ==
  \A t \in Tab : Routing(t) # None =>
    \A f \in Frame, c \in Client :
      TabOf[f] = t /\ doc[f] = "restricted" => <<Source(t), f>> \notin seen[c]

(* A client that was told of a target inside a page can reach it: whatever   *)
(* ends the target, its page or a target around it, takes the announcement.  *)
ToldChildrenExist ==
  \A c \in Client : \A a \in told[c] : a.parent # None =>
    \E k \in children : k.session = a.session /\ k.target = a.target

(* An alias stands for the page its tab shows now, or for a target that is   *)
(* still inside it under the session the alias was made for.                *)
AliasesAreLive ==
  \A c \in Client : \A a \in aliases[c] :
    IF a.chrome = None THEN roots[TabOf[a.target]] # None /\ roots[TabOf[a.target]].page = a.target
    ELSE \E k \in children : k.session = a.chrome /\ k.target = a.target

(* What a client knows of targets, by announcement or alias, is alive.         *)
ClientsKnowTheLiving == ToldChildrenExist /\ AliasesAreLive

(* A client that has a page hears of a frame in it only as long as it may    *)
(* see the page: an event of the page that arrives after a session has taken *)
(* it, settled or not, shows nothing.  The replay alone does not look again:  *)
(* what it shows to a client that may not see the page any more, the client   *)
(* asked for when it could, and it is a frame of a target inside the page.    *)
FramesAreShownToViewers ==
  [][\A c \in Client : \A x \in seen'[c] \ seen[c] :
       HasTold(told[c], x[1]) =>
         \/ \E root \in Committed(roots, x[1]) : Sees(roots, c, root)
         \/ Replays(c, x[1]) /\ job'[c] = None /\ \E k \in children : k.parent = x[1] /\ k.target = x[2]]_vars

(* A tab that a session owns, its claim settled, is announced to the clients *)
(* of that session only, and so is what is inside it.                        *)
SessionTargetsAreItsOwn ==
  [][\A c \in Client : \A a \in told'[c] \ told[c] :
       LET root == roots'[TabOf[a.target]]
       IN root # None /\ root.rig # None /\ (\A p \in pending' : p.target # root.page) => RigOf[c] = root.rig]_vars

(* The runtime of a page is reset only for a client that still may, on the   *)
(* page it asked for, or, of a page that nobody has used since, for nobody.  *)
Reset(held) ==
  /\ Routing(held.route.tab) # None
  /\ Routing(held.route.tab).session = held.route.root
ResetsStayInTheirGeneration ==
  [][/\ \A c \in Client : job[c] # job'[c] /\ job'[c] # None /\ job'[c].kind = "runtime" /\ job'[c].at # "enabled" =>
          Reset(job'[c].held) /\ SeesTab(roots, c, job'[c].held.route.tab)
     /\ idle # idle' /\ idle # None /\ idle' # None /\ idle'.sent # None /\ idle'.left # idle.left =>
          Reset(idle'.sent) /\ connected = {}]_vars
=============================================================================
