-------------------------- MODULE CdpClients_proofs --------------------------
(***************************************************************************)
(* Proofs about CdpClients for every set of clients, sessions, tabs and      *)
(* targets, and every number of roots, connections and events: what clients  *)
(* are told is alive, restricted frames stay hidden, a frame is shown only   *)
(* to those that may see its page or asked for it when they could, and       *)
(* runtimes are reset only where they were asked for.                        *)
(***************************************************************************)
EXTENDS CdpClients, FiniteSetTheorems, TLAPS

RootAnn == [session : RootId, target : Page, parent : {None}]
ChildAnn == [session : ChildSession, target : Inside, parent : RootId \cup ChildSession]
Alias == [target : Page, chrome : {None}] \cup [target : Inside, chrome : ChildSession]
Reservation == [rig : Rig, target : Page, session : RootId, previous : Rig \cup {None}]
Attachment == [at : {"preparing", "presenting"}, root : Root]
Route == [tab : Tab, root : RootId, child : Child \cup {None}]
Hold == [route : Route, page : Page]
Job == [kind : {"attach"}, left : SUBSET Root] \cup [kind : {"replay"}, root : RootId]
       \cup [kind : {"runtime"}, at : {"enabled", "disabled", "again"}, held : Hold]
Idle == [generation : Nat, left : SUBSET Hold, sent : Hold \cup {None}]

RegistryOK ==
  /\ roots \in [Tab -> Root \cup {None}] /\ staged \in [Tab -> Root \cup {None}]
  /\ children \subseteq Child /\ pending \subseteq Reservation
  /\ attaching \in [Tab -> Attachment \cup {None}]
  /\ \A t \in Tab : /\ roots[t] # None => TabOf[roots[t].page] = t
                    /\ staged[t] # None => TabOf[staged[t].page] = t
PoolOK ==
  /\ connected \subseteq Client
  /\ told \in [Client -> SUBSET (RootAnn \cup ChildAnn)]
  /\ aliases \in [Client -> SUBSET Alias]
  /\ seen \in [Client -> SUBSET (RootId \X Frame)]
  /\ protected \subseteq Frame
  /\ doc \in [Frame -> {"absent", "ordinary", "restricted"}]
WorkOK ==
  /\ generation \in Nat
  /\ job \in [Client -> Job \cup {None}]
  /\ idle \in Idle \cup {None}
UsedOK == used \in [roots : Nat, connections : Nat, events : Nat]
TypeOK == RegistryOK /\ PoolOK /\ WorkOK /\ UsedOK

-----------------------------------------------------------------------------
(* A client that is not connected knows and waits for nothing.              *)
Gone(c) == told[c] = {} /\ job[c] = None
GoneInv == \A c \in Client : c \notin connected => Gone(c)

(* The session of a root that somebody may have heard of, or soon will.      *)
Shown(s) ==
  \/ \E t \in Tab : roots[t] # None /\ roots[t].session = s
  \/ \E t \in Tab : attaching[t] # None /\ attaching[t].at = "presenting" /\ attaching[t].root.session = s
  \/ \E c \in Client : \/ \E a \in told[c] : a.session = s
                       \/ job[c] # None /\ job[c].kind = "attach" /\ \E root \in job[c].left : root.session = s
                       \/ job[c] # None /\ job[c].kind = "replay" /\ job[c].root = s

(* Roots are numbered as they are staged, and nobody hears of a staged root. *)
StagedInv ==
  /\ \A s \in RootId : Shown(s) => s <= used.roots
  /\ \A t \in Tab : staged[t] # None => staged[t].session <= used.roots /\ ~Shown(staged[t].session)
  /\ \A t, u \in Tab : staged[t] # None /\ staged[u] # None /\ staged[t].session = staged[u].session => t = u

(* What is inside a staged root is in its tab; what an attachment that never *)
(* was committed left behind is inside a root nobody hears of.               *)
ParentOk(k) ==
  k.parent \in RootId =>
    /\ k.parent <= used.roots
    /\ \A t \in Tab : staged[t] # None /\ k.parent = staged[t].session => TabOf[k.target] = t
    /\ roots[TabOf[k.target]] = None => ~Shown(k.parent)
ParentInv == \A k \in children : ParentOk(k)

(* Announcements and aliases of what is inside pages are of committed roots. *)
Exists(s, x) == \E k \in children : k.session = s /\ k.target = x
Reachable(a) == Exists(a.session, a.target) /\ roots[TabOf[a.target]] # None
ToldInv == \A c \in Client : \A a \in told[c] : a.parent # None => Reachable(a)

Live(a) ==
  /\ roots[TabOf[a.target]] # None
  /\ IF a.chrome = None THEN roots[TabOf[a.target]].page = a.target ELSE Exists(a.chrome, a.target)
AliasInv == \A c \in Client : \A a \in aliases[c] : Live(a)

SeenInv == \A c \in Client : \A x \in seen[c] : x[1] <= used.roots
HiddenInv ==
  \A f \in Frame, c \in Client :
    Routing(TabOf[f]) # None /\ (doc[f] = "restricted" \/ f \in protected) => <<Source(TabOf[f]), f>> \notin seen[c]

(* What is stored of the frames of a tab that has a root is of none that is  *)
(* hidden: a replay tells it again.                                         *)
KnownInv ==
  /\ known \subseteq Frame
  /\ \A f \in known : Routing(TabOf[f]) # None => doc[f] # "restricted" /\ f \notin protected

Inv == TypeOK /\ GoneInv /\ StagedInv /\ ParentInv /\ ToldInv /\ AliasInv /\ SeenInv /\ HiddenInv

-----------------------------------------------------------------------------
(* What the operators on announcements keep.                                *)
LEMMA ConstantsTyped ==
  /\ First \in Nat /\ MaxRoots \in Nat /\ RootId \subseteq Nat
  /\ \A f \in Frame : f \in Inside /\ TabOf[f] \in Tab
  /\ \A x \in Inside : TabOf[x] \in Tab
  /\ \A x \in Page : TabOf[x] \in Tab
  /\ None \notin Root /\ None \notin Child /\ None \notin RootId \cup ChildSession
  /\ RootAnn \cap ChildAnn = {} /\ ChildSession \cap RootId = {} /\ Page \cap Inside = {}
  /\ \A a \in RootAnn : a.parent = None /\ a.session \in RootId
  /\ \A a \in ChildAnn : a.parent # None /\ a.session \in ChildSession /\ a.target \in Inside
  <1>1. First \in Nat
    <2>1. IsFiniteSet({t \in Tab : Before[t] # None})
      BY FS_Subset, ClientsAssumption
    <2> QED BY <2>1, FS_CardinalityType DEF First
  <1>2. MaxRoots \in Nat /\ RootId \subseteq Nat
    BY ClientsAssumption DEF RootId
  <1>3. \A x \in Page \cup Inside : TabOf[x] \in Tab
    BY ClientsAssumption
  <1>4. \A f \in Frame : f \in Inside
    BY DEF Inside
  <1>5. \A a \in RootAnn : a.parent = None /\ a.session \in RootId
    BY DEF RootAnn
  <1>6. \A a \in ChildAnn : a.parent # None /\ a.session \in ChildSession /\ a.target \in Inside
    BY NamesAssumption DEF ChildAnn
  <1>7. RootAnn \cap ChildAnn = {}
    BY <1>5, <1>6
  <1> QED BY <1>1, <1>2, <1>3, <1>4, <1>5, <1>6, <1>7, NamesAssumption

LEMMA AnnounceAdds ==
  ASSUME NEW ann, NEW a PROVE Announce(ann, a) \subseteq ann \cup {a}
  BY DEF Announce

LEMMA AnnounceAllAdds ==
  ASSUME NEW ann, NEW new PROVE AnnounceAll(ann, new) \subseteq ann \cup new
  BY DEF AnnounceAll

LEMMA EndedEnds ==
  ASSUME NEW ann, NEW S
  PROVE  Ended(ann, S) \subseteq ann /\ \A a \in Ended(ann, S) : a.session \notin S
  BY DEF Ended, Under

LEMMA DroppedEnds ==
  ASSUME NEW ann, NEW S
  PROVE  Dropped(ann, S) \subseteq ann /\ \A a \in Dropped(ann, S) : a.session \notin S
  BY DEF Dropped

LEMMA LeftEnds ==
  ASSUME NEW ann, NEW s, NEW c \in Blinded(roots, s)
  PROVE  \A a \in ann \ Left(ann, s, c) : a.session # s
  BY DEF Left, Under

LEMMA PrunedKeeps ==
  ASSUME NEW rs, NEW ch, NEW c PROVE Pruned(rs, ch, c) \subseteq told[c]
  BY EndedEnds DEF Pruned

LEMMA AnnouncementsTyped ==
  /\ \A root \in Root : RootAnnouncement(root) \in RootAnn
  /\ \A k \in Child : ChildAnnouncement(k) \in ChildAnn
  BY DEF RootAnnouncement, ChildAnnouncement, RootAnn, ChildAnn, Root, Child

LEMMA TellShrinksSeen ==
  ASSUME NEW new, Tell(new), seen \in [Client -> SUBSET (RootId \X Frame)]
  PROVE  /\ told' = new
         /\ seen' \in [Client -> SUBSET (RootId \X Frame)]
         /\ \A c \in Client : seen'[c] \subseteq seen[c]
  BY DEF Tell

(* A committed root inherits the owner of the one it replaces.              *)
LEMMA HeirTyped ==
  ASSUME RegistryOK, NEW t \in Tab, NEW root \in Root
  PROVE  /\ Heir(t, root) \in Root
         /\ Heir(t, root).session = root.session /\ Heir(t, root).page = root.page
  <1>1. CASE roots[t] = None
    BY <1>1 DEF Heir
  <1>2. CASE roots[t] # None
    <2> DEFINE held == {p \in pending : p.target = roots[t].page}
               rig == IF held = {} THEN roots[t].rig ELSE (CHOOSE p \in held : TRUE).previous
    <2>1. roots[t] \in Root
      BY <1>2 DEF RegistryOK
    <2>2. rig \in Rig \cup {None}
      <3>1. CASE held = {}
        BY <3>1, <2>1 DEF Root
      <3>2. CASE held # {}
        <4>1. (CHOOSE p \in held : TRUE) \in held
          BY <3>2
        <4>2. (CHOOSE p \in held : TRUE) \in Reservation
          BY <4>1 DEF RegistryOK
        <4> QED BY <4>2, <3>2 DEF Reservation
      <3> QED BY <3>1, <3>2
    <2>3. Heir(t, root) = [root EXCEPT !.owner = roots[t].owner, !.rig = rig]
      BY <1>2 DEF Heir
    <2> HIDE DEF rig
    <2> QED BY <2>1, <2>2, <2>3 DEF Root
  <1> QED BY <1>1, <1>2

-----------------------------------------------------------------------------
(* What an event of a page does to what clients know.                       *)
LEMMA BroadcastShows ==
  ASSUME PoolOK, NEW s \in RootId, NEW shown \in SUBSET Frame, NEW gone, Broadcast(s, shown, gone)
  PROVE  /\ told' \in [Client -> SUBSET (RootAnn \cup ChildAnn)] /\ \A c \in Client : told'[c] \subseteq told[c]
         /\ aliases' \in [Client -> SUBSET Alias] /\ \A c \in Client : aliases'[c] \subseteq aliases[c]
         /\ seen' \in [Client -> SUBSET (RootId \X Frame)]
         /\ \A c \in Client : \A x \in seen'[c] \ seen[c] : c \in Viewers(roots, s) /\ x[1] = s /\ x[2] \in shown
         /\ \A c \in Client : GoneInv => \A f \in gone \ shown : <<s, f>> \notin seen'[c]
  <1>1. told' \in [Client -> SUBSET (RootAnn \cup ChildAnn)] /\ \A c \in Client : told'[c] \subseteq told[c]
    BY DEF Broadcast, PoolOK
  <1>2. aliases' \in [Client -> SUBSET Alias] /\ \A c \in Client : aliases'[c] \subseteq aliases[c]
    BY DEF Broadcast, PoolOK, NotOf
  <1>3. ASSUME NEW c \in Client
        PROVE  /\ seen'[c] \subseteq RootId \X Frame
               /\ \A x \in seen'[c] \ seen[c] : c \in Viewers(roots, s) /\ x[1] = s /\ x[2] \in shown
               /\ GoneInv => \A f \in gone \ shown : <<s, f>> \notin seen'[c]
    <2>1. CASE c \in Viewers(roots, s)
      <3>1. seen'[c] = {x \in seen[c] : ~(x[1] = s /\ x[2] \in gone)} \cup {<<s, f>> : f \in shown}
        BY <2>1 DEF Broadcast
      <3>2. seen[c] \subseteq RootId \X Frame
        BY DEF PoolOK
      <3> QED BY <2>1, <3>1, <3>2
    <2>2. CASE c \notin Viewers(roots, s)
      <3>1. seen'[c] = {x \in seen[c] : HasTold(told'[c], x[1])}
        BY <2>2 DEF Broadcast
      <3>2. seen[c] \subseteq RootId \X Frame
        BY DEF PoolOK
      <3>3. GoneInv => ~HasTold(told'[c], s)
        <4>1. CASE c \in Blinded(roots, s)
          BY <4>1, LeftEnds DEF Broadcast, HasTold
        <4>2. CASE c \notin Blinded(roots, s)
          BY <4>2, <2>2, <1>1 DEF Blinded, HasTold, GoneInv, Gone
        <4> QED BY <4>1, <4>2
      <3> QED BY <3>1, <3>2, <3>3
    <2> QED BY <2>1, <2>2
  <1>4. seen' \in [Client -> SUBSET (RootId \X Frame)]
    <2>1. seen' = [c \in Client |-> seen'[c]]
      BY DEF Broadcast
    <2> QED BY <2>1, <1>3
  <1> QED BY <1>1, <1>2, <1>3, <1>4

LEMMA HideTargetHides ==
  ASSUME PoolOK, NEW x \in Inside, Routing(TabOf[x]) # None,
         NEW ann \in [Client -> SUBSET (RootAnn \cup ChildAnn)], \A c \in Client : ann[c] \subseteq told[c],
         NEW al \in [Client -> SUBSET Alias], HideTarget(x, ann, al)
  PROVE  /\ told' \in [Client -> SUBSET (RootAnn \cup ChildAnn)] /\ \A c \in Client : told'[c] \subseteq ann[c]
         /\ aliases' \in [Client -> SUBSET Alias] /\ \A c \in Client : aliases'[c] \subseteq al[c]
         /\ seen' \in [Client -> SUBSET (RootId \X Frame)] /\ \A c \in Client : seen'[c] \subseteq seen[c]
         /\ protected' = protected \cup ({x} \cap Frame)
         /\ \A c \in Client : GoneInv /\ x \in Frame \ protected => <<Source(TabOf[x]), x>> \notin seen'[c]
  <1> DEFINE s == Source(TabOf[x])
             hide == x \in Frame \ protected
  <1>1. /\ protected' = IF hide THEN protected \cup {x} ELSE protected
        /\ told' = [c \in Client |-> IF hide THEN ann[c] \ Left(ann[c], s, c) ELSE ann[c]]
        /\ aliases' = [c \in Client |-> IF hide THEN NotOf(Left(ann[c], s, c), al[c]) ELSE al[c]]
        /\ seen' = [c \in Client |-> {y \in seen[c] :
             HasTold(told'[c], y[1]) /\ (hide /\ c \in Viewers(roots, s) => y # <<s, x>>)}]
    BY DEF HideTarget
  <1>2. told' \in [Client -> SUBSET (RootAnn \cup ChildAnn)] /\ \A c \in Client : told'[c] \subseteq ann[c]
    BY <1>1
  <1>3. aliases' \in [Client -> SUBSET Alias] /\ \A c \in Client : aliases'[c] \subseteq al[c]
    BY <1>1 DEF NotOf
  <1>4. seen' \in [Client -> SUBSET (RootId \X Frame)] /\ \A c \in Client : seen'[c] \subseteq seen[c]
    BY <1>1 DEF PoolOK
  <1>5. protected' = protected \cup ({x} \cap Frame)
    BY <1>1 DEF PoolOK
  <1>6. ASSUME NEW c \in Client, GoneInv, hide PROVE <<s, x>> \notin seen'[c]
    <2>1. CASE c \in Viewers(roots, s)
      BY <2>1, <1>1, <1>6
    <2>2. CASE c \in Blinded(roots, s)
      <3>1. told'[c] = ann[c] \ Left(ann[c], s, c)
        BY <1>1, <1>6
      <3>2. ~HasTold(told'[c], s)
        BY <3>1, <2>2, LeftEnds DEF HasTold
      <3>3. \A y \in seen'[c] : HasTold(told'[c], y[1])
        BY <1>1
      <3> QED BY <3>2, <3>3
    <2>3. CASE c \notin Viewers(roots, s) \cup Blinded(roots, s)
      <3>1. ~HasTold(told[c], s)
        BY <2>3, <1>6 DEF Blinded, HasTold, GoneInv, Gone
      <3>2. ~HasTold(told'[c], s)
        BY <3>1, <1>2 DEF HasTold
      <3>3. \A y \in seen'[c] : HasTold(told'[c], y[1])
        BY <1>1
      <3> QED BY <3>2, <3>3
    <2> QED BY <2>1, <2>2, <2>3
  <1> QED BY <1>2, <1>3, <1>4, <1>5, <1>6

LEMMA SourceTyped ==
  ASSUME RegistryOK, NEW t \in Tab, Routing(t) # None
  PROVE  Routing(t) \in Root /\ Source(t) \in RootId
  BY DEF RegistryOK, Routing, Source, Root

(* What a change of ownership does to what clients know.                    *)
LEMMA ReconcileShows ==
  ASSUME PoolOK, NEW rs \in [Tab -> Root \cup {None}], NEW tabs \in SUBSET Tab,
         ReconcileTargetOwnership(rs, tabs)
  PROVE  /\ told' \in [Client -> SUBSET (RootAnn \cup ChildAnn)]
         /\ \A c \in Client : c \notin connected => told'[c] = told[c]
         /\ \A c \in Client : \A a \in told'[c] \ told[c] :
              a.parent = None /\ \E t \in Tab : rs[t] # None /\ rs[t].session = a.session
         /\ aliases' \in [Client -> SUBSET Alias] /\ \A c \in Client : aliases'[c] \subseteq aliases[c]
         /\ seen' \in [Client -> SUBSET (RootId \X Frame)] /\ \A c \in Client : seen'[c] \subseteq seen[c]
  <1> DEFINE news(c) == {RootAnnouncement(rs[t]) : t \in {u \in tabs : SeesTab(rs, c, u)}}
  <1>1. told' = [c \in Client |->
          IF c \notin connected THEN told[c] ELSE AnnounceAll(Pruned(rs, children, c), news(c))]
    BY DEF ReconcileTargetOwnership, Tell
  <1>2. ASSUME NEW c \in Client
        PROVE  told'[c] \subseteq told[c] \cup news(c) /\ (c \notin connected => told'[c] = told[c])
    <2>1. AnnounceAll(Pruned(rs, children, c), news(c)) \subseteq told[c] \cup news(c)
      BY AnnounceAllAdds, PrunedKeeps
    <2> QED BY <1>1, <2>1
  <1>3. ASSUME NEW c \in Client, NEW a \in news(c)
        PROVE  a \in RootAnn /\ a.parent = None /\ \E t \in Tab : rs[t] # None /\ rs[t].session = a.session
    <2>1. PICK t \in tabs : a = RootAnnouncement(rs[t]) /\ rs[t] # None
      BY <1>3 DEF SeesTab
    <2>2. t \in Tab /\ rs[t] \in Root
      BY <2>1
    <2> QED BY <2>1, <2>2, AnnouncementsTyped DEF RootAnnouncement
  <1>4. told' \in [Client -> SUBSET (RootAnn \cup ChildAnn)]
    <2>1. \A c \in Client : told'[c] \subseteq RootAnn \cup ChildAnn
      BY <1>2, <1>3 DEF PoolOK
    <2> HIDE DEF news
    <2> QED BY <1>1, <2>1
  <1>5. seen' \in [Client -> SUBSET (RootId \X Frame)] /\ \A c \in Client : seen'[c] \subseteq seen[c]
    BY TellShrinksSeen DEF ReconcileTargetOwnership, PoolOK
  <1>6. aliases' \in [Client -> SUBSET Alias] /\ \A c \in Client : aliases'[c] \subseteq aliases[c]
    BY DEF ReconcileTargetOwnership, PoolOK
  <1> HIDE DEF news
  <1>7. \A c \in Client : c \notin connected => told'[c] = told[c]
    BY <1>2
  <1>8. \A c \in Client : \A a \in told'[c] \ told[c] :
          a.parent = None /\ \E t \in Tab : rs[t] # None /\ rs[t].session = a.session
    BY <1>2, <1>3
  <1> QED BY <1>4, <1>5, <1>6, <1>7, <1>8

-----------------------------------------------------------------------------
(* What a step that neither stages nor ends a root leaves as it was.        *)
RootsSame ==
  \A t \in Tab : /\ roots'[t] = None <=> roots[t] = None
                 /\ roots[t] # None => roots'[t].session = roots[t].session /\ roots'[t].page = roots[t].page
AttachKeeps ==
  \A t \in Tab : attaching'[t] # None /\ attaching'[t].at = "presenting" => attaching'[t] = attaching[t]
JobsShown ==
  \A c \in Client : job'[c] # None =>
    /\ job'[c].kind = "attach" => \A root \in job'[c].left : Shown(root.session)
    /\ job'[c].kind = "replay" => Shown(job'[c].root)
NewsShown == \A c \in Client : \A a \in told'[c] \ told[c] : a.parent = None => Shown(a.session)
Calm ==
  /\ staged' = staged /\ used'.roots = used.roots
  /\ RootsSame /\ AttachKeeps /\ JobsShown /\ NewsShown

LEMMA JobsStayShown ==
  ASSUME job' = job PROVE JobsShown
  BY DEF JobsShown, Shown

LEMMA CalmRouting ==
  ASSUME Calm, NEW t \in Tab
  PROVE  /\ Routing(t)' = None <=> Routing(t) = None
         /\ Routing(t) # None => Source(t)' = Source(t)
  BY DEF Calm, RootsSame, Routing, Source

LEMMA ShownStays ==
  ASSUME \A t \in Tab : roots'[t] # None => Shown(roots'[t].session), AttachKeeps, JobsShown, NewsShown,
         told' \in [Client -> SUBSET (RootAnn \cup ChildAnn)],
         NEW s \in RootId, Shown(s)'
  PROVE  Shown(s)
  <1>1. CASE \E t \in Tab : roots'[t] # None /\ roots'[t].session = s
    BY <1>1
  <1>2. CASE \E t \in Tab : attaching'[t] # None /\ attaching'[t].at = "presenting" /\ attaching'[t].root.session = s
    BY <1>2 DEF AttachKeeps, Shown
  <1>3. CASE \E c \in Client : \E a \in told'[c] : a.session = s
    <2>1. PICK c \in Client : \E a \in told'[c] : a.session = s
      BY <1>3
    <2>2. PICK a \in told'[c] : a.session = s
      BY <2>1
    <2>3. a.parent = None
      <3>1. a \in RootAnn \cup ChildAnn
        BY <2>2
      <3> QED BY <3>1, <2>2, ConstantsTyped
    <2> QED BY <2>2, <2>3 DEF NewsShown, Shown
  <1>4. CASE \E c \in Client : job'[c] # None /\ job'[c].kind = "attach" /\ \E root \in job'[c].left : root.session = s
    BY <1>4 DEF JobsShown
  <1>5. CASE \E c \in Client : job'[c] # None /\ job'[c].kind = "replay" /\ job'[c].root = s
    BY <1>5 DEF JobsShown
  <1> QED BY <1>1, <1>2, <1>3, <1>4, <1>5 DEF Shown

LEMMA CalmShown ==
  ASSUME TypeOK', Calm, NEW s \in RootId, Shown(s)'
  PROVE  Shown(s)
  <1>1. \A t \in Tab : roots'[t] # None => Shown(roots'[t].session)
    BY DEF Calm, RootsSame, Shown
  <1> QED BY <1>1, ShownStays DEF Calm, TypeOK, PoolOK

LEMMA CalmStaged ==
  ASSUME Inv, TypeOK', Calm
  PROVE  StagedInv' /\ \A k \in children : ParentOk(k)'
  <1>1. \A s \in RootId : Shown(s)' => Shown(s)
    BY CalmShown DEF Inv
  <1>2. \A t \in Tab : staged[t] # None => staged[t].session \in RootId
    BY DEF Inv, TypeOK, RegistryOK, Root
  <1>3. StagedInv'
    BY <1>1, <1>2 DEF StagedInv, Inv, Calm
  <1>4. ASSUME NEW k \in children, k.parent \in RootId PROVE ParentOk(k)'
    <2>1. TabOf[k.target] \in Tab
      BY ConstantsTyped DEF Inv, TypeOK, RegistryOK, Child
    <2>2. ParentOk(k)
      BY DEF Inv, ParentInv
    <2> QED BY <1>1, <1>4, <2>1, <2>2 DEF ParentOk, Calm, RootsSame
  <1> QED BY <1>3, <1>4 DEF ParentOk

(* What clients know of the tabs and targets that stay is still true.       *)
LEMMA CalmKnown ==
  ASSUME Inv, TypeOK', RootsSame,
         \A c \in Client : \A a \in told'[c] \ told[c] : a.parent # None => Reachable(a)',
         \A c \in Client : \A a \in aliases'[c] \ aliases[c] : Live(a)',
         \A c \in Client : \A a \in told'[c] : Exists(a.session, a.target) => Exists(a.session, a.target)',
         \A c \in Client : \A a \in aliases'[c] : Exists(a.chrome, a.target) => Exists(a.chrome, a.target)'
  PROVE  ToldInv' /\ AliasInv'
  <1>1. ASSUME NEW c \in Client, NEW a \in told'[c] \cap told[c], a.parent # None PROVE Reachable(a)'
    <2>1. a \in told[c] /\ a \in RootAnn \cup ChildAnn
      BY <1>1 DEF TypeOK, PoolOK
    <2>2. TabOf[a.target] \in Tab
      BY <2>1, <1>1, ConstantsTyped
    <2> QED BY <2>1, <2>2, <1>1 DEF Inv, ToldInv, Reachable, RootsSame
  <1>2. ASSUME NEW c \in Client, NEW a \in aliases'[c] \cap aliases[c] PROVE Live(a)'
    <2>1. a \in aliases[c] /\ a \in Alias
      BY <1>2 DEF TypeOK, PoolOK
    <2>2. TabOf[a.target] \in Tab
      BY <2>1, ConstantsTyped DEF Alias
    <2> QED BY <2>1, <2>2, <1>2 DEF Inv, AliasInv, Live, RootsSame
  <1> QED BY <1>1, <1>2 DEF ToldInv, AliasInv

LEMMA CalmHidden ==
  ASSUME Inv, TypeOK', Calm, \A c \in Client : seen'[c] \subseteq seen[c],
         \A f \in Frame : doc'[f] = "restricted" \/ f \in protected' => doc[f] = "restricted" \/ f \in protected
  PROVE  SeenInv' /\ HiddenInv'
  <1>1. SeenInv'
    BY DEF SeenInv, Inv, Calm
  <1>2. \A f \in Frame : TabOf[f] \in Tab
    BY ConstantsTyped
  <1> QED BY <1>1, <1>2, CalmRouting DEF HiddenInv, Inv

(* A step after which nobody knows more of what is inside pages.            *)
NothingNewInside ==
  /\ Calm /\ children' = children
  /\ \A c \in Client : \A a \in told'[c] \ told[c] : a.parent = None
  /\ \A c \in Client : aliases'[c] \subseteq aliases[c] /\ seen'[c] \subseteq seen[c]
  /\ \A f \in Frame : doc'[f] = "restricted" \/ f \in protected' => doc[f] = "restricted" \/ f \in protected

LEMMA CalmInv ==
  ASSUME Inv, TypeOK', GoneInv', NothingNewInside
  PROVE  Inv'
  <1>1. StagedInv' /\ ParentInv'
    BY CalmStaged DEF ParentInv, NothingNewInside
  <1>2. ToldInv' /\ AliasInv'
    BY CalmKnown DEF NothingNewInside, Calm, Exists
  <1>3. SeenInv' /\ HiddenInv'
    BY CalmHidden DEF NothingNewInside
  <1> QED BY <1>1, <1>2, <1>3 DEF Inv

-----------------------------------------------------------------------------
(* The steps that tell nobody anything.                                     *)
LEMMA CountTyped ==
  ASSUME UsedOK, NEW what \in {"connections", "events"}, Count(what)
  PROVE  UsedOK' /\ used'.roots = used.roots
  BY DEF UsedOK, Count

LEMMA HappensTyped ==
  ASSUME UsedOK, Happens PROVE UsedOK' /\ used'.roots = used.roots
  BY CountTyped DEF Happens

(* A step that leaves to clients all they know.                             *)
LEMMA NobodyHears ==
  ASSUME UNCHANGED <<told, aliases, seen, children, protected, doc>>, Calm PROVE NothingNewInside
  BY DEF NothingNewInside

LEMMA ResumeKeeps ==
  ASSUME Inv, NEW t \in Tab, Resume(t) \/ GiveUp(t) PROVE Inv'
  <1>1. /\ UNCHANGED <<registry, hidden, pool, job, idle, doc, seen, used>>
        /\ \/ attaching' = [attaching EXCEPT ![t] = None]
           \/ staged[t] # None /\ attaching' = [attaching EXCEPT ![t] = [at |-> "preparing", root |-> staged[t]]]
    BY DEF Resume, GiveUp
  <1>2. attaching \in [Tab -> Attachment \cup {None}] /\ (staged[t] # None => staged[t] \in Root)
    BY DEF Inv, TypeOK, RegistryOK
  <1>3. attaching' \in [Tab -> Attachment \cup {None}]
    BY <1>1, <1>2 DEF Attachment
  <1>4. AttachKeeps
    BY <1>1, <1>2 DEF AttachKeeps
  <1>5. TypeOK'
    BY <1>1, <1>3 DEF Inv, TypeOK, RegistryOK, PoolOK, WorkOK, UsedOK, registry, hidden, pool
  <1>6. GoneInv'
    BY <1>1 DEF Inv, GoneInv, Gone, pool
  <1>7. Calm
    BY <1>1, <1>4, JobsStayShown DEF Calm, RootsSame, NewsShown, registry, pool
  <1> QED BY <1>1, <1>5, <1>6, <1>7, NobodyHears, CalmInv DEF registry, hidden, pool

(* A step of clients that only changes what they wait for.                  *)
LEMMA JobChanges ==
  ASSUME Inv, WorkOK', UsedOK', used'.roots = used.roots, JobsShown,
         \A c \in Client : c \notin connected => job'[c] = None,
         UNCHANGED <<registry, hidden, attaching, told, aliases, doc, seen>>, connected \subseteq connected', connected' \subseteq Client
  PROVE  Inv'
  <1>1. TypeOK'
    BY DEF Inv, TypeOK, RegistryOK, PoolOK, registry, hidden
  <1>2. GoneInv'
    BY DEF Inv, GoneInv, Gone
  <1>3. Calm
    BY DEF Calm, RootsSame, NewsShown, AttachKeeps, registry
  <1> QED BY <1>1, <1>2, <1>3, NobodyHears, CalmInv DEF registry, hidden

LEMMA RegisterKeeps ==
  ASSUME Inv, NEW c \in Client, Register(c) PROVE Inv'
  <1>1. WorkOK'
    BY DEF Register, Inv, TypeOK, WorkOK
  <1>2. UsedOK' /\ used'.roots = used.roots
    BY CountTyped DEF Register, Inv, TypeOK
  <1>3. connected \subseteq connected' /\ connected' \subseteq Client
    BY DEF Register, Inv, TypeOK, PoolOK
  <1>4. job' = job /\ UNCHANGED <<registry, hidden, attaching, told, aliases, doc, seen>>
    BY DEF Register
  <1>5. \A d \in Client : d \notin connected => job'[d] = None
    BY <1>4 DEF Inv, GoneInv, Gone
  <1> QED BY <1>1, <1>2, <1>3, <1>4, <1>5, JobsStayShown, JobChanges

LEMMA RoutesTyped ==
  ASSUME RegistryOK, NEW r \in Routes PROVE Capture(r) \in Hold
  <1>1. CASE \E t \in Tab : roots[t] # None /\ r = [tab |-> t, root |-> roots[t].session, child |-> None]
    <2>1. PICK t \in Tab : roots[t] # None /\ r = [tab |-> t, root |-> roots[t].session, child |-> None]
      BY <1>1
    <2>2. roots[t] \in Root
      BY <2>1 DEF RegistryOK
    <2> QED BY <2>1, <2>2 DEF Capture, Hold, Route, Root
  <1>2. CASE \E k \in children : roots[TabOf[k.target]] # None
               /\ r = [tab |-> TabOf[k.target], root |-> roots[TabOf[k.target]].session, child |-> k]
    <2>1. PICK k \in children : roots[TabOf[k.target]] # None
               /\ r = [tab |-> TabOf[k.target], root |-> roots[TabOf[k.target]].session, child |-> k]
      BY <1>2
    <2>2. k \in Child
      BY <2>1 DEF RegistryOK
    <2>3. TabOf[k.target] \in Tab
      BY <2>2, ConstantsTyped DEF Child
    <2>4. roots[TabOf[k.target]] \in Root
      BY <2>1, <2>3 DEF RegistryOK
    <2> QED BY <2>1, <2>2, <2>3, <2>4 DEF Capture, Hold, Route, Root
  <1> QED BY <1>1, <1>2 DEF Routes

(* A command of a client that begins to wait.                               *)
LEMMA WaitKeeps ==
  ASSUME Inv, NEW c \in Client, Request(c), NEW j \in Job, job' = [job EXCEPT ![c] = j],
         j.kind = "attach" => \A root \in j.left : Shown(root.session),
         j.kind = "replay" => Shown(j.root),
         UNCHANGED <<registry, hidden, attaching, pool, idle, doc, seen>>
  PROVE  Inv'
  <1>1. WorkOK'
    BY DEF Inv, TypeOK, WorkOK, pool
  <1>2. UsedOK' /\ used'.roots = used.roots
    BY HappensTyped DEF Request, Inv, TypeOK
  <1>3. JobsShown
    BY JobsStayShown DEF JobsShown, Shown, Inv, TypeOK, WorkOK
  <1>4. connected' = connected /\ connected \subseteq Client /\ c \in connected
    BY DEF Request, pool, Inv, TypeOK, PoolOK
  <1>5. \A d \in Client : d \notin connected => job'[d] = None
    BY <1>4 DEF Inv, GoneInv, Gone, TypeOK, WorkOK
  <1> QED BY <1>1, <1>2, <1>3, <1>4, <1>5, JobChanges DEF pool

LEMMA SetAutoAttachKeeps ==
  ASSUME Inv, NEW c \in Client, SetAutoAttach(c) PROVE Inv'
  <1> DEFINE left == {roots[t] : t \in {u \in Tab : SeesTab(roots, c, u)}}
             j == [kind |-> "attach", left |-> left]
  <1>1. left \subseteq Root /\ \A root \in left : Shown(root.session)
    BY DEF SeesTab, Inv, TypeOK, RegistryOK, Shown
  <1>2. job' = [job EXCEPT ![c] = j] /\ Request(c)
    BY DEF SetAutoAttach
  <1>3. UNCHANGED <<registry, hidden, attaching, pool, idle, doc, seen>>
    BY DEF SetAutoAttach
  <1> HIDE DEF left
  <1>4. j \in Job /\ j.kind = "attach" /\ j.left = left
    BY <1>1 DEF Job
  <1> HIDE DEF j
  <1> QED BY <1>1, <1>2, <1>3, <1>4, WaitKeeps

LEMMA SetAutoAttachOnKeeps ==
  ASSUME Inv, NEW c \in Client, NEW t \in Tab, SetAutoAttachOn(c, t) PROVE Inv'
  <1> DEFINE j == [kind |-> "replay", root |-> roots[t].session]
  <1>1. roots[t].session \in RootId /\ Shown(roots[t].session)
    BY DEF SetAutoAttachOn, SeesTab, Inv, TypeOK, RegistryOK, Root, Shown
  <1>2. job' = [job EXCEPT ![c] = j] /\ Request(c)
    BY DEF SetAutoAttachOn
  <1>3. UNCHANGED <<registry, hidden, attaching, pool, idle, doc, seen>>
    BY DEF SetAutoAttachOn
  <1>4. j \in Job /\ j.kind = "replay" /\ Shown(j.root)
    BY <1>1 DEF Job
  <1> HIDE DEF j
  <1> QED BY <1>2, <1>3, <1>4, WaitKeeps

LEMMA RuntimeEnableKeeps ==
  ASSUME Inv, NEW c \in Client, RuntimeEnable(c) PROVE Inv'
  <1>1. PICK r \in Routes : job' = [job EXCEPT ![c] = [kind |-> "runtime", at |-> "enabled", held |-> Capture(r)]]
    BY DEF RuntimeEnable
  <1> DEFINE j == [kind |-> "runtime", at |-> "enabled", held |-> Capture(r)]
  <1>2. Request(c) /\ UNCHANGED <<registry, hidden, attaching, pool, idle, doc, seen>>
    BY DEF RuntimeEnable
  <1>3. j \in Job /\ j.kind = "runtime"
    BY RoutesTyped DEF Job, Inv, TypeOK
  <1>4. job' = [job EXCEPT ![c] = j]
    BY <1>1
  <1> HIDE DEF j
  <1> QED BY <1>2, <1>3, <1>4, WaitKeeps

(* A command that goes on, or ends, without telling the client of anything.  *)
LEMMA WorkKeeps ==
  ASSUME Inv, NEW c \in Client, CommandFails(c) \/ RuntimeStep(c) PROVE Inv'
  <1>1. /\ job[c] # None /\ UNCHANGED <<registry, hidden, attaching, pool, idle, doc, seen, used>>
        /\ \/ job' = [job EXCEPT ![c] = None]
           \/ /\ job[c].kind = "runtime"
              /\ \/ job' = [job EXCEPT ![c].at = "disabled"]
                 \/ job' = [job EXCEPT ![c].at = "again"]
    BY DEF CommandFails, RuntimeStep, Replays
  <1>2. job[c] \in Job /\ job \in [Client -> Job \cup {None}]
    BY <1>1 DEF Inv, TypeOK, WorkOK
  <1>3. job'[c] = None \/ (job'[c] \in Job /\ job'[c].kind = "runtime")
    BY <1>1, <1>2 DEF Job
  <1>4. job' = [job EXCEPT ![c] = job'[c]]
    BY <1>1, <1>2
  <1>5. JobsShown
    BY <1>3, <1>4, JobsStayShown DEF JobsShown, Shown, Inv, TypeOK, WorkOK
  <1>6. WorkOK' /\ UsedOK' /\ used'.roots = used.roots
    BY <1>1, <1>3, <1>4 DEF Inv, TypeOK, WorkOK, UsedOK, pool
  <1>7. \A d \in Client : d \notin connected => job'[d] = None
    BY <1>1, <1>2, <1>4 DEF Inv, GoneInv, Gone
  <1>8. connected' = connected /\ connected \subseteq Client
    BY <1>1 DEF pool, Inv, TypeOK, PoolOK
  <1> QED BY <1>1, <1>5, <1>6, <1>7, <1>8, JobChanges DEF pool

LEMMA ResetIdleKeeps ==
  ASSUME Inv, ResetIdle PROVE Inv'
  <1>1. UNCHANGED <<registry, hidden, attaching, pool, job, doc, seen, used>>
    BY DEF ResetIdle
  <1>2. idle' \in Idle \cup {None}
    <2>1. idle \in Idle
      BY DEF ResetIdle, Inv, TypeOK, WorkOK
    <2>2. CASE idle.left = {} \/ ~StillIdle
      BY <2>2 DEF ResetIdle
    <2>3. CASE ~(idle.left = {} \/ ~StillIdle)
      <3>1. PICK held \in NextReset :
              idle' = [idle EXCEPT !.left = @ \ {held}, !.sent = IF Current(held) THEN held ELSE None]
        BY <2>3 DEF ResetIdle
      <3>2. held \in Hold
        BY <3>1, <2>1 DEF NextReset, Idle
      <3> QED BY <2>1, <3>1, <3>2 DEF Idle
    <2> QED BY <2>2, <2>3
  <1>3. WorkOK' /\ UsedOK' /\ used'.roots = used.roots
    BY <1>1, <1>2 DEF Inv, TypeOK, WorkOK, UsedOK, pool
  <1>4. connected' = connected /\ connected \subseteq Client /\ job' = job
    BY <1>1 DEF pool, Inv, TypeOK, PoolOK
  <1>5. \A d \in Client : d \notin connected => job'[d] = None
    BY <1>4 DEF Inv, GoneInv, Gone
  <1> QED BY <1>1, <1>3, <1>4, <1>5, JobsStayShown, JobChanges DEF pool

-----------------------------------------------------------------------------
(* Ownership changes hands: roots keep their sessions and pages.            *)
LEMMA ReserveKeeps ==
  ASSUME Inv, NEW rig \in Rig, NEW t \in Tab, Reserve(rig, t) PROVE Inv'
  <1>1. /\ roots' = [roots EXCEPT ![t].rig = rig] /\ roots[t] # None
        /\ UNCHANGED <<staged, children, known, hidden, attaching, pool, job, idle, doc, seen>>
    BY DEF Reserve
  <1>2. roots \in [Tab -> Root \cup {None}] /\ roots[t] \in Root
    BY <1>1 DEF Inv, TypeOK, RegistryOK
  <1>3. roots'[t] \in Root /\ roots'[t].session = roots[t].session /\ roots'[t].page = roots[t].page
    BY <1>1, <1>2 DEF Root
  <1>4. RootsSame
    BY <1>1, <1>2, <1>3, ConstantsTyped DEF RootsSame
  <1>5. pending' \subseteq Reservation
    <2>1. [rig |-> rig, target |-> roots[t].page, session |-> roots[t].session, previous |-> roots[t].rig] \in Reservation
      BY <1>2 DEF Root, Reservation
    <2> QED BY <2>1 DEF Reserve, Inv, TypeOK, RegistryOK
  <1>6. RegistryOK'
    BY <1>1, <1>2, <1>3, <1>4, <1>5 DEF RegistryOK, RootsSame, Inv, TypeOK
  <1>7. UsedOK' /\ used'.roots = used.roots
    BY HappensTyped DEF Reserve, Inv, TypeOK
  <1>8. TypeOK'
    BY <1>1, <1>6, <1>7 DEF Inv, TypeOK, PoolOK, WorkOK, hidden, pool
  <1>9. GoneInv'
    BY <1>1 DEF Inv, GoneInv, Gone, pool
  <1>10. Calm
    BY <1>1, <1>4, <1>7, JobsStayShown DEF Calm, AttachKeeps, NewsShown, pool
  <1> QED BY <1>1, <1>8, <1>9, <1>10, NobodyHears, CalmInv DEF hidden, pool

LEMMA OwnersChange ==
  ASSUME Inv, roots' \in [Tab -> Root \cup {None}], RootsSame, pending' \subseteq pending,
         NEW tabs \in SUBSET Tab, ReconcileTargetOwnership(roots', tabs),
         UNCHANGED <<staged, children, known, hidden, attaching, connected, generation, job, idle, doc>>,
         UsedOK', used'.roots = used.roots
  PROVE  Inv'
  <1>1. PoolOK
    BY DEF Inv, TypeOK
  <1>2. /\ told' \in [Client -> SUBSET (RootAnn \cup ChildAnn)]
        /\ \A c \in Client : c \notin connected => told'[c] = told[c]
        /\ \A c \in Client : \A a \in told'[c] \ told[c] :
             a.parent = None /\ \E t \in Tab : roots'[t] # None /\ roots'[t].session = a.session
        /\ aliases' \in [Client -> SUBSET Alias] /\ \A c \in Client : aliases'[c] \subseteq aliases[c]
        /\ seen' \in [Client -> SUBSET (RootId \X Frame)] /\ \A c \in Client : seen'[c] \subseteq seen[c]
    BY <1>1, ReconcileShows
  <1>3. RegistryOK'
    BY DEF RegistryOK, RootsSame, Inv, TypeOK
  <1>4. TypeOK'
    BY <1>1, <1>2, <1>3 DEF TypeOK, Inv, PoolOK, WorkOK, hidden
  <1>5. GoneInv'
    BY <1>2 DEF Inv, GoneInv, Gone
  <1>6. NewsShown
    BY <1>2 DEF NewsShown, Shown, RootsSame
  <1>7. Calm
    BY <1>6, JobsStayShown DEF Calm, AttachKeeps
  <1>8. NothingNewInside
    BY <1>2, <1>7 DEF NothingNewInside, hidden
  <1> QED BY <1>4, <1>5, <1>8, CalmInv

LEMMA CommitOwnershipKeeps ==
  ASSUME Inv, NEW p \in pending, CommitOwnership(p) PROVE Inv'
  <1>1. PICK left \in {{}} \cup {{t} : t \in {u \in Tab : roots[u] # None /\ roots[u].rig = p.rig}} :
          LET rs == [t \in Tab |-> IF t \in left \ Held(p) THEN [roots[t] EXCEPT !.rig = None] ELSE roots[t]]
          IN roots' = rs /\ ReconcileTargetOwnership(rs, Held(p) \cup left)
    BY DEF CommitOwnership
  <1>2. /\ roots' = [t \in Tab |-> IF t \in left \ Held(p) THEN [roots[t] EXCEPT !.rig = None] ELSE roots[t]]
        /\ ReconcileTargetOwnership(roots', Held(p) \cup left)
    BY <1>1
  <1>3. \A t \in left : t \in Tab /\ roots[t] # None
    BY <1>1
  <1>4. ASSUME NEW t \in Tab
        PROVE  /\ roots'[t] \in Root \cup {None} /\ (roots'[t] = None <=> roots[t] = None)
               /\ roots[t] # None => roots'[t].session = roots[t].session /\ roots'[t].page = roots[t].page
    <2>1. roots[t] \in Root \cup {None}
      BY DEF Inv, TypeOK, RegistryOK
    <2>2. CASE t \in left \ Held(p)
      <3>1. roots[t] \in Root /\ roots'[t] = [roots[t] EXCEPT !.rig = None]
        BY <1>2, <1>3, <2>1, <2>2
      <3>2. roots'[t] \in Root /\ roots'[t].session = roots[t].session /\ roots'[t].page = roots[t].page
        BY <3>1 DEF Root
      <3> QED BY <3>1, <3>2, ConstantsTyped
    <2>3. CASE t \notin left \ Held(p)
      BY <1>2, <2>1, <2>3
    <2> QED BY <2>2, <2>3
  <1>5. roots' \in [Tab -> Root \cup {None}] /\ RootsSame
    BY <1>2, <1>4 DEF RootsSame
  <1>6. Held(p) \cup left \subseteq Tab
    BY <1>3 DEF Held
  <1>7. pending' \subseteq pending /\ used' = used
        /\ UNCHANGED <<staged, children, known, hidden, attaching, connected, generation, job, idle, doc>>
    BY DEF CommitOwnership
  <1>8. UsedOK'
    BY <1>7 DEF UsedOK, Inv, TypeOK
  <1> QED BY <1>2, <1>5, <1>6, <1>7, <1>8, OwnersChange

LEMMA RollbackOwnershipKeeps ==
  ASSUME Inv, NEW p \in pending, RollbackOwnership(p) PROVE Inv'
  <1>1. /\ roots' = [t \in Tab |-> IF t \in Held(p) THEN [roots[t] EXCEPT !.rig = p.previous] ELSE roots[t]]
        /\ ReconcileTargetOwnership(roots', Held(p)) /\ pending' \subseteq pending /\ used' = used
        /\ UNCHANGED <<staged, children, known, hidden, attaching, connected, generation, job, idle, doc>>
    BY DEF RollbackOwnership
  <1>2. p.previous \in Rig \cup {None}
    BY DEF Inv, TypeOK, RegistryOK, Reservation
  <1>3. ASSUME NEW t \in Tab
        PROVE  /\ roots'[t] \in Root \cup {None} /\ (roots'[t] = None <=> roots[t] = None)
               /\ roots[t] # None => roots'[t].session = roots[t].session /\ roots'[t].page = roots[t].page
    <2>1. roots[t] \in Root \cup {None}
      BY DEF Inv, TypeOK, RegistryOK
    <2>2. CASE t \in Held(p)
      <3>1. roots[t] \in Root /\ roots'[t] = [roots[t] EXCEPT !.rig = p.previous]
        BY <1>1, <2>1, <2>2 DEF Held
      <3>2. roots'[t] \in Root /\ roots'[t].session = roots[t].session /\ roots'[t].page = roots[t].page
        BY <3>1, <1>2 DEF Root
      <3> QED BY <3>1, <3>2, ConstantsTyped
    <2>3. CASE t \notin Held(p)
      BY <1>1, <2>1, <2>3
    <2> QED BY <2>2, <2>3
  <1>4. roots' \in [Tab -> Root \cup {None}] /\ RootsSame
    BY <1>1, <1>3 DEF RootsSame
  <1>5. Held(p) \subseteq Tab
    BY DEF Held
  <1>6. UsedOK'
    BY <1>1 DEF UsedOK, Inv, TypeOK
  <1> QED BY <1>1, <1>4, <1>5, <1>6, OwnersChange

LEMMA ReleaseOwnershipKeeps ==
  ASSUME Inv, NEW t \in Tab, ReleaseOwnership(t) PROVE Inv'
  <1>1. /\ roots' = [roots EXCEPT ![t].rig = None] /\ roots[t] # None
        /\ ReconcileTargetOwnership(roots', {t}) /\ pending' = pending
        /\ UNCHANGED <<staged, children, known, hidden, attaching, connected, generation, job, idle, doc>>
    BY DEF ReleaseOwnership
  <1>2. roots \in [Tab -> Root \cup {None}] /\ roots[t] \in Root
    BY <1>1 DEF Inv, TypeOK, RegistryOK
  <1>3. roots'[t] \in Root /\ roots'[t].session = roots[t].session /\ roots'[t].page = roots[t].page
    BY <1>1, <1>2 DEF Root
  <1>4. RootsSame /\ roots' \in [Tab -> Root \cup {None}]
    BY <1>1, <1>2, <1>3, ConstantsTyped DEF RootsSame
  <1>5. UsedOK' /\ used'.roots = used.roots
    BY HappensTyped DEF ReleaseOwnership, Inv, TypeOK
  <1> QED BY <1>1, <1>4, <1>5, OwnersChange

-----------------------------------------------------------------------------
(* Events about frames: whoever may not see a restricted document is told    *)
(* that its frame is gone, or has forgotten the page.                       *)
DocOK(d) == d \in [Frame -> {"absent", "ordinary", "restricted"}]

LEMMA EventKeepsRoots ==
  ASSUME Inv, Happens, UNCHANGED <<aside, children, suppressed>>, PoolOK', NewsShown
  PROVE  TypeOK' /\ Calm
  <1>1. UsedOK' /\ used'.roots = used.roots
    BY HappensTyped DEF Inv, TypeOK
  <1>2. TypeOK'
    BY <1>1 DEF TypeOK, Inv, RegistryOK, WorkOK, aside
  <1>3. Calm
    BY <1>1, JobsStayShown DEF Calm, RootsSame, AttachKeeps, aside
  <1> QED BY <1>2, <1>3

LEMMA SilentKeeps ==
  ASSUME Inv, Happens, Nothing, UNCHANGED <<aside, children, suppressed>>,
         protected' \subseteq protected, DocOK(doc'),
         \A f \in Frame : doc'[f] = "restricted" \/ f \in protected' => doc[f] = "restricted" \/ f \in protected
  PROVE  Inv'
  <1>1. PoolOK' /\ NewsShown
    BY DEF PoolOK, Inv, TypeOK, Nothing, aside, DocOK, NewsShown
  <1>2. TypeOK' /\ Calm
    BY <1>1, EventKeepsRoots
  <1>3. GoneInv'
    BY DEF Inv, GoneInv, Gone, Nothing, aside
  <1>4. NothingNewInside
    BY <1>2 DEF NothingNewInside, Nothing
  <1> QED BY <1>2, <1>3, <1>4, CalmInv

LEMMA BroadcastKeeps ==
  ASSUME Inv, NEW t \in Tab, Event(t), NEW shown \in SUBSET Frame, NEW gone,
         Broadcast(Source(t), shown, gone), UNCHANGED <<aside, children, suppressed>>,
         protected' \subseteq Frame, DocOK(doc'),
         \A f \in shown : TabOf[f] = t /\ doc'[f] # "restricted" /\ f \notin protected',
         \A f \in Frame : doc'[f] = "restricted" \/ f \in protected' =>
           doc[f] = "restricted" \/ f \in protected \/ (TabOf[f] = t /\ f \in gone \ shown)
  PROVE  Inv'
  <1> DEFINE s == Source(t)
  <1>1. PoolOK /\ s \in RootId
    BY SourceTyped DEF Inv, TypeOK, Event
  <1>2. /\ told' \in [Client -> SUBSET (RootAnn \cup ChildAnn)] /\ \A c \in Client : told'[c] \subseteq told[c]
        /\ aliases' \in [Client -> SUBSET Alias] /\ \A c \in Client : aliases'[c] \subseteq aliases[c]
        /\ seen' \in [Client -> SUBSET (RootId \X Frame)]
        /\ \A c \in Client : \A x \in seen'[c] \ seen[c] : c \in Viewers(roots, s) /\ x[1] = s /\ x[2] \in shown
        /\ \A c \in Client : GoneInv => \A f \in gone \ shown : <<s, f>> \notin seen'[c]
    BY <1>1, BroadcastShows
  <1> HIDE DEF s
  <1>3. PoolOK' /\ NewsShown
    BY <1>1, <1>2 DEF PoolOK, aside, DocOK, NewsShown
  <1>4. TypeOK' /\ Calm
    BY <1>3, EventKeepsRoots DEF Event
  <1>5. GoneInv'
    BY <1>2 DEF Inv, GoneInv, Gone, aside
  <1>6. StagedInv' /\ ParentInv'
    BY <1>4, CalmStaged DEF ParentInv
  <1>7. ToldInv' /\ AliasInv'
    BY <1>2, <1>4, CalmKnown DEF Calm, Exists
  <1>8. SeenInv'
    <2>1. s <= used.roots
      <3>1. CASE staged[t] # None
        BY <3>1 DEF s, Source, Routing, Inv, StagedInv
      <3>2. CASE staged[t] = None
        <4>1. roots[t] # None /\ s = roots[t].session
          BY <3>2 DEF s, Source, Routing, Event
        <4> QED BY <4>1, <1>1 DEF Inv, StagedInv, Shown
      <3> QED BY <3>1, <3>2
    <2> QED BY <2>1, <1>2, <1>4 DEF SeenInv, Inv, Calm
  <1>9. ASSUME NEW f \in Frame, NEW c \in Client, Routing(TabOf[f])' # None,
               doc'[f] = "restricted" \/ f \in protected'
        PROVE  <<Source(TabOf[f])', f>> \notin seen'[c]
    <2>1. TabOf[f] \in Tab
      BY ConstantsTyped
    <2>2. Routing(TabOf[f]) # None /\ Source(TabOf[f])' = Source(TabOf[f])
      BY <1>4, <1>9, <2>1, CalmRouting
    <2>3. f \notin shown
      BY <1>9
    <2>4. CASE TabOf[f] = t /\ f \in gone \ shown
      BY <2>4, <2>2, <1>2 DEF s, Inv
    <2>5. CASE doc[f] = "restricted" \/ f \in protected
      BY <2>5, <2>2, <2>3, <1>2 DEF Inv, HiddenInv
    <2> QED BY <2>4, <2>5, <1>9
  <1>10. HiddenInv'
    BY <1>9 DEF HiddenInv
  <1> QED BY <1>4, <1>5, <1>6, <1>7, <1>8, <1>10 DEF Inv

LEMMA FrameAttachedKeeps ==
  ASSUME Inv, NEW f \in Frame, FrameAttached(f) PROVE Inv'
  <1>1. /\ Event(TabOf[f]) /\ doc' = [doc EXCEPT ![f] = "ordinary"] /\ TabOf[f] \in Tab
        /\ protected' = protected /\ UNCHANGED <<aside, children, suppressed>>
    BY ConstantsTyped DEF FrameAttached, hidden
  <1>2. DocOK(doc') /\ protected' \subseteq Frame /\ (\A g \in Frame : doc'[g] = "restricted" => doc[g] = "restricted")
    BY <1>1 DEF Inv, TypeOK, PoolOK, DocOK
  <1>3. CASE f \in protected
    BY <1>1, <1>2, <1>3, SilentKeeps DEF FrameAttached, Event
  <1>4. CASE f \notin protected
    <2>1. Broadcast(Source(TabOf[f]), {f}, {})
      BY <1>4 DEF FrameAttached, ShowFrame
    <2>2. doc'[f] # "restricted"
      BY <1>1 DEF Inv, TypeOK, PoolOK
    <2>3. \A g \in Frame : doc'[g] = "restricted" \/ g \in protected' =>
           doc[g] = "restricted" \/ g \in protected
      BY <1>1, <1>2
    <2>4. \A g \in {f} : TabOf[g] = TabOf[f] /\ doc'[g] # "restricted" /\ g \notin protected'
      BY <1>1, <1>4, <2>2
    <2>5. {f} \in SUBSET Frame
      OBVIOUS
    <2> QED BY <1>1, <1>2, <2>1, <2>3, <2>4, <2>5, BroadcastKeeps
  <1> QED BY <1>3, <1>4

(* Hiding a frame from the clients that had seen it.                        *)
LEMMA RetractKeeps ==
  ASSUME Inv, NEW f \in Frame, Event(TabOf[f]), Retract(f), UNCHANGED <<aside, children, suppressed>>,
         DocOK(doc'), \A g \in Frame : g # f => doc'[g] = doc[g]
  PROVE  Inv'
  <1>1. Broadcast(Source(TabOf[f]), {}, {f}) /\ protected' = protected \cup {f} /\ TabOf[f] \in Tab
    BY ConstantsTyped DEF Retract, HideFrame
  <1>2. protected' \subseteq Frame
    BY <1>1 DEF Inv, TypeOK, PoolOK
  <1> QED BY <1>1, <1>2, BroadcastKeeps

LEMMA FrameStartedNavigatingKeeps ==
  ASSUME Inv, NEW f \in Frame, FrameStartedNavigating(f) PROVE Inv'
  <1>1. Event(TabOf[f]) /\ doc' = doc /\ UNCHANGED <<aside, children, suppressed>> /\ TabOf[f] \in Tab
    BY ConstantsTyped DEF FrameStartedNavigating
  <1>2. DocOK(doc') /\ protected \subseteq Frame
    BY <1>1 DEF Inv, TypeOK, PoolOK, DocOK
  <1>3. CASE f \in protected
    BY <1>1, <1>2, <1>3, SilentKeeps DEF FrameStartedNavigating, Event
  <1>4. CASE f \notin protected /\ f \in known
    BY <1>1, <1>2, <1>4, RetractKeeps DEF FrameStartedNavigating
  <1>5. CASE f \notin protected /\ f \notin known
    <2>1. Broadcast(Source(TabOf[f]), {}, {}) /\ protected' = protected
      BY <1>5 DEF FrameStartedNavigating, Forward
    <2> QED BY <1>1, <1>2, <2>1, BroadcastKeeps
  <1> QED BY <1>3, <1>4, <1>5

LEMMA FrameNavigatedKeeps ==
  ASSUME Inv, NEW f \in Frame, NEW d \in {"ordinary", "restricted"}, FrameNavigated(f, d) PROVE Inv'
  <1>1. /\ Event(TabOf[f]) /\ doc' = [doc EXCEPT ![f] = d] /\ UNCHANGED <<aside, children, suppressed>>
        /\ TabOf[f] \in Tab
    BY ConstantsTyped DEF FrameNavigated
  <1>2. /\ DocOK(doc') /\ protected \subseteq Frame
        /\ doc'[f] = d /\ \A g \in Frame : g # f => doc'[g] = doc[g]
    BY <1>1 DEF Inv, TypeOK, PoolOK, DocOK
  <1>3. CASE d = "ordinary" /\ f \in protected
    <2>1. Broadcast(Source(TabOf[f]), {f}, {}) /\ protected' = protected \ {f}
      BY <1>3 DEF FrameNavigated, ShowFrame
    <2>2. \A g \in Frame : doc'[g] = "restricted" \/ g \in protected' =>
           doc[g] = "restricted" \/ g \in protected
      BY <1>2, <1>3, <2>1
    <2>3. \A g \in {f} : TabOf[g] = TabOf[f] /\ doc'[g] # "restricted" /\ g \notin protected'
      BY <1>2, <1>3, <2>1
    <2>4. {f} \in SUBSET Frame /\ protected' \subseteq Frame
      BY <1>2, <2>1
    <2> QED BY <1>1, <1>2, <2>1, <2>2, <2>3, <2>4, BroadcastKeeps
  <1>4. CASE d = "ordinary" /\ f \notin protected
    <2>1. Broadcast(Source(TabOf[f]), {}, {}) /\ protected' = protected
      BY <1>4 DEF FrameNavigated, Forward
    <2>2. \A g \in Frame : doc'[g] = "restricted" \/ g \in protected' =>
           doc[g] = "restricted" \/ g \in protected
      BY <1>2, <1>4, <2>1
    <2>3. protected' \subseteq Frame /\ {} \in SUBSET Frame
      BY <1>2, <2>1
    <2>4. \A g \in {} : TabOf[g] = TabOf[f] /\ doc'[g] # "restricted" /\ g \notin protected'
      OBVIOUS
    <2>5. \A g \in Frame : doc'[g] = "restricted" \/ g \in protected' =>
            doc[g] = "restricted" \/ g \in protected \/ (TabOf[g] = TabOf[f] /\ g \in {} \ {})
      BY <2>2
    <2> QED BY <1>1, <1>2, <2>1, <2>3, <2>4, <2>5, BroadcastKeeps
  <1>5. CASE d = "restricted" /\ f \in protected
    <2>1. Nothing /\ protected' = protected
      BY <1>5 DEF FrameNavigated
    <2> QED BY <1>1, <1>2, <1>5, <2>1, SilentKeeps DEF Event
  <1>6. CASE d = "restricted" /\ f \notin protected
    <2>1. Retract(f)
      BY <1>6 DEF FrameNavigated
    <2> QED BY <1>1, <1>2, <2>1, RetractKeeps
  <1> QED BY <1>3, <1>4, <1>5, <1>6

LEMMA FrameDetachedKeeps ==
  ASSUME Inv, NEW f \in Frame, FrameDetached(f) PROVE Inv'
  <1>1. /\ Event(TabOf[f]) /\ doc' = [doc EXCEPT ![f] = "absent"] /\ UNCHANGED <<aside, children, suppressed>>
        /\ TabOf[f] \in Tab
    BY ConstantsTyped DEF FrameDetached
  <1>2. /\ DocOK(doc') /\ protected \subseteq Frame
        /\ doc'[f] = "absent" /\ \A g \in Frame : g # f => doc'[g] = doc[g]
    BY <1>1 DEF Inv, TypeOK, PoolOK, DocOK
  <1>3. CASE f \in protected
    <2>1. Nothing /\ protected' = protected \ {f}
      BY <1>3 DEF FrameDetached
    <2> QED BY <1>1, <1>2, <2>1, SilentKeeps DEF Event
  <1>4. CASE f \notin protected
    <2>1. Broadcast(Source(TabOf[f]), {}, {f}) /\ protected' = protected
      BY <1>4 DEF FrameDetached, HideFrame
    <2>2. \A g \in Frame : doc'[g] = "restricted" \/ g \in protected' =>
           doc[g] = "restricted" \/ g \in protected
      BY <1>2, <2>1
    <2>3. protected' \subseteq Frame /\ {} \in SUBSET Frame
      BY <1>2, <2>1
    <2>4. \A g \in {} : TabOf[g] = TabOf[f] /\ doc'[g] # "restricted" /\ g \notin protected'
      OBVIOUS
    <2>5. \A g \in Frame : doc'[g] = "restricted" \/ g \in protected' =>
            doc[g] = "restricted" \/ g \in protected \/ (TabOf[g] = TabOf[f] /\ g \in {f} \ {})
      BY <2>2
    <2> QED BY <1>1, <1>2, <2>1, <2>3, <2>4, <2>5, BroadcastKeeps
  <1> QED BY <1>3, <1>4

LEMMA MainFrameNavigatedKeeps ==
  ASSUME Inv, NEW t \in Tab, MainFrameNavigated(t) PROVE Inv'
  <1>1. /\ Event(t) /\ UNCHANGED <<aside, children, suppressed>>
        /\ doc' = [f \in Frame |-> IF TabOf[f] = t THEN "absent" ELSE doc[f]]
        /\ protected' = {f \in protected : TabOf[f] # t}
        /\ Broadcast(Source(t), {}, {f \in Frame : TabOf[f] = t})
    BY DEF MainFrameNavigated
  <1>2. /\ DocOK(doc') /\ protected' \subseteq protected /\ protected' \subseteq Frame
        /\ \A f \in Frame : doc'[f] = "restricted" => doc[f] = "restricted"
    BY <1>1 DEF Inv, TypeOK, PoolOK, DocOK
  <1> QED BY <1>1, <1>2, BroadcastKeeps

(* What a frame shows while nobody could hear of it.                        *)
LEMMA FrameChangesUnheardKeeps ==
  ASSUME Inv, NEW f \in Frame, FrameChangesUnheard(f) PROVE Inv'
  <1>1. /\ Happens /\ Routing(TabOf[f]) = None /\ TabOf[f] \in Tab
        /\ UNCHANGED <<registry, hidden, attaching, pool, job, idle, seen>>
    BY ConstantsTyped DEF FrameChangesUnheard
  <1>2. DocOK(doc') /\ \A g \in Frame : g # f => doc'[g] = doc[g]
    BY DEF FrameChangesUnheard, Inv, TypeOK, PoolOK, DocOK
  <1>3. PoolOK' /\ NewsShown /\ UNCHANGED <<aside, children, suppressed>>
    BY <1>1, <1>2 DEF PoolOK, Inv, TypeOK, DocOK, pool, hidden, registry, NewsShown, aside
  <1>4. TypeOK' /\ Calm
    BY <1>1, <1>3, EventKeepsRoots
  <1>5. GoneInv'
    BY <1>1 DEF Inv, GoneInv, Gone, pool
  <1>6. StagedInv' /\ ParentInv'
    BY <1>1, <1>4, CalmStaged DEF ParentInv, registry
  <1>7. ToldInv' /\ AliasInv'
    BY <1>1, <1>4, CalmKnown DEF Calm, Exists, registry, pool
  <1>8. SeenInv'
    BY <1>1, <1>4 DEF SeenInv, Inv, Calm
  <1>9. HiddenInv'
    <2> SUFFICES ASSUME NEW g \in Frame, NEW c \in Client, Routing(TabOf[g])' # None,
                        doc'[g] = "restricted" \/ g \in protected'
                 PROVE  <<Source(TabOf[g])', g>> \notin seen'[c]
      BY DEF HiddenInv
    <2>1. TabOf[g] \in Tab
      BY ConstantsTyped
    <2>2. Routing(TabOf[g]) # None /\ Source(TabOf[g])' = Source(TabOf[g])
      BY <1>4, <2>1, CalmRouting
    <2>3. g # f /\ doc'[g] = doc[g] /\ protected' = protected /\ seen' = seen
      BY <1>1, <1>2, <2>2 DEF hidden
    <2> QED BY <2>2, <2>3 DEF Inv, HiddenInv
  <1> QED BY <1>4, <1>5, <1>6, <1>7, <1>8, <1>9 DEF Inv

-----------------------------------------------------------------------------
(* Events about the targets inside a page: what ends takes with it what      *)
(* clients hold of it.                                                      *)
LEMMA SourceKnown ==
  ASSUME Inv, NEW t \in Tab, Routing(t) # None
  PROVE  /\ Source(t) \in RootId /\ Source(t) <= used.roots
         /\ \A u \in Tab : staged[u] # None /\ Source(t) = staged[u].session => u = t
         /\ roots[t] = None => ~Shown(Source(t))
         /\ Shown(Source(t)) => roots[t] # None /\ Routing(t) = roots[t]
  <1>1. Source(t) \in RootId
    BY SourceTyped DEF Inv, TypeOK
  <1>2. CASE staged[t] # None
    BY <1>1, <1>2 DEF Source, Routing, Inv, StagedInv
  <1>3. CASE staged[t] = None
    <2>1. Routing(t) = roots[t] /\ roots[t] # None /\ Shown(Source(t))
      BY <1>3 DEF Source, Routing, Shown
    <2> QED BY <1>1, <2>1 DEF Inv, StagedInv
  <1> QED BY <1>2, <1>3

LEMMA SubtreeOf ==
  ASSUME NEW S PROVE Subtree(S) \subseteq children /\ \A k \in children : k.session \in S => k \in Subtree(S)
  BY DEF Subtree, Below

LEMMA TakenBackTakes ==
  ASSUME PoolOK, NEW K
  PROVE  /\ TakenBack(K) \in [Client -> SUBSET (RootAnn \cup ChildAnn)]
         /\ \A c \in Client : /\ TakenBack(K)[c] \subseteq told[c]
                              /\ \A a \in TakenBack(K)[c] : \A k \in K : k.session # a.session
  BY EndedEnds DEF TakenBack, PoolOK

(* What is left of a set of targets, for whoever holds nothing of the rest.   *)
LEMMA StillInside ==
  ASSUME NEW K, children \ K \subseteq children', NEW s, NEW x, Exists(s, x),
         (\A k \in K : k.session # s) \/ (\A k \in K : k.target # x)
  PROVE  Exists(s, x)'
  BY DEF Exists

LEMMA AliasesWithout ==
  ASSUME PoolOK, NEW K
  PROVE  LET al == [c \in Client |-> WithoutAliasesOf(K, c)]
         IN /\ al \in [Client -> SUBSET Alias]
            /\ \A c \in Client : al[c] \subseteq aliases[c] /\ \A a \in al[c] : \A k \in K : k.target # a.target
  BY DEF WithoutAliasesOf, PoolOK

(* A target that turns out to be restricted, with what was inside it.       *)
LEMMA HidingKeeps ==
  ASSUME Inv, NEW x \in Inside, Event(TabOf[x]), NEW K, children' = children \ K,
         NEW ann \in [Client -> SUBSET (RootAnn \cup ChildAnn)], NEW al \in [Client -> SUBSET Alias],
         \A c \in Client : ann[c] \subseteq told[c] /\ \A a \in ann[c] : \A k \in K : k.session # a.session,
         \A c \in Client : al[c] \subseteq aliases[c] /\ \A a \in al[c] : \A k \in K : k.target # a.target,
         HideTarget(x, ann, al), UNCHANGED aside,
         doc' = IF x \in Frame THEN [doc EXCEPT ![x] = "restricted"] ELSE doc
  PROVE  Inv'
  <1>1. PoolOK /\ TabOf[x] \in Tab /\ Routing(TabOf[x]) # None
    BY ConstantsTyped DEF Inv, TypeOK, Event
  <1>2. /\ told' \in [Client -> SUBSET (RootAnn \cup ChildAnn)] /\ \A c \in Client : told'[c] \subseteq ann[c]
        /\ aliases' \in [Client -> SUBSET Alias] /\ \A c \in Client : aliases'[c] \subseteq al[c]
        /\ seen' \in [Client -> SUBSET (RootId \X Frame)] /\ \A c \in Client : seen'[c] \subseteq seen[c]
        /\ protected' = protected \cup ({x} \cap Frame)
        /\ \A c \in Client : GoneInv /\ x \in Frame \ protected => <<Source(TabOf[x]), x>> \notin seen'[c]
    BY <1>1, HideTargetHides
  <1>3. DocOK(doc') /\ \A f \in Frame : f # x => doc'[f] = doc[f]
    BY <1>1 DEF PoolOK, DocOK
  <1>4. PoolOK'
    BY <1>1, <1>2, <1>3 DEF PoolOK, DocOK, aside
  <1>5. UsedOK' /\ used'.roots = used.roots
    BY HappensTyped DEF Event, Inv, TypeOK
  <1>6. TypeOK'
    <2>1. children' \subseteq Child /\ pending' \subseteq Reservation
      BY DEF Inv, TypeOK, RegistryOK, aside
    <2> QED BY <1>4, <1>5, <2>1 DEF TypeOK, Inv, RegistryOK, WorkOK, aside
  <1>7. \A c \in Client : told'[c] \subseteq told[c] /\ aliases'[c] \subseteq aliases[c]
    BY <1>2
  <1>8. Calm
    BY <1>5, <1>7, JobsStayShown DEF Calm, RootsSame, AttachKeeps, NewsShown, aside
  <1>9. GoneInv'
    BY <1>7 DEF Inv, GoneInv, Gone, aside
  <1>10. StagedInv' /\ ParentInv'
    BY <1>6, <1>8, CalmStaged DEF ParentInv
  <1>11. ToldInv' /\ AliasInv'
    <2>1. ASSUME NEW c \in Client, NEW a \in told'[c], Exists(a.session, a.target) PROVE Exists(a.session, a.target)'
      BY <1>2, <2>1, StillInside
    <2>2. ASSUME NEW c \in Client, NEW a \in aliases'[c], Exists(a.chrome, a.target) PROVE Exists(a.chrome, a.target)'
      BY <1>2, <2>2, StillInside
    <2> QED BY <1>6, <1>7, <1>8, <2>1, <2>2, CalmKnown DEF Calm
  <1>12. SeenInv'
    BY <1>2, <1>8 DEF SeenInv, Inv, Calm
  <1>13. HiddenInv'
    <2> SUFFICES ASSUME NEW f \in Frame, NEW c \in Client, Routing(TabOf[f])' # None,
                        doc'[f] = "restricted" \/ f \in protected'
                 PROVE  <<Source(TabOf[f])', f>> \notin seen'[c]
      BY DEF HiddenInv
    <2>1. TabOf[f] \in Tab
      BY ConstantsTyped
    <2>2. Routing(TabOf[f]) # None /\ Source(TabOf[f])' = Source(TabOf[f])
      BY <1>8, <2>1, CalmRouting
    <2>3. CASE f = x /\ f \notin protected
      BY <2>2, <2>3, <1>2 DEF Inv
    <2>4. CASE f # x \/ f \in protected
      <3>1. doc[f] = "restricted" \/ f \in protected
        BY <2>4, <1>2, <1>3
      <3>2. <<Source(TabOf[f]), f>> \notin seen[c]
        BY <3>1, <2>2 DEF Inv, HiddenInv
      <3> QED BY <3>2, <2>2, <1>2
    <2> QED BY <2>3, <2>4
  <1> QED BY <1>6, <1>9, <1>10, <1>11, <1>12, <1>13 DEF Inv

LEMMA RestrictedTargetAttachedKeeps ==
  ASSUME Inv, NEW k \in ChildSession, NEW x \in Inside, RestrictedTargetAttached(k, x) PROVE Inv'
  <1>1. /\ Event(TabOf[x]) /\ HideTarget(x, told, aliases) /\ UNCHANGED aside /\ children' = children \ {}
        /\ doc' = IF x \in Frame THEN [doc EXCEPT ![x] = "restricted"] ELSE doc
    BY DEF RestrictedTargetAttached
  <1>2. told \in [Client -> SUBSET (RootAnn \cup ChildAnn)] /\ aliases \in [Client -> SUBSET Alias]
    BY DEF Inv, TypeOK, PoolOK
  <1> DEFINE none == {}
  <1>3. /\ children' = children \ none
        /\ \A c \in Client : told[c] \subseteq told[c] /\ \A a \in told[c] : \A i \in none : i.session # a.session
        /\ \A c \in Client : aliases[c] \subseteq aliases[c] /\ \A a \in aliases[c] : \A i \in none : i.target # a.target
    BY <1>1
  <1> HIDE DEF none
  <1> QED BY <1>1, <1>2, <1>3, HidingKeeps

LEMMA TargetBecomesRestrictedKeeps ==
  ASSUME Inv, NEW i \in children, TargetBecomesRestricted(i) PROVE Inv'
  <1> DEFINE gone == Subtree({i.session})
             al == [c \in Client |-> WithoutAliasesOf(gone, c)]
             x == i.target
  <1>1. /\ Event(TabOf[x]) /\ HideTarget(x, TakenBack(gone), al) /\ UNCHANGED aside /\ children' = children \ gone
        /\ doc' = IF x \in Frame THEN [doc EXCEPT ![x] = "restricted"] ELSE doc
    BY DEF TargetBecomesRestricted
  <1>2. PoolOK /\ x \in Inside
    BY DEF Inv, TypeOK, RegistryOK, Child
  <1>3. /\ al \in [Client -> SUBSET Alias]
        /\ \A c \in Client : al[c] \subseteq aliases[c] /\ \A a \in al[c] : \A k \in gone : k.target # a.target
    BY <1>2, AliasesWithout
  <1> HIDE DEF gone, al, x
  <1>4. /\ TakenBack(gone) \in [Client -> SUBSET (RootAnn \cup ChildAnn)]
        /\ \A c \in Client : /\ TakenBack(gone)[c] \subseteq told[c]
                             /\ \A a \in TakenBack(gone)[c] : \A k \in gone : k.session # a.session
    BY <1>2, TakenBackTakes
  <1> QED BY <1>1, <1>2, <1>3, <1>4, HidingKeeps

(* A step that changes what is inside pages, and tells clients so.          *)
Placed(k) ==
  k.parent \in RootId =>
    \/ Routing(TabOf[k.target]) # None /\ k.parent = Source(TabOf[k.target])
    \/ \E i \in children : i.parent = k.parent /\ i.target = k.target

LEMMA InsideKeeps ==
  ASSUME Inv, Happens, UNCHANGED <<aside, protected, doc>>,
         children' \subseteq Child, \A k \in children' \ children : Placed(k),
         NEW new \in [Client -> SUBSET (RootAnn \cup ChildAnn)], Tell(new),
         \A c \in Client : c \notin connected => new[c] = {},
         \A c \in Client : \A a \in new[c] \ told[c] : a.parent # None /\ Reachable(a)',
         aliases' \in [Client -> SUBSET Alias], \A c \in Client : aliases'[c] \subseteq aliases[c],
         \A c \in Client : \A a \in new[c] \cap told[c] : Exists(a.session, a.target) => Exists(a.session, a.target)',
         \A c \in Client : \A a \in aliases'[c] : Exists(a.chrome, a.target) => Exists(a.chrome, a.target)'
  PROVE  Inv'
  <1>1. PoolOK /\ UsedOK' /\ used'.roots = used.roots
    BY HappensTyped DEF Inv, TypeOK
  <1>2. /\ told' = new /\ seen' \in [Client -> SUBSET (RootId \X Frame)]
        /\ \A c \in Client : seen'[c] \subseteq seen[c]
    BY <1>1, TellShrinksSeen DEF PoolOK
  <1>3. PoolOK'
    BY <1>1, <1>2 DEF PoolOK, aside
  <1>4. TypeOK'
    BY <1>1, <1>3 DEF TypeOK, Inv, RegistryOK, WorkOK, aside
  <1>5. Calm
    BY <1>1, <1>2, JobsStayShown DEF Calm, RootsSame, AttachKeeps, NewsShown, aside
  <1>6. GoneInv'
    BY <1>2 DEF Inv, GoneInv, Gone, aside
  <1>7. StagedInv' /\ \A k \in children : ParentOk(k)'
    BY <1>4, <1>5, CalmStaged
  <1>8. ASSUME NEW k \in children' \ children PROVE ParentOk(k)'
    <2>1. CASE k.parent \notin RootId
      BY <2>1 DEF ParentOk
    <2>2. CASE k.parent \in RootId /\ \E i \in children : i.parent = k.parent /\ i.target = k.target
      BY <2>2, <1>7 DEF ParentOk
    <2>3. CASE k.parent \in RootId /\ Routing(TabOf[k.target]) # None /\ k.parent = Source(TabOf[k.target])
      <3>1. TabOf[k.target] \in Tab
        BY ConstantsTyped DEF Child
      <3>2. /\ k.parent <= used.roots
            /\ \A u \in Tab : staged[u] # None /\ k.parent = staged[u].session => TabOf[k.target] = u
            /\ roots[TabOf[k.target]] = None => ~Shown(k.parent)
        BY <2>3, <3>1, SourceKnown
      <3>3. Shown(k.parent)' => Shown(k.parent)
        BY <2>3, <1>4, <1>5, CalmShown DEF Inv
      <3> QED BY <3>1, <3>2, <3>3, <1>5 DEF ParentOk, Calm, RootsSame
    <2> QED BY <2>1, <2>2, <2>3 DEF Placed
  <1>9. ToldInv' /\ AliasInv'
    <2>1. \A c \in Client : \A a \in told'[c] \ told[c] : a.parent # None => Reachable(a)'
      BY <1>2
    <2>2. \A c \in Client : \A a \in aliases'[c] \ aliases[c] : Live(a)'
      OBVIOUS
    <2>3. \A c \in Client : \A a \in told'[c] : Exists(a.session, a.target) => Exists(a.session, a.target)'
      BY <1>2 DEF Reachable
    <2> QED BY <1>4, <1>5, <2>1, <2>2, <2>3, CalmKnown DEF Calm
  <1>10. SeenInv' /\ HiddenInv'
    BY <1>2, <1>4, <1>5, CalmHidden
  <1> QED BY <1>4, <1>6, <1>7, <1>8, <1>9, <1>10 DEF Inv, ParentInv

LEMMA TargetGetsUrlKeeps ==
  ASSUME Inv, NEW i \in children, TargetGetsUrl(i) PROVE Inv'
  <1> DEFINE t == TabOf[i.target]
             child == [i EXCEPT !.exposed = TRUE]
             new == [c \in Client |-> IF HasTold(told[c], Source(t)) THEN Announce(told[c], ChildAnnouncement(child)) ELSE told[c]]
  <1>1. /\ Event(t) /\ children' = (children \ {i}) \cup {child} /\ Tell(new)
        /\ UNCHANGED <<aside, known, hidden, aliases, doc>>
    BY DEF TargetGetsUrl
  <1>2. /\ i \in Child /\ child \in Child /\ t \in Tab
        /\ child.session = i.session /\ child.target = i.target /\ child.parent = i.parent
    <2>1. i \in Child
      BY DEF Inv, TypeOK, RegistryOK
    <2>2. t \in Tab
      BY <2>1, ConstantsTyped DEF Child
    <2>3. child \in Child /\ child.session = i.session /\ child.target = i.target /\ child.parent = i.parent
      BY <2>1 DEF Child
    <2> QED BY <2>1, <2>2, <2>3
  <1> HIDE DEF child
  <1>3. ChildAnnouncement(child) \in ChildAnn
    BY <1>2, AnnouncementsTyped
  <1>4. \A c \in Client : new[c] \subseteq told[c] \cup {ChildAnnouncement(child)}
    BY AnnounceAdds
  <1>5. new \in [Client -> SUBSET (RootAnn \cup ChildAnn)]
    BY <1>3, <1>4 DEF Inv, TypeOK, PoolOK
  <1>6. \A c \in Client : c \notin connected => new[c] = {}
    BY DEF Inv, GoneInv, Gone, HasTold
  <1>7. ASSUME NEW c \in Client, NEW a \in new[c] \ told[c] PROVE a.parent # None /\ Reachable(a)'
    <2>1. a = ChildAnnouncement(child) /\ HasTold(told[c], Source(t))
      BY <1>4, <1>7
    <2>2. roots[t] # None
      BY <2>1, <1>1, <1>2, SourceKnown DEF HasTold, Shown, Event
    <2>3. a.parent # None /\ a.session = child.session /\ a.target = child.target
      BY <2>1, <1>3, ConstantsTyped DEF ChildAnnouncement
    <2> QED BY <2>2, <2>3, <1>1, <1>2 DEF Reachable, Exists, aside
  <1> HIDE DEF new, t
  <1>8. \A s, x : Exists(s, x) => Exists(s, x)'
    BY <1>1, <1>2 DEF Exists
  <1>9. children' \subseteq Child /\ \A k \in children' \ children : Placed(k)
    BY <1>1, <1>2 DEF Placed, Inv, TypeOK, RegistryOK
  <1>10. aliases' \in [Client -> SUBSET Alias] /\ \A c \in Client : aliases'[c] \subseteq aliases[c]
    BY <1>1 DEF Inv, TypeOK, PoolOK
  <1>11. Happens /\ UNCHANGED <<aside, protected, doc>>
    BY <1>1 DEF Event, hidden
  <1> QED BY <1>1, <1>5, <1>6, <1>7, <1>8, <1>9, <1>10, <1>11, InsideKeeps

LEMMA TargetDetachedKeeps ==
  ASSUME Inv, NEW k \in ChildSession, TargetDetached(k) PROVE Inv'
  <1>1. PICK t \in Tab :
          /\ Event(t)
          /\ LET gone == Subtree({k})
                 s == Source(t)
                 left(c) == Dropped(told[c], {k} \cup {i.session : i \in gone})
             IN /\ children' = children \ gone
                /\ Tell([c \in Client |-> left(c) \ Left(left(c), s, c)])
                /\ aliases' = [c \in Client |-> NotOf(Left(left(c), s, c), WithoutAliasesOf(gone, c))]
    BY DEF TargetDetached
  <1> DEFINE gone == Subtree({k})
             left(c) == Dropped(told[c], {k} \cup {i.session : i \in gone})
             new == [c \in Client |-> left(c) \ Left(left(c), Source(t), c)]
  <1>2. /\ children' = children \ gone /\ Tell(new)
        /\ \A c \in Client : aliases'[c] \subseteq WithoutAliasesOf(gone, c)
        /\ aliases' = [c \in Client |-> aliases'[c]]
    BY <1>1 DEF NotOf
  <1>3. \A c \in Client : new[c] \subseteq told[c] /\ \A a \in new[c] : \A i \in gone : i.session # a.session
    <2>1. \A c \in Client : left(c) \subseteq told[c] /\ \A a \in left(c) : a.session \notin {k} \cup {i.session : i \in gone}
      BY DroppedEnds
    <2>2. \A c \in Client : new[c] \subseteq left(c)
      OBVIOUS
    <2> HIDE DEF left, new, gone
    <2> QED BY <2>1, <2>2
  <1> HIDE DEF gone, new
  <1>4. new \in [Client -> SUBSET (RootAnn \cup ChildAnn)]
    <2>1. new = [c \in Client |-> new[c]]
      BY DEF new
    <2> QED BY <2>1, <1>3 DEF Inv, TypeOK, PoolOK
  <1>5. aliases' \in [Client -> SUBSET Alias] /\ \A c \in Client : aliases'[c] \subseteq aliases[c]
    BY <1>2 DEF WithoutAliasesOf, Inv, TypeOK, PoolOK
  <1>6. \A c \in Client : c \notin connected => new[c] = {}
    BY <1>3 DEF Inv, GoneInv, Gone
  <1>7. children' \subseteq Child /\ children' \subseteq children
    BY <1>2 DEF Inv, TypeOK, RegistryOK
  <1>8. ASSUME NEW c \in Client, NEW a \in new[c], Exists(a.session, a.target) PROVE Exists(a.session, a.target)'
    BY <1>2, <1>3, <1>8, StillInside
  <1>9. ASSUME NEW c \in Client, NEW a \in aliases'[c], Exists(a.chrome, a.target) PROVE Exists(a.chrome, a.target)'
    BY <1>2, <1>9, StillInside DEF WithoutAliasesOf
  <1>10. Happens /\ UNCHANGED <<aside, protected, doc>>
    BY <1>1 DEF Event, TargetDetached
  <1> QED BY <1>2, <1>3, <1>4, <1>5, <1>6, <1>7, <1>8, <1>9, <1>10, InsideKeeps

LEMMA TargetAttachedKeeps ==
  ASSUME Inv, NEW k \in ChildSession, NEW x \in Inside, NEW parent \in Parents(TabOf[x]), NEW e \in BOOLEAN,
         TargetAttached(k, x, parent, e)
  PROVE  Inv'
  <1> DEFINE t == TabOf[x]
             conflicts == {i \in children : (i.session = k) # (i.target = x)}
             ended == Subtree({i.session : i \in conflicts})
             child == [session |-> k, target |-> x, parent |-> parent, exposed |-> e]
             ann == TakenBack(ended)
             new == [c \in Client |-> IF e /\ HasTold(ann[c], Source(t))
                                      THEN Announce(ann[c], ChildAnnouncement(child)) ELSE ann[c]]
  <1>1. /\ Event(t) /\ children' = {i \in children \ ended : i.session # k} \cup {child}
        /\ Tell(new) /\ aliases' = [c \in Client |-> WithoutAliasesOf(ended, c)]
        /\ UNCHANGED <<aside, known, protected, doc>>
    BY DEF TargetAttached
  <1>2. PoolOK /\ t \in Tab /\ Routing(t) # None /\ Source(t) \in RootId
    BY <1>1, ConstantsTyped, SourceTyped DEF Inv, TypeOK, Event
  <1>3. parent = Source(t) \/ (parent \in ChildSession /\ parent \notin RootId)
    <2>1. \A i \in InTab(t) : i.session \in ChildSession
      BY DEF InTab, Inv, TypeOK, RegistryOK, Child
    <2> QED BY <2>1, <1>2, ConstantsTyped DEF Parents
  <1>4. child \in Child /\ child.session = k /\ child.target = x /\ child.parent = parent
    BY <1>2, <1>3 DEF Child
  <1>5. \A i \in children \ ended : i.session = k => i.target = x
    BY SubtreeOf
  <1>6. /\ ann \in [Client -> SUBSET (RootAnn \cup ChildAnn)]
        /\ \A c \in Client : ann[c] \subseteq told[c] /\ \A a \in ann[c] : \A i \in ended : i.session # a.session
    BY <1>2, TakenBackTakes
  <1>7. /\ aliases' \in [Client -> SUBSET Alias]
        /\ \A c \in Client : aliases'[c] \subseteq aliases[c] /\ \A a \in aliases'[c] : \A i \in ended : i.target # a.target
    <2> DEFINE al == [c \in Client |-> WithoutAliasesOf(ended, c)]
    <2>1. /\ al \in [Client -> SUBSET Alias]
          /\ \A c \in Client : al[c] \subseteq aliases[c] /\ \A a \in al[c] : \A i \in ended : i.target # a.target
      BY <1>2, AliasesWithout
    <2> QED BY <2>1, <1>1
  <1> HIDE DEF conflicts, ended, child, ann
  <1>8. ChildAnnouncement(child) \in ChildAnn
    BY <1>4, AnnouncementsTyped
  <1>9. \A c \in Client : new[c] \subseteq ann[c] \cup {ChildAnnouncement(child)}
    BY AnnounceAdds
  <1>10. new \in [Client -> SUBSET (RootAnn \cup ChildAnn)]
    BY <1>6, <1>8, <1>9
  <1>11. \A c \in Client : c \notin connected => new[c] = {}
    BY <1>6 DEF Inv, GoneInv, Gone, HasTold
  <1>12. ASSUME NEW c \in Client, NEW a \in new[c] \ told[c] PROVE a.parent # None /\ Reachable(a)'
    <2>1. a = ChildAnnouncement(child) /\ HasTold(told[c], Source(t))
      BY <1>6, <1>9, <1>12 DEF HasTold
    <2>2. roots[t] # None
      BY <2>1, <1>2, SourceKnown DEF HasTold, Shown
    <2>3. a.parent # None /\ a.session = child.session /\ a.target = child.target
      BY <2>1, <1>8, ConstantsTyped DEF ChildAnnouncement
    <2> QED BY <2>2, <2>3, <1>1, <1>4 DEF Reachable, Exists, aside
  <1>13. ASSUME NEW s, NEW y, Exists(s, y), (\A i \in ended : i.session # s) \/ (\A i \in ended : i.target # y)
         PROVE  Exists(s, y)'
    <2>1. PICK i \in children \ ended : i.session = s /\ i.target = y
      BY <1>13 DEF Exists
    <2>2. CASE i.session # k
      BY <2>1, <2>2, <1>1 DEF Exists
    <2>3. CASE i.session = k
      BY <2>1, <2>3, <1>1, <1>4, <1>5 DEF Exists
    <2> QED BY <2>2, <2>3
  <1> HIDE DEF new
  <1>14. children' \subseteq Child /\ \A i \in children' \ children : Placed(i)
    BY <1>1, <1>2, <1>3, <1>4 DEF Placed, Inv, TypeOK, RegistryOK
  <1>15. \A c \in Client : \A a \in new[c] \cap told[c] : Exists(a.session, a.target) => Exists(a.session, a.target)'
    <2> SUFFICES ASSUME NEW c \in Client, NEW a \in new[c] \cap told[c], Exists(a.session, a.target)
                 PROVE  Exists(a.session, a.target)'
      OBVIOUS
    <2>1. CASE a \in ann[c]
      BY <2>1, <1>6, <1>13
    <2>2. CASE a = ChildAnnouncement(child)
      BY <2>2, <1>1 DEF Exists, ChildAnnouncement
    <2> QED BY <2>1, <2>2, <1>9
  <1>16. \A c \in Client : \A a \in aliases'[c] : Exists(a.chrome, a.target) => Exists(a.chrome, a.target)'
    BY <1>7, <1>13
  <1>17. Happens /\ UNCHANGED <<aside, protected, doc>>
    BY <1>1 DEF Event
  <1> QED BY <1>1, <1>7, <1>10, <1>11, <1>12, <1>14, <1>15, <1>16, <1>17, InsideKeeps

-----------------------------------------------------------------------------
(* What clients are told as they ask, and as attachments end.               *)
LEMMA ShownInside ==
  ASSUME Inv, NEW k \in children, k.parent \in RootId, Shown(k.parent)
  PROVE  ChildAnnouncement(k) \in ChildAnn /\ Reachable(ChildAnnouncement(k))
  <1>1. k \in Child
    BY DEF Inv, TypeOK, RegistryOK
  <1>2. roots[TabOf[k.target]] # None
    BY DEF Inv, ParentInv, ParentOk
  <1>3. Exists(k.session, k.target)
    BY DEF Exists
  <1> QED BY <1>1, <1>2, <1>3, AnnouncementsTyped DEF Reachable, ChildAnnouncement

LEMMA LearnMore ==
  ASSUME Inv, UNCHANGED <<registry, hidden, doc>>, connected' \subseteq Client, UsedOK', used'.roots = used.roots,
         attaching' \in [Tab -> Attachment \cup {None}], AttachKeeps, WorkOK', JobsShown,
         told' \in [Client -> SUBSET (RootAnn \cup ChildAnn)],
         \A c \in Client : \A a \in told'[c] \ told[c] : IF a.parent = None THEN Shown(a.session) ELSE Reachable(a),
         aliases' \in [Client -> SUBSET Alias], \A c \in Client : \A a \in aliases'[c] \ aliases[c] : Live(a),
         seen' \in [Client -> SUBSET (RootId \X Frame)]
  PROVE  TypeOK' /\ Calm /\ StagedInv' /\ ParentInv' /\ ToldInv' /\ AliasInv'
  <1>1. TypeOK'
    BY DEF Inv, TypeOK, RegistryOK, PoolOK, registry, hidden
  <1>2. Calm
    BY DEF Calm, RootsSame, NewsShown, registry
  <1>3. StagedInv' /\ ParentInv'
    BY <1>1, <1>2, CalmStaged DEF ParentInv, registry
  <1>4. ToldInv' /\ AliasInv'
    <2>1. \A c \in Client : \A a \in told'[c] \ told[c] : a.parent # None => Reachable(a)'
      BY DEF Reachable, Exists, registry
    <2>2. \A c \in Client : \A a \in aliases'[c] \ aliases[c] : Live(a)'
      BY DEF Live, Exists, registry
    <2>3. \A s, x : Exists(s, x)' <=> Exists(s, x)
      BY DEF Exists, registry
    <2> QED BY <1>1, <1>2, <2>1, <2>2, <2>3, CalmKnown DEF Calm
  <1> QED BY <1>1, <1>2, <1>3, <1>4

LEMMA LearnKeeps ==
  ASSUME Inv, UNCHANGED <<registry, hidden, doc>>, connected' \subseteq Client, UsedOK', used'.roots = used.roots,
         attaching' \in [Tab -> Attachment \cup {None}], AttachKeeps, WorkOK', JobsShown,
         told' \in [Client -> SUBSET (RootAnn \cup ChildAnn)],
         \A c \in Client : \A a \in told'[c] \ told[c] : IF a.parent = None THEN Shown(a.session) ELSE Reachable(a),
         aliases' \in [Client -> SUBSET Alias], \A c \in Client : \A a \in aliases'[c] \ aliases[c] : Live(a),
         seen' \in [Client -> SUBSET (RootId \X Frame)], \A c \in Client : seen'[c] \subseteq seen[c],
         GoneInv'
  PROVE  Inv'
  <1>1. TypeOK' /\ Calm /\ StagedInv' /\ ParentInv' /\ ToldInv' /\ AliasInv'
    BY LearnMore
  <1>2. SeenInv' /\ HiddenInv'
    BY <1>1, CalmHidden DEF hidden
  <1> QED BY <1>1, <1>2 DEF Inv

(* A client learns of targets by its own command.                           *)
LEMMA ClientLearns ==
  ASSUME Inv, NEW c \in connected, NEW ann \in SUBSET (RootAnn \cup ChildAnn), Tell([told EXCEPT ![c] = ann]),
         \A a \in ann \ told[c] : IF a.parent = None THEN Shown(a.session) ELSE Reachable(a),
         UNCHANGED <<registry, hidden, attaching, connected, generation, aliases, idle, doc>>,
         UsedOK', used'.roots = used.roots, job' \in [Client -> Job \cup {None}], JobsShown,
         \A d \in Client : d # c => job'[d] = job[d]
  PROVE  Inv'
  <1> DEFINE new == [told EXCEPT ![c] = ann]
  <1>1. PoolOK /\ c \in Client
    BY DEF Inv, TypeOK, PoolOK
  <1>2. /\ new \in [Client -> SUBSET (RootAnn \cup ChildAnn)] /\ new[c] = ann
        /\ \A d \in Client : d # c => new[d] = told[d]
    BY <1>1 DEF PoolOK
  <1> HIDE DEF new
  <1>3. /\ told' = new /\ seen' \in [Client -> SUBSET (RootId \X Frame)]
        /\ \A d \in Client : seen'[d] \subseteq seen[d]
    BY <1>1, TellShrinksSeen DEF PoolOK, new
  <1>4. GoneInv'
    BY <1>2, <1>3 DEF Inv, GoneInv, Gone
  <1>5. WorkOK' /\ attaching' \in [Tab -> Attachment \cup {None}] /\ AttachKeeps
    BY DEF Inv, TypeOK, WorkOK, RegistryOK, AttachKeeps
  <1>6. /\ \A d \in Client : \A a \in told'[d] \ told[d] : IF a.parent = None THEN Shown(a.session) ELSE Reachable(a)
        /\ told' \in [Client -> SUBSET (RootAnn \cup ChildAnn)]
    BY <1>2, <1>3
  <1>7. aliases' \in [Client -> SUBSET Alias] /\ connected' \subseteq Client
    BY <1>1 DEF PoolOK
  <1>8. \A d \in Client : \A a \in aliases'[d] \ aliases[d] : Live(a)
    OBVIOUS
  <1> QED BY <1>3, <1>4, <1>5, <1>6, <1>7, <1>8, LearnKeeps

LEMMA JobsAreOfClients ==
  ASSUME Inv, NEW c \in Client, job[c] # None PROVE c \in connected /\ job[c] \in Job
  BY DEF Inv, GoneInv, Gone, TypeOK, WorkOK

LEMMA AutoAttachedKeeps ==
  ASSUME Inv, NEW c \in Client, AutoAttached(c) PROVE Inv'
  <1>1. /\ job[c] # None /\ job[c].kind = "attach"
        /\ UNCHANGED <<registry, hidden, attaching, connected, generation, aliases, idle, doc, used>>
    BY DEF AutoAttached
  <1>2. c \in connected /\ job[c] \in [kind : {"attach"}, left : SUBSET Root] /\ job \in [Client -> Job \cup {None}]
    BY <1>1, JobsAreOfClients DEF Job, Inv, TypeOK, WorkOK
  <1>3. UsedOK' /\ used'.roots = used.roots
    BY <1>1 DEF UsedOK, Inv, TypeOK
  <1>4. CASE job[c].left = {}
    <2>1. job' = [job EXCEPT ![c] = None] /\ UNCHANGED <<told, seen>>
      BY <1>4 DEF AutoAttached
    <2>2. WorkOK' /\ JobsShown
      BY <1>1, <2>1, JobsStayShown DEF Inv, TypeOK, WorkOK, JobsShown, Shown
    <2>3. \A d \in Client : d \notin connected => job'[d] = None
      BY <1>2, <2>1 DEF Inv, GoneInv, Gone
    <2>4. connected' \subseteq Client /\ connected' = connected
      BY <1>1 DEF Inv, TypeOK, PoolOK
    <2> QED BY <1>1, <1>3, <2>1, <2>2, <2>3, <2>4, JobChanges
  <1>5. CASE job[c].left # {}
    <2>1. PICK root \in job[c].left : /\ job' = [job EXCEPT ![c].left = @ \ {root}]
                                      /\ Tell([told EXCEPT ![c] = Announce(@, RootAnnouncement(root))])
      BY <1>5 DEF AutoAttached
    <2> DEFINE ann == Announce(told[c], RootAnnouncement(root))
    <2>2. root \in Root /\ Shown(root.session)
      BY <1>1, <1>2 DEF Shown
    <2>3. RootAnnouncement(root) \in RootAnn /\ RootAnnouncement(root).session = root.session
      BY <2>2, AnnouncementsTyped DEF RootAnnouncement
    <2>4. ann \subseteq told[c] \cup {RootAnnouncement(root)}
      BY AnnounceAdds
    <2>5. told \in [Client -> SUBSET (RootAnn \cup ChildAnn)]
      BY DEF Inv, TypeOK, PoolOK
    <2>6. Tell([told EXCEPT ![c] = ann])
      BY <2>1
    <2> HIDE DEF ann
    <2>7. /\ ann \in SUBSET (RootAnn \cup ChildAnn)
          /\ \A a \in ann \ told[c] : IF a.parent = None THEN Shown(a.session) ELSE Reachable(a)
      BY <2>2, <2>3, <2>4, <2>5, ConstantsTyped
    <2>8. /\ job'[c] \in [kind : {"attach"}, left : SUBSET Root] /\ job'[c].left \subseteq job[c].left
          /\ job' \in [Client -> Job \cup {None}] /\ \A d \in Client : d # c => job'[d] = job[d]
      <3>1. job'[c] = [job[c] EXCEPT !.left = @ \ {root}]
        BY <1>2, <2>1
      <3>2. job'[c] \in [kind : {"attach"}, left : SUBSET Root] /\ job'[c].left \subseteq job[c].left
        BY <1>2, <3>1
      <3>3. job' = [job EXCEPT ![c] = job'[c]]
        BY <1>2, <2>1
      <3> QED BY <1>2, <3>2, <3>3 DEF Job
    <2>9. JobsShown
      <3> SUFFICES ASSUME NEW d \in Client, job'[d] # None
                   PROVE  /\ job'[d].kind = "attach" => \A r \in job'[d].left : Shown(r.session)
                          /\ job'[d].kind = "replay" => Shown(job'[d].root)
        BY DEF JobsShown
      <3>1. CASE d = c
        BY <3>1, <1>1, <2>8 DEF Shown
      <3>2. CASE d # c
        BY <3>2, <2>8 DEF Shown
      <3> QED BY <3>1, <3>2
    <2> QED BY <1>1, <1>2, <1>3, <2>6, <2>7, <2>8, <2>9, ClientLearns
  <1> QED BY <1>4, <1>5

(* What a replay shows is stored, and nothing that is stored is hidden.      *)
LEMMA ReplayKeeps ==
  ASSUME Inv, KnownInv, NEW c \in Client, Replay(c) PROVE Inv'
  <1>1. PICK s \in RootId :
          LET inside == {k \in children : k.parent = s /\ k.exposed}
              frames == {<<s, f>> : f \in known \cap {k.target : k \in inside}}
          IN /\ Replays(c, s)
             /\ told' = [told EXCEPT ![c] = AnnounceAll(@, {ChildAnnouncement(k) : k \in inside})]
             /\ seen' = [seen EXCEPT ![c] = {x \in @ \cup frames : HasTold(told'[c], x[1])}]
    BY DEF Replay
  <1> DEFINE inside == {k \in children : k.parent = s /\ k.exposed}
             new == {ChildAnnouncement(k) : k \in inside}
             ann == AnnounceAll(told[c], new)
             frames == {<<s, f>> : f \in known \cap {k.target : k \in inside}}
  <1>2. /\ Replays(c, s) /\ told' = [told EXCEPT ![c] = ann]
        /\ seen' = [seen EXCEPT ![c] = {x \in @ \cup frames : HasTold(told'[c], x[1])}]
        /\ job' = [job EXCEPT ![c] = None]
        /\ UNCHANGED <<registry, hidden, attaching, connected, generation, aliases, idle, doc, used>>
    BY <1>1 DEF Replay
  <1>3. c \in connected /\ job \in [Client -> Job \cup {None}] /\ job[c] # None /\ Shown(s)
    BY <1>2, JobsAreOfClients DEF Replays, Inv, TypeOK, WorkOK, Shown
  <1>4. \A a \in new : a \in ChildAnn /\ Reachable(a)
    BY <1>3, ShownInside
  <1>5. ann \subseteq told[c] \cup new
    BY AnnounceAllAdds
  <1>6. frames \subseteq {s} \X known /\ known \subseteq Frame
    BY DEF KnownInv
  <1> HIDE DEF inside, new, ann, frames
  <1>7. PoolOK
    BY DEF Inv, TypeOK
  <1>8. /\ ann \in SUBSET (RootAnn \cup ChildAnn)
        /\ \A a \in ann \ told[c] : IF a.parent = None THEN Shown(a.session) ELSE Reachable(a)
    BY <1>4, <1>5, <1>7, ConstantsTyped DEF PoolOK
  <1>9. /\ told' \in [Client -> SUBSET (RootAnn \cup ChildAnn)] /\ told'[c] = ann
        /\ \A d \in Client : d # c => told'[d] = told[d]
    BY <1>2, <1>7, <1>8 DEF PoolOK
  <1>10. \A d \in Client : \A a \in told'[d] \ told[d] : IF a.parent = None THEN Shown(a.session) ELSE Reachable(a)
    BY <1>8, <1>9
  <1>11. /\ seen' \in [Client -> SUBSET (RootId \X Frame)]
         /\ \A d \in Client : \A x \in seen'[d] : x \in seen[d] \/ x \in {s} \X known
    <2>1. {x \in seen[c] \cup frames : HasTold(told'[c], x[1])} \subseteq RootId \X Frame
      BY <1>6, <1>7 DEF PoolOK
    <2>2. seen' = [seen EXCEPT ![c] = {x \in seen[c] \cup frames : HasTold(told'[c], x[1])}]
      BY <1>2
    <2> QED BY <1>6, <1>7, <2>1, <2>2 DEF PoolOK
  <1>12. UsedOK' /\ used'.roots = used.roots
    BY <1>2 DEF UsedOK, Inv, TypeOK
  <1>13. WorkOK' /\ JobsShown
    BY <1>2, <1>3, JobsStayShown DEF JobsShown, Shown, Inv, TypeOK, WorkOK
  <1>14. attaching' \in [Tab -> Attachment \cup {None}] /\ AttachKeeps /\ connected' \subseteq Client
    BY <1>2, <1>7 DEF Inv, TypeOK, RegistryOK, AttachKeeps, PoolOK
  <1>15. aliases' \in [Client -> SUBSET Alias] /\ \A d \in Client : \A a \in aliases'[d] \ aliases[d] : Live(a)
    BY <1>2, <1>7 DEF PoolOK
  <1>16. UNCHANGED <<registry, hidden, doc>>
    BY <1>2
  <1>17. TypeOK' /\ Calm /\ StagedInv' /\ ParentInv' /\ ToldInv' /\ AliasInv'
    BY <1>9, <1>10, <1>11, <1>12, <1>13, <1>14, <1>15, <1>16, LearnMore
  <1>18. GoneInv'
    BY <1>2, <1>3, <1>9 DEF Inv, GoneInv, Gone
  <1>19. SeenInv'
    <2>1. s <= used.roots
      BY <1>3 DEF Inv, StagedInv
    <2> QED BY <2>1, <1>11, <1>12 DEF SeenInv, Inv
  <1>20. HiddenInv'
    <2> SUFFICES ASSUME NEW f \in Frame, NEW d \in Client, Routing(TabOf[f]) # None,
                        doc[f] = "restricted" \/ f \in protected, <<Source(TabOf[f]), f>> \in seen'[d]
                 PROVE  FALSE
      BY <1>2 DEF HiddenInv, Routing, Source, registry, hidden
    <2>1. f \in known
      BY <1>11 DEF Inv, HiddenInv
    <2> QED BY <2>1 DEF KnownInv
  <1> QED BY <1>17, <1>18, <1>19, <1>20 DEF Inv

LEMMA AttachToKeeps ==
  ASSUME Inv, NEW c \in connected, NEW a \in RootAnn \cup ChildAnn, NEW alias \in Alias, AttachTo(c, a, alias),
         IF a.parent = None THEN Shown(a.session) ELSE Reachable(a), Live(alias), Happens,
         UNCHANGED <<registry, hidden, attaching, connected, generation, job, idle, doc>>
  PROVE  Inv'
  <1>1. UsedOK' /\ used'.roots = used.roots
    BY HappensTyped DEF Inv, TypeOK
  <1>2. PoolOK /\ c \in Client
    BY DEF Inv, TypeOK, PoolOK
  <1>3. job' \in [Client -> Job \cup {None}] /\ JobsShown /\ WorkOK'
    BY JobsStayShown DEF Inv, TypeOK, WorkOK
  <1>4. CASE HasTold(told[c], a.session)
    <2>1. aliases' = [aliases EXCEPT ![c] = @ \cup {alias}] /\ UNCHANGED <<told, seen>>
      BY <1>4 DEF AttachTo
    <2>2. aliases' \in [Client -> SUBSET Alias] /\ \A d \in Client : \A b \in aliases'[d] \ aliases[d] : Live(b)
      BY <1>2, <2>1 DEF PoolOK
    <2>3. /\ told' \in [Client -> SUBSET (RootAnn \cup ChildAnn)] /\ seen' \in [Client -> SUBSET (RootId \X Frame)]
          /\ \A d \in Client : told'[d] \ told[d] = {} /\ seen'[d] \subseteq seen[d]
      BY <1>2, <2>1 DEF PoolOK
    <2>4. GoneInv' /\ connected' \subseteq Client
      BY <1>2, <2>1 DEF Inv, GoneInv, Gone, PoolOK
    <2>5. attaching' \in [Tab -> Attachment \cup {None}] /\ AttachKeeps
      BY DEF Inv, TypeOK, RegistryOK, AttachKeeps
    <2>6. \A d \in Client : \A b \in told'[d] \ told[d] : IF b.parent = None THEN Shown(b.session) ELSE Reachable(b)
      BY <2>3
    <2> QED BY <1>1, <1>3, <2>2, <2>3, <2>4, <2>5, <2>6, LearnKeeps
  <1>5. CASE ~HasTold(told[c], a.session)
    <2> DEFINE ann == Announce(told[c], a)
    <2>1. Tell([told EXCEPT ![c] = ann]) /\ aliases' = aliases
      BY <1>5 DEF AttachTo
    <2>2. ann \subseteq told[c] \cup {a}
      BY AnnounceAdds
    <2> HIDE DEF ann
    <2>3. /\ ann \in SUBSET (RootAnn \cup ChildAnn)
          /\ \A b \in ann \ told[c] : IF b.parent = None THEN Shown(b.session) ELSE Reachable(b)
      BY <1>2, <2>2 DEF PoolOK
    <2>4. \A d \in Client : d # c => job'[d] = job[d]
      OBVIOUS
    <2> QED BY <1>1, <1>3, <2>1, <2>3, <2>4, ClientLearns
  <1> QED BY <1>4, <1>5

LEMMA AttachToTargetKeeps ==
  ASSUME Inv, NEW c \in Client, AttachToTarget(c) PROVE Inv'
  <1>1. /\ c \in connected /\ Happens
        /\ UNCHANGED <<registry, hidden, attaching, connected, generation, job, idle, doc>>
    BY DEF AttachToTarget, Request
  <1>2. PICK t \in {u \in Tab : SeesTab(roots, c, u)} :
          \/ AttachTo(c, RootAnnouncement(roots[t]), [target |-> roots[t].page, chrome |-> None])
          \/ \E k \in InTab(t) : AttachTo(c, ChildAnnouncement(k), [target |-> k.target, chrome |-> k.session])
    BY DEF AttachToTarget
  <1>3. t \in Tab /\ roots[t] # None /\ roots[t] \in Root /\ TabOf[roots[t].page] = t
    BY DEF SeesTab, Inv, TypeOK, RegistryOK
  <1>4. CASE AttachTo(c, RootAnnouncement(roots[t]), [target |-> roots[t].page, chrome |-> None])
    <2> DEFINE a == RootAnnouncement(roots[t])
               alias == [target |-> roots[t].page, chrome |-> None]
    <2>1. a \in RootAnn /\ a.parent = None /\ Shown(a.session)
      BY <1>3, AnnouncementsTyped DEF RootAnnouncement, Shown
    <2>2. alias \in Alias /\ Live(alias)
      BY <1>3 DEF Alias, Live, Root
    <2> HIDE DEF a, alias
    <2>3. AttachTo(c, a, alias)
      BY <1>4 DEF a, alias
    <2> QED BY <1>1, <2>1, <2>2, <2>3, AttachToKeeps
  <1>5. CASE \E k \in InTab(t) : AttachTo(c, ChildAnnouncement(k), [target |-> k.target, chrome |-> k.session])
    <2>1. PICK k \in InTab(t) : AttachTo(c, ChildAnnouncement(k), [target |-> k.target, chrome |-> k.session])
      BY <1>5
    <2> DEFINE a == ChildAnnouncement(k)
               alias == [target |-> k.target, chrome |-> k.session]
    <2>2. k \in children /\ k \in Child /\ TabOf[k.target] = t /\ Exists(k.session, k.target)
      BY DEF InTab, Inv, TypeOK, RegistryOK, Exists
    <2>3. a \in ChildAnn /\ a.session = k.session /\ a.target = k.target
      BY <2>2, AnnouncementsTyped DEF ChildAnnouncement
    <2>4. a.parent # None /\ Reachable(a)
      BY <2>2, <2>3, <1>3, ConstantsTyped DEF Reachable
    <2>5. alias \in Alias /\ Live(alias)
      BY <2>2, <1>3, NamesAssumption DEF Alias, Live, Child
    <2> HIDE DEF a, alias
    <2>6. AttachTo(c, a, alias)
      BY <2>1 DEF a, alias
    <2> QED BY <1>1, <2>3, <2>4, <2>5, <2>6, AttachToKeeps
  <1> QED BY <1>2, <1>4, <1>5

LEMMA DetachFromTargetKeeps ==
  ASSUME Inv, NEW c \in Client, DetachFromTarget(c) PROVE Inv'
  <1>1. /\ c \in connected /\ Happens
        /\ UNCHANGED <<registry, hidden, attaching, connected, generation, job, idle, doc>>
    BY DEF DetachFromTarget, Request
  <1>2. PoolOK /\ UsedOK' /\ used'.roots = used.roots
    BY <1>1, HappensTyped DEF Inv, TypeOK
  <1>3. job' \in [Client -> Job \cup {None}] /\ JobsShown /\ WorkOK'
    BY <1>1, JobsStayShown DEF Inv, TypeOK, WorkOK
  <1>4. CASE \E a \in told[c] : Tell([told EXCEPT ![c] = Dropped(@, {a.session})]) /\ UNCHANGED aliases
    <2>1. PICK a \in told[c] : Tell([told EXCEPT ![c] = Dropped(@, {a.session})]) /\ UNCHANGED aliases
      BY <1>4
    <2> DEFINE ann == Dropped(told[c], {a.session})
    <2>2. ann \subseteq told[c] /\ Tell([told EXCEPT ![c] = ann])
      BY <2>1, DroppedEnds
    <2> HIDE DEF ann
    <2>3. ann \in SUBSET (RootAnn \cup ChildAnn) /\ ann \ told[c] = {}
      BY <1>2, <2>2 DEF PoolOK
    <2>4. \A b \in ann \ told[c] : IF b.parent = None THEN Shown(b.session) ELSE Reachable(b)
      BY <2>3
    <2>5. \A d \in Client : d # c => job'[d] = job[d]
      BY <1>1
    <2> QED BY <1>1, <1>2, <1>3, <2>1, <2>2, <2>3, <2>4, <2>5, ClientLearns
  <1>5. CASE \E a \in aliases[c] : aliases' = [aliases EXCEPT ![c] = @ \ {a}] /\ UNCHANGED <<told, seen>>
    <2>1. aliases' \in [Client -> SUBSET Alias] /\ \A d \in Client : aliases'[d] \subseteq aliases[d]
      BY <1>2, <1>5 DEF PoolOK
    <2>2. PoolOK'
      BY <1>1, <1>2, <1>5, <2>1 DEF PoolOK, hidden
    <2>3. TypeOK'
      BY <1>1, <1>2, <1>3, <2>2 DEF Inv, TypeOK, RegistryOK, registry
    <2>4. GoneInv'
      BY <1>1, <1>5 DEF Inv, GoneInv, Gone
    <2>5. Calm
      BY <1>1, <1>2, <1>3, <1>5 DEF Calm, RootsSame, AttachKeeps, NewsShown, registry
    <2>6. NothingNewInside
      BY <1>1, <1>5, <2>1, <2>5 DEF NothingNewInside, registry, hidden
    <2> QED BY <2>3, <2>4, <2>6, CalmInv
  <1> QED BY <1>4, <1>5 DEF DetachFromTarget

LEMMA UnregisterKeeps ==
  ASSUME Inv, NEW c \in Client, Unregister(c) PROVE Inv'
  <1>1. /\ connected' = connected \ {c} /\ told' = [told EXCEPT ![c] = {}] /\ aliases' = [aliases EXCEPT ![c] = {}]
        /\ seen' = [seen EXCEPT ![c] = {}] /\ job' = [job EXCEPT ![c] = None]
        /\ UNCHANGED <<registry, hidden, attaching, doc, used>>
    BY DEF Unregister
  <1>2. PoolOK /\ WorkOK
    BY DEF Inv, TypeOK
  <1>3. /\ told' \in [Client -> SUBSET (RootAnn \cup ChildAnn)] /\ aliases' \in [Client -> SUBSET Alias]
        /\ seen' \in [Client -> SUBSET (RootId \X Frame)] /\ connected' \subseteq Client
        /\ \A d \in Client : told'[d] \subseteq told[d] /\ aliases'[d] \subseteq aliases[d] /\ seen'[d] \subseteq seen[d]
    BY <1>1, <1>2 DEF PoolOK
  <1>4. GoneInv'
    BY <1>1, <1>2 DEF Inv, GoneInv, Gone, PoolOK, WorkOK
  <1>5. JobsShown
    BY <1>1, <1>2, JobsStayShown DEF JobsShown, Shown, WorkOK
  <1>6. WorkOK'
    <2>1. job' \in [Client -> Job \cup {None}]
      BY <1>1, <1>2 DEF WorkOK
    <2>2. CASE connected' # {}
      BY <2>1, <2>2, <1>2 DEF Unregister, WorkOK
    <2>3. CASE connected' = {}
      <3>1. /\ generation' = generation + 1
            /\ idle' = [generation |-> generation', left |-> {Capture(r) : r \in Routes}, sent |-> None]
        BY <2>3 DEF Unregister
      <3>2. {Capture(r) : r \in Routes} \subseteq Hold
        BY RoutesTyped DEF Inv, TypeOK
      <3> QED BY <2>1, <3>1, <3>2, <1>2 DEF WorkOK, Idle
    <2> QED BY <2>2, <2>3
  <1>7. PoolOK' /\ UsedOK' /\ used'.roots = used.roots
    BY <1>1, <1>2, <1>3 DEF PoolOK, hidden, Inv, TypeOK, UsedOK
  <1>8. TypeOK'
    BY <1>1, <1>6, <1>7 DEF TypeOK, Inv, RegistryOK, registry
  <1>9. Calm
    BY <1>1, <1>3, <1>5 DEF Calm, RootsSame, AttachKeeps, NewsShown, registry
  <1>10. NothingNewInside
    BY <1>1, <1>3, <1>9 DEF NothingNewInside, registry, hidden
  <1> QED BY <1>4, <1>8, <1>10, CalmInv

LEMMA PresentKeeps ==
  ASSUME Inv, NEW t \in Tab, Present(t) PROVE Inv'
  <1> DEFINE root == attaching[t].root
             inside == {ChildAnnouncement(k) : k \in {i \in InTab(t) : i.parent = root.session /\ i.exposed}}
             first(c) == IF Sees(roots, c, root) THEN Announce(told[c], RootAnnouncement(root)) ELSE told[c]
             new == [c \in Client |->
                       IF c \notin connected THEN told[c]
                       ELSE IF HasTold(first(c), root.session) THEN AnnounceAll(first(c), inside) ELSE first(c)]
  <1>1. /\ attaching[t] # None /\ attaching[t].at = "presenting" /\ Tell(new)
        /\ attaching' = [attaching EXCEPT ![t] = None]
        /\ UNCHANGED <<registry, hidden, connected, generation, aliases, job, idle, doc, used>>
    BY DEF Present
  <1>2. PoolOK /\ attaching \in [Tab -> Attachment \cup {None}]
    BY DEF Inv, TypeOK, RegistryOK
  <1>3. root \in Root /\ root.session \in RootId /\ Shown(root.session)
    BY <1>1, <1>2 DEF Attachment, Root, Shown
  <1>4. RootAnnouncement(root) \in RootAnn /\ RootAnnouncement(root).session = root.session
    BY <1>3, AnnouncementsTyped DEF RootAnnouncement
  <1>5. \A a \in inside : a \in ChildAnn /\ Reachable(a)
    BY <1>3, ShownInside DEF InTab
  <1>6. \A c \in Client : first(c) \subseteq told[c] \cup {RootAnnouncement(root)}
    BY AnnounceAdds
  <1> HIDE DEF first, inside, root
  <1>7. ASSUME NEW c \in Client PROVE new[c] \subseteq told[c] \cup {RootAnnouncement(root)} \cup inside
    <2>1. AnnounceAll(first(c), inside) \subseteq first(c) \cup inside
      BY AnnounceAllAdds
    <2> QED BY <2>1, <1>6
  <1>8. new \in [Client -> SUBSET (RootAnn \cup ChildAnn)]
    BY <1>2, <1>4, <1>5, <1>7 DEF PoolOK
  <1>9. \A c \in Client : c \notin connected => new[c] = told[c]
    OBVIOUS
  <1> HIDE DEF new
  <1>10. told' = new /\ seen' \in [Client -> SUBSET (RootId \X Frame)] /\ \A c \in Client : seen'[c] \subseteq seen[c]
    BY <1>1, <1>2, TellShrinksSeen DEF PoolOK
  <1>11. \A c \in Client : \A a \in told'[c] \ told[c] : IF a.parent = None THEN Shown(a.session) ELSE Reachable(a)
    BY <1>3, <1>4, <1>5, <1>7, <1>10, ConstantsTyped
  <1>12. attaching' \in [Tab -> Attachment \cup {None}] /\ AttachKeeps
    BY <1>1, <1>2 DEF AttachKeeps
  <1>13. WorkOK' /\ UsedOK' /\ used'.roots = used.roots /\ JobsShown
    BY <1>1, JobsStayShown DEF WorkOK, UsedOK, Inv, TypeOK
  <1>14. GoneInv'
    BY <1>1, <1>9, <1>10 DEF Inv, GoneInv, Gone
  <1>15. /\ connected' \subseteq Client /\ aliases' \in [Client -> SUBSET Alias]
         /\ \A c \in Client : \A a \in aliases'[c] \ aliases[c] : Live(a)
    BY <1>1, <1>2 DEF PoolOK
  <1>16. UNCHANGED <<registry, hidden, doc>> /\ told' \in [Client -> SUBSET (RootAnn \cup ChildAnn)]
    BY <1>1, <1>8, <1>10
  <1> QED BY <1>10, <1>11, <1>12, <1>13, <1>14, <1>15, <1>16, LearnKeeps

-----------------------------------------------------------------------------
(* Roots come and go.                                                       *)
LEMMA StageKeeps ==
  ASSUME Inv, NEW t \in Tab, Stage(t) PROVE Inv'
  <1>1. /\ attaching[t] = None /\ used.roots < MaxRoots /\ used' = [used EXCEPT !.roots = @ + 1]
        /\ UNCHANGED <<roots, children, pending, hidden, pool, job, idle, doc, seen>>
    BY DEF Stage, Count
  <1>2. PICK page \in {p \in Page : TabOf[p] = t}, as \in AttachedAs[t] :
          LET root == Heir(t, [tab |-> t, session |-> used.roots + 1, page |-> page, owner |-> as[1], rig |-> as[2]])
          IN /\ staged' = [staged EXCEPT ![t] = root]
             /\ attaching' = [attaching EXCEPT ![t] = [at |-> "preparing", root |-> root]]
    BY DEF Stage
  <1> DEFINE made == [tab |-> t, session |-> used.roots + 1, page |-> page, owner |-> as[1], rig |-> as[2]]
             root == Heir(t, made)
  <1>3. staged' = [staged EXCEPT ![t] = root] /\ attaching' = [attaching EXCEPT ![t] = [at |-> "preparing", root |-> root]]
    BY <1>2
  <1>4. used.roots \in Nat /\ used.roots + 1 \in RootId
    BY <1>1, ConstantsTyped DEF Inv, TypeOK, UsedOK, RootId
  <1>5. made \in Root /\ made.session = used.roots + 1 /\ TabOf[made.page] = t
    <2>1. as \in {"user", "relay"} \X (Rig \cup {None})
      BY ClientsAssumption
    <2> QED BY <2>1, <1>4 DEF Root
  <1> HIDE DEF made
  <1>6. root \in Root /\ root.session = used.roots + 1 /\ TabOf[root.page] = t
    BY <1>5, HeirTyped DEF Inv, TypeOK
  <1> HIDE DEF root
  <1>7. RegistryOK'
    BY <1>1, <1>3, <1>6 DEF RegistryOK, Inv, TypeOK, Attachment
  <1>8. UsedOK' /\ used'.roots = used.roots + 1
    BY <1>1 DEF Inv, TypeOK, UsedOK
  <1>9. TypeOK'
    BY <1>1, <1>7, <1>8 DEF TypeOK, Inv, PoolOK, WorkOK, pool, hidden
  <1>10. GoneInv'
    BY <1>1 DEF Inv, GoneInv, Gone, pool
  <1>11. \A s \in RootId : Shown(s)' => Shown(s)
    <2>1. AttachKeeps
      BY <1>3 DEF AttachKeeps, Inv, TypeOK, RegistryOK
    <2>2. JobsShown /\ NewsShown /\ \A u \in Tab : roots'[u] # None => Shown(roots'[u].session)
      BY <1>1, JobsStayShown DEF NewsShown, pool, Shown
    <2> QED BY <1>9, <2>1, <2>2, ShownStays DEF TypeOK, PoolOK
  <1>12. staged'[t] = root /\ \A u \in Tab : u # t => staged'[u] = staged[u]
    BY <1>3 DEF Inv, TypeOK, RegistryOK
  <1>13. \A u \in Tab : staged[u] # None => staged[u].session \in RootId /\ staged[u].session <= used.roots
    BY DEF Inv, TypeOK, RegistryOK, Root, StagedInv
  <1>14. StagedInv'
    <2>1. \A s \in RootId : Shown(s)' => s <= used'.roots
      BY <1>4, <1>8, <1>11, ConstantsTyped DEF Inv, StagedInv
    <2>2. ASSUME NEW u \in Tab, staged'[u] # None
          PROVE  /\ staged'[u].session \in RootId /\ staged'[u].session <= used'.roots
                 /\ \A s \in RootId : s = staged'[u].session => ~Shown(s)'
      <3>1. CASE u = t
        <4>1. staged'[u].session = used.roots + 1
          BY <3>1, <1>6, <1>12
        <4>2. \A s \in RootId : s = used.roots + 1 => ~Shown(s)'
          BY <1>4, <1>11 DEF Inv, StagedInv
        <4> QED BY <4>1, <4>2, <1>4, <1>8
      <3>2. CASE u # t
        <4>1. staged'[u] = staged[u]
          BY <3>2, <1>12
        <4>2. /\ staged[u].session \in RootId /\ staged[u].session \in Nat /\ staged[u].session <= used.roots
              /\ ~Shown(staged[u].session)
          BY <4>1, <2>2, <1>13, ConstantsTyped DEF Inv, StagedInv
        <4>3. staged[u].session <= used.roots + 1
          BY <4>2, <1>4
        <4>4. \A s \in RootId : s = staged[u].session => ~Shown(s)'
          BY <4>2, <1>11
        <4> QED BY <4>1, <4>2, <4>3, <4>4, <1>8
      <3> QED BY <3>1, <3>2
    <2>3. ASSUME NEW u \in Tab, NEW w \in Tab, staged'[u] # None, staged'[w] # None,
                 staged'[u].session = staged'[w].session
          PROVE  u = w
      <3>1. \A v \in Tab : v # t /\ staged'[v] # None => staged'[v].session # used.roots + 1
        <4>1. \A n \in Nat : n <= used.roots => n # used.roots + 1
          BY <1>4
        <4> QED BY <4>1, <1>12, <1>13, ConstantsTyped
      <3>2. staged'[t].session = used.roots + 1
        BY <1>6, <1>12
      <3> QED BY <3>1, <3>2, <2>3, <1>12 DEF Inv, StagedInv
    <2> QED BY <2>1, <2>2, <2>3 DEF StagedInv
  <1>15. ParentInv'
    <2> SUFFICES ASSUME NEW k \in children, k.parent \in RootId PROVE ParentOk(k)'
      BY <1>1 DEF ParentInv, ParentOk
    <2>1. ParentOk(k)
      BY DEF Inv, ParentInv
    <2>2. k.parent <= used.roots /\ k.parent \in Nat
      BY <2>1, ConstantsTyped DEF ParentOk
    <2>3. k.parent # root.session /\ k.parent <= used'.roots
      BY <2>2, <1>4, <1>6, <1>8
    <2> QED BY <2>1, <2>3, <1>1, <1>11, <1>12 DEF ParentOk
  <1>16. ToldInv' /\ AliasInv'
    BY <1>1 DEF Inv, ToldInv, Reachable, AliasInv, Live, Exists, pool
  <1>17. \A c \in Client : \A x \in seen[c] : x[1] \in RootId /\ x[1] <= used.roots
    BY DEF Inv, SeenInv, TypeOK, PoolOK
  <1>18. SeenInv'
    BY <1>1, <1>4, <1>8, <1>17, ConstantsTyped DEF SeenInv
  <1>19. HiddenInv'
    <2> SUFFICES ASSUME NEW f \in Frame, NEW c \in Client, Routing(TabOf[f])' # None,
                        doc[f] = "restricted" \/ f \in protected
                 PROVE  <<Source(TabOf[f])', f>> \notin seen[c]
      BY <1>1 DEF HiddenInv, hidden
    <2>1. CASE TabOf[f] = t
      <3>1. Source(TabOf[f])' = used.roots + 1
        BY <2>1, <1>6, <1>12, ConstantsTyped DEF Source, Routing
      <3>2. ~(used.roots + 1 <= used.roots)
        BY <1>4
      <3> QED BY <3>1, <3>2, <1>17
    <2>2. CASE TabOf[f] # t
      <3>1. Routing(TabOf[f])' = Routing(TabOf[f])
        BY <2>2, <1>1, <1>12, ConstantsTyped DEF Routing
      <3> QED BY <3>1 DEF Source, Inv, HiddenInv
    <2> QED BY <2>1, <2>2
  <1> QED BY <1>9, <1>10, <1>14, <1>15, <1>16, <1>18, <1>19 DEF Inv

(* A step that only ends roots, or commits what was staged.                 *)
Surfaces(s) == \E t \in Tab : staged[t] # None /\ staged'[t] = None /\ roots'[t] # None /\ s = staged[t].session

LEMMA EndsKeep ==
  ASSUME Inv, RegistryOK', PoolOK', UNCHANGED <<connected, generation, job, idle, doc>>,
         UsedOK', used'.roots = used.roots,
         \A t \in Tab : staged'[t] # None => staged'[t] = staged[t],
         children' \subseteq children, protected' \subseteq protected,
         \A c \in Client : told'[c] \subseteq told[c] /\ aliases'[c] \subseteq aliases[c] /\ seen'[c] \subseteq seen[c],
         \A s \in RootId : Shown(s)' => Shown(s) \/ Surfaces(s),
         \A k \in children' : roots'[TabOf[k.target]] = None => roots[TabOf[k.target]] = None,
         \A c \in Client : \A a \in told'[c] : a.parent # None /\ Reachable(a) => Reachable(a)',
         \A c \in Client : \A a \in aliases'[c] : Live(a) => Live(a)',
         \A t \in Tab : Routing(t)' # None => Routing(t) # None /\ Source(t)' = Source(t)
  PROVE  Inv'
  <1>1. TypeOK'
    BY DEF TypeOK, Inv, WorkOK
  <1>2. GoneInv'
    BY DEF Inv, GoneInv, Gone
  <1>3. \A t \in Tab : staged[t] # None => staged[t].session \in RootId
    BY DEF Inv, TypeOK, RegistryOK, Root
  <1>4. \A s \in RootId : Surfaces(s) => s <= used.roots
    BY DEF Surfaces, Inv, StagedInv
  <1>5. ASSUME NEW u \in Tab, staged'[u] # None
        PROVE  \A s \in RootId : s = staged'[u].session => ~Surfaces(s) /\ ~Shown(s) /\ ~Shown(s)'
    BY <1>3, <1>5 DEF Surfaces, Inv, StagedInv
  <1>6. StagedInv'
    <2>1. \A s \in RootId : Shown(s)' => s <= used'.roots
      BY <1>4 DEF Inv, StagedInv
    <2>2. \A u \in Tab : staged'[u] # None =>
            /\ staged'[u].session \in RootId /\ staged'[u].session <= used'.roots
            /\ \A s \in RootId : s = staged'[u].session => ~Shown(s)'
      BY <1>3, <1>5 DEF Inv, StagedInv
    <2>3. \A u, w \in Tab : staged'[u] # None /\ staged'[w] # None /\ staged'[u].session = staged'[w].session => u = w
      BY DEF Inv, StagedInv
    <2> QED BY <2>1, <2>2, <2>3 DEF StagedInv
  <1>7. ParentInv'
    <2> SUFFICES ASSUME NEW k \in children', k.parent \in RootId PROVE ParentOk(k)'
      BY DEF ParentInv, ParentOk
    <2>1. ParentOk(k) /\ k \in children
      BY DEF Inv, ParentInv
    <2>2. ASSUME roots'[TabOf[k.target]] = None PROVE ~Shown(k.parent)'
      <3>1. ~Shown(k.parent)
        BY <2>1, <2>2 DEF ParentOk
      <3>2. ~Surfaces(k.parent)
        BY <2>1, <2>2 DEF ParentOk, Surfaces
      <3> QED BY <3>1, <3>2
    <2> QED BY <2>1, <2>2 DEF ParentOk
  <1>8. ToldInv' /\ AliasInv'
    BY DEF Inv, ToldInv, AliasInv
  <1>9. SeenInv'
    BY DEF Inv, SeenInv
  <1>10. HiddenInv'
    BY ConstantsTyped DEF Inv, HiddenInv
  <1> QED BY <1>1, <1>2, <1>6, <1>7, <1>8, <1>9, <1>10 DEF Inv

LEMMA DetachTabKeeps ==
  ASSUME Inv, NEW t \in Tab, DetachTab(t) PROVE Inv'
  <1>1. /\ Happens /\ staged' = [staged EXCEPT ![t] = None] /\ roots' = [roots EXCEPT ![t] = None]
        /\ UNCHANGED <<attaching, connected, generation, job, idle, doc>>
    BY DEF DetachTab
  <1>2. RegistryOK /\ PoolOK
    BY DEF Inv, TypeOK
  <1>3. /\ roots' \in [Tab -> Root \cup {None}] /\ staged' \in [Tab -> Root \cup {None}]
        /\ roots'[t] = None /\ staged'[t] = None
        /\ \A u \in Tab : u # t => roots'[u] = roots[u] /\ staged'[u] = staged[u]
    BY <1>1, <1>2 DEF RegistryOK
  <1>4. UsedOK' /\ used'.roots = used.roots
    BY <1>1, HappensTyped DEF Inv, TypeOK
  <1>5. /\ children' \subseteq children /\ pending' \subseteq pending /\ protected' \subseteq protected
        /\ told' \in [Client -> SUBSET (RootAnn \cup ChildAnn)] /\ aliases' \in [Client -> SUBSET Alias]
        /\ seen' \in [Client -> SUBSET (RootId \X Frame)]
        /\ \A c \in Client : told'[c] \subseteq told[c] /\ aliases'[c] \subseteq aliases[c] /\ seen'[c] \subseteq seen[c]
        /\ IF roots[t] = None THEN children' = children /\ told' = told /\ aliases' = aliases
           ELSE /\ children' = children \ InTab(t)
                /\ \A c \in Client : \A a \in told'[c] : \A k \in InTab(t) : k.session # a.session
                /\ \A c \in Client : \A a \in aliases'[c] : TabOf[a.target] # t
    <2>1. CASE roots[t] = None
      <3>1. UNCHANGED <<children, pending, hidden, told, aliases, seen, known>>
        BY <2>1 DEF DetachTab
      <3> QED BY <2>1, <3>1, <1>2 DEF PoolOK, hidden
    <2>2. CASE roots[t] # None
      <3> DEFINE ids == {k.session : k \in InTab(t)}
                 new == [c \in Client |-> Dropped(Ended(told[c], ids), {roots[t].session})]
      <3>1. /\ children' = children \ InTab(t) /\ pending' \subseteq pending /\ Tell(new)
            /\ aliases' = [c \in Client |-> {a \in aliases[c] : TabOf[a.target] # t}]
            /\ protected' = {f \in protected : TabOf[f] # t}
        BY <2>2 DEF DetachTab, Detached, ReplacedAliases
      <3>2. ASSUME NEW c \in Client PROVE new[c] \subseteq told[c] /\ \A a \in new[c] : a.session \notin ids
        <4>1. new[c] = Dropped(Ended(told[c], ids), {roots[t].session})
          OBVIOUS
        <4> HIDE DEF new, ids
        <4> QED BY <4>1, DroppedEnds, EndedEnds
      <3>3. new \in [Client -> SUBSET (RootAnn \cup ChildAnn)]
        <4>1. new = [c \in Client |-> new[c]]
          OBVIOUS
        <4> HIDE DEF new
        <4> QED BY <4>1, <3>2, <1>2 DEF PoolOK
      <3>4. \A c \in Client : \A a \in new[c] : \A k \in InTab(t) : k.session # a.session
        BY <3>2
      <3> HIDE DEF new
      <3>5. told' = new /\ seen' \in [Client -> SUBSET (RootId \X Frame)] /\ \A c \in Client : seen'[c] \subseteq seen[c]
        BY <3>1, <1>2, TellShrinksSeen DEF PoolOK
      <3>6. /\ aliases' \in [Client -> SUBSET Alias]
            /\ \A c \in Client : aliases'[c] \subseteq aliases[c] /\ \A a \in aliases'[c] : TabOf[a.target] # t
        BY <3>1, <1>2 DEF PoolOK
      <3> QED BY <2>2, <3>1, <3>2, <3>3, <3>4, <3>5, <3>6
    <2> QED BY <2>1, <2>2
  <1>6. RegistryOK'
    BY <1>1, <1>2, <1>3, <1>5 DEF RegistryOK
  <1>7. PoolOK'
    BY <1>1, <1>2, <1>5 DEF PoolOK
  <1>8. \A s \in RootId : Shown(s)' => Shown(s)
    <2>1. \A u \in Tab : roots'[u] # None => Shown(roots'[u].session)
      BY <1>3 DEF Shown
    <2>2. AttachKeeps /\ JobsShown /\ NewsShown
      BY <1>1, <1>5, JobsStayShown DEF AttachKeeps, NewsShown
    <2> QED BY <1>5, <2>1, <2>2, ShownStays
  <1>9. \A k \in children : TabOf[k.target] \in Tab
    BY <1>2, ConstantsTyped DEF RegistryOK, Child
  <1>10. \A k \in children' : roots'[TabOf[k.target]] = None => roots[TabOf[k.target]] = None
    BY <1>3, <1>5, <1>9 DEF InTab
  <1>11. ASSUME NEW c \in Client, NEW a \in told'[c], a.parent # None, Reachable(a) PROVE Reachable(a)'
    <2>1. PICK k \in children : k.session = a.session /\ k.target = a.target
      BY <1>11 DEF Reachable, Exists
    <2>2. CASE roots[t] = None
      BY <2>1, <2>2, <1>3, <1>5, <1>9, <1>11 DEF Reachable, Exists
    <2>3. CASE roots[t] # None
      <3>1. k \notin InTab(t)
        BY <2>1, <2>3, <1>5
      <3>2. k \in children' /\ TabOf[k.target] # t
        BY <2>3, <3>1, <1>5 DEF InTab
      <3> QED BY <2>1, <3>2, <1>3, <1>9, <1>11 DEF Reachable, Exists
    <2> QED BY <2>2, <2>3
  <1>12. ASSUME NEW c \in Client, NEW a \in aliases'[c], Live(a) PROVE Live(a)'
    <2>1. a \in Alias /\ TabOf[a.target] \in Tab
      BY <1>2, <1>5, ConstantsTyped DEF PoolOK, Alias
    <2>2. TabOf[a.target] # t
      BY <1>5, <1>12 DEF Live
    <2>3. roots'[TabOf[a.target]] = roots[TabOf[a.target]]
      BY <1>3, <2>1, <2>2
    <2>4. Exists(a.chrome, a.target) => Exists(a.chrome, a.target)'
      BY <1>5, <2>2 DEF Exists, InTab
    <2> QED BY <2>3, <2>4, <1>12 DEF Live
  <1>13. \A u \in Tab : Routing(u)' # None => Routing(u) # None /\ Source(u)' = Source(u)
    BY <1>3 DEF Routing, Source
  <1>14. \A u \in Tab : staged'[u] # None => staged'[u] = staged[u]
    BY <1>3
  <1> QED BY <1>1, <1>4, <1>5, <1>6, <1>7, <1>8, <1>10, <1>11, <1>12, <1>13, <1>14, EndsKeep

LEMMA LoseExtensionKeeps ==
  ASSUME Inv, LoseExtension PROVE Inv'
  <1> DEFINE gone == {t \in Tab : roots[t] # None}
             ids == {k.session : k \in {i \in children : TabOf[i.target] \in gone}}
             new == [c \in Client |-> Dropped(Ended(told[c], ids), {roots[t].session : t \in gone})]
  <1>1. /\ Happens /\ roots' = [t \in Tab |-> None] /\ staged' = [t \in Tab |-> None]
        /\ children' = {} /\ pending' = {} /\ Tell(new)
        /\ aliases' = [c \in Client |-> {a \in aliases[c] : TabOf[a.target] \notin gone}]
        /\ protected' \subseteq protected
        /\ UNCHANGED <<attaching, connected, generation, job, idle, doc>>
    BY DEF LoseExtension
  <1>2. RegistryOK /\ PoolOK
    BY DEF Inv, TypeOK
  <1>3. UsedOK' /\ used'.roots = used.roots
    BY <1>1, HappensTyped DEF Inv, TypeOK
  <1>4. ASSUME NEW c \in Client PROVE new[c] \subseteq told[c] /\ \A a \in new[c] : a.session \notin ids
    <2>1. new[c] = Dropped(Ended(told[c], ids), {roots[t].session : t \in gone})
      OBVIOUS
    <2> HIDE DEF new, ids
    <2> QED BY <2>1, DroppedEnds, EndedEnds
  <1>5. new \in [Client -> SUBSET (RootAnn \cup ChildAnn)]
    <2>1. new = [c \in Client |-> new[c]]
      OBVIOUS
    <2> HIDE DEF new
    <2> QED BY <2>1, <1>4, <1>2 DEF PoolOK
  <1>6. ASSUME NEW c \in Client, NEW a \in new[c] PROVE ~(a.parent # None /\ Reachable(a))
    <2> SUFFICES ASSUME a.parent # None, Reachable(a) PROVE FALSE
      OBVIOUS
    <2>1. PICK k \in children : k.session = a.session /\ k.target = a.target
      BY DEF Reachable, Exists
    <2>2. k.session \in ids
      BY <2>1, <1>2, ConstantsTyped DEF Reachable, RegistryOK, Child
    <2> QED BY <2>1, <2>2, <1>4
  <1>7. ASSUME NEW c \in Client, NEW a \in aliases'[c] PROVE ~Live(a)
    <2>1. a \in Alias /\ TabOf[a.target] \notin gone
      BY <1>1, <1>2 DEF PoolOK
    <2> QED BY <2>1, ConstantsTyped DEF Alias, Live
  <1>8. /\ aliases' \in [Client -> SUBSET Alias] /\ \A c \in Client : aliases'[c] \subseteq aliases[c]
    BY <1>1, <1>2 DEF PoolOK
  <1> HIDE DEF new, ids, gone
  <1>9. told' = new /\ seen' \in [Client -> SUBSET (RootId \X Frame)] /\ \A c \in Client : seen'[c] \subseteq seen[c]
    BY <1>1, <1>2, TellShrinksSeen DEF PoolOK
  <1>10. RegistryOK'
    BY <1>1, <1>2 DEF RegistryOK
  <1>11. PoolOK'
    BY <1>1, <1>2, <1>5, <1>8, <1>9 DEF PoolOK
  <1>12. \A s \in RootId : Shown(s)' => Shown(s)
    <2>1. \A u \in Tab : roots'[u] # None => Shown(roots'[u].session)
      BY <1>1
    <2>2. AttachKeeps /\ JobsShown /\ NewsShown
      BY <1>1, <1>4, <1>9, JobsStayShown DEF AttachKeeps, NewsShown
    <2> QED BY <1>5, <1>9, <2>1, <2>2, ShownStays
  <1>13. \A u \in Tab : Routing(u)' = None /\ staged'[u] = None
    BY <1>1 DEF Routing
  <1> QED BY <1>1, <1>3, <1>4, <1>6, <1>7, <1>8, <1>9, <1>10, <1>11, <1>12, <1>13, EndsKeep

LEMMA CommitKeeps ==
  ASSUME Inv, NEW t \in Tab, Commit(t) PROVE Inv'
  <1> DEFINE root == Heir(t, staged[t])
             old == roots[t]
             rs == [roots EXCEPT ![t] = root]
             gone == IF old = None THEN {} ELSE InTab(t) \ Below({root.session})
             ends == IF old = None THEN {} ELSE {k.session : k \in gone} \cup {old.session}
             mine(c) == c \in connected /\ root.rig # None /\ RigOf[c] = root.rig
             left(c) == Ended(told[c], ends)
             blind(c) == IF mine(c) THEN left(c) \ Ended(left(c), {a.session : a \in Blind(rs, children \ gone, c)}) ELSE {}
             new == [c \in Client |-> left(c) \ blind(c)]
  <1>1. /\ staged[t] # None /\ staged' = [staged EXCEPT ![t] = None]
        /\ roots' = rs /\ children' = children \ gone /\ Tell(new)
        /\ aliases' = [c \in Client |->
             {a \in (IF old = None THEN aliases ELSE ReplacedAliases(t))[c] : \A b \in blind(c) : TabOf[b.target] # TabOf[a.target]}]
        /\ pending' \subseteq pending /\ protected' \subseteq protected
        /\ attaching' = [attaching EXCEPT ![t] = [at |-> "presenting", root |-> root]]
        /\ UNCHANGED <<known, connected, generation, job, idle, doc, used>>
    BY DEF Commit
  <1>2. RegistryOK /\ PoolOK
    BY DEF Inv, TypeOK
  <1>3. root \in Root /\ root # None /\ root.session = staged[t].session /\ TabOf[root.page] = t
    <2>1. staged[t] \in Root /\ TabOf[staged[t].page] = t
      BY <1>1, <1>2 DEF RegistryOK
    <2> QED BY <1>2, <2>1, HeirTyped, ConstantsTyped
  <1>4. gone \subseteq InTab(t) /\ (old = None => gone = {})
    OBVIOUS
  <1>5. \A k \in gone : k.session \in ends
    OBVIOUS
  <1>6. \A c \in Client : new[c] \subseteq told[c] /\ \A a \in new[c] : \A k \in gone : k.session # a.session
    <2>1. \A c \in Client : left(c) \subseteq told[c] /\ \A a \in left(c) : a.session \notin ends
      BY EndedEnds
    <2>2. \A c \in Client : new[c] \subseteq left(c)
      OBVIOUS
    <2> HIDE DEF new, left, ends, gone
    <2> QED BY <2>1, <2>2, <1>5
  <1>7. new \in [Client -> SUBSET (RootAnn \cup ChildAnn)]
    <2>1. new = [c \in Client |-> new[c]]
      OBVIOUS
    <2> HIDE DEF new
    <2> QED BY <2>1, <1>6, <1>2 DEF PoolOK
  <1> HIDE DEF new, left, blind, mine, ends, gone, root
  <1>8. /\ aliases' \in [Client -> SUBSET Alias]
        /\ \A c \in Client : /\ aliases'[c] \subseteq aliases[c]
                             /\ old # None => \A a \in aliases'[c] : TabOf[a.target] # t
    BY <1>1, <1>2 DEF PoolOK, ReplacedAliases
  <1>9. told' = new /\ seen' \in [Client -> SUBSET (RootId \X Frame)] /\ \A c \in Client : seen'[c] \subseteq seen[c]
    BY <1>1, <1>2, TellShrinksSeen DEF PoolOK
  <1>10. /\ roots' \in [Tab -> Root \cup {None}] /\ staged' \in [Tab -> Root \cup {None}]
         /\ roots'[t] = root /\ staged'[t] = None
         /\ \A u \in Tab : u # t => roots'[u] = roots[u] /\ staged'[u] = staged[u]
    BY <1>1, <1>2, <1>3 DEF RegistryOK
  <1>11. /\ attaching' \in [Tab -> Attachment \cup {None}] /\ attaching'[t].root = root
         /\ \A u \in Tab : u # t => attaching'[u] = attaching[u]
    BY <1>1, <1>2, <1>3 DEF RegistryOK, Attachment
  <1>12. RegistryOK'
    BY <1>1, <1>2, <1>3, <1>10, <1>11 DEF RegistryOK
  <1>13. PoolOK'
    BY <1>1, <1>2, <1>7, <1>8, <1>9 DEF PoolOK
  <1>14. UsedOK' /\ used'.roots = used.roots
    BY <1>1 DEF UsedOK, Inv, TypeOK
  <1>15. ASSUME NEW s \in RootId, Shown(s)' PROVE Shown(s) \/ Surfaces(s)
    <2>1. Surfaces(staged[t].session)
      BY <1>1, <1>3, <1>10 DEF Surfaces
    <2>2. CASE \E u \in Tab : roots'[u] # None /\ roots'[u].session = s
      BY <2>1, <2>2, <1>3, <1>10 DEF Shown
    <2>3. CASE \E u \in Tab : attaching'[u] # None /\ attaching'[u].at = "presenting" /\ attaching'[u].root.session = s
      BY <2>1, <2>3, <1>3, <1>11 DEF Shown
    <2>4. CASE \E c \in Client : \E a \in told'[c] : a.session = s
      BY <2>4, <1>6, <1>9 DEF Shown
    <2>5. CASE \E c \in Client : job'[c] # None /\ job'[c].kind = "attach" /\ \E r \in job'[c].left : r.session = s
      BY <2>5, <1>1 DEF Shown
    <2>6. CASE \E c \in Client : job'[c] # None /\ job'[c].kind = "replay" /\ job'[c].root = s
      BY <2>6, <1>1 DEF Shown
    <2> QED BY <1>15, <2>2, <2>3, <2>4, <2>5, <2>6 DEF Shown
  <1>16. \A u \in Tab : roots'[u] = None => roots[u] = None
    BY <1>3, <1>10
  <1>17. \A k \in children' : TabOf[k.target] \in Tab
    BY <1>12, ConstantsTyped DEF RegistryOK, Child
  <1>18. ASSUME NEW c \in Client, NEW a \in told'[c], a.parent # None, Reachable(a) PROVE Reachable(a)'
    <2>1. PICK k \in children : k.session = a.session /\ k.target = a.target
      BY <1>18 DEF Reachable, Exists
    <2>2. k \in children'
      BY <2>1, <1>1, <1>6, <1>9
    <2> QED BY <2>1, <2>2, <1>16, <1>17, <1>18 DEF Reachable, Exists
  <1>19. ASSUME NEW c \in Client, NEW a \in aliases'[c], Live(a) PROVE Live(a)'
    <2>1. a \in Alias /\ TabOf[a.target] \in Tab
      BY <1>8, ConstantsTyped DEF Alias
    <2>2. TabOf[a.target] # t
      BY <1>8, <1>19 DEF Live
    <2>3. roots'[TabOf[a.target]] = roots[TabOf[a.target]]
      BY <1>10, <2>1, <2>2
    <2>4. Exists(a.chrome, a.target) => Exists(a.chrome, a.target)'
      BY <1>1, <1>4, <2>2 DEF Exists, InTab
    <2> QED BY <2>3, <2>4, <1>19 DEF Live
  <1>20. \A u \in Tab : Routing(u)' # None => Routing(u) # None /\ Source(u)' = Source(u)
    BY <1>1, <1>3, <1>10 DEF Routing, Source
  <1>21. /\ \A u \in Tab : staged'[u] # None => staged'[u] = staged[u]
         /\ children' \subseteq children /\ protected' \subseteq protected
         /\ \A c \in Client : told'[c] \subseteq told[c] /\ aliases'[c] \subseteq aliases[c] /\ seen'[c] \subseteq seen[c]
    BY <1>1, <1>6, <1>8, <1>9, <1>10
  <1>22. \A k \in children' : roots'[TabOf[k.target]] = None => roots[TabOf[k.target]] = None
    BY <1>16, <1>17
  <1>23. UNCHANGED <<connected, generation, job, idle, doc>>
    BY <1>1
  <1> QED BY <1>12, <1>13, <1>14, <1>15, <1>18, <1>19, <1>20, <1>21, <1>22, <1>23, EndsKeep

-----------------------------------------------------------------------------
LEMMA InitInv == Init => Inv /\ KnownInv
  <1> SUFFICES ASSUME Init PROVE Inv /\ KnownInv
    OBVIOUS
  <1>0. children \subseteq Within /\ children \subseteq Child
    BY ClientsAssumption DEF Init
  <1>1. TypeOK
    BY <1>0, ConstantsTyped, ClientsAssumption
       DEF Init, TypeOK, RegistryOK, PoolOK, WorkOK, UsedOK
  <1>2. GoneInv /\ ToldInv /\ AliasInv /\ SeenInv /\ KnownInv
    BY DEF Init, GoneInv, Gone, ToldInv, AliasInv, SeenInv, KnownInv
  <1>5. ParentInv
    <2> SUFFICES ASSUME NEW k \in children, k.parent \in RootId PROVE ParentOk(k)
      BY DEF ParentInv, ParentOk
    <2>1. TabOf[k.target] \in Tab
      BY <1>0, ConstantsTyped DEF Child
    <2>2. Before[TabOf[k.target]] # None /\ k.parent = Before[TabOf[k.target]].session
      BY <1>0, ClientsAssumption
    <2> QED BY <2>1, <2>2, ClientsAssumption DEF Init, ParentOk
  <1>3. StagedInv
    <2>1. \A s : Shown(s) => \E t \in Tab : Before[t] # None /\ Before[t].session = s
      BY DEF Init, Shown
    <2>2. \A t \in Tab : staged[t] = None
      BY DEF Init
    <2>3. used.roots = First
      BY DEF Init
    <2> QED BY <2>1, <2>2, <2>3, ClientsAssumption DEF StagedInv
  <1>4. HiddenInv
    BY DEF Init, HiddenInv
  <1> QED BY <1>1, <1>2, <1>3, <1>4, <1>5 DEF Inv

LEMMA StutterKeeps ==
  ASSUME Inv, UNCHANGED vars PROVE Inv'
  <1>1. TypeOK'
    BY DEF vars, registry, hidden, pool, Inv, TypeOK, RegistryOK, PoolOK, WorkOK, UsedOK
  <1>2. GoneInv'
    BY DEF vars, pool, Inv, GoneInv, Gone
  <1>3. Calm
    BY JobsStayShown DEF vars, registry, pool, Calm, RootsSame, AttachKeeps, NewsShown
  <1> QED BY <1>1, <1>2, <1>3, NobodyHears, CalmInv DEF vars, registry, hidden, pool

LEMMA NextKeeps ==
  ASSUME Inv, KnownInv, [Next]_vars PROVE Inv'
  <1>1. ASSUME NEW t \in Tab, \/ Stage(t) \/ Resume(t) \/ GiveUp(t) \/ Commit(t) \/ Present(t) \/ DetachTab(t)
        PROVE  Inv'
    BY <1>1, StageKeeps, ResumeKeeps, CommitKeeps, PresentKeeps, DetachTabKeeps
  <1>2. ASSUME NEW t \in Tab, \/ ReleaseOwnership(t) \/ MainFrameNavigated(t) \/ \E rig \in Rig : Reserve(rig, t)
        PROVE  Inv'
    BY <1>2, ReleaseOwnershipKeeps, MainFrameNavigatedKeeps, ReserveKeeps
  <1>3. ASSUME LoseExtension \/ \E p \in pending : CommitOwnership(p) \/ RollbackOwnership(p) PROVE Inv'
    BY <1>3, LoseExtensionKeeps, CommitOwnershipKeeps, RollbackOwnershipKeeps
  <1>4. ASSUME NEW f \in Frame, \/ FrameAttached(f) \/ FrameStartedNavigating(f) \/ FrameDetached(f)
                                \/ FrameChangesUnheard(f)
                                \/ \E d \in {"ordinary", "restricted"} : FrameNavigated(f, d)
        PROVE  Inv'
    BY <1>4, FrameAttachedKeeps, FrameStartedNavigatingKeeps, FrameDetachedKeeps, FrameChangesUnheardKeeps,
       FrameNavigatedKeeps
  <1>5. ASSUME NEW k \in ChildSession, NEW x \in Inside, NEW p \in Parents(TabOf[x]), NEW e \in BOOLEAN,
               TargetAttached(k, x, p, e)
        PROVE  Inv'
    BY <1>5, TargetAttachedKeeps
  <1>6. ASSUME NEW k \in ChildSession, TargetDetached(k) \/ \E x \in Inside : RestrictedTargetAttached(k, x)
        PROVE  Inv'
    BY <1>6, TargetDetachedKeeps, RestrictedTargetAttachedKeeps
  <1>7. ASSUME NEW i \in children, TargetBecomesRestricted(i) \/ TargetGetsUrl(i) PROVE Inv'
    BY <1>7, TargetBecomesRestrictedKeeps, TargetGetsUrlKeeps
  <1>8. ASSUME NEW c \in Client, \/ Register(c) \/ Unregister(c) \/ SetAutoAttach(c) \/ AutoAttached(c)
                                 \/ Replay(c) \/ CommandFails(c)
        PROVE  Inv'
    BY <1>8, RegisterKeeps, UnregisterKeeps, SetAutoAttachKeeps, AutoAttachedKeeps, ReplayKeeps, WorkKeeps
  <1>9. ASSUME NEW c \in Client, \/ AttachToTarget(c) \/ DetachFromTarget(c) \/ RuntimeEnable(c) \/ RuntimeStep(c)
                                 \/ \E t \in Tab : SetAutoAttachOn(c, t)
        PROVE  Inv'
    BY <1>9, AttachToTargetKeeps, DetachFromTargetKeeps, RuntimeEnableKeeps, WorkKeeps, SetAutoAttachOnKeeps
  <1>10. CASE ResetIdle
    BY <1>10, ResetIdleKeeps
  <1>11. CASE UNCHANGED vars
    BY <1>11, StutterKeeps
  <1> QED BY <1>1, <1>2, <1>3, <1>4, <1>5, <1>6, <1>7, <1>8, <1>9, <1>10, <1>11 DEF Next

-----------------------------------------------------------------------------
(* What is stored of frames.  Most steps store nothing and hide nothing.      *)
LEMMA KnownShrinks ==
  ASSUME KnownInv, known' \subseteq known,
         \A f \in known' : /\ Routing(TabOf[f])' # None => Routing(TabOf[f]) # None
                           /\ doc'[f] = "restricted" \/ f \in protected' => doc[f] = "restricted" \/ f \in protected
  PROVE  KnownInv'
  BY DEF KnownInv

LEMMA SameRoots ==
  ASSUME KnownInv, known' = known, doc' = doc, protected' \subseteq protected, staged' = staged,
         \A t \in Tab : roots'[t] # None => roots[t] # None
  PROVE  KnownInv'
  <1>1. \A f \in known : TabOf[f] \in Tab
    BY ConstantsTyped DEF KnownInv
  <1>2. \A t \in Tab : Routing(t)' # None => Routing(t) # None
    BY DEF Routing
  <1> QED BY <1>1, <1>2, KnownShrinks

(* A frame is stored, or a frame that is hidden is not.                      *)
LEMMA FrameStored ==
  ASSUME KnownInv, NEW f \in Frame, known' \subseteq known \cup {f}, UNCHANGED <<roots, staged>>,
         \A g \in Frame \ {f} : /\ doc'[g] = "restricted" => doc[g] = "restricted"
                                /\ g \in protected' => g \in protected,
         f \in known' /\ Routing(TabOf[f]) # None => doc'[f] # "restricted" /\ f \notin protected'
  PROVE  KnownInv'
  <1>1. \A g \in Frame : Routing(TabOf[g])' = Routing(TabOf[g])
    BY DEF Routing
  <1> QED BY <1>1 DEF KnownInv

LEMMA FramesKept ==
  ASSUME Inv, KnownInv, NEW f \in Frame,
         \/ FrameAttached(f) \/ FrameStartedNavigating(f) \/ FrameDetached(f) \/ FrameChangesUnheard(f)
         \/ \E d \in {"ordinary", "restricted"} : FrameNavigated(f, d)
  PROVE  KnownInv'
  <1>1. doc \in [Frame -> {"absent", "ordinary", "restricted"}]
    BY DEF Inv, TypeOK, PoolOK
  <1>2. CASE FrameAttached(f)
    <2>1. /\ doc' = [doc EXCEPT ![f] = "ordinary"] /\ UNCHANGED <<roots, staged, protected>>
          /\ (f \notin protected /\ known' = known \cup {f}) \/ known' = known
      BY <1>2 DEF FrameAttached, aside, hidden
    <2>2. \A g \in Frame \ {f} : doc'[g] = doc[g]
      BY <1>1, <2>1
    <2>3. doc'[f] = "ordinary"
      BY <1>1, <2>1
    <2>4. f \in known' /\ Routing(TabOf[f]) # None => f \notin protected'
      BY <2>1 DEF KnownInv
    <2> QED BY <2>1, <2>2, <2>3, <2>4, FrameStored
  <1>3. CASE FrameStartedNavigating(f)
    <2>1. doc' = doc /\ UNCHANGED <<roots, staged>> /\ doc[f] = "ordinary"
      BY <1>3 DEF FrameStartedNavigating, aside
    <2>2. \/ UNCHANGED <<known, protected>>
          \/ protected' = protected \cup {f} /\ known' = known \ {f}
      BY <1>3 DEF FrameStartedNavigating, Retract
    <2>3. CASE UNCHANGED <<known, protected>>
      BY <2>1, <2>3, SameRoots
    <2>4. CASE protected' = protected \cup {f} /\ known' = known \ {f}
      BY <2>1, <2>4, FrameStored
    <2> QED BY <2>2, <2>3, <2>4
  <1>4. CASE FrameDetached(f)
    <2>1. known' \subseteq known /\ protected' \subseteq protected /\ doc' = [doc EXCEPT ![f] = "absent"]
          /\ UNCHANGED <<roots, staged>>
      BY <1>4 DEF FrameDetached, aside
    <2>2. f \in known' => f \notin protected'
      BY <1>4 DEF FrameDetached
    <2> QED BY <1>1, <2>1, <2>2, FrameStored
  <1>5. CASE FrameChangesUnheard(f)
    <2>1. PICK d \in {"absent", "ordinary", "restricted"} : doc' = [doc EXCEPT ![f] = d]
      BY <1>5 DEF FrameChangesUnheard
    <2>2. Routing(TabOf[f]) = None /\ UNCHANGED <<roots, staged, known, protected>>
      BY <1>5 DEF FrameChangesUnheard, registry, hidden
    <2> QED BY <1>1, <2>1, <2>2, FrameStored
  <1>6. ASSUME NEW d \in {"ordinary", "restricted"}, FrameNavigated(f, d) PROVE KnownInv'
    <2>1. doc' = [doc EXCEPT ![f] = d] /\ UNCHANGED <<roots, staged>> /\ Routing(TabOf[f]) # None
      BY <1>6 DEF FrameNavigated, aside, Event
    <2>2. \A g \in Frame \ {f} : doc'[g] = doc[g]
      BY <1>1, <2>1
    <2>3. doc'[f] = d
      BY <1>1, <2>1
    <2>4. CASE d = "ordinary" /\ f \in protected
      <3>1. protected' = protected \ {f} /\ known' = known \cup {f}
        BY <1>6, <2>4 DEF FrameNavigated
      <3> QED BY <2>1, <2>2, <2>3, <2>4, <3>1, FrameStored
    <2>5. CASE d = "ordinary" /\ f \notin protected
      <3>1. UNCHANGED <<known, protected>>
        BY <1>6, <2>5 DEF FrameNavigated
      <3> QED BY <2>1, <2>2, <2>3, <2>5, <3>1, FrameStored
    <2>6. CASE d = "restricted" /\ f \in protected
      <3>1. UNCHANGED <<known, protected>>
        BY <1>6, <2>6 DEF FrameNavigated
      <3>2. f \notin known
        BY <2>1, <2>6 DEF KnownInv
      <3> QED BY <2>1, <2>2, <3>1, <3>2, FrameStored
    <2>7. CASE d = "restricted" /\ f \notin protected
      <3>1. protected' = protected \cup {f} /\ known' = known \ {f}
        BY <1>6, <2>7 DEF FrameNavigated, Retract
      <3> QED BY <2>1, <2>2, <3>1, FrameStored
    <2> QED BY <2>4, <2>5, <2>6, <2>7
  <1> QED BY <1>2, <1>3, <1>4, <1>5, <1>6

(* A restricted target that is a frame is hidden, and forgotten with that.   *)
LEMMA TargetHidden ==
  ASSUME Inv, KnownInv, NEW x \in Inside, NEW ann, NEW al, HideTarget(x, ann, al), Routing(TabOf[x]) # None,
         doc' = IF x \in Frame THEN [doc EXCEPT ![x] = "restricted"] ELSE doc, UNCHANGED <<roots, staged>>
  PROVE  KnownInv'
  <1>1. doc \in [Frame -> {"absent", "ordinary", "restricted"}] /\ \A t \in Tab : Routing(t)' = Routing(t)
    BY DEF Inv, TypeOK, PoolOK, Routing
  <1>2. CASE x \in Frame \ protected
    <2>1. protected' = protected \cup {x} /\ known' = known \ {x}
      BY <1>2 DEF HideTarget
    <2> QED BY <1>1, <1>2, <2>1, FrameStored
  <1>3. CASE x \in Frame /\ x \in protected
    <2>1. protected' = protected /\ known' = known
      BY <1>3 DEF HideTarget
    <2>2. x \notin known
      BY <1>3 DEF KnownInv
    <2> QED BY <1>1, <1>3, <2>1, <2>2, FrameStored
  <1>4. CASE x \notin Frame
    <2>1. protected' = protected /\ known' = known /\ doc' = doc
      BY <1>4 DEF HideTarget
    <2> QED BY <1>1, <2>1, SameRoots
  <1> QED BY <1>2, <1>3, <1>4

LEMMA KnownKeeps ==
  ASSUME Inv, KnownInv, [Next]_vars PROVE KnownInv'
  <1>0. /\ \A f \in known : f \in Frame /\ TabOf[f] \in Tab
        /\ roots \in [Tab -> Root \cup {None}] /\ staged \in [Tab -> Root \cup {None}]
        /\ doc \in [Frame -> {"absent", "ordinary", "restricted"}]
    BY ConstantsTyped DEF KnownInv, Inv, TypeOK, RegistryOK, PoolOK
  <1>1. ASSUME NEW t \in Tab, Stage(t) PROVE KnownInv'
    <2>1. /\ known' = {f \in known : TabOf[f] # t} /\ UNCHANGED <<roots, protected, doc>>
          /\ \A u \in Tab : u # t => staged'[u] = staged[u]
      BY <1>0, <1>1 DEF Stage, hidden
    <2> QED BY <1>0, <2>1, KnownShrinks DEF Routing
  <1>2. ASSUME NEW t \in Tab, Resume(t) \/ GiveUp(t) \/ Present(t) PROVE KnownInv'
    <2>1. UNCHANGED <<roots, staged, known, protected, doc>>
      BY <1>2 DEF Resume, GiveUp, Present, registry, hidden
    <2> QED BY <2>1, SameRoots
  <1>3. ASSUME NEW t \in Tab, Commit(t) PROVE KnownInv'
    <2>1. /\ staged[t] # None /\ UNCHANGED <<known, doc>> /\ protected' \subseteq protected
          /\ \A u \in Tab : u # t => roots'[u] = roots[u] /\ staged'[u] = staged[u]
      BY <1>0, <1>3 DEF Commit
    <2> QED BY <1>0, <2>1, KnownShrinks DEF Routing
  <1>4. ASSUME NEW t \in Tab, DetachTab(t) PROVE KnownInv'
    <2>1. /\ UNCHANGED doc /\ known' \subseteq known /\ protected' \subseteq protected
          /\ roots'[t] = None /\ staged'[t] = None
          /\ \A u \in Tab : u # t => roots'[u] = roots[u] /\ staged'[u] = staged[u]
      BY <1>0, <1>4 DEF DetachTab, Detached, hidden
    <2> QED BY <1>0, <2>1, KnownShrinks DEF Routing
  <1>5. ASSUME LoseExtension PROVE KnownInv'
    <2>1. known' = {}
      BY <1>5 DEF LoseExtension
    <2> QED BY <2>1 DEF KnownInv
  <1>6. ASSUME NEW t \in Tab, NEW rig, Reserve(rig, t) PROVE KnownInv'
    <2>1. /\ UNCHANGED <<staged, known, protected, doc>> /\ roots[t] # None
          /\ \A u \in Tab : u # t => roots'[u] = roots[u]
      BY <1>0, <1>6 DEF Reserve, hidden
    <2> QED BY <1>0, <2>1, SameRoots
  <1>7. ASSUME NEW t \in Tab, ReleaseOwnership(t) PROVE KnownInv'
    <2>1. /\ UNCHANGED <<staged, known, protected, doc>> /\ roots[t] # None
          /\ \A u \in Tab : u # t => roots'[u] = roots[u]
      BY <1>0, <1>7 DEF ReleaseOwnership, hidden
    <2> QED BY <1>0, <2>1, SameRoots
  <1>8. ASSUME NEW p \in pending, CommitOwnership(p) \/ RollbackOwnership(p) PROVE KnownInv'
    <2>1. UNCHANGED <<staged, known, protected, doc>>
      BY <1>8 DEF CommitOwnership, RollbackOwnership, hidden
    <2>2. \A u \in Tab : roots'[u] # None => roots[u] # None
      BY <1>8 DEF CommitOwnership, RollbackOwnership, Held
    <2> QED BY <2>1, <2>2, SameRoots
  <1>9. ASSUME NEW t \in Tab, MainFrameNavigated(t) PROVE KnownInv'
    <2>1. /\ UNCHANGED <<known, roots, staged>> /\ protected' \subseteq protected
          /\ doc' = [f \in Frame |-> IF TabOf[f] = t THEN "absent" ELSE doc[f]]
      BY <1>9 DEF MainFrameNavigated, aside
    <2>2. \A f \in known : doc'[f] = "restricted" => doc[f] = "restricted"
      BY <1>0, <2>1
    <2> QED BY <1>0, <2>1, <2>2, KnownShrinks DEF Routing
  <1>10. ASSUME NEW k \in ChildSession, NEW x \in Inside, RestrictedTargetAttached(k, x) PROVE KnownInv'
    BY <1>10, TargetHidden DEF RestrictedTargetAttached, Event, aside
  <1>11. ASSUME NEW i \in children, TargetBecomesRestricted(i) PROVE KnownInv'
    <2>1. i.target \in Inside
      BY DEF Inv, TypeOK, RegistryOK, Child
    <2> QED BY <1>11, <2>1, TargetHidden DEF TargetBecomesRestricted, Event, aside
  <1>12. ASSUME NEW k \in ChildSession, \/ TargetDetached(k)
                                        \/ \E x \in Inside : \E p \in Parents(TabOf[x]), e \in BOOLEAN : TargetAttached(k, x, p, e)
         PROVE  KnownInv'
    BY <1>12, SameRoots DEF TargetDetached, TargetAttached, aside
  <1>13. ASSUME NEW i \in children, TargetGetsUrl(i) PROVE KnownInv'
    BY <1>13, SameRoots DEF TargetGetsUrl, aside, hidden
  <1>14. ASSUME NEW c \in Client,
                \/ Register(c) \/ Unregister(c) \/ SetAutoAttach(c) \/ AutoAttached(c) \/ Replay(c) \/ CommandFails(c)
                \/ AttachToTarget(c) \/ DetachFromTarget(c) \/ RuntimeEnable(c) \/ RuntimeStep(c)
                \/ \E t \in Tab : SetAutoAttachOn(c, t)
         PROVE  KnownInv'
    <2>1. UNCHANGED <<registry, hidden, doc>>
      BY <1>14 DEF Register, Unregister, SetAutoAttach, AutoAttached, Replay, CommandFails, AttachToTarget,
                   DetachFromTarget, RuntimeEnable, RuntimeStep, SetAutoAttachOn
    <2> QED BY <2>1, SameRoots DEF registry, hidden
  <1>15. CASE ResetIdle \/ UNCHANGED vars
    BY <1>15, SameRoots DEF ResetIdle, vars, registry, hidden
  <1> QED BY <1>1, <1>2, <1>3, <1>4, <1>5, <1>6, <1>7, <1>8, <1>9, <1>10, <1>11, <1>12, <1>13, <1>14, <1>15, FramesKept
          DEF Next

-----------------------------------------------------------------------------
(* The steps that show a client a frame are the events of pages, and the     *)
(* replay of a page to the client that asked for it.                        *)
Broadcasts == \E t \in Tab, shown \in SUBSET Frame, gone \in SUBSET Frame :
                Routing(t) # None /\ Broadcast(Source(t), shown, gone)
NothingSeen == \A c \in Client : seen'[c] \subseteq seen[c]

LEMMA TellShowsNothing ==
  ASSUME Inv, NEW new, Tell(new) PROVE NothingSeen
  BY TellShrinksSeen DEF NothingSeen, Inv, TypeOK, PoolOK

(* What the replay of a page shows, and to whom.                            *)
Replaying ==
  \E d \in Client, s \in RootId :
    /\ Replays(d, s) /\ job'[d] = None
    /\ \A c \in Client : \A x \in seen'[c] \ seen[c] :
         c = d /\ x[1] = s /\ \E k \in children : k.parent = s /\ k.target = x[2]

LEMMA FramesAreShownByEvents ==
  ASSUME Inv, [Next]_vars PROVE NothingSeen \/ Broadcasts \/ Replaying
  <1>1. ASSUME NEW t \in Tab, \/ Stage(t) \/ Resume(t) \/ GiveUp(t) \/ \E rig \in Rig : Reserve(rig, t) PROVE NothingSeen
    BY <1>1 DEF Stage, Resume, GiveUp, Reserve, NothingSeen
  <1>2. ASSUME NEW t \in Tab, \/ Commit(t) \/ Present(t) \/ ReleaseOwnership(t) PROVE NothingSeen
    BY <1>2, TellShowsNothing DEF Commit, Present, ReleaseOwnership, ReconcileTargetOwnership
  <1>3. ASSUME NEW t \in Tab, DetachTab(t) PROVE NothingSeen
    BY <1>3, TellShowsNothing DEF DetachTab, Detached, NothingSeen
  <1>4. ASSUME LoseExtension \/ \E p \in pending : CommitOwnership(p) \/ RollbackOwnership(p) PROVE NothingSeen
    BY <1>4, TellShowsNothing DEF LoseExtension, CommitOwnership, RollbackOwnership, ReconcileTargetOwnership
  <1>5. ASSUME NEW t \in Tab, MainFrameNavigated(t) PROVE Broadcasts
    BY <1>5 DEF MainFrameNavigated, Event, Broadcasts
  <1>6. ASSUME NEW f \in Frame, \/ FrameAttached(f) \/ FrameStartedNavigating(f) \/ FrameDetached(f)
                                \/ \E d \in {"ordinary", "restricted"} : FrameNavigated(f, d)
        PROVE  NothingSeen \/ Broadcasts
    <2>1. TabOf[f] \in Tab /\ Routing(TabOf[f]) # None
      BY <1>6, ConstantsTyped DEF FrameAttached, FrameStartedNavigating, FrameDetached, FrameNavigated, Event
    <2>2. Nothing => NothingSeen
      BY DEF Nothing, NothingSeen
    <2>3. ShowFrame(f) \/ HideFrame(f) \/ Forward(TabOf[f]) => Broadcasts
      <3>1. ShowFrame(f) => Broadcasts
        BY <2>1 DEF Broadcasts, ShowFrame
      <3>2. HideFrame(f) => Broadcasts
        BY <2>1 DEF Broadcasts, HideFrame
      <3>3. Forward(TabOf[f]) => Broadcasts
        BY <2>1 DEF Broadcasts, Forward
      <3> QED BY <3>1, <3>2, <3>3
    <2>4. CASE FrameAttached(f) \/ FrameDetached(f)
      BY <2>2, <2>3, <2>4 DEF FrameAttached, FrameDetached
    <2>5. CASE FrameStartedNavigating(f)
      BY <2>2, <2>3, <2>5 DEF FrameStartedNavigating, Retract
    <2>6. CASE \E d \in {"ordinary", "restricted"} : FrameNavigated(f, d)
      <3>1. PICK d \in {"ordinary", "restricted"} : FrameNavigated(f, d)
        BY <2>6
      <3>2. ShowFrame(f) \/ HideFrame(f) \/ Forward(TabOf[f]) \/ Nothing
        BY <3>1 DEF FrameNavigated, Retract
      <3> QED BY <2>2, <2>3, <3>2
    <2> QED BY <1>6, <2>4, <2>5, <2>6
  <1>7. ASSUME NEW f \in Frame, FrameChangesUnheard(f) PROVE NothingSeen
    BY <1>7 DEF FrameChangesUnheard, NothingSeen
  <1>8. ASSUME NEW k \in ChildSession, NEW x \in Inside, NEW p, NEW e, TargetAttached(k, x, p, e) PROVE NothingSeen
    BY <1>8, TellShowsNothing DEF TargetAttached
  <1>9. ASSUME NEW k \in ChildSession, TargetDetached(k) PROVE NothingSeen
    BY <1>9, TellShowsNothing DEF TargetDetached
  <1>10. ASSUME NEW x, NEW ann, NEW al, HideTarget(x, ann, al) PROVE NothingSeen
    BY <1>10 DEF HideTarget, NothingSeen
  <1>11. ASSUME NEW k \in ChildSession, NEW x \in Inside, RestrictedTargetAttached(k, x) PROVE NothingSeen
    BY <1>11, <1>10 DEF RestrictedTargetAttached
  <1>12. ASSUME NEW i \in children, TargetBecomesRestricted(i) \/ TargetGetsUrl(i) PROVE NothingSeen
    BY <1>12, <1>10, TellShowsNothing DEF TargetBecomesRestricted, TargetGetsUrl
  <1>13. ASSUME NEW c \in Client, \/ Register(c) \/ SetAutoAttach(c) \/ CommandFails(c) \/ RuntimeEnable(c)
                                  \/ RuntimeStep(c) \/ \E t \in Tab : SetAutoAttachOn(c, t)
         PROVE  NothingSeen
    BY <1>13 DEF Register, SetAutoAttach, CommandFails, RuntimeEnable, RuntimeStep, SetAutoAttachOn, NothingSeen
  <1>14. ASSUME NEW c \in Client, Unregister(c) PROVE NothingSeen
    BY <1>14 DEF Unregister, NothingSeen, Inv, TypeOK, PoolOK
  <1>15. ASSUME NEW c \in Client, AutoAttached(c) PROVE NothingSeen
    BY <1>15, TellShowsNothing DEF AutoAttached, NothingSeen
  <1>19. ASSUME NEW c \in Client, Replay(c) PROVE Replaying
    <2>1. PICK s \in RootId :
            LET inside == {k \in children : k.parent = s /\ k.exposed}
                frames == {<<s, f>> : f \in known \cap {k.target : k \in inside}}
            IN /\ Replays(c, s)
               /\ seen' = [seen EXCEPT ![c] = {x \in @ \cup frames : HasTold(told'[c], x[1])}]
      BY <1>19 DEF Replay
    <2>2. job'[c] = None
      BY <1>19 DEF Replay, Inv, TypeOK, WorkOK
    <2>3. ASSUME NEW d \in Client, NEW x \in seen'[d] \ seen[d]
          PROVE  d = c /\ x[1] = s /\ \E k \in children : k.parent = s /\ k.target = x[2]
      <3>1. seen \in [Client -> SUBSET (RootId \X Frame)]
        BY DEF Inv, TypeOK, PoolOK
      <3>2. d = c
        BY <2>1, <2>3, <3>1
      <3>3. x \in {<<s, f>> : f \in known \cap {k.target : k \in {i \in children : i.parent = s /\ i.exposed}}}
        BY <2>1, <2>3, <3>1, <3>2
      <3> QED BY <3>2, <3>3
    <2> QED BY <2>1, <2>2, <2>3 DEF Replaying
  <1>16. ASSUME NEW c \in Client, AttachToTarget(c) PROVE NothingSeen
    <2>1. ASSUME NEW a, NEW alias, AttachTo(c, a, alias) PROVE NothingSeen
      BY <2>1, TellShowsNothing DEF AttachTo, NothingSeen
    <2> QED BY <1>16, <2>1 DEF AttachToTarget
  <1>17. ASSUME NEW c \in Client, DetachFromTarget(c) PROVE NothingSeen
    BY <1>17, TellShowsNothing DEF DetachFromTarget, NothingSeen
  <1>18. ResetIdle \/ UNCHANGED vars => NothingSeen
    BY DEF ResetIdle, vars, NothingSeen
  <1> QED BY <1>1, <1>2, <1>3, <1>4, <1>5, <1>6, <1>7, <1>8, <1>9, <1>11, <1>12, <1>13, <1>14, <1>15, <1>16, <1>17,
             <1>18, <1>19 DEF Next

-----------------------------------------------------------------------------
(* The inductive invariant: beside the types, what a client that left holds, *)
(* which sessions anybody has heard of, where the targets inside a root are, *)
(* what announcements and aliases stand for, and which frames are unseen and *)
(* not stored.                                                              *)
THEOREM ClientsInvariant == Spec => [](Inv /\ KnownInv)
  <1>1. Init => Inv /\ KnownInv
    BY InitInv
  <1>2. Inv /\ KnownInv /\ [Next]_vars => (Inv /\ KnownInv)'
    BY NextKeeps, KnownKeeps
  <1> QED
    BY <1>1, <1>2, PTL DEF Spec

(* The frames clients are shown (protected-frames.ts, the events of pages in *)
(* relay.ts): a frame with a restricted document is in no client's page,     *)
(* whatever the order in which it and its target are reported.              *)
THEOREM RestrictedStaysHidden == Spec => []RestrictedFramesStayHidden
  <1>1. Inv => RestrictedFramesStayHidden
    BY ConstantsTyped DEF Inv, HiddenInv, RestrictedFramesStayHidden
  <1> QED
    BY <1>1, ClientsInvariant, PTL

(* What clients hold (cdp-client-pool.ts, cdp-router.ts): an announcement or *)
(* an alias of a target stands for one that is there, whatever replaces or   *)
(* ends its page, the session it belongs to or a target around it.          *)
THEOREM ClientsHoldTheLiving == Spec => []ClientsKnowTheLiving
  <1>1. Inv => ClientsKnowTheLiving
    <2> SUFFICES ASSUME Inv PROVE ClientsKnowTheLiving
      OBVIOUS
    <2>1. ToldChildrenExist
      BY DEF Inv, ToldInv, Reachable, Exists, ToldChildrenExist
    <2>2. AliasesAreLive
      BY DEF Inv, AliasInv, Live, Exists, AliasesAreLive
    <2> QED BY <2>1, <2>2 DEF ClientsKnowTheLiving
  <1> QED
    BY <1>1, ClientsInvariant, PTL

(* Whom an event of a page reaches (sendEventToTargetViewers): a client that *)
(* has the page hears of a frame only while it may see the page's root, but  *)
(* for the replay it asked for itself (replayFrameEventsForChild), which      *)
(* shows it no frame but those of targets inside that page.                  *)
THEOREM FramesGoToViewers == Spec => FramesAreShownToViewers
  <1> DEFINE Right(c, x) == \/ \E root \in Committed(roots, x[1]) : Sees(roots, c, root)
                            \/ Replays(c, x[1]) /\ job'[c] = None /\ \E k \in children : k.parent = x[1] /\ k.target = x[2]
             Step == \A c \in Client : \A x \in seen'[c] \ seen[c] : HasTold(told[c], x[1]) => Right(c, x)
  <1>1. ASSUME Inv, [Next]_vars PROVE Step
    <2> SUFFICES ASSUME NEW c \in Client, NEW x \in seen'[c] \ seen[c], HasTold(told[c], x[1])
                 PROVE  Right(c, x)
      OBVIOUS
    <2>1. Broadcasts \/ Replaying
      BY <1>1, FramesAreShownByEvents DEF NothingSeen
    <2>2. CASE Broadcasts
      <3>1. PICK t \in Tab, shown \in SUBSET Frame, gone \in SUBSET Frame :
              Routing(t) # None /\ Broadcast(Source(t), shown, gone)
        BY <2>2 DEF Broadcasts
      <3>2. PoolOK /\ Source(t) \in RootId
        BY <1>1, <3>1, SourceTyped DEF Inv, TypeOK
      <3>3. c \in Viewers(roots, Source(t)) /\ x[1] = Source(t)
        BY <3>1, <3>2, BroadcastShows
      <3>4. Shown(Source(t))
        BY <3>3 DEF HasTold, Shown
      <3>5. roots[t] # None /\ roots[t].session = Source(t)
        BY <1>1, <3>1, <3>4, SourceKnown DEF Source
      <3>6. roots[t] \in Committed(roots, x[1])
        BY <3>3, <3>5 DEF Committed
      <3> QED BY <3>3, <3>6 DEF Viewers
    <2>3. CASE Replaying
      BY <2>3 DEF Replaying
    <2> QED BY <2>1, <2>2, <2>3
  <1>2. Inv /\ [Next]_vars => [Step]_vars
    BY <1>1
  <1> QED
    BY <1>2, ClientsInvariant, PTL DEF Spec, FramesAreShownToViewers

-----------------------------------------------------------------------------
(* What a step asks of the runtime of a page.                               *)
RuntimesAsked ==
  \A c \in Client : job[c] # job'[c] /\ job'[c] # None /\ job'[c].kind = "runtime" /\ job'[c].at # "enabled" =>
    Reset(job'[c].held) /\ SeesTab(roots, c, job'[c].held.route.tab)
IdleAsked ==
  idle # idle' /\ idle # None /\ idle' # None /\ idle'.sent # None /\ idle'.left # idle.left =>
    Reset(idle'.sent) /\ connected = {}

(* The steps that change what clients, or the reset of idle runtimes, wait for. *)
Asks(c) == \/ SetAutoAttach(c) \/ AutoAttached(c) \/ Replay(c) \/ CommandFails(c)
           \/ RuntimeEnable(c) \/ RuntimeStep(c) \/ \E t \in Tab : SetAutoAttachOn(c, t)

LEMMA OthersLeaveWork ==
  ASSUME [Next]_vars
  PROVE  UNCHANGED <<job, idle>> \/ ResetIdle \/ \E c \in Client : Asks(c) \/ Unregister(c)
  <1>1. ASSUME NEW t \in Tab, \/ Stage(t) \/ Resume(t) \/ GiveUp(t) \/ Commit(t) \/ Present(t) \/ DetachTab(t)
                              \/ ReleaseOwnership(t) \/ \E rig \in Rig : Reserve(rig, t)
        PROVE  UNCHANGED <<job, idle>>
    BY <1>1 DEF Stage, Resume, GiveUp, Commit, Present, DetachTab, ReleaseOwnership, Reserve
  <1>2. ASSUME LoseExtension \/ \E p \in pending : CommitOwnership(p) \/ RollbackOwnership(p)
        PROVE  UNCHANGED <<job, idle>>
    BY <1>2 DEF LoseExtension, CommitOwnership, RollbackOwnership
  <1>3. ASSUME \/ \E t \in Tab : MainFrameNavigated(t)
               \/ \E f \in Frame : \/ FrameAttached(f) \/ FrameStartedNavigating(f) \/ FrameDetached(f)
                                   \/ FrameChangesUnheard(f)
                                   \/ \E d \in {"ordinary", "restricted"} : FrameNavigated(f, d)
        PROVE  UNCHANGED <<job, idle>>
    BY <1>3 DEF MainFrameNavigated, FrameAttached, FrameStartedNavigating, FrameDetached, FrameChangesUnheard,
                FrameNavigated, aside
  <1>4. ASSUME NEW k \in ChildSession,
               TargetDetached(k) \/ \E x \in Inside : RestrictedTargetAttached(k, x)
        PROVE  UNCHANGED <<job, idle>>
    BY <1>4 DEF TargetDetached, RestrictedTargetAttached, aside
  <1>5. ASSUME NEW k \in ChildSession, NEW x \in Inside, NEW p, NEW e, TargetAttached(k, x, p, e)
        PROVE  UNCHANGED <<job, idle>>
    BY <1>5 DEF TargetAttached, aside
  <1>6. ASSUME NEW i \in children, TargetBecomesRestricted(i) \/ TargetGetsUrl(i) PROVE UNCHANGED <<job, idle>>
    BY <1>6 DEF TargetBecomesRestricted, TargetGetsUrl, aside
  <1>7. ASSUME NEW c \in Client, Register(c) \/ AttachToTarget(c) \/ DetachFromTarget(c) PROVE UNCHANGED <<job, idle>>
    BY <1>7 DEF Register, AttachToTarget, DetachFromTarget
  <1>8. UNCHANGED vars => UNCHANGED <<job, idle>>
    BY DEF vars
  <1> QED BY <1>1, <1>2, <1>3, <1>4, <1>5, <1>6, <1>7, <1>8 DEF Next, Asks

LEMMA AskedByRuntimeStep ==
  ASSUME Inv, NEW c \in Client, RuntimeStep(c) PROVE RuntimesAsked
  <1>1. job[c] # None /\ job[c].kind = "runtime" /\ job \in [Client -> Job \cup {None}] /\ job[c] \in Job
    BY DEF RuntimeStep, Inv, TypeOK, WorkOK
  <1>2. CASE job' = [job EXCEPT ![c] = None]
    BY <1>1, <1>2 DEF RuntimesAsked
  <1>3. CASE Permitted(c) /\ (job' = [job EXCEPT ![c].at = "disabled"] \/ job' = [job EXCEPT ![c].at = "again"])
    <2>1. \A d \in Client : d # c => job'[d] = job[d]
      BY <1>1, <1>3
    <2>2. job'[c].held = job[c].held
      BY <1>1, <1>3 DEF Job
    <2>3. Reset(job[c].held) /\ SeesTab(roots, c, job[c].held.route.tab)
      BY <1>3 DEF Permitted, Current, Reset
    <2> QED BY <2>1, <2>2, <2>3 DEF RuntimesAsked
  <1> QED BY <1>2, <1>3 DEF RuntimeStep

LEMMA AskedByOthers ==
  ASSUME Inv, NEW c \in Client, NEW j, job' = [job EXCEPT ![c] = j], j # None => j.kind # "runtime" \/ j.at = "enabled"
  PROVE  RuntimesAsked
  BY DEF RuntimesAsked, Inv, TypeOK, WorkOK

LEMMA RuntimesAreAsked ==
  ASSUME Inv, [Next]_vars PROVE RuntimesAsked
  <1>1. ASSUME job' = job PROVE RuntimesAsked
    BY <1>1 DEF RuntimesAsked
  <1>2. ASSUME NEW c \in Client, Unregister(c) \/ Replay(c) \/ CommandFails(c) PROVE RuntimesAsked
    <2>1. job' = [job EXCEPT ![c] = None]
      BY <1>2 DEF Unregister, Replay, CommandFails
    <2> QED BY <2>1, AskedByOthers
  <1>3. ASSUME NEW c \in Client, SetAutoAttach(c) PROVE RuntimesAsked
    BY <1>3, AskedByOthers DEF SetAutoAttach
  <1>4. ASSUME NEW c \in Client, NEW t \in Tab, SetAutoAttachOn(c, t) PROVE RuntimesAsked
    BY <1>4, AskedByOthers DEF SetAutoAttachOn
  <1>5. ASSUME NEW c \in Client, RuntimeEnable(c) PROVE RuntimesAsked
    BY <1>5, AskedByOthers DEF RuntimeEnable
  <1>6. ASSUME NEW c \in Client, AutoAttached(c) PROVE RuntimesAsked
    <2>1. job[c] \in Job /\ job[c].kind = "attach" /\ job \in [Client -> Job \cup {None}]
      BY <1>6 DEF AutoAttached, Inv, TypeOK, WorkOK
    <2>2. CASE job' = [job EXCEPT ![c] = None]
      BY <2>2, AskedByOthers
    <2>3. CASE \E root \in job[c].left : job' = [job EXCEPT ![c].left = @ \ {root}]
      <3>1. PICK root \in job[c].left : job' = [job EXCEPT ![c].left = @ \ {root}]
        BY <2>3
      <3>2. job'[c].kind = "attach" /\ \A d \in Client : d # c => job'[d] = job[d]
        BY <2>1, <3>1 DEF Job
      <3> QED BY <3>2 DEF RuntimesAsked
    <2> QED BY <1>6, <2>2, <2>3 DEF AutoAttached
  <1>7. ASSUME NEW c \in Client, RuntimeStep(c) PROVE RuntimesAsked
    BY <1>7, AskedByRuntimeStep
  <1>8. ResetIdle => job' = job
    BY DEF ResetIdle
  <1> QED BY <1>1, <1>2, <1>3, <1>4, <1>5, <1>6, <1>7, <1>8, OthersLeaveWork DEF Asks

LEMMA IdleIsAsked ==
  ASSUME Inv, [Next]_vars PROVE IdleAsked
  <1>1. CASE ResetIdle
    <2>1. CASE idle.left = {} \/ ~StillIdle
      BY <1>1, <2>1 DEF ResetIdle, IdleAsked
    <2>2. CASE ~(idle.left = {} \/ ~StillIdle)
      <3>1. PICK held \in NextReset :
              idle' = [idle EXCEPT !.left = @ \ {held}, !.sent = IF Current(held) THEN held ELSE None]
        BY <1>1, <2>2 DEF ResetIdle
      <3>2. idle \in Idle
        BY <1>1 DEF ResetIdle, Inv, TypeOK, WorkOK
      <3>3. idle'.sent = IF Current(held) THEN held ELSE None
        BY <3>1, <3>2 DEF Idle
      <3>4. Current(held) => Reset(held)
        BY DEF Current, Reset
      <3>5. connected = {}
        BY <2>2 DEF StillIdle
      <3> QED BY <3>3, <3>4, <3>5 DEF IdleAsked
    <2> QED BY <2>1, <2>2
  <1>2. ASSUME NEW c \in Client, Unregister(c) PROVE IdleAsked
    BY <1>2 DEF Unregister, IdleAsked
  <1>3. ASSUME idle' = idle PROVE IdleAsked
    BY <1>3 DEF IdleAsked
  <1>4. ASSUME NEW c \in Client, Asks(c) PROVE idle' = idle
    BY <1>4 DEF Asks, SetAutoAttach, AutoAttached, Replay, CommandFails, RuntimeEnable, RuntimeStep, SetAutoAttachOn
  <1> QED BY <1>1, <1>2, <1>3, <1>4, OthersLeaveWork

(* Whose runtime is reset (cdp-runtime.ts): the page a client asked for and  *)
(* may still see, or, once nobody is connected, one that is still there and  *)
(* that nobody has used since.                                              *)
THEOREM ResetsAreAskedFor == Spec => ResetsStayInTheirGeneration
  <1>1. Inv /\ [Next]_vars => [RuntimesAsked /\ IdleAsked]_vars
    BY RuntimesAreAsked, IdleIsAsked
  <1> QED
    BY <1>1, ClientsInvariant, PTL DEF Spec, ResetsStayInTheirGeneration, RuntimesAsked, IdleAsked
=============================================================================
