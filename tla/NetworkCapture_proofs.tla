------------------------ MODULE NetworkCapture_proofs ------------------------
(***************************************************************************)
(* Proofs about NetworkCapture for every set of pages, every number of      *)
(* requests and all limits: no request is lost or counted twice, a stop      *)
(* reports what its artifact holds, and the limits are kept, whatever the    *)
(* workers that a stop gave up on still do.                                 *)
(***************************************************************************)
EXTENDS NetworkCapture, FiniteSetTheorems, TLAPS

PendingEntry == [id : Nat, response : BOOLEAN, finalized : BOOLEAN, epoch : Nat]
Binding == [page : Page \cup {None}, epoch : Nat]
Call ==
  [pc : {"idle", "settle", "finish", "write", "cancel"}, page : Page \cup {None},
   artifact : (SUBSET Entry) \cup {None}, count : Nat]

TypeOK ==
  /\ active \in Capture \cup {None}
  /\ bound \in Binding
  /\ entry \in [Request -> PendingEntry]
  /\ net \in [Request -> [state : {"none", "sent", "answered", "ended"}, page : Page \cup {None}]]
  /\ call \in Call
  /\ seen \in Nat

-----------------------------------------------------------------------------
Size(c) == Cardinality(c.entries) + Cardinality(c.pending)

Accounted(c, n) == ~ c.cancelled => n = Size(c) + c.dropped
WithinLimits(c) == IsFiniteSet(c.entries) /\ c.bytes <= MaxTotal /\ Size(c) <= MaxEntries

(* A worker of the capture's generation has an entry of its own that is       *)
(* pending and not queued; one a stop gave up on has none of the pending.    *)
Current(c, w) == w.generation = c.generation /\ ~ c.cancelled
WorkersInv(c, ent, nt) ==
  /\ c.queue \subseteq c.pending
  /\ c.cancelled => c.pending = {}
  /\ \A r \in c.pending : nt[r].state # "none"
  /\ \A r \in c.queue : ent[r].finalized
  /\ \A w \in c.workers :
       /\ w.generation <= c.generation /\ nt[w.request].state # "none"
       /\ IF Current(c, w) THEN w.request \in c.pending \ c.queue /\ ent[w.request].finalized
          ELSE w.request \notin c.pending
  /\ \A v, w \in c.workers : Current(c, v) /\ Current(c, w) /\ v.request = w.request => v = w

(* What is recorded is no longer pending, and was made for a request.        *)
EntriesInv(c, ent, nt) ==
  /\ \A e \in c.entries : e.request \notin c.pending /\ e.id = ent[e.request].id /\ nt[e.request].state # "none"
  /\ \A e, f \in c.entries : e.request = f.request => e = f

(* Until a stop gives up, the entries are numbered in the order of requests.  *)
Members(c) == c.pending \cup {e.request : e \in c.entries}
NumbersInv(c, ent) ==
  c.generation = 0 =>
    /\ \A r \in Members(c) : ent[r].id \in 1..Size(c)
    /\ \A q, r \in Members(c) : ent[q].id = ent[r].id => q = r

CaptureInv(c, ent, nt, n) ==
  /\ Accounted(c, n) /\ WithinLimits(c) /\ WorkersInv(c, ent, nt) /\ EntriesInv(c, ent, nt) /\ NumbersInv(c, ent)

(* While a stop writes, nothing more is recorded.                            *)
CallInv ==
  /\ active # None /\ active.cancelled => call.pc = "cancel"
  /\ call.pc # "idle" => active # None /\ active.stopping /\ bound.page = None
  /\ call.pc \in {"finish", "write"} =>
       active.pending = {} /\ \A w \in active.workers : w.generation # active.generation
  /\ call.pc = "write" => call.artifact = active.entries

Inv ==
  /\ TypeOK
  /\ active # None => CaptureInv(active, entry, net, seen)
  /\ CallInv
  /\ ReportMatchesArtifact

-----------------------------------------------------------------------------
LEMMA SizeType ==
  ASSUME NEW c \in Capture, IsFiniteSet(c.entries)
  PROVE  /\ IsFiniteSet(c.pending) /\ Cardinality(c.pending) \in Nat /\ Cardinality(c.entries) \in Nat
         /\ Size(c) \in Nat
  <1>1. IsFiniteSet(Request)
    <2>1. 1 \in Int /\ MaxRequest \in Int
      BY CaptureAssumption
    <2> QED
      BY <2>1, FS_Interval DEF Request
  <1>2. c.pending \subseteq Request
    BY DEF Capture
  <1>3. IsFiniteSet(c.pending)
    BY <1>1, <1>2, FS_Subset
  <1> QED
    BY <1>3, FS_CardinalityType DEF Size

(* A capture that changes neither what is recorded nor what is pending.      *)
Same(c, d) ==
  /\ d \in Capture /\ d.pending = c.pending /\ d.entries = c.entries /\ d.generation = c.generation
  /\ d.dropped = c.dropped /\ d.cancelled = c.cancelled

LEMMA SameKeeps ==
  ASSUME NEW c \in Capture, NEW d, NEW ent, NEW nt, NEW n, CaptureInv(c, ent, nt, n), Same(c, d), d.bytes <= MaxTotal
  PROVE  Accounted(d, n) /\ WithinLimits(d) /\ EntriesInv(d, ent, nt) /\ NumbersInv(d, ent)
  <1>1. Size(d) = Size(c) /\ Members(d) = Members(c)
    BY DEF Same, Size, Members
  <1> QED
    BY <1>1 DEF Same, CaptureInv, Accounted, WithinLimits, EntriesInv, NumbersInv

LEMMA PumpedKeeps ==
  ASSUME NEW c \in Capture, NEW ent, NEW nt, NEW n, CaptureInv(c, ent, nt, n), NEW d \in Pumped(c)
  PROVE  /\ CaptureInv(d, ent, nt, n) /\ Same(c, d) /\ d.stopping = c.stopping
         /\ c.queue = {} => d.workers = c.workers
  <1>1. CASE c.cancelled
    <2>1. d = [c EXCEPT !.queue = {}]
      BY <1>1 DEF Pumped
    <2>2. Same(c, d) /\ d.stopping = c.stopping /\ d.workers = c.workers /\ d.bytes = c.bytes /\ d.queue = {}
      BY <2>1 DEF Same, Capture
    <2>3. WorkersInv(d, ent, nt)
      BY <1>1, <2>2 DEF Same, CaptureInv, WorkersInv, Current
    <2> QED
      BY <2>2, <2>3, SameKeeps DEF CaptureInv, WithinLimits
  <1>2. CASE ~ c.cancelled
    <2>1. PICK taken \in SUBSET c.queue :
            d = [c EXCEPT !.queue = @ \ taken,
                          !.workers = @ \cup {[request |-> r, generation |-> c.generation, at |-> "headers", size |-> 0] : r \in taken}]
      BY <1>2 DEF Pumped, kSubset
    <2> DEFINE new == {[request |-> r, generation |-> c.generation, at |-> "headers", size |-> 0] : r \in taken}
               queue == c.queue \ taken
               workers == c.workers \cup new
    <2>2. /\ \A w \in new : w \in Worker /\ w.request \in taken /\ w.generation = c.generation
          /\ \A v, w \in new : v.request = w.request => v = w
      BY DEF Worker, Capture
    <2>3. d = [c EXCEPT !.queue = queue, !.workers = workers]
      BY <2>1
    <2>4. queue \subseteq Request /\ workers \subseteq Worker
      BY <2>2 DEF Capture
    <2>8. taken = {} => new = {}
      OBVIOUS
    <2> HIDE DEF new
    <2>7. c.queue = {} => workers = c.workers
      BY <2>8
    <2> HIDE DEF workers, queue
    <2>5. Same(c, d) /\ d.stopping = c.stopping /\ d.workers = workers /\ d.bytes = c.bytes /\ d.queue = queue
      BY <2>3, <2>4 DEF Same, Capture
    <2>6. WorkersInv(d, ent, nt)
      <3>1. WorkersInv(c, ent, nt)
        BY DEF CaptureInv
      <3>2. \A w : Current(d, w) <=> Current(c, w)
        BY <2>5 DEF Same, Current
      <3>3. \A w \in new : /\ Current(d, w) /\ w.generation \in Nat /\ w.request \in c.queue
                           /\ w.request \in d.pending \ d.queue
        BY <1>2, <2>2, <2>5, <3>1 DEF Same, Current, Worker, Capture, WorkersInv, queue
      <3>4. \A w \in workers : w \in c.workers \/ w \in new
        BY DEF workers
      <3>5. /\ d.queue \subseteq c.queue /\ d.queue \subseteq d.pending
            /\ d.pending = c.pending /\ d.generation = c.generation /\ d.cancelled = c.cancelled
        BY <2>5, <3>1 DEF Same, WorkersInv, queue
      <3>6. \A w \in d.workers :
              /\ w.generation <= d.generation /\ nt[w.request].state # "none"
              /\ IF Current(d, w) THEN w.request \in d.pending \ d.queue /\ ent[w.request].finalized
                 ELSE w.request \notin d.pending
        <4>1. ASSUME NEW w \in new
              PROVE  /\ w.generation <= d.generation /\ nt[w.request].state # "none" /\ ent[w.request].finalized
          BY <2>2, <3>1, <3>3, <3>5 DEF WorkersInv, Capture
        <4> QED
          BY <2>5, <3>1, <3>2, <3>3, <3>4, <3>5, <4>1 DEF WorkersInv
      <3>7. \A v, w \in d.workers : Current(d, v) /\ Current(d, w) /\ v.request = w.request => v = w
        BY <2>2, <2>5, <3>1, <3>2, <3>3, <3>4 DEF WorkersInv
      <3> QED
        BY <3>1, <3>5, <3>6, <3>7 DEF WorkersInv
    <2> QED
      BY <2>5, <2>6, <2>7, SameKeeps DEF CaptureInv, WithinLimits
  <1> QED
    BY <1>1, <1>2

(* Entries that end are scheduled once.                                      *)
Ends(ent, new, requests) ==
  \A r \in Request : /\ new[r].id = ent[r].id
                     /\ ent[r].finalized => new[r].finalized
                     /\ r \in requests => new[r].finalized

LEMMA FinalizedEnds ==
  ASSUME TypeOK, NEW requests \in SUBSET Request, NEW new \in {Finalized(requests), Failed(requests)}
  PROVE  Ends(entry, new, requests) /\ new \in [Request -> PendingEntry]
  <1> SUFFICES ASSUME NEW r \in Request
               PROVE  /\ new[r] \in PendingEntry
                      /\ new[r].id = entry[r].id
                      /\ entry[r].finalized => new[r].finalized
                      /\ r \in requests => new[r].finalized
    BY DEF Ends, Finalized, Failed
  <1>1. entry[r] \in PendingEntry
    BY DEF TypeOK
  <1>2. \/ new[r] = entry[r] /\ (r \in requests => entry[r].finalized)
        \/ new[r] = [entry[r] EXCEPT !.finalized = TRUE]
        \/ new[r] = [entry[r] EXCEPT !.response = FALSE, !.finalized = TRUE]
    BY DEF Finalized, Failed
  <1> QED
    BY <1>1, <1>2 DEF PendingEntry

LEMMA ScheduleKeeps ==
  ASSUME NEW c \in Capture, NEW new, NEW nt, NEW n, NEW requests, requests \subseteq c.pending,
         CaptureInv(c, entry, nt, n), Ends(entry, new, requests)
  PROVE  LET d == Schedule(requests, c)
         IN  CaptureInv(d, new, nt, n) /\ Same(c, d) /\ d.stopping = c.stopping /\ d.workers = c.workers
  <1> DEFINE queue == c.queue \cup {r \in requests : ~ entry[r].finalized}
             d == Schedule(requests, c)
  <1>1. WorkersInv(c, entry, nt) /\ c.pending \subseteq Request
    BY DEF CaptureInv, Capture
  <1>2. queue \subseteq c.pending /\ queue \subseteq Request
    BY <1>1 DEF WorkersInv
  <1>3. d = [c EXCEPT !.queue = queue]
    BY DEF Schedule
  <1>4. \A r \in queue : new[r].finalized
    BY <1>1, <1>2 DEF WorkersInv, Ends
  <1>5. \A w \in c.workers : Current(c, w) => w.request \notin queue
    BY <1>1 DEF WorkersInv
  <1> HIDE DEF queue
  <1>6. Same(c, d) /\ d.stopping = c.stopping /\ d.workers = c.workers /\ d.bytes = c.bytes /\ d.queue = queue
    BY <1>2, <1>3 DEF Same, Capture
  <1> HIDE DEF d
  <1>7. WorkersInv(d, new, nt)
    BY <1>1, <1>2, <1>4, <1>5, <1>6 DEF Same, WorkersInv, Current, Ends
  <1>8. CaptureInv(c, entry, nt, n) => EntriesInv(c, new, nt) /\ NumbersInv(c, new)
    <2>1. Members(c) \subseteq Request /\ c.entries \subseteq Entry
      BY DEF Members, Capture, Entry
    <2>2. EntriesInv(c, entry, nt) => EntriesInv(c, new, nt)
      BY <2>1 DEF EntriesInv, Ends, Entry
    <2>3. NumbersInv(c, entry) => NumbersInv(c, new)
      BY <2>1 DEF NumbersInv, Ends
    <2> QED
      BY <2>2, <2>3 DEF CaptureInv
  <1>9. Accounted(d, n) /\ WithinLimits(d) /\ EntriesInv(d, new, nt) /\ NumbersInv(d, new)
    <2>1. Size(d) = Size(c) /\ Members(d) = Members(c)
      BY <1>6 DEF Same, Size, Members
    <2> QED
      BY <1>6, <1>8, <2>1 DEF Same, CaptureInv, Accounted, WithinLimits, EntriesInv, NumbersInv
  <1> QED
    BY <1>6, <1>7, <1>9 DEF CaptureInv, d

(* Bodies are kept within what remains.                                      *)
LEMMA BufferKeeps ==
  ASSUME NEW c \in Capture, NEW ent, NEW nt, NEW n, NEW size \in Nat, CaptureInv(c, ent, nt, n)
  PROVE  LET d == CaptureBuffer(c, size)
         IN  CaptureInv(d, ent, nt, n) /\ Same(c, d) /\ d.stopping = c.stopping /\ d.workers = c.workers
  <1> DEFINE add == Least(Least(size, MaxBody), Remaining(c))
             d == CaptureBuffer(c, size)
  <1>1. c.bytes \in Nat /\ c.bytes <= MaxTotal /\ MaxTotal \in Nat /\ MaxBody \in Nat
    BY CaptureAssumption DEF Capture, CaptureInv, WithinLimits
  <1>2. add \in Nat /\ c.bytes + add <= MaxTotal
    BY <1>1 DEF Least, Remaining
  <1>3. d = [c EXCEPT !.bytes = @ + add]
    BY DEF CaptureBuffer
  <1> HIDE DEF add
  <1>4. Same(c, d) /\ d.stopping = c.stopping /\ d.workers = c.workers /\ d.queue = c.queue /\ d.bytes <= MaxTotal
    BY <1>1, <1>2, <1>3 DEF Same, Capture
  <1> HIDE DEF d
  <1>5. WorkersInv(d, ent, nt)
    BY <1>4 DEF Same, CaptureInv, WorkersInv, Current
  <1> QED
    BY <1>4, <1>5, SameKeeps DEF CaptureInv, d

(* A worker goes on to its next await.                                       *)
LEMMA AwaitsKeeps ==
  ASSUME NEW c \in Capture, NEW ent, NEW nt, NEW n, NEW w \in c.workers, NEW at \in {"response", "body"}, NEW size \in Nat,
         CaptureInv(c, ent, nt, n), Awaits(w, c, at, size)
  PROVE  /\ CaptureInv(active', ent, nt, n) /\ Same(c, active') /\ active'.stopping = c.stopping
         /\ \A v \in active'.workers : \E u \in c.workers : v.generation = u.generation
  <1> DEFINE v == [w EXCEPT !.at = at, !.size = size]
             workers == (c.workers \ {w}) \cup {v}
             d == active'
  <1>1. w \in Worker
    BY DEF Capture
  <1>2. v \in Worker /\ v.request = w.request /\ v.generation = w.generation
    BY <1>1 DEF Worker
  <1>3. d = [c EXCEPT !.workers = workers]
    BY DEF Awaits
  <1>4. workers \subseteq Worker
    BY <1>2 DEF Capture
  <1> HIDE DEF v, d
  <1>5. \A x \in workers : \E u \in c.workers : x.request = u.request /\ x.generation = u.generation
    BY <1>2
  <1>6. \A x, y \in workers : x # y => \E s, t \in c.workers :
          s # t /\ x.request = s.request /\ x.generation = s.generation /\ y.request = t.request /\ y.generation = t.generation
    BY <1>2
  <1> HIDE DEF workers
  <1>7. Same(c, d) /\ d.stopping = c.stopping /\ d.workers = workers /\ d.queue = c.queue /\ d.bytes = c.bytes
    BY <1>3, <1>4 DEF Same, Capture
  <1>8. WorkersInv(d, ent, nt)
    <2>1. WorkersInv(c, ent, nt)
      BY DEF CaptureInv
    <2>2. \A x, u : x.generation = u.generation => (Current(d, x) <=> Current(c, u))
      BY <1>7 DEF Same, Current
    <2>3. \A x, y \in d.workers : Current(d, x) /\ Current(d, y) /\ x.request = y.request => x = y
      BY <1>6, <1>7, <2>1, <2>2 DEF WorkersInv
    <2> QED
      BY <1>5, <1>7, <2>1, <2>2, <2>3 DEF Same, WorkersInv
  <1> QED
    BY <1>5, <1>7, <1>8, SameKeeps DEF CaptureInv, WithinLimits, d

(* A finalization that ends records its entry, unless a stop gave up on it.   *)
LEMMA RecordedKeeps ==
  ASSUME NEW c \in Capture, NEW nt, NEW n, NEW w \in c.workers, entry \in [Request -> PendingEntry],
         CaptureInv(c, entry, nt, n)
  PROVE  LET d == Recorded(c, w)
         IN  /\ d \in Capture /\ CaptureInv(d, entry, nt, n)
             /\ d.generation = c.generation /\ d.stopping = c.stopping /\ d.cancelled = c.cancelled
             /\ d.workers \subseteq c.workers /\ d.queue = c.queue
             /\ ~ Current(c, w) => Same(c, d)
  <1> DEFINE r == w.request
             new == [id |-> entry[w.request].id, request |-> w.request]
             entries == IF Current(c, w) THEN c.entries \cup {new} ELSE c.entries
             pending == c.pending \ {r}
             workers == c.workers \ {w}
             d == Recorded(c, w)
  <1>1. WorkersInv(c, entry, nt) /\ EntriesInv(c, entry, nt) /\ c.entries \subseteq Entry /\ c.pending \subseteq Request
    BY DEF CaptureInv, Capture
  <1>2. w \in Worker /\ r \in Request /\ new \in Entry /\ new.id = entry[r].id /\ new.request = r
    BY DEF Capture, Worker, Entry, PendingEntry
  <1>3. d = [c EXCEPT !.workers = workers, !.pending = pending, !.entries = entries]
    BY DEF Recorded, Current
  <1>4. entries \subseteq Entry /\ pending \subseteq Request /\ workers \subseteq Worker
    BY <1>1, <1>2 DEF Capture
  <1>5. ~ Current(c, w) => pending = c.pending /\ entries = c.entries
    BY <1>1 DEF WorkersInv
  <1>6. Current(c, w) => r \in c.pending /\ new \notin c.entries /\ entries = c.entries \cup {new}
    BY <1>1, <1>2 DEF WorkersInv, EntriesInv
  <1> HIDE DEF entries, d, new
  <1>7. /\ d \in Capture /\ d.generation = c.generation /\ d.stopping = c.stopping /\ d.cancelled = c.cancelled
        /\ d.workers = workers /\ d.queue = c.queue /\ d.pending = pending /\ d.entries = entries /\ d.bytes = c.bytes
        /\ d.dropped = c.dropped
    BY <1>3, <1>4 DEF Capture
  <1>8. \A v : Current(d, v) <=> Current(c, v)
    BY <1>7 DEF Current
  <1>9. IsFiniteSet(entries) /\ Size(d) = Size(c)
    <2>1. IsFiniteSet(c.entries) /\ IsFiniteSet(c.pending)
          /\ Cardinality(c.pending) \in Nat /\ Cardinality(c.entries) \in Nat
      BY SizeType DEF CaptureInv, WithinLimits
    <2>2. CASE Current(c, w)
      <3>1. IsFiniteSet(entries) /\ Cardinality(entries) = Cardinality(c.entries) + 1
        BY <1>6, <2>1, <2>2, FS_AddElement
      <3>2. Cardinality(pending) = Cardinality(c.pending) - 1
        BY <1>6, <2>1, <2>2, FS_RemoveElement
      <3> HIDE DEF pending
      <3> QED
        BY <1>7, <2>1, <3>1, <3>2 DEF Size
    <2>3. CASE ~ Current(c, w)
      BY <1>5, <1>7, <2>1, <2>3 DEF Size
    <2> QED
      BY <2>2, <2>3
  <1>10. Members(d) = Members(c)
    <2>1. CASE Current(c, w)
      BY <1>2, <1>6, <1>7, <2>1 DEF Members
    <2>2. CASE ~ Current(c, w)
      BY <1>5, <1>7, <2>2 DEF Members
    <2> QED
      BY <2>1, <2>2
  <1>11. WorkersInv(d, entry, nt)
    <2>1. \A v \in d.workers : Current(c, v) => v.request # r
      BY <1>1, <1>7 DEF WorkersInv, Current
    <2>2. d.queue \subseteq d.pending
      BY <1>1, <1>7 DEF WorkersInv
    <2> QED
      BY <1>1, <1>7, <1>8, <2>1, <2>2 DEF WorkersInv
  <1>12. EntriesInv(d, entry, nt)
    <2>1. CASE Current(c, w)
      BY <1>1, <1>2, <1>6, <1>7, <2>1 DEF EntriesInv, WorkersInv
    <2>2. CASE ~ Current(c, w)
      BY <1>1, <1>5, <1>7, <2>2 DEF EntriesInv
    <2> QED
      BY <2>1, <2>2
  <1>13. Accounted(d, n) /\ WithinLimits(d) /\ NumbersInv(d, entry)
    BY <1>7, <1>9, <1>10 DEF CaptureInv, Accounted, WithinLimits, NumbersInv
  <1> QED
    BY <1>5, <1>7, <1>11, <1>12, <1>13 DEF CaptureInv, Same, d

(* Giving up counts the pending as dropped; a cancel drops everything.       *)
DropsPending(c, q) ==
  /\ q.entries = c.entries /\ q.workers = c.workers /\ q.generation = c.generation /\ q.bytes = c.bytes
  /\ ~ q.cancelled => ~ c.cancelled /\ q.dropped = c.dropped + Cardinality(c.pending)

LEMMA DiscardKeeps ==
  ASSUME NEW c \in Capture, NEW nt, NEW n, CaptureInv(c, entry, nt, n), NEW q \in Capture,
         DropsPending(c, q), NEW d, d = DiscardFinalizers(q)
  PROVE  /\ d \in Capture /\ CaptureInv(d, entry, nt, n)
         /\ d.pending = {} /\ d.stopping = q.stopping /\ d.cancelled = q.cancelled
         /\ \A w \in d.workers : w.generation # d.generation
  <1>1. /\ d \in Capture /\ d.generation = c.generation + 1 /\ d.stopping = q.stopping /\ d.cancelled = q.cancelled
        /\ d.workers = c.workers /\ d.queue = {} /\ d.pending = {} /\ d.entries = c.entries /\ d.bytes = c.bytes
        /\ d.dropped = q.dropped
    <2> DEFINE generation == q.generation + 1
    <2>1. generation \in Nat
      BY DEF Capture
    <2>2. d = [q EXCEPT !.generation = generation, !.queue = {}, !.pending = {}]
      BY DEF DiscardFinalizers
    <2> HIDE DEF generation
    <2>3. /\ d \in Capture /\ d.generation = generation /\ d.stopping = q.stopping /\ d.cancelled = q.cancelled
          /\ d.workers = q.workers /\ d.queue = {} /\ d.pending = {} /\ d.entries = q.entries /\ d.bytes = q.bytes
          /\ d.dropped = q.dropped
      BY <2>1, <2>2 DEF Capture
    <2> QED
      BY <2>3 DEF generation, DropsPending
  <1>2. \A w \in c.workers : w.generation \in Nat /\ w.generation <= c.generation
    BY DEF CaptureInv, WorkersInv, Capture, Worker
  <1>3. c.generation \in Nat
    BY DEF Capture
  <1>4. \A w \in d.workers : w.generation # d.generation /\ w.generation <= d.generation
    BY <1>1, <1>2, <1>3
  <1>5. IsFiniteSet(c.entries) /\ Cardinality(c.entries) \in Nat /\ Cardinality(c.pending) \in Nat
    BY SizeType DEF CaptureInv, WithinLimits
  <1>6. IsFiniteSet({}) /\ Cardinality({}) = 0
    BY FS_EmptySet
  <1>7. WithinLimits(d)
    BY <1>1, <1>5, <1>6, CaptureAssumption DEF CaptureInv, WithinLimits, Size
  <1>8. Accounted(d, n)
    BY <1>1, <1>5, <1>6 DEF CaptureInv, Accounted, Size, Capture, DropsPending
  <1>9. WorkersInv(d, entry, nt)
    BY <1>1, <1>4 DEF WorkersInv, Current, CaptureInv, DropsPending
  <1>10. EntriesInv(d, entry, nt) /\ NumbersInv(d, entry)
    BY <1>1, <1>3 DEF EntriesInv, NumbersInv, CaptureInv
  <1> QED
    BY <1>1, <1>4, <1>7, <1>8, <1>9, <1>10 DEF CaptureInv

(* What is not about the capture itself: a response, and the requests of a    *)
(* page that nobody listens to.                                             *)
LEMMA DataKeeps ==
  ASSUME NEW c \in Capture, NEW ent, NEW new, NEW nt, NEW nt2, NEW n, CaptureInv(c, ent, nt, n), Ends(ent, new, {}),
         \A r \in Request : nt[r].state # "none" => nt2[r].state # "none"
  PROVE  CaptureInv(c, new, nt2, n)
  <1>1. c.pending \subseteq Request /\ c.queue \subseteq Request /\ c.workers \subseteq Worker /\ c.entries \subseteq Entry
        /\ Members(c) \subseteq Request
    BY DEF Capture, Members, Entry
  <1>2. WorkersInv(c, new, nt2)
    <2>1. WorkersInv(c, ent, nt)
      BY DEF CaptureInv
    <2> QED
      BY <1>1, <2>1 DEF WorkersInv, Ends, Worker
  <1>3. EntriesInv(c, new, nt2)
    BY <1>1 DEF CaptureInv, EntriesInv, Ends, Entry
  <1>4. NumbersInv(c, new)
    BY <1>1 DEF CaptureInv, NumbersInv, Ends
  <1> QED
    BY <1>2, <1>3, <1>4 DEF CaptureInv

(* A request becomes an entry, or is dropped when the capture is full.        *)
LEMMA TakesKeeps ==
  ASSUME TypeOK, active \in Capture, CaptureInv(active, entry, net, seen), ~ active.cancelled,
         NEW r \in Request, OnRequest(r)
  PROVE  /\ active' \in Capture /\ CaptureInv(active', entry', net', seen') /\ active'.cancelled = active.cancelled
         /\ active'.stopping = active.stopping
         /\ entry' \in [Request -> PendingEntry]
  <1> DEFINE c == active
             d == active'
  <1>1. WorkersInv(c, entry, net) /\ EntriesInv(c, entry, net) /\ NumbersInv(c, entry)
        /\ seen = Size(c) + c.dropped /\ WithinLimits(c)
    BY DEF CaptureInv, Accounted
  <1>2. /\ IsFiniteSet(c.entries) /\ IsFiniteSet(c.pending) /\ Size(c) \in Nat
        /\ Cardinality(c.pending) \in Nat /\ Cardinality(c.entries) \in Nat
    BY <1>1, SizeType DEF WithinLimits
  <1>3. /\ net[r].state = "none" /\ net'[r].state = "sent" /\ \A q \in Request : q # r => net'[q] = net[q]
        /\ seen' = seen + 1
    BY DEF OnRequest, TypeOK
  <1>4. c.pending \subseteq Request /\ c.queue \subseteq Request /\ c.workers \subseteq Worker /\ c.entries \subseteq Entry
        /\ c.generation \in Nat /\ c.dropped \in Nat
    BY DEF Capture
  <1>5. /\ r \notin c.pending /\ \A w \in c.workers : w.request \in Request /\ w.request # r
        /\ \A e \in c.entries : e.request \in Request /\ e.request # r
    BY <1>1, <1>3, <1>4 DEF WorkersInv, EntriesInv, Worker, Entry
  <1>6. CASE IsFull
    <2> DEFINE dropped == c.dropped + 1
    <2>1. d = [c EXCEPT !.dropped = dropped] /\ UNCHANGED entry
      BY <1>6 DEF OnRequest
    <2>2. dropped \in Nat
      BY <1>4
    <2> HIDE DEF dropped
    <2>3. /\ d \in Capture /\ d.pending = c.pending /\ d.entries = c.entries /\ d.generation = c.generation
          /\ d.dropped = dropped /\ d.cancelled = c.cancelled /\ d.stopping = c.stopping /\ d.bytes = c.bytes
          /\ d.workers = c.workers /\ d.queue = c.queue
      BY <2>1, <2>2 DEF Capture
    <2> HIDE DEF d
    <2>4. Size(d) = Size(c) /\ Members(d) = Members(c)
      BY <2>3 DEF Size, Members
    <2>5. Accounted(d, seen') /\ WithinLimits(d)
      BY <1>1, <1>2, <1>3, <1>4, <2>3, <2>4 DEF Accounted, WithinLimits, dropped
    <2>6. WorkersInv(d, entry, net') /\ EntriesInv(d, entry, net') /\ NumbersInv(d, entry)
      BY <1>1, <1>3, <1>4, <1>5, <2>3, <2>4 DEF WorkersInv, EntriesInv, NumbersInv, Current
    <2> QED
      BY <2>1, <2>3, <2>5, <2>6 DEF CaptureInv, TypeOK, d
  <1>7. CASE ~ IsFull
    <2> DEFINE id == Size(c) + 1
               pending == c.pending \cup {r}
               epoch == bound.epoch
               new == [NoEntry EXCEPT !.id = id, !.epoch = epoch]
    <2>1. d = [c EXCEPT !.pending = pending] /\ entry' = [entry EXCEPT ![r] = new]
      BY <1>7 DEF OnRequest, Size
    <2>2. pending \subseteq Request /\ id \in Nat /\ epoch \in Nat
      BY <1>2, <1>4 DEF TypeOK, Binding
    <2>3. Cardinality(pending) = Cardinality(c.pending) + 1
      BY <1>2, <1>5, FS_AddElement
    <2> HIDE DEF epoch, d
    <2>4. /\ d \in Capture /\ d.pending = pending /\ d.entries = c.entries /\ d.generation = c.generation
          /\ d.dropped = c.dropped /\ d.cancelled = c.cancelled /\ d.stopping = c.stopping /\ d.bytes = c.bytes
          /\ d.workers = c.workers /\ d.queue = c.queue
      BY <2>1, <2>2 DEF Capture
    <2>5. Size(d) = Size(c) + 1
      BY <1>2, <2>3, <2>4 DEF Size
    <2>6. Members(d) = Members(c) \cup {r} /\ r \notin Members(c) /\ Members(c) \subseteq Request
      BY <1>4, <1>5, <2>4 DEF Members
    <2>7. Size(d) <= MaxEntries
      <3>1. MaxEntries \in Nat
        BY CaptureAssumption
      <3> QED
        BY <1>2, <1>7, <2>5, <3>1 DEF IsFull, Size
    <2> HIDE DEF id
    <2>8. new \in PendingEntry /\ new.id = id
      BY <2>2 DEF NoEntry, PendingEntry
    <2> HIDE DEF new, pending
    <2>9. /\ entry' \in [Request -> PendingEntry] /\ entry'[r].id = id
          /\ \A q \in Request : q # r => entry'[q] = entry[q]
      BY <2>1, <2>8 DEF TypeOK
    <2>10. Accounted(d, seen') /\ WithinLimits(d)
      BY <1>1, <1>2, <1>3, <1>4, <2>4, <2>5, <2>7 DEF Accounted, WithinLimits
    <2>11. WorkersInv(d, entry', net')
      <3>1. \A w : Current(d, w) <=> Current(c, w)
        BY <2>4 DEF Current
      <3> QED
        BY <1>1, <1>3, <1>4, <1>5, <2>4, <2>9, <3>1 DEF WorkersInv, pending
    <2>12. EntriesInv(d, entry', net')
      BY <1>1, <1>3, <1>4, <1>5, <2>4, <2>9 DEF EntriesInv, pending
    <2>13. NumbersInv(d, entry')
      <3> SUFFICES ASSUME c.generation = 0
                   PROVE  /\ \A q \in Members(d) : entry'[q].id \in 1..Size(d)
                          /\ \A q, s \in Members(d) : entry'[q].id = entry'[s].id => q = s
        BY <2>4 DEF NumbersInv
      <3>1. \A q \in Members(c) : entry'[q].id \in 1..Size(c)
        BY <1>1, <2>6, <2>9 DEF NumbersInv
      <3>2. \A q, s \in Members(c) : entry'[q].id = entry'[s].id => q = s
        BY <1>1, <2>6, <2>9 DEF NumbersInv
      <3>3. entry'[r].id = Size(c) + 1
        BY <2>9 DEF id
      <3>4. \A q \in Members(c) : entry'[q].id # entry'[r].id
        BY <1>2, <3>1, <3>3
      <3>5. \A q \in Members(d) : entry'[q].id \in 1..Size(d)
        BY <1>2, <2>5, <2>6, <3>1, <3>3
      <3> QED
        BY <2>6, <3>2, <3>4, <3>5
    <2> QED
      BY <2>4, <2>9, <2>10, <2>11, <2>12, <2>13 DEF CaptureInv, d
  <1> QED
    BY <1>6, <1>7

-----------------------------------------------------------------------------
(* An operation and an event leave the other half alone.                     *)
LEMMA TypesOfActive ==
  ASSUME Inv, active # None
  PROVE  /\ active \in Capture /\ CaptureInv(active, entry, net, seen)
         /\ active.pending \subseteq Request /\ active.workers \subseteq Worker /\ active.queue \subseteq active.pending
  BY DEF Inv, TypeOK, Capture, CaptureInv, WorkersInv

LEMMA BindPageKeeps ==
  ASSUME Inv, NEW p \in Page \cup {None}, BindPage(p)
  PROVE  Inv'
  <1> DEFINE ended == IF bound.page = None THEN {} ELSE Ended
             scheduled == Schedule(ended, active)
  <1>1. active # None /\ ~ active.stopping /\ call.pc = "idle" /\ ~ active.cancelled
    BY DEF BindPage, MayBind, Inv, CallInv
  <1>2. active \in Capture /\ CaptureInv(active, entry, net, seen) /\ ended \subseteq active.pending /\ ended \subseteq Request
    BY <1>1, TypesOfActive DEF Ended
  <1>3. entry' = Failed(ended) /\ active' \in Pumped(scheduled) /\ UNCHANGED <<net, call, seen, report>>
    BY DEF BindPage
  <1> HIDE DEF ended
  <1>4. Ends(entry, entry', ended) /\ entry' \in [Request -> PendingEntry]
    BY <1>2, <1>3, FinalizedEnds DEF Inv
  <1>5. CaptureInv(scheduled, entry', net, seen) /\ Same(active, scheduled)
    BY <1>2, <1>4, ScheduleKeeps
  <1> HIDE DEF scheduled
  <1>6. CaptureInv(active', entry', net, seen) /\ Same(scheduled, active')
    BY <1>3, <1>5, PumpedKeeps DEF Same
  <1>7. bound' \in Binding
    BY DEF BindPage, BoundTo, Inv, TypeOK, Binding
  <1>8. active' \in Capture /\ ~ active'.cancelled
    BY <1>1, <1>5, <1>6 DEF Same
  <1>9. TypeOK'
    BY <1>3, <1>4, <1>7, <1>8 DEF Inv, TypeOK
  <1>10. CallInv'
    BY <1>1, <1>3, <1>8 DEF CallInv
  <1> QED
    BY <1>3, <1>6, <1>9, <1>10 DEF Inv, ReportMatchesArtifact

LEMMA OnRequestKeeps ==
  ASSUME Inv, NEW r \in Request, OnRequest(r)
  PROVE  Inv'
  <1>1. active # None /\ bound.page # None /\ call.pc = "idle" /\ ~ active.cancelled
    BY DEF OnRequest, Inv, CallInv
  <1>2. active \in Capture /\ CaptureInv(active, entry, net, seen)
    BY <1>1, TypesOfActive
  <1>3. /\ active' \in Capture /\ CaptureInv(active', entry', net', seen') /\ active'.cancelled = active.cancelled
        /\ entry' \in [Request -> PendingEntry]
    BY <1>1, <1>2, TakesKeeps DEF Inv
  <1>4. UNCHANGED <<bound, call, report>> /\ seen' = seen + 1 /\ net' = [net EXCEPT ![r] = [state |-> "sent", page |-> bound.page]]
    BY DEF OnRequest
  <1>5. TypeOK'
    BY <1>3, <1>4 DEF Inv, TypeOK, Binding
  <1>6. CallInv'
    BY <1>1, <1>3, <1>4 DEF CallInv
  <1> QED
    BY <1>3, <1>4, <1>5, <1>6 DEF Inv, ReportMatchesArtifact

LEMMA OnResponseKeeps ==
  ASSUME Inv, NEW r \in Request, OnResponse(r)
  PROVE  Inv'
  <1>1. active # None /\ UNCHANGED <<active, bound, call, seen, report>>
    BY DEF OnResponse
  <1>2. active \in Capture /\ CaptureInv(active, entry, net, seen)
    BY <1>1, TypesOfActive
  <1>3. entry' \in [Request -> PendingEntry] /\ Ends(entry, entry', {})
    <2>1. entry' = entry \/ entry' = [entry EXCEPT ![r].response = TRUE]
      BY DEF OnResponse
    <2> DEFINE new == [entry[r] EXCEPT !.response = TRUE]
    <2>2. entry \in [Request -> PendingEntry]
      BY DEF Inv, TypeOK
    <2>3. new \in PendingEntry /\ new.id = entry[r].id /\ new.finalized = entry[r].finalized
      BY <2>2 DEF PendingEntry
    <2>4. entry' = entry \/ entry' = [entry EXCEPT ![r] = new]
      BY <2>1
    <2> HIDE DEF new
    <2> QED
      BY <2>2, <2>3, <2>4 DEF Ends
  <1>4. /\ net' \in [Request -> [state : {"none", "sent", "answered", "ended"}, page : Page \cup {None}]]
        /\ \A q \in Request : net[q].state # "none" => net'[q].state # "none"
    BY DEF OnResponse, Inv, TypeOK
  <1>5. CaptureInv(active, entry', net', seen)
    BY <1>2, <1>3, <1>4, DataKeeps
  <1> QED
    BY <1>1, <1>3, <1>4, <1>5 DEF Inv, TypeOK, CallInv, ReportMatchesArtifact

LEMMA OnRequestEndsKeeps ==
  ASSUME Inv, NEW r \in Request, OnRequestEnds(r)
  PROVE  Inv'
  <1>1. active # None /\ r \in active.pending /\ UNCHANGED <<bound, call, seen, report>>
    BY DEF OnRequestEnds
  <1>2. active \in Capture /\ CaptureInv(active, entry, net, seen)
    BY <1>1, TypesOfActive
  <1>3. /\ net' \in [Request -> [state : {"none", "sent", "answered", "ended"}, page : Page \cup {None}]]
        /\ \A q \in Request : net[q].state # "none" => net'[q].state # "none"
    BY DEF OnRequestEnds, Inv, TypeOK
  <1>4. Ends(entry, entry, {})
    BY DEF Ends
  <1>5. CaptureInv(active, entry, net', seen)
    BY <1>2, <1>3, <1>4, DataKeeps
  <1>6. CASE Heard(r)
    <2> DEFINE scheduled == Schedule({r}, active)
    <2>1. entry' = Finalized({r}) /\ active' \in Pumped(scheduled)
      BY <1>6 DEF OnRequestEnds
    <2>2. Ends(entry, entry', {r}) /\ entry' \in [Request -> PendingEntry]
      <3>1. {r} \in SUBSET Request
        OBVIOUS
      <3> QED
        BY <2>1, <3>1, FinalizedEnds DEF Inv
    <2>3. /\ CaptureInv(scheduled, entry', net', seen) /\ Same(active, scheduled) /\ scheduled.stopping = active.stopping
          /\ scheduled.workers = active.workers
      BY <1>1, <1>2, <1>5, <2>2, ScheduleKeeps
    <2>4. call.pc \notin {"finish", "write"}
      BY <1>1 DEF Inv, CallInv
    <2> HIDE DEF scheduled
    <2>5. CaptureInv(active', entry', net', seen) /\ Same(scheduled, active') /\ active'.stopping = scheduled.stopping
      BY <2>1, <2>3, PumpedKeeps DEF Same
    <2>6. active' \in Capture /\ active'.stopping = active.stopping /\ active'.cancelled = active.cancelled
      BY <2>3, <2>5 DEF Same
    <2>7. TypeOK'
      BY <1>1, <1>3, <2>2, <2>6 DEF Inv, TypeOK
    <2>8. CallInv'
      BY <1>1, <2>4, <2>6, AbsenceAssumption DEF Inv, CallInv
    <2> QED
      BY <1>1, <2>5, <2>7, <2>8 DEF Inv, ReportMatchesArtifact
  <1>7. CASE ~ Heard(r)
    <2>1. UNCHANGED <<active, entry>>
      BY <1>7 DEF OnRequestEnds
    <2> QED
      BY <1>1, <1>3, <1>5, <2>1 DEF Inv, TypeOK, CallInv, ReportMatchesArtifact
  <1> QED
    BY <1>6, <1>7

(* What a step of finalize leaves: the flags of the capture, and, while a      *)
(* stop writes, its entries.                                                *)
Kept(c, d) ==
  /\ d \in Capture /\ d.stopping = c.stopping /\ d.cancelled = c.cancelled /\ d.generation = c.generation
  /\ (c.pending = {} /\ \A w \in c.workers : w.generation # c.generation) =>
       /\ d.pending = {} /\ d.entries = c.entries
       /\ \A w \in d.workers : w.generation # d.generation

LEMMA AwaitsStep ==
  ASSUME NEW c \in Capture, NEW n, NEW w \in c.workers, CaptureInv(c, entry, net, n),
         NEW at \in {"response", "body"}, NEW size \in Nat, Awaits(w, c, at, size)
  PROVE  CaptureInv(active', entry, net, n) /\ Kept(c, active')
  <1>1. /\ CaptureInv(active', entry, net, n) /\ Same(c, active') /\ active'.stopping = c.stopping
        /\ \A v \in active'.workers : \E u \in c.workers : v.generation = u.generation
    BY AwaitsKeeps
  <1> QED
    BY <1>1 DEF Same, Kept

LEMMA RecordedStep ==
  ASSUME NEW c \in Capture, NEW n, NEW w \in c.workers, CaptureInv(c, entry, net, n),
         entry \in [Request -> PendingEntry], active' \in Pumped(Recorded(c, w))
  PROVE  CaptureInv(active', entry, net, n) /\ Kept(c, active')
  <1> DEFINE d == Recorded(c, w)
  <1>1. /\ d \in Capture /\ CaptureInv(d, entry, net, n)
        /\ d.generation = c.generation /\ d.stopping = c.stopping /\ d.cancelled = c.cancelled
        /\ d.workers \subseteq c.workers /\ d.queue = c.queue
        /\ ~ Current(c, w) => Same(c, d)
    BY RecordedKeeps
  <1> HIDE DEF d
  <1>2. /\ CaptureInv(active', entry, net, n) /\ Same(d, active') /\ active'.stopping = d.stopping
        /\ d.queue = {} => active'.workers = d.workers
    BY <1>1, PumpedKeeps DEF d
  <1>3. c.queue \subseteq c.pending
    BY DEF CaptureInv, WorkersInv
  <1>4. ASSUME c.pending = {}, \A v \in c.workers : v.generation # c.generation
        PROVE  active'.pending = {} /\ active'.entries = c.entries /\ \A v \in active'.workers : v.generation # active'.generation
    <2>1. ~ Current(c, w) /\ d.queue = {}
      BY <1>1, <1>3, <1>4 DEF Current
    <2> QED
      BY <1>1, <1>2, <1>4, <2>1 DEF Same
  <1> QED
    BY <1>1, <1>2, <1>4 DEF Same, Kept

LEMMA FinalizeStep ==
  ASSUME Inv, Finalize
  PROVE  CaptureInv(active', entry, net, seen) /\ Kept(active, active')
  <1>1. active \in Capture /\ CaptureInv(active, entry, net, seen) /\ entry \in [Request -> PendingEntry]
    BY TypesOfActive DEF Finalize, Inv, TypeOK
  <1>2. PICK w \in active.workers :
          \/ \E size \in BodySize : RequestHeaders(w, size) \/ ResponseHeaders(w, size)
          \/ ResponseBody(w) \/ BodyTimesOut(w) \/ FinalizeThrows(w)
    BY DEF Finalize
  <1>3. BodySize \subseteq Nat /\ 0 \in Nat /\ w.size \in Nat
    BY <1>1, CaptureAssumption DEF Capture, Worker
  <1>4. ASSUME NEW size \in Nat
        PROVE  LET d == CaptureBuffer(active, size)
               IN  d \in Capture /\ w \in d.workers /\ CaptureInv(d, entry, net, seen) /\ (Kept(d, active') => Kept(active, active'))
    <2> DEFINE d == CaptureBuffer(active, size)
    <2>1. CaptureInv(d, entry, net, seen) /\ Same(active, d) /\ d.stopping = active.stopping /\ d.workers = active.workers
      BY <1>1, BufferKeeps
    <2> HIDE DEF d
    <2> QED
      BY <2>1 DEF Same, Kept, d
  <1>5. ASSUME NEW size \in BodySize, RequestHeaders(w, size)
        PROVE  CaptureInv(active', entry, net, seen) /\ Kept(active, active')
    <2> DEFINE c == IF size <= Least(MaxBody, Remaining(active)) THEN CaptureBuffer(active, size) ELSE active
    <2>1. c \in Capture /\ w \in c.workers /\ CaptureInv(c, entry, net, seen) /\ (Kept(c, active') => Kept(active, active'))
      BY <1>1, <1>3, <1>4
    <2>2. Awaits(w, c, "response", 0) \/ active' \in Pumped(Recorded(c, w))
      BY <1>5 DEF RequestHeaders
    <2> HIDE DEF c
    <2> QED
      BY <1>1, <1>3, <2>1, <2>2, AwaitsStep, RecordedStep
  <1>6. ASSUME NEW size \in BodySize, ResponseHeaders(w, size)
        PROVE  CaptureInv(active', entry, net, seen) /\ Kept(active, active')
    <2>1. Awaits(w, active, "body", size) \/ active' \in Pumped(Recorded(active, w))
      BY <1>6 DEF ResponseHeaders
    <2> QED
      BY <1>1, <1>3, <2>1, AwaitsStep, RecordedStep
  <1>7. CASE ResponseBody(w)
    <2> DEFINE c == CaptureBuffer(active, w.size)
    <2>1. c \in Capture /\ w \in c.workers /\ CaptureInv(c, entry, net, seen) /\ (Kept(c, active') => Kept(active, active'))
      BY <1>3, <1>4
    <2>2. active' \in Pumped(Recorded(c, w))
      BY <1>7 DEF ResponseBody
    <2> HIDE DEF c
    <2> QED
      BY <1>1, <2>1, <2>2, RecordedStep
  <1>8. CASE BodyTimesOut(w) \/ FinalizeThrows(w)
    <2>1. active' \in Pumped(Recorded(active, w))
      BY <1>8 DEF BodyTimesOut, FinalizeThrows
    <2> QED
      BY <1>1, <2>1, RecordedStep
  <1> QED
    BY <1>2, <1>5, <1>6, <1>7, <1>8

LEMMA FinalizeKeeps ==
  ASSUME Inv, Finalize
  PROVE  Inv'
  <1>1. active # None /\ UNCHANGED <<bound, entry, net, call, seen, report>>
    BY DEF Finalize
  <1>2. CaptureInv(active', entry, net, seen) /\ Kept(active, active')
    BY FinalizeStep
  <1>3. CallInv'
    BY <1>1, <1>2, AbsenceAssumption DEF Kept, Inv, CallInv
  <1> QED
    BY <1>1, <1>2, <1>3 DEF Kept, Inv, TypeOK, ReportMatchesArtifact

-----------------------------------------------------------------------------
LEMMA StoppingKeeps ==
  ASSUME NEW c \in Capture, NEW ent, NEW nt, NEW n, CaptureInv(c, ent, nt, n), NEW stopping \in BOOLEAN,
         NEW d, d = [c EXCEPT !.stopping = stopping]
  PROVE  CaptureInv(d, ent, nt, n) /\ Same(c, d) /\ d.stopping = stopping /\ d.workers = c.workers
  <1>1. Same(c, d) /\ d.stopping = stopping /\ d.workers = c.workers /\ d.queue = c.queue /\ d.bytes = c.bytes
    BY DEF Same, Capture
  <1>2. WorkersInv(d, ent, nt)
    BY <1>1 DEF Same, CaptureInv, WorkersInv, Current
  <1> QED
    BY <1>1, <1>2, SameKeeps DEF CaptureInv, WithinLimits

LEMMA NewCaptureInv ==
  ASSUME NEW ent, NEW nt
  PROVE  NewCapture \in Capture /\ ~ NewCapture.cancelled /\ CaptureInv(NewCapture, ent, nt, 0)
  <1> DEFINE c == NewCapture
  <1>1. /\ c \in Capture /\ c.pending = {} /\ c.entries = {} /\ c.queue = {} /\ c.workers = {} /\ c.generation = 0
        /\ c.bytes = 0 /\ c.dropped = 0 /\ ~ c.cancelled
    BY DEF NewCapture, Capture
  <1> HIDE DEF c
  <1>2. IsFiniteSet({}) /\ Cardinality({}) = 0
    BY FS_EmptySet
  <1>3. Size(c) = 0 /\ Members(c) = {}
    BY <1>1, <1>2 DEF Size, Members
  <1>4. MaxTotal \in Nat /\ MaxEntries \in Nat
    BY CaptureAssumption
  <1>5. Accounted(c, 0) /\ WithinLimits(c)
    BY <1>1, <1>2, <1>3, <1>4 DEF Accounted, WithinLimits
  <1>6. WorkersInv(c, ent, nt) /\ EntriesInv(c, ent, nt) /\ NumbersInv(c, ent)
    BY <1>1, <1>3 DEF WorkersInv, EntriesInv, NumbersInv
  <1> QED
    BY <1>1, <1>5, <1>6 DEF CaptureInv, c

LEMMA StartKeeps ==
  ASSUME Inv, NEW p \in Page, Start(p)
  PROVE  Inv'
  <1>1. /\ active' = NewCapture /\ seen' = 0 /\ entry' = [r \in Request |-> NoEntry] /\ bound' = [page |-> p, epoch |-> 1]
        /\ call' = [IdleCall EXCEPT !.count = call.count + 1] /\ UNCHANGED <<net, report>>
    BY DEF Start
  <1>2. active' \in Capture /\ ~ active'.cancelled /\ CaptureInv(active', entry', net', seen')
    BY <1>1, NewCaptureInv
  <1>3. NoEntry \in PendingEntry /\ bound' \in Binding
    BY <1>1 DEF NoEntry, PendingEntry, Binding
  <1>4. call' \in Call /\ call'.pc = "idle"
    BY <1>1 DEF IdleCall, Call, Inv, TypeOK
  <1>5. TypeOK'
    BY <1>1, <1>2, <1>3, <1>4 DEF Inv, TypeOK
  <1> QED
    BY <1>1, <1>2, <1>4, <1>5 DEF Inv, CallInv, ReportMatchesArtifact

LEMMA StopKeeps ==
  ASSUME Inv, Stop
  PROVE  Inv'
  <1> DEFINE scheduled == Schedule(active.pending, active)
             stopped == [scheduled EXCEPT !.stopping = TRUE]
  <1>1. /\ active # None /\ call.pc = "idle" /\ entry' = Failed(active.pending) /\ active' \in Pumped(stopped)
        /\ call' = [IdleCall EXCEPT !.pc = "settle", !.page = bound.page, !.count = call.count + 1]
        /\ bound' = Unbound /\ UNCHANGED <<net, seen, report>>
    BY DEF Stop
  <1>2. active \in Capture /\ CaptureInv(active, entry, net, seen) /\ active.pending \in SUBSET Request
    BY <1>1, TypesOfActive
  <1>3. Ends(entry, entry', active.pending) /\ entry' \in [Request -> PendingEntry]
    BY <1>1, <1>2, FinalizedEnds DEF Inv
  <1>4. CaptureInv(scheduled, entry', net, seen) /\ Same(active, scheduled)
    BY <1>2, <1>3, ScheduleKeeps
  <1> HIDE DEF scheduled
  <1>5. CaptureInv(stopped, entry', net, seen) /\ Same(scheduled, stopped) /\ stopped.stopping = TRUE
    <2>1. scheduled \in Capture /\ TRUE \in BOOLEAN /\ stopped = [scheduled EXCEPT !.stopping = TRUE]
      BY <1>4 DEF Same
    <2> HIDE DEF stopped
    <2> QED
      BY <1>4, <2>1, StoppingKeeps
  <1> HIDE DEF stopped
  <1>6. CaptureInv(active', entry', net, seen) /\ Same(stopped, active') /\ active'.stopping
    BY <1>1, <1>5, PumpedKeeps DEF Same
  <1>7. active' \in Capture /\ active'.cancelled = active.cancelled
    BY <1>4, <1>5, <1>6 DEF Same
  <1>8. /\ call' \in Call /\ call'.pc = "settle"
        /\ bound' \in Binding /\ bound'.page = None
    <2> DEFINE count == call.count + 1
    <2>1. count \in Nat /\ bound \in Binding
      BY DEF Call, Inv, TypeOK
    <2>2. call' = [IdleCall EXCEPT !.pc = "settle", !.page = bound.page, !.count = count]
      BY <1>1
    <2> HIDE DEF count
    <2> QED
      BY <1>1, <2>1, <2>2 DEF IdleCall, Unbound, Call, Binding
  <1>9. TypeOK'
    BY <1>1, <1>3, <1>7, <1>8 DEF Inv, TypeOK
  <1>10. ~ active.cancelled
    BY <1>1 DEF Inv, CallInv
  <1>11. CallInv'
    BY <1>6, <1>7, <1>8, <1>10, AbsenceAssumption DEF CallInv
  <1> QED
    BY <1>1, <1>6, <1>9, <1>11 DEF Inv, ReportMatchesArtifact

(* Once everything is settled, or given up, nothing that stop reads changes.  *)
LEMMA StopSettlesKeeps ==
  ASSUME Inv, StopSettles
  PROVE  Inv'
  <1>1. /\ call.pc = "settle" /\ Settled(active) /\ call' = [call EXCEPT !.pc = "finish"]
        /\ UNCHANGED <<active, bound, entry, net, seen, report>>
    BY DEF StopSettles, Step
  <1>2. call' \in Call /\ call'.pc = "finish"
    BY <1>1 DEF Call, Inv, TypeOK
  <1> QED
    BY <1>1, <1>2 DEF Settled, Inv, TypeOK, CallInv, ReportMatchesArtifact

LEMMA StopGivesUpKeeps ==
  ASSUME Inv, StopGivesUp
  PROVE  Inv'
  <1> DEFINE dropped == active.dropped + Cardinality(active.pending)
             q == [active EXCEPT !.dropped = dropped]
  <1>1. /\ call.pc = "settle" /\ active' = DiscardFinalizers(q)
        /\ call' = [call EXCEPT !.pc = "finish"] /\ UNCHANGED <<bound, entry, net, seen, report>>
    BY DEF StopGivesUp, Step
  <1>2. active # None /\ active.stopping /\ bound.page = None /\ ~ active.cancelled
    BY <1>1 DEF Inv, CallInv
  <1>3. active \in Capture /\ CaptureInv(active, entry, net, seen)
    BY <1>2, TypesOfActive
  <1>4. dropped \in Nat
    BY <1>3, SizeType DEF Capture, CaptureInv, WithinLimits
  <1>5. dropped = active.dropped + Cardinality(active.pending)
    OBVIOUS
  <1> HIDE DEF dropped
  <1>6. /\ q \in Capture /\ q.entries = active.entries /\ q.workers = active.workers /\ q.generation = active.generation
        /\ q.bytes = active.bytes /\ q.dropped = dropped /\ q.stopping /\ ~ q.cancelled
    BY <1>2, <1>3, <1>4 DEF Capture
  <1> HIDE DEF q
  <1>7. /\ active' \in Capture /\ CaptureInv(active', entry, net, seen)
        /\ active'.pending = {} /\ active'.stopping = q.stopping /\ active'.cancelled = q.cancelled
        /\ \A w \in active'.workers : w.generation # active'.generation
    <2>1. DropsPending(active, q)
      BY <1>2, <1>5, <1>6 DEF DropsPending
    <2>2. active \in Capture /\ CaptureInv(active, entry, net, seen) /\ q \in Capture /\ active' = DiscardFinalizers(q)
      BY <1>1, <1>3, <1>6
    <2>3. /\ active' \in Capture /\ CaptureInv(active', entry, net, seen)
          /\ active'.pending = {} /\ active'.stopping = q.stopping /\ active'.cancelled = q.cancelled
      BY <2>1, <2>2, DiscardKeeps
    <2>4. \A w \in active'.workers : w.generation # active'.generation
      BY <2>1, <2>2, DiscardKeeps
    <2> QED
      BY <2>3, <2>4
  <1>8. call' \in Call /\ call'.pc = "finish"
    BY <1>1 DEF Call, Inv, TypeOK
  <1>9. TypeOK'
    BY <1>1, <1>7, <1>8 DEF Inv, TypeOK
  <1>10. CallInv'
    BY <1>1, <1>2, <1>6, <1>7, <1>8, AbsenceAssumption DEF CallInv
  <1> QED
    BY <1>1, <1>7, <1>9, <1>10 DEF Inv, ReportMatchesArtifact

LEMMA FinishCaptureKeeps ==
  ASSUME Inv, FinishCapture
  PROVE  Inv'
  <1> DEFINE artifact == active.entries
  <1>1. /\ call.pc = "finish" /\ call' = [call EXCEPT !.pc = "write", !.artifact = artifact]
        /\ UNCHANGED <<active, bound, entry, net, seen, report>>
    BY DEF FinishCapture
  <1>2. active # None
    BY <1>1 DEF Inv, CallInv
  <1>3. artifact \in SUBSET Entry
    BY <1>2, TypesOfActive DEF Capture
  <1> HIDE DEF artifact
  <1>4. call' \in Call /\ call'.pc = "write" /\ call'.artifact = artifact
    BY <1>1, <1>3 DEF Call, Inv, TypeOK
  <1>5. TypeOK'
    BY <1>1, <1>4 DEF Inv, TypeOK
  <1>6. CallInv'
    BY <1>1, <1>4 DEF Inv, CallInv, artifact
  <1> QED
    BY <1>1, <1>5, <1>6 DEF Inv, ReportMatchesArtifact

LEMMA StopReturnsKeeps ==
  ASSUME Inv, StopReturns
  PROVE  Inv'
  <1>1. /\ call.pc = "write" /\ active' = None /\ call' = [call EXCEPT !.pc = "idle"]
        /\ report' = [artifact |-> call.artifact, entries |-> Cardinality(active.entries),
                      dropped |-> active.dropped, seen |-> seen]
        /\ UNCHANGED <<bound, entry, net, seen>>
    BY DEF StopReturns, Step
  <1>2. active # None /\ active.pending = {} /\ call.artifact = active.entries /\ ~ active.cancelled
    BY <1>1 DEF Inv, CallInv
  <1>3. active \in Capture /\ CaptureInv(active, entry, net, seen)
    BY <1>2, TypesOfActive
  <1>4. Cardinality(active.pending) = 0 /\ Cardinality(active.entries) \in Nat
    BY <1>2, <1>3, SizeType, FS_EmptySet DEF CaptureInv, WithinLimits
  <1>5. seen = Cardinality(active.entries) + active.dropped
    BY <1>2, <1>3, <1>4 DEF CaptureInv, Accounted, Size
  <1>6. call' \in Call /\ call'.pc = "idle"
    BY <1>1 DEF Call, Inv, TypeOK
  <1>7. TypeOK'
    BY <1>1, <1>6 DEF Inv, TypeOK
  <1>8. ReportMatchesArtifact'
    BY <1>1, <1>2, <1>5 DEF ReportMatchesArtifact
  <1> QED
    BY <1>1, <1>6, <1>7, <1>8 DEF Inv, CallInv

LEMMA StopFailsKeeps ==
  ASSUME Inv, StopFails
  PROVE  Inv'
  <1>1. /\ call.pc \in {"finish", "write"} /\ active' = [active EXCEPT !.stopping = FALSE]
        /\ bound' = IF call.page = None THEN bound ELSE BoundTo(call.page)
        /\ call' = [call EXCEPT !.pc = "idle"] /\ UNCHANGED <<entry, net, seen, report>>
    BY DEF StopFails, Step
  <1>2. active # None /\ ~ active.cancelled
    BY <1>1 DEF Inv, CallInv
  <1>3. active \in Capture /\ CaptureInv(active, entry, net, seen)
    BY <1>2, TypesOfActive
  <1>4. CaptureInv(active', entry, net, seen) /\ Same(active, active')
    BY <1>1, <1>3, StoppingKeeps
  <1>5. call' \in Call /\ call'.pc = "idle" /\ bound' \in Binding
    BY <1>1 DEF Call, Binding, BoundTo, Inv, TypeOK
  <1>6. active' \in Capture /\ ~ active'.cancelled
    BY <1>2, <1>4 DEF Same
  <1>7. TypeOK'
    BY <1>1, <1>5, <1>6 DEF Inv, TypeOK
  <1> QED
    BY <1>1, <1>4, <1>5, <1>6, <1>7 DEF Inv, CallInv, ReportMatchesArtifact

LEMMA CancelKeeps ==
  ASSUME Inv, Cancel
  PROVE  Inv'
  <1> DEFINE q == [active EXCEPT !.stopping = TRUE, !.cancelled = TRUE]
  <1>1. /\ active # None /\ active' = DiscardFinalizers(q)
        /\ call.pc = "idle" /\ call' = [IdleCall EXCEPT !.pc = "cancel", !.count = call.count + 1]
        /\ bound' = Unbound /\ UNCHANGED <<entry, net, seen, report>>
    BY DEF Cancel
  <1>2. active \in Capture /\ CaptureInv(active, entry, net, seen)
    BY <1>1, TypesOfActive
  <1>3. /\ q \in Capture /\ q.entries = active.entries /\ q.workers = active.workers /\ q.generation = active.generation
        /\ q.bytes = active.bytes /\ q.stopping /\ q.cancelled
    BY <1>2 DEF Capture
  <1> HIDE DEF q
  <1>5. /\ active' \in Capture /\ CaptureInv(active', entry, net, seen)
        /\ active'.stopping = q.stopping /\ active'.cancelled = q.cancelled
    BY <1>1, <1>2, <1>3, DiscardKeeps DEF DropsPending
  <1>6. /\ call' \in Call /\ call'.pc = "cancel"
        /\ bound' \in Binding /\ bound'.page = None
    <2> DEFINE count == call.count + 1
    <2>1. count \in Nat /\ bound \in Binding
      BY DEF Call, Inv, TypeOK
    <2>2. call' = [IdleCall EXCEPT !.pc = "cancel", !.count = count]
      BY <1>1
    <2> HIDE DEF count
    <2> QED
      BY <1>1, <2>1, <2>2 DEF IdleCall, Unbound, Call, Binding
  <1>7. TypeOK'
    BY <1>1, <1>5, <1>6 DEF Inv, TypeOK
  <1>8. CallInv'
    BY <1>3, <1>5, <1>6, AbsenceAssumption DEF CallInv
  <1> QED
    BY <1>1, <1>5, <1>7, <1>8 DEF Inv, ReportMatchesArtifact

LEMMA CancelEndsKeeps ==
  ASSUME Inv, CancelEnds
  PROVE  Inv'
  <1>1. active' = None /\ call' = [call EXCEPT !.pc = "idle"] /\ UNCHANGED <<bound, entry, net, seen, report>>
    BY DEF CancelEnds, Step
  <1>2. call' \in Call /\ call'.pc = "idle"
    BY <1>1 DEF Call, Inv, TypeOK
  <1> QED
    BY <1>1, <1>2 DEF Inv, TypeOK, CallInv, ReportMatchesArtifact

-----------------------------------------------------------------------------
LEMMA InitInv == Init => Inv
  <1> SUFFICES ASSUME Init
               PROVE  Inv
    OBVIOUS
  <1>1. NoEntry \in PendingEntry /\ IdleCall \in Call /\ IdleCall.pc = "idle"
    BY DEF NoEntry, PendingEntry, IdleCall, Call
  <1>2. TypeOK
    BY <1>1 DEF Init, TypeOK, Binding
  <1>3. report = None /\ active = None /\ call.pc = "idle"
    BY <1>1 DEF Init
  <1> QED
    BY <1>2, <1>3 DEF Inv, CallInv, ReportMatchesArtifact

LEMMA StepInv == Inv /\ [Next]_vars => Inv'
  <1> SUFFICES ASSUME Inv, [Next]_vars
               PROVE  Inv'
    OBVIOUS
  <1>1. CASE Operate
    BY <1>1, StartKeeps, StopKeeps, StopSettlesKeeps, StopGivesUpKeeps, FinishCaptureKeeps, StopReturnsKeeps,
       StopFailsKeeps, CancelKeeps, CancelEndsKeeps DEF Operate
  <1>2. CASE Finalize
    BY <1>2, FinalizeKeeps
  <1>3. CASE \E p \in Page \cup {None} : BindPage(p)
    BY <1>3, BindPageKeeps
  <1>4. CASE \E r \in Request : OnRequest(r) \/ OnResponse(r) \/ OnRequestEnds(r)
    BY <1>4, OnRequestKeeps, OnResponseKeeps, OnRequestEndsKeeps
  <1>5. CASE UNCHANGED vars
    BY <1>5 DEF vars, Inv, TypeOK, CallInv, ReportMatchesArtifact
  <1> QED
    BY <1>1, <1>2, <1>3, <1>4, <1>5 DEF Next

LEMMA InvImplies == Inv => CaptureIsAccounted
  <1> SUFFICES ASSUME Inv
               PROVE  CaptureIsAccounted
    OBVIOUS
  <1>1. ASSUME active # None
        PROVE  /\ ~ active.cancelled => seen = Size(active) + active.dropped
               /\ active.bytes <= MaxTotal /\ Size(active) <= MaxEntries
               /\ active.generation = 0 => \A e1, e2 \in active.entries : e1.id = e2.id => e1 = e2
    <2>1. CaptureInv(active, entry, net, seen)
      BY <1>1, TypesOfActive
    <2>2. \A e1, e2 \in active.entries : active.generation = 0 /\ e1.id = e2.id => e1 = e2
      BY <2>1 DEF CaptureInv, EntriesInv, NumbersInv, Members
    <2> QED
      BY <2>1, <2>2 DEF CaptureInv, Accounted, WithinLimits
  <1>2. LimitsHold
    BY <1>1 DEF LimitsHold, Size
  <1>3. EveryRequestIsAccounted
    BY <1>1 DEF EveryRequestIsAccounted, Size
  <1>4. ReportMatchesArtifact
    BY DEF Inv
  <1> QED
    BY <1>2, <1>3, <1>4 DEF CaptureIsAccounted, ReportsAreComplete

(* The inductive invariant holds of every execution: see Inv.               *)
THEOREM CaptureInvariant == Spec => []Inv
  <1>1. Init => Inv
    BY InitInv
  <1>2. Inv /\ [Next]_vars => Inv'
    BY StepInv
  <1> QED
    BY <1>1, <1>2, PTL DEF Spec

(* Requests, limits and reports (Recorder.onRequest, recordEntry, stop):      *)
(* however many workers finalize at once, and whatever answers after a stop   *)
(* gave up, every request the recorder took is an entry, is pending or was    *)
(* counted as dropped, bodies and entries keep to their limits, ids are       *)
(* unique, and what stop reports is what its artifact holds.                 *)
THEOREM NothingCapturedIsLost == Spec => []CaptureIsAccounted
  <1>1. Inv => CaptureIsAccounted
    BY InvImplies
  <1> QED
    BY <1>1, CaptureInvariant, PTL
=============================================================================
