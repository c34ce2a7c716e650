--------------------------- MODULE Helpers_proofs ---------------------------
(***************************************************************************)
(* Proofs about the parts of Helpers, for every value of their constants.    *)
(* The proofs about the tools of a website and the groups of tabs are in      *)
(* TabHelpers_proofs.                                                         *)
(***************************************************************************)
EXTENDS Helpers, FiniteSetTheorems, TLAPS

-----------------------------------------------------------------------------
(* ExtensionLink: x1 worker, x2 deaf, x3 socket, x4 current, x5 probe,        *)
(* x6 generation, x7 command, x8 faults.                                      *)

(* The parts of the invariant, to be cited together.                          *)
LEMMA LinkParts ==
  ASSUME Link!LinkInv
  PROVE  /\ Link!TypeOK /\ Link!SocketsInOrder /\ Link!NothingBeforeOpening /\ Link!WorkersOwnTheirSocket
         /\ Link!CurrentIsGreeted /\ Link!CommandsKeepTheirGeneration
         /\ Link!CommandsStayOnTheirSocket /\ Link!NobodyIsStranded
  BY DEF Link!LinkInv, Link!LinkHolds

(* A socket that is over at one more end.                                     *)
LEMMA LinkForgotten ==
  ASSUME NEW r \in Link!SocketRecord
  PROVE  LET f == Link!Forgotten(r)
         IN  /\ f \in Link!SocketRecord /\ f.ext = r.ext /\ f.generation = r.generation
             /\ f.relay = r.relay \/ (f.relay = "closed" /\ r.ext = "closed" /\ r.relay = "none")
             /\ f.hello => r.hello
             /\ r.hello => f.hello \/ f.relay = "closed"
             /\ r.ext # "closed" \/ r.relay \notin {"none", "closed"} => f = r
  BY DEF Link!Forgotten, Link!SocketRecord, Link!Over, Link!NoSocket

(* A socket is a record of a socket.                                                    *)
LEMMA LinkSocketOf ==
  ASSUME Link!TypeOK, NEW s \in Link!Socket
  PROVE  x3[s] \in Link!SocketRecord
  BY DEF Link!TypeOK

(* What a step may do to a socket that is made: it stays greeted, with its generation.   *)
LinkKept(t) ==
  /\ x3'[t].ext = "none" <=> x3[t].ext = "none"
  /\ Link!Greeted(t) => x3'[t].generation = x3[t].generation /\ (x3'[t].hello \/ x3'[t].relay = "closed")

(* Sockets stay in order when none is made or forgotten.                                *)
LEMMA LinkMadeKept ==
  ASSUME Link!SocketsInOrder, \A t \in Link!Socket : LinkKept(t)
  PROVE  Link!SocketsInOrder' /\ \A t \in Link!Socket : Link!Greeted(t) => Link!Greeted(t)'
  BY DEF Link!SocketsInOrder, Link!Made, LinkKept, Link!Greeted

(* The commands, when none moves, and when the pending ones are rejected.     *)
LEMMA LinkCommandsKept ==
  ASSUME Link!LinkInv, \A t \in Link!Socket : Link!Greeted(t) => Link!Greeted(t)' /\ x3'[t].generation = x3[t].generation,
         (x7' = x7 /\ x6' = x6 /\ x4' = x4) \/ x7' = Link!Rejected
  PROVE  Link!CommandsKeepTheirGeneration' /\ Link!CommandsStayOnTheirSocket'
  <1>1. \A c \in LinkCommand : x7[c] \in Link!CommandRecord
    BY LinkParts DEF Link!TypeOK
  <1>2. CASE x7' = x7 /\ x6' = x6 /\ x4' = x4
    BY <1>1, <1>2, LinkParts DEF Link!CommandsKeepTheirGeneration, Link!CommandsStayOnTheirSocket, Link!CommandRecord, Link!Greeted
  <1>3. CASE x7' = Link!Rejected
    <2>1. \A c \in LinkCommand : x7'[c].pc # "pending"
      BY <1>1, <1>3 DEF Link!Rejected, Link!CommandRecord
    <2>2. \A c \in LinkCommand : x7'[c].pc \in {"answered", "done"} => x7'[c] = x7[c]
      BY <1>1, <1>3 DEF Link!Rejected, Link!CommandRecord
    <2> QED
      BY <1>1, <2>1, <2>2, LinkParts DEF Link!CommandsKeepTheirGeneration, Link!CommandsStayOnTheirSocket, Link!CommandRecord, Link!Greeted
  <1> QED
    BY <1>2, <1>3

(* The commands that were rejected are commands.                                        *)
LEMMA LinkRejected ==
  ASSUME Link!TypeOK
  PROVE  Link!Rejected \in [LinkCommand -> Link!CommandRecord]
  BY DEF Link!TypeOK, Link!Rejected, Link!CommandRecord

(* The cardinality of the part is that of the theorems of the library.                  *)
LEMMA LinkCardinality == \A S : Link!Cardinality(S) = Cardinality(S)
  BY Zenon DEF Link!Cardinality, Cardinality

(* The next socket is one that was not made yet.                             *)
LEMMA LinkNextSocket ==
  ASSUME Link!SocketsInOrder, Cardinality(Link!Made) < MaxSockets
  PROVE  LET s == Cardinality(Link!Made) + 1
         IN  s \in Link!Socket /\ x3[s].ext = "none" /\ Link!Made = 1 .. s - 1
  <1>1. PICK n \in 0 .. MaxSockets : Link!Made = 1 .. n
    BY DEF Link!SocketsInOrder
  <1>2. Cardinality(Link!Made) = n
    BY <1>1, FS_Interval, LinkAssumption
  <1> DEFINE s == Cardinality(Link!Made) + 1
  <1>3. s = n + 1 /\ s \in 1 .. MaxSockets /\ s \notin 1 .. n /\ n = s - 1
    BY <1>2, LinkAssumption
  <1> HIDE DEF s
  <1>4. s \in Link!Socket /\ x3[s].ext = "none"
    BY <1>1, <1>3 DEF Link!Made, Link!Socket
  <1>5. Link!Made = 1 .. s - 1
    BY <1>1, <1>3
  <1> QED
    BY <1>4, <1>5 DEF s

(* EnsureConnection keeps the invariant of Link.                                        *)
LEMMA LinkEnsureConnection ==
  ASSUME Link!LinkInv, NEW b \in Browser, Link!EnsureConnection(b)
  PROVE  Link!LinkInv'
  <1> DEFINE s == Cardinality(Link!Made) + 1
             r == [Link!NoSocket EXCEPT !.owner = b, !.ext = "connecting"]
             w == [awake |-> TRUE, socket |-> s, timer |-> FALSE]
  <1>1. s \in Link!Socket /\ x3[s].ext = "none" /\ Link!Made = 1 .. s - 1
    BY LinkParts, LinkNextSocket, LinkCardinality DEF Link!EnsureConnection
  <1>2. x3' = [x3 EXCEPT ![s] = r] /\ x1' = [x1 EXCEPT ![b] = w]
    BY LinkCardinality, Zenon DEF Link!EnsureConnection, Link!Starts
  <1>3. x2' = x2 /\ x4' = x4 /\ x5' = x5 /\ x6' = x6 /\ x7' = x7 /\ x8' = x8
    BY DEF Link!EnsureConnection, Link!relayVars
  <1>4. r \in Link!SocketRecord /\ r.owner = b /\ r.ext = "connecting" /\ r.relay = "none" /\ ~ r.hello
    BY DEF Link!SocketRecord, Link!NoSocket
  <1>5. w \in Link!WorkerRecord /\ w.socket = s /\ s # 0
    BY <1>1 DEF Link!WorkerRecord, Link!Socket
  <1> HIDE DEF s, r, w
  <1>6. Link!TypeOK'
    BY <1>1, <1>2, <1>3, <1>4, <1>5, LinkParts DEF Link!TypeOK
  <1>7. x3'[s] = r /\ \A t \in Link!Socket \ {s} : x3'[t] = x3[t]
    BY <1>1, <1>2, LinkParts DEF Link!TypeOK
  <1>8. x1'[b] = w /\ \A a \in Browser \ {b} : x1'[a] = x1[a]
    BY <1>2, LinkParts DEF Link!TypeOK
  <1>9. Link!SocketsInOrder'
    <2>1. Link!Made' = Link!Made \cup {s}
      BY <1>1, <1>4, <1>7 DEF Link!Made
    <2>2. Link!Made' = 1 .. s /\ s \in 0 .. MaxSockets
      BY <1>1, <2>1, LinkAssumption DEF Link!Socket
    <2> QED
      BY <2>2 DEF Link!SocketsInOrder
  <1>10. Link!NothingBeforeOpening'
    BY <1>4, <1>7, LinkParts DEF Link!NothingBeforeOpening
  <1>11. Link!WorkersOwnTheirSocket'
    BY <1>1, <1>4, <1>5, <1>7, <1>8, LinkParts DEF Link!WorkersOwnTheirSocket, Link!Owner, Link!TypeOK, Link!WorkerRecord
  <1>12. Link!CurrentIsGreeted'
    BY <1>1, <1>3, <1>7, LinkParts DEF Link!CurrentIsGreeted, Link!NothingBeforeOpening, Link!TypeOK
  <1>13. \A t \in Link!Socket : Link!Greeted(t) => Link!Greeted(t)' /\ x3'[t].generation = x3[t].generation
    BY <1>1, <1>7 DEF Link!Greeted, Link!Made
  <1>14. Link!CommandsKeepTheirGeneration' /\ Link!CommandsStayOnTheirSocket'
    BY <1>3, <1>13, LinkCommandsKept
  <1>15. Link!NobodyIsStranded'
    BY <1>1, <1>4, <1>5, <1>7, <1>8, LinkParts DEF Link!NobodyIsStranded, Link!WorkersOwnTheirSocket, Link!TypeOK, Link!WorkerRecord
  <1> QED
    BY <1>6, <1>9, <1>10, <1>11, <1>12, <1>14, <1>15 DEF Link!LinkInv, Link!LinkHolds

(* A socket s becomes r, and no worker moves.                                 *)
LEMMA LinkSocketMoves ==
  ASSUME Link!LinkInv, NEW s \in Link!Socket, NEW r \in Link!SocketRecord,
         x3' = [x3 EXCEPT ![s] = r], x1' = x1,
         x3[s].ext # "none", r.ext \notin {"none", "closed"} \/ r.ext = x3[s].ext, r.owner = x3[s].owner \/ r.ext = "closed",
         r.ext = "connecting" => r.relay = "none", r.relay = "none" => ~ r.hello
  PROVE  /\ Link!NothingBeforeOpening' /\ Link!WorkersOwnTheirSocket' /\ Link!NobodyIsStranded' /\ Link!SocketsInOrder'
         /\ x3' \in [Link!Socket -> Link!SocketRecord]
  <1>1. x3'[s] = r /\ \A t \in Link!Socket \ {s} : x3'[t] = x3[t]
    BY LinkParts DEF Link!TypeOK
  <1>2. x3' \in [Link!Socket -> Link!SocketRecord]
    BY LinkParts DEF Link!TypeOK
  <1>3. Link!NothingBeforeOpening'
    BY <1>1, LinkParts DEF Link!NothingBeforeOpening
  <1>4. Link!WorkersOwnTheirSocket'
    BY <1>1, LinkParts DEF Link!WorkersOwnTheirSocket, Link!Owner, Link!TypeOK, Link!WorkerRecord, Link!SocketRecord
  <1>5. Link!NobodyIsStranded'
    BY <1>1, LinkParts DEF Link!NobodyIsStranded, Link!WorkersOwnTheirSocket, Link!TypeOK, Link!WorkerRecord
  <1>6. Link!Made' = Link!Made
    BY <1>1 DEF Link!Made
  <1>7. Link!SocketsInOrder'
    BY <1>6, LinkParts DEF Link!SocketsInOrder
  <1> QED
    BY <1>2, <1>3, <1>4, <1>5, <1>7

(* The steps that move one socket and not its hello.                          *)
LEMMA LinkExtensionMoves ==
  ASSUME Link!LinkInv, NEW s \in Link!Socket, Link!OnOpen(s) \/ Link!Announced(s) \/ Link!CloseByWorker(s) \/ Link!InvalidFrame(s)
  PROVE  Link!LinkInv'
  <1>1. /\ x1' = x1 /\ x2' = x2 /\ x4' = x4 /\ x5' = x5 /\ x6' = x6 /\ x7' = x7
        /\ x8' = x8 \/ x8' = x8 + 1
    BY DEF Link!OnOpen, Link!Announced, Link!CloseByWorker, Link!InvalidFrame, Link!relayVars, Link!Faulty
  <1>2. x3[s] \in Link!SocketRecord
    BY LinkParts, LinkSocketOf
  <1>3. PICK r \in Link!SocketRecord :
           /\ x3' = [x3 EXCEPT ![s] = r] /\ r.owner = x3[s].owner /\ r.hello = x3[s].hello
           /\ r.generation = x3[s].generation /\ x3[s].ext # "none" /\ r.ext \in {"open", "closing"}
           /\ r.relay = x3[s].relay \/ (r.relay = "open" /\ x3[s].relay = "none")
    <2>1. CASE Link!OnOpen(s)
      <3> DEFINE r == [x3[s] EXCEPT !.ext = "open", !.relay = "open"]
      <3>1. x3' = [x3 EXCEPT ![s] = r] /\ x3[s].ext = "connecting"
        BY <2>1, LinkParts DEF Link!OnOpen, Link!TypeOK
      <3>2. x3[s].relay = "none"
        BY <3>1, LinkParts DEF Link!NothingBeforeOpening
      <3>3. /\ r \in Link!SocketRecord /\ r.owner = x3[s].owner /\ r.hello = x3[s].hello
            /\ r.generation = x3[s].generation /\ r.ext = "open" /\ r.relay = "open"
        BY <1>2 DEF Link!SocketRecord
      <3> HIDE DEF r
      <3> QED
        BY <3>1, <3>2, <3>3
    <2>2. CASE Link!Announced(s)
      <3> DEFINE r == [x3[s] EXCEPT !.announced = TRUE]
      <3>1. x3' = [x3 EXCEPT ![s] = r] /\ x3[s].ext = "open"
        BY <2>2, LinkParts DEF Link!Announced, Link!TypeOK
      <3>2. /\ r \in Link!SocketRecord /\ r.owner = x3[s].owner /\ r.hello = x3[s].hello
            /\ r.generation = x3[s].generation /\ r.ext = x3[s].ext /\ r.relay = x3[s].relay
        BY <1>2 DEF Link!SocketRecord
      <3> HIDE DEF r
      <3> QED
        BY <3>1, <3>2
    <2>3. CASE Link!CloseByWorker(s)
      <3> DEFINE r == [x3[s] EXCEPT !.ext = "closing"]
      <3>1. x3' = [x3 EXCEPT ![s] = r] /\ x3[s].ext \in {"connecting", "open"}
        BY <2>3, LinkParts DEF Link!CloseByWorker, Link!TypeOK
      <3>2. /\ r \in Link!SocketRecord /\ r.owner = x3[s].owner /\ r.hello = x3[s].hello
            /\ r.generation = x3[s].generation /\ r.ext = "closing" /\ r.relay = x3[s].relay
        BY <1>2 DEF Link!SocketRecord
      <3> HIDE DEF r
      <3> QED
        BY <3>1, <3>2
    <2>4. CASE Link!InvalidFrame(s)
      <3> DEFINE r == [x3[s] EXCEPT !.invalid = TRUE]
      <3>1. x3' = [x3 EXCEPT ![s] = r] /\ x3[s].ext = "open"
        BY <2>4, LinkParts DEF Link!InvalidFrame, Link!TypeOK
      <3>2. /\ r \in Link!SocketRecord /\ r.owner = x3[s].owner /\ r.hello = x3[s].hello
            /\ r.generation = x3[s].generation /\ r.ext = x3[s].ext /\ r.relay = x3[s].relay
        BY <1>2 DEF Link!SocketRecord
      <3> HIDE DEF r
      <3> QED
        BY <3>1, <3>2
    <2> QED
      BY <2>1, <2>2, <2>3, <2>4
  <1>4. r.relay = "none" => ~ r.hello
    BY <1>3, LinkParts DEF Link!NothingBeforeOpening
  <1>5. /\ Link!NothingBeforeOpening' /\ Link!WorkersOwnTheirSocket' /\ Link!NobodyIsStranded' /\ Link!SocketsInOrder'
        /\ x3' \in [Link!Socket -> Link!SocketRecord]
    BY <1>1, <1>3, <1>4, LinkSocketMoves
  <1>6. Link!TypeOK'
    BY <1>1, <1>5, LinkParts DEF Link!TypeOK
  <1>7. x3'[s] = r /\ \A t \in Link!Socket \ {s} : x3'[t] = x3[t]
    BY <1>3, LinkParts DEF Link!TypeOK
  <1>8. Link!CurrentIsGreeted'
    BY <1>1, <1>3, <1>7, LinkParts DEF Link!CurrentIsGreeted, Link!TypeOK
  <1>9. \A t \in Link!Socket : Link!Greeted(t) => Link!Greeted(t)' /\ x3'[t].generation = x3[t].generation
    BY <1>3, <1>7 DEF Link!Greeted, Link!Made
  <1>10. Link!CommandsKeepTheirGeneration' /\ Link!CommandsStayOnTheirSocket'
    BY <1>1, <1>9, LinkCommandsKept
  <1> QED
    BY <1>5, <1>6, <1>8, <1>10 DEF Link!LinkInv, Link!LinkHolds

(* The end of a socket in the extension.                                     *)
LEMMA LinkOnClose ==
  ASSUME Link!LinkInv, NEW s \in Link!Socket, Link!OnClose(s)
  PROVE  Link!LinkInv'
  <1> DEFINE q == [x3[s] EXCEPT !.ext = "closed"]
             r == Link!Forgotten(q)
             b == Link!Owner(s)
  <1>1. x3[s] \in Link!SocketRecord /\ x3[s].ext \in {"closing", "open"}
    BY LinkParts, LinkSocketOf DEF Link!OnClose
  <1>2. /\ q \in Link!SocketRecord /\ q.ext = "closed" /\ q.relay = x3[s].relay /\ q.hello = x3[s].hello
        /\ q.generation = x3[s].generation
    BY <1>1 DEF Link!SocketRecord
  <1>3. x3' = [x3 EXCEPT ![s] = r] /\ x1' = [x1 EXCEPT ![b] = IF @.socket = s THEN Link!Unlinked(@) ELSE @]
    BY LinkParts DEF Link!OnClose, Link!TypeOK
  <1>4. x2' = x2 /\ x4' = x4 /\ x5' = x5 /\ x6' = x6 /\ x7' = x7 /\ x8' = x8
    BY DEF Link!OnClose, Link!relayVars
  <1> HIDE DEF q
  <1>5. /\ r \in Link!SocketRecord /\ r.ext = "closed" /\ r.generation = x3[s].generation
        /\ r.relay = x3[s].relay \/ (r.relay = "closed" /\ x3[s].relay = "none")
        /\ r.hello => x3[s].hello
        /\ x3[s].hello => r.hello \/ r.relay = "closed"
        /\ x3[s].relay \in {"open", "closing"} => r.hello = x3[s].hello
    BY <1>2, LinkForgotten
  <1> HIDE DEF r
  <1>6. x3'[s] = r /\ \A t \in Link!Socket \ {s} : x3'[t] = x3[t]
    BY <1>3, LinkParts DEF Link!TypeOK
  <1>7. \A a \in Browser : x1'[a] = IF a = b /\ x1[a].socket = s THEN Link!Unlinked(x1[a]) ELSE x1[a]
    BY <1>3, LinkParts DEF Link!TypeOK
  <1>8. \A w \in Link!WorkerRecord :
           Link!Unlinked(w) \in Link!WorkerRecord /\ Link!Unlinked(w).socket = 0 /\ Link!Unlinked(w).timer
    BY DEF Link!Unlinked, Link!WorkerRecord
  <1>9. \A a \in Browser : /\ x1'[a] \in Link!WorkerRecord
                           /\ x1'[a].socket # s
                           /\ x1'[a] = x1[a] \/ (x1'[a].socket = 0 /\ x1'[a].timer)
    <2> TAKE a \in Browser
    <2>1. x1[a] \in Link!WorkerRecord
      BY LinkParts DEF Link!TypeOK
    <2>2. x1[a].socket = s => a = b
      BY LinkParts DEF Link!WorkersOwnTheirSocket, Link!Socket
    <2> QED
      BY <1>7, <1>8, <2>1, <2>2 DEF Link!Socket
  <1>10. Link!TypeOK'
    <2>1. x1' \in [Browser -> Link!WorkerRecord]
      BY <1>3, <1>9, LinkParts DEF Link!TypeOK
    <2> QED
      BY <1>3, <1>4, <1>5, <2>1, LinkParts DEF Link!TypeOK
  <1>11. Link!NothingBeforeOpening'
    BY <1>1, <1>5, <1>6, LinkParts DEF Link!NothingBeforeOpening
  <1>12. Link!WorkersOwnTheirSocket'
    BY <1>6, <1>9, LinkParts DEF Link!WorkersOwnTheirSocket, Link!Owner, Link!TypeOK, Link!WorkerRecord
  <1>13. Link!NobodyIsStranded'
    BY <1>6, <1>9, LinkParts DEF Link!NobodyIsStranded, Link!TypeOK, Link!WorkerRecord
  <1>14. Link!CurrentIsGreeted'
    BY <1>4, <1>5, <1>6, LinkParts DEF Link!CurrentIsGreeted, Link!TypeOK
  <1>15. \A t \in Link!Socket : LinkKept(t)
    BY <1>1, <1>5, <1>6 DEF LinkKept, Link!Greeted
  <1>16. Link!SocketsInOrder' /\ \A t \in Link!Socket : Link!Greeted(t) => Link!Greeted(t)'
    BY <1>15, LinkParts, LinkMadeKept
  <1>17. Link!CommandsKeepTheirGeneration' /\ Link!CommandsStayOnTheirSocket'
    BY <1>4, <1>15, <1>16, LinkCommandsKept DEF LinkKept
  <1> QED
    BY <1>10, <1>11, <1>12, <1>13, <1>14, <1>16, <1>17 DEF Link!LinkInv, Link!LinkHolds

(* WorkerDies keeps the invariant of Link.                                              *)
LEMMA LinkWorkerDies ==
  ASSUME Link!LinkInv, NEW b \in Browser, Link!WorkerDies(b)
  PROVE  Link!LinkInv'
  <1> DEFINE Dead(t) == t \in Link!Made /\ Link!Owner(t) = b
             q(t) == [x3[t] EXCEPT !.ext = "closed"]
  <1>1. x3' = [t \in Link!Socket |-> IF Dead(t) THEN Link!Forgotten(q(t)) ELSE x3[t]]
    BY DEF Link!WorkerDies
  <1>2. /\ x1' = [x1 EXCEPT ![b] = Link!Asleep] /\ x2' = x2 /\ x4' = x4 /\ x5' = x5 /\ x6' = x6 /\ x7' = x7
        /\ x8' = x8 + 1
    BY DEF Link!WorkerDies, Link!relayVars, Link!Faulty
  <1>3. \A t \in Link!Socket : x3[t] \in Link!SocketRecord
    BY LinkParts DEF Link!TypeOK
  <1>4. \A t \in Link!Socket :
          /\ q(t) \in Link!SocketRecord /\ q(t).ext = "closed" /\ q(t).relay = x3[t].relay
          /\ q(t).hello = x3[t].hello /\ q(t).generation = x3[t].generation
    BY <1>3 DEF Link!SocketRecord
  <1> HIDE DEF q
  <1>5. \A t \in Link!Socket : Dead(t) =>
          /\ x3'[t] \in Link!SocketRecord /\ x3'[t].ext = "closed" /\ x3'[t].generation = x3[t].generation
          /\ x3'[t].relay = x3[t].relay \/ (x3'[t].relay = "closed" /\ x3[t].relay = "none")
          /\ x3'[t].hello => x3[t].hello
          /\ x3[t].hello => x3'[t].hello \/ x3'[t].relay = "closed"
          /\ x3[t].relay \in {"open", "closing"} => x3'[t].hello = x3[t].hello
          /\ x3[t].ext # "none"
    <2> TAKE t \in Link!Socket
    <2> HAVE Dead(t)
    <2>1. x3'[t] = Link!Forgotten(q(t))
      BY <1>1
    <2>2. x3[t].ext # "none"
      BY DEF Link!Made
    <2> QED
      BY <1>4, <2>1, <2>2, LinkForgotten
  <1>6. \A t \in Link!Socket : ~ Dead(t) => x3'[t] = x3[t]
    BY <1>1
  <1>7. Link!Asleep \in Link!WorkerRecord /\ ~ Link!Asleep.awake /\ Link!Asleep.socket = 0
    BY DEF Link!Asleep, Link!WorkerRecord
  <1>8. \A a \in Browser : x1'[a] = IF a = b THEN Link!Asleep ELSE x1[a]
    BY <1>2, LinkParts DEF Link!TypeOK
  <1>9. \A a \in Browser \ {b} : x1[a].socket # 0 => x1[a].socket \in Link!Socket /\ ~ Dead(x1[a].socket)
    BY LinkParts DEF Link!WorkersOwnTheirSocket, Link!TypeOK, Link!WorkerRecord
  <1> HIDE DEF Dead
  <1>10. Link!TypeOK'
    <2>1. x3' \in [Link!Socket -> Link!SocketRecord]
      BY <1>1, <1>3, <1>5, <1>6
    <2>2. x1' \in [Browser -> Link!WorkerRecord]
      BY <1>2, <1>7, LinkParts DEF Link!TypeOK
    <2> QED
      BY <1>2, <2>1, <2>2, LinkParts DEF Link!TypeOK
  <1>11. Link!NothingBeforeOpening'
    <2> SUFFICES ASSUME NEW t \in Link!Socket
                 PROVE  /\ x3'[t].ext \in {"none", "connecting"} => x3'[t].relay = "none"
                        /\ x3'[t].relay = "none" => ~ x3'[t].hello
      BY DEF Link!NothingBeforeOpening
    <2> QED
      BY <1>5, <1>6, LinkParts DEF Link!NothingBeforeOpening
  <1>12. Link!WorkersOwnTheirSocket'
    BY <1>6, <1>7, <1>8, <1>9, LinkParts DEF Link!WorkersOwnTheirSocket, Link!Owner
  <1>13. Link!NobodyIsStranded'
    BY <1>6, <1>7, <1>8, <1>9, LinkParts DEF Link!NobodyIsStranded
  <1>14. Link!CurrentIsGreeted'
    BY <1>2, <1>5, <1>6, LinkParts DEF Link!CurrentIsGreeted, Link!TypeOK
  <1>15. \A t \in Link!Socket : LinkKept(t)
    BY <1>5, <1>6 DEF LinkKept, Link!Greeted
  <1>16. Link!SocketsInOrder' /\ \A t \in Link!Socket : Link!Greeted(t) => Link!Greeted(t)'
    BY <1>15, LinkParts, LinkMadeKept
  <1>17. Link!CommandsKeepTheirGeneration' /\ Link!CommandsStayOnTheirSocket'
    BY <1>2, <1>15, <1>16, LinkCommandsKept DEF LinkKept
  <1> QED
    BY <1>10, <1>11, <1>12, <1>13, <1>14, <1>16, <1>17 DEF Link!LinkInv, Link!LinkHolds

(* The hello of a browser: refused, or taken in place of the one there was.   *)
LEMMA LinkHello ==
  ASSUME Link!LinkInv, NEW s \in Link!Socket, Link!Hello(s)
  PROVE  Link!LinkInv'
  <1>1. x3[s] \in Link!SocketRecord /\ ~ x3[s].hello /\ x3[s].relay = "open" /\ x3[s].ext \notin {"none", "connecting"}
    BY LinkParts, LinkSocketOf DEF Link!Hello, Link!NothingBeforeOpening
  <1>2. x1' = x1 /\ x2' = x2 /\ x8' = x8
    BY DEF Link!Hello
  <1>3. s # x4 /\ ~ Link!Greeted(s)
    BY <1>1, LinkParts DEF Link!CurrentIsGreeted, Link!Greeted, Link!Socket
  <1>4. CASE Link!Outdated(s) \/ Link!Contended(s)
    <2> DEFINE r == [x3[s] EXCEPT !.hello = TRUE, !.relay = "closing"]
    <2>1. x3' = [x3 EXCEPT ![s] = r]
      BY <1>4, LinkParts DEF Link!Hello, Link!TypeOK
    <2>2. x4' = x4 /\ x6' = x6 /\ x7' = x7 /\ x5' \in {x5, x4}
      BY <1>4 DEF Link!Hello, Link!Probed
    <2>3. r \in Link!SocketRecord /\ r.ext = x3[s].ext /\ r.owner = x3[s].owner /\ r.relay = "closing"
      BY <1>1 DEF Link!SocketRecord
    <2> HIDE DEF r
    <2>4. /\ Link!NothingBeforeOpening' /\ Link!WorkersOwnTheirSocket' /\ Link!NobodyIsStranded' /\ Link!SocketsInOrder'
          /\ x3' \in [Link!Socket -> Link!SocketRecord]
      BY <1>1, <1>2, <2>1, <2>3, LinkSocketMoves
    <2>5. Link!TypeOK'
      BY <1>2, <2>2, <2>4, LinkParts DEF Link!TypeOK
    <2>6. \A t \in Link!Socket \ {s} : x3'[t] = x3[t]
      BY <2>1, LinkParts DEF Link!TypeOK
    <2>7. Link!CurrentIsGreeted'
      BY <1>3, <2>2, <2>6, LinkParts DEF Link!CurrentIsGreeted, Link!TypeOK
    <2>8. \A t \in Link!Socket : Link!Greeted(t) => Link!Greeted(t)' /\ x3'[t].generation = x3[t].generation
      BY <1>3, <2>6 DEF Link!Greeted, Link!Made
    <2>9. Link!CommandsKeepTheirGeneration' /\ Link!CommandsStayOnTheirSocket'
      BY <2>2, <2>8, LinkCommandsKept
    <2> QED
      BY <2>4, <2>5, <2>7, <2>9 DEF Link!LinkInv, Link!LinkHolds
  <1>5. CASE ~ (Link!Outdated(s) \/ Link!Contended(s))
    <2> DEFINE r == [x3[s] EXCEPT !.hello = TRUE, !.generation = x6 + 1]
               q(t) == [x3[t] EXCEPT !.relay = "closing"]
               Replaced(t) == t = x4 /\ Link!IsOpen(t)
    <2>1. x3' = [t \in Link!Socket |-> IF t = s THEN r ELSE IF Replaced(t) THEN q(t) ELSE x3[t]]
      BY <1>5 DEF Link!Hello
    <2>2. x4' = s /\ x6' = x6 + 1 /\ x5' = 0 /\ x7' = Link!Rejected
      BY <1>5 DEF Link!Hello
    <2>3. /\ r \in Link!SocketRecord /\ r.ext = x3[s].ext /\ r.owner = x3[s].owner /\ r.relay = "open"
          /\ r.hello /\ r.generation = x6 + 1
      <3>1. x6 + 1 \in Nat
        BY LinkParts DEF Link!TypeOK
      <3> QED
        BY <1>1, <3>1 DEF Link!SocketRecord
    <2>4. \A t \in Link!Socket :
            /\ q(t) \in Link!SocketRecord /\ q(t).ext = x3[t].ext /\ q(t).owner = x3[t].owner
            /\ q(t).relay = "closing" /\ q(t).hello = x3[t].hello /\ q(t).generation = x3[t].generation
      BY LinkParts DEF Link!SocketRecord, Link!TypeOK
    <2> HIDE DEF q, r, Replaced
    <2>5. \A t \in Link!Socket : x3'[t] \in Link!SocketRecord /\ x3'[t].ext = x3[t].ext /\ x3'[t].owner = x3[t].owner
      BY <2>1, <2>3, <2>4, LinkParts DEF Link!TypeOK
    <2>6. \A t \in Link!Socket \ {s} :
            /\ x3'[t].hello = x3[t].hello /\ x3'[t].generation = x3[t].generation
            /\ x3'[t].relay = x3[t].relay \/ (x3'[t].relay = "closing" /\ x3[t].relay = "open")
      <3> TAKE t \in Link!Socket \ {s}
      <3>1. CASE Replaced(t)
        BY <2>1, <2>4, <3>1 DEF Replaced, Link!IsOpen
      <3>2. CASE ~ Replaced(t)
        BY <2>1, <3>2
      <3> QED
        BY <3>1, <3>2
    <2>7. x3'[s] = r
      BY <2>1
    <2>8. Link!TypeOK'
      <3>1. x3' \in [Link!Socket -> Link!SocketRecord]
        BY <2>1, <2>5
      <3>2. x7' \in [LinkCommand -> Link!CommandRecord]
        BY <2>2, LinkRejected, LinkParts
      <3> QED
        BY <1>2, <2>2, <3>1, <3>2, LinkParts DEF Link!TypeOK
    <2>9. Link!SocketsInOrder'
      <3>1. Link!Made' = Link!Made
        BY <2>5 DEF Link!Made
      <3> QED
        BY <3>1, LinkParts DEF Link!SocketsInOrder
    <2>10. Link!NothingBeforeOpening'
      BY <1>1, <2>3, <2>5, <2>6, <2>7, LinkParts DEF Link!NothingBeforeOpening
    <2>11. Link!WorkersOwnTheirSocket'
      BY <1>2, <2>5, LinkParts DEF Link!WorkersOwnTheirSocket, Link!Owner, Link!TypeOK, Link!WorkerRecord
    <2>12. Link!NobodyIsStranded'
      BY <1>2, <2>5, LinkParts DEF Link!NobodyIsStranded, Link!TypeOK, Link!WorkerRecord
    <2>13. Link!CurrentIsGreeted'
      BY <2>2, <2>3, <2>7 DEF Link!CurrentIsGreeted
    <2>14. \A t \in Link!Socket : Link!Greeted(t) => Link!Greeted(t)' /\ x3'[t].generation = x3[t].generation
      BY <1>3, <2>5, <2>6 DEF Link!Greeted, Link!Made
    <2>15. Link!CommandsKeepTheirGeneration' /\ Link!CommandsStayOnTheirSocket'
      BY <2>2, <2>14, LinkCommandsKept
    <2> QED
      BY <2>8, <2>9, <2>10, <2>11, <2>12, <2>13, <2>15 DEF Link!LinkInv, Link!LinkHolds
  <1> QED
    BY <1>4, <1>5

(* The end of a socket in the relay.                                         *)
LEMMA LinkDisconnect ==
  ASSUME Link!LinkInv, NEW s \in Link!Socket, Link!Disconnect(s)
  PROVE  Link!LinkInv'
  <1> DEFINE q == [x3[s] EXCEPT !.relay = "closed"]
             r == Link!Forgotten(q)
  <1>1. /\ x3[s] \in Link!SocketRecord /\ x3[s].relay \in {"open", "closing"}
        /\ x3[s].ext \notin {"none", "connecting"}
    BY LinkParts, LinkSocketOf DEF Link!Disconnect, Link!NothingBeforeOpening
  <1>2. /\ q \in Link!SocketRecord /\ q.relay = "closed" /\ q.ext = x3[s].ext /\ q.owner = x3[s].owner
        /\ q.generation = x3[s].generation
    BY <1>1 DEF Link!SocketRecord
  <1>3. x3' = [x3 EXCEPT ![s] = r] /\ x1' = x1 /\ x2' = x2 /\ x6' = x6 /\ x8' = x8
    BY LinkParts DEF Link!Disconnect, Link!TypeOK
  <1>4. IF s = x4 THEN x4' = 0 /\ x5' = 0 /\ x7' = Link!Rejected ELSE x4' = x4 /\ x5' = x5 /\ x7' = x7
    BY DEF Link!Disconnect
  <1> HIDE DEF q
  <1>5. /\ r \in Link!SocketRecord /\ r.ext = x3[s].ext /\ r.relay = "closed" /\ r.generation = x3[s].generation
        /\ r.owner = x3[s].owner \/ r.ext = "closed"
    <2>1. r.relay = "closed" /\ r \in Link!SocketRecord /\ r.ext = x3[s].ext /\ r.generation = x3[s].generation
      BY <1>2, LinkForgotten
    <2>2. r = q \/ r.ext = "closed"
      BY <1>2, LinkForgotten
    <2> QED
      BY <1>2, <2>1, <2>2
  <1> HIDE DEF r
  <1>6. /\ Link!NothingBeforeOpening' /\ Link!WorkersOwnTheirSocket' /\ Link!NobodyIsStranded' /\ Link!SocketsInOrder'
        /\ x3' \in [Link!Socket -> Link!SocketRecord]
    BY <1>1, <1>3, <1>5, LinkSocketMoves
  <1>7. Link!TypeOK'
    BY <1>3, <1>4, <1>6, LinkRejected, LinkParts DEF Link!TypeOK
  <1>8. x3'[s] = r /\ \A t \in Link!Socket \ {s} : x3'[t] = x3[t]
    BY <1>3, LinkParts DEF Link!TypeOK
  <1>9. Link!CurrentIsGreeted'
    BY <1>3, <1>4, <1>8, LinkParts DEF Link!CurrentIsGreeted, Link!TypeOK
  <1>10. \A t \in Link!Socket : Link!Greeted(t) => Link!Greeted(t)' /\ x3'[t].generation = x3[t].generation
    BY <1>1, <1>5, <1>8 DEF Link!Greeted, Link!Made
  <1>11. Link!CommandsKeepTheirGeneration' /\ Link!CommandsStayOnTheirSocket'
    BY <1>3, <1>4, <1>10, LinkCommandsKept
  <1> QED
    BY <1>6, <1>7, <1>9, <1>11 DEF Link!LinkInv, Link!LinkHolds

(* The steps that leave sockets and workers alone: of the browser's network, of the probe   *)
(* and of the commands.                                                      *)
LEMMA LinkNothingMoves ==
  ASSUME Link!LinkInv, x1' = x1, x3' = x3, x4' = x4, x6' = x6
  PROVE  /\ Link!SocketsInOrder' /\ Link!NothingBeforeOpening' /\ Link!WorkersOwnTheirSocket'
         /\ Link!CurrentIsGreeted' /\ Link!NobodyIsStranded'
         /\ \A t \in Link!Socket : Link!Greeted(t) => Link!Greeted(t)' /\ x3'[t].generation = x3[t].generation
  <1>1. Link!Made' = Link!Made
    BY DEF Link!Made
  <1> QED
    BY <1>1, LinkParts
    DEF Link!SocketsInOrder, Link!NothingBeforeOpening, Link!WorkersOwnTheirSocket, Link!CurrentIsGreeted,
        Link!NobodyIsStranded, Link!Greeted, Link!Owner

(* A browser that falls silent, or hears again, keeps the invariant.                    *)
LEMMA LinkBrowserMoves ==
  ASSUME Link!LinkInv, NEW b \in Browser, Link!Silence(b) \/ Link!Hears(b)
  PROVE  Link!LinkInv'
  <1>1. x1' = x1 /\ x3' = x3 /\ x4' = x4 /\ x5' = x5 /\ x6' = x6 /\ x7' = x7
    BY DEF Link!Silence, Link!Hears, Link!relayVars
  <1>2. Link!TypeOK'
    BY <1>1, LinkParts DEF Link!TypeOK, Link!Silence, Link!Hears, Link!Faulty
  <1> QED
    BY <1>1, <1>2, LinkNothingMoves, LinkCommandsKept DEF Link!LinkInv, Link!LinkHolds

(* Pong keeps the invariant of Link.                                                    *)
LEMMA LinkPong ==
  ASSUME Link!LinkInv, Link!Pong
  PROVE  Link!LinkInv'
  <1>1. x1' = x1 /\ x2' = x2 /\ x3' = x3 /\ x4' = x4 /\ x5' = 0 /\ x6' = x6 /\ x7' = x7 /\ x8' = x8
    BY DEF Link!Pong
  <1>2. Link!TypeOK'
    BY <1>1, LinkParts DEF Link!TypeOK
  <1> QED
    BY <1>1, <1>2, LinkNothingMoves, LinkCommandsKept DEF Link!LinkInv, Link!LinkHolds

(* One socket is settled, or closed by the relay, and nothing else moves but the probe.   *)
LEMMA LinkRelayActs ==
  ASSUME Link!LinkInv, NEW s \in Link!Socket, NEW r \in Link!SocketRecord,
         x3' = [x3 EXCEPT ![s] = r], x1' = x1, x2' = x2, x4' = x4, x5' \in {0, x5}, x6' = x6, x7' = x7, x8' = x8,
         r.ext = x3[s].ext, r.owner = x3[s].owner, r.hello = x3[s].hello, r.generation = x3[s].generation,
         r.relay = x3[s].relay \/ (r.relay = "closing" /\ x3[s].relay = "open")
  PROVE  Link!LinkInv'
  <1>1. x3'[s] = r /\ \A t \in Link!Socket \ {s} : x3'[t] = x3[t]
    BY LinkParts DEF Link!TypeOK
  <1>2. \A t \in Link!Socket :
          /\ x3'[t].ext = x3[t].ext /\ x3'[t].owner = x3[t].owner /\ x3'[t].hello = x3[t].hello
          /\ x3'[t].generation = x3[t].generation
          /\ x3'[t].relay = x3[t].relay \/ (x3'[t].relay = "closing" /\ x3[t].relay = "open")
    BY <1>1
  <1>3. Link!TypeOK'
    BY LinkParts DEF Link!TypeOK
  <1>4. Link!SocketsInOrder'
    <2>1. Link!Made' = Link!Made
      BY <1>2 DEF Link!Made
    <2> QED
      BY <2>1, LinkParts DEF Link!SocketsInOrder
  <1>5. Link!NothingBeforeOpening'
    BY <1>2, LinkParts DEF Link!NothingBeforeOpening
  <1>6. Link!WorkersOwnTheirSocket'
    BY <1>2, LinkParts DEF Link!WorkersOwnTheirSocket, Link!Owner, Link!TypeOK, Link!WorkerRecord
  <1>7. Link!NobodyIsStranded'
    BY <1>2, LinkParts DEF Link!NobodyIsStranded, Link!TypeOK, Link!WorkerRecord
  <1>8. Link!CurrentIsGreeted'
    BY <1>2, LinkParts DEF Link!CurrentIsGreeted, Link!TypeOK
  <1>9. \A t \in Link!Socket : Link!Greeted(t) => Link!Greeted(t)' /\ x3'[t].generation = x3[t].generation
    BY <1>2 DEF Link!Greeted, Link!Made
  <1>10. Link!CommandsKeepTheirGeneration' /\ Link!CommandsStayOnTheirSocket'
    BY <1>9, LinkCommandsKept
  <1> QED
    BY <1>3, <1>4, <1>5, <1>6, <1>7, <1>8, <1>10 DEF Link!LinkInv, Link!LinkHolds

(* ProbeTimesOut keeps the invariant of Link.                                           *)
LEMMA LinkProbeTimesOut ==
  ASSUME Link!LinkInv, Link!ProbeTimesOut
  PROVE  Link!LinkInv'
  <1> DEFINE r == [x3[x5] EXCEPT !.relay = IF @ = "open" THEN "closing" ELSE @]
  <1>1. x5 \in Link!Socket /\ x3[x5] \in Link!SocketRecord
    BY LinkParts, LinkSocketOf DEF Link!ProbeTimesOut, Link!TypeOK
  <1>2. /\ x3' = [x3 EXCEPT ![x5] = r] /\ x1' = x1 /\ x2' = x2 /\ x4' = x4 /\ x5' = 0 /\ x6' = x6 /\ x7' = x7
        /\ x8' = x8
    BY LinkParts DEF Link!ProbeTimesOut, Link!TypeOK
  <1>3. /\ r \in Link!SocketRecord /\ r.ext = x3[x5].ext /\ r.owner = x3[x5].owner /\ r.hello = x3[x5].hello
        /\ r.generation = x3[x5].generation
        /\ r.relay = x3[x5].relay \/ (r.relay = "closing" /\ x3[x5].relay = "open")
    BY <1>1 DEF Link!SocketRecord
  <1> HIDE DEF r
  <1> QED
    BY <1>1, <1>2, <1>3, LinkRelayActs

(* The inventory of a connection is settled, or its socket closed: Settle and ReadInvalidFrame    *)
(* keep the invariant of Link.                                               *)
LEMMA LinkSettles ==
  ASSUME Link!LinkInv, NEW s \in Link!Socket, Link!Settle(s) \/ Link!ReadInvalidFrame(s)
  PROVE  Link!LinkInv'
  <1> DEFINE q == [x3[s] EXCEPT !.settled = TRUE]
             r == [x3[s] EXCEPT !.relay = IF @ = "open" THEN "closing" ELSE @]
  <1>1. x3[s] \in Link!SocketRecord
    BY LinkParts, LinkSocketOf
  <1>2. /\ x3' = [x3 EXCEPT ![s] = q] \/ x3' = [x3 EXCEPT ![s] = r]
        /\ x1' = x1 /\ x2' = x2 /\ x4' = x4 /\ x5' = x5 /\ x6' = x6 /\ x7' = x7 /\ x8' = x8
    BY LinkParts DEF Link!Settle, Link!ReadInvalidFrame, Link!ClosesAt, Link!relayVars, Link!TypeOK
  <1>3. /\ q \in Link!SocketRecord /\ q.ext = x3[s].ext /\ q.owner = x3[s].owner /\ q.hello = x3[s].hello
        /\ q.generation = x3[s].generation /\ q.relay = x3[s].relay
    BY <1>1 DEF Link!SocketRecord
  <1>4. /\ r \in Link!SocketRecord /\ r.ext = x3[s].ext /\ r.owner = x3[s].owner /\ r.hello = x3[s].hello
        /\ r.generation = x3[s].generation
        /\ r.relay = x3[s].relay \/ (r.relay = "closing" /\ x3[s].relay = "open")
    BY <1>1 DEF Link!SocketRecord
  <1> HIDE DEF q, r
  <1>5. CASE x3' = [x3 EXCEPT ![s] = q]
    BY <1>2, <1>3, <1>5, LinkRelayActs
  <1>6. CASE x3' = [x3 EXCEPT ![s] = r]
    BY <1>2, <1>4, <1>6, LinkRelayActs
  <1> QED
    BY <1>2, <1>5, <1>6

(* A command moves on: it waits on the current socket, or is answered by it.   *)
LEMMA LinkCommandMoves ==
  ASSUME Link!LinkInv, NEW c \in LinkCommand,
         \/ \E i \in BOOLEAN : Link!Begin(c, i)
         \/ Link!Send(c) \/ Link!Answer(c) \/ Link!Refuse(c) \/ Link!Resume(c) \/ Link!TimesOut(c)
  PROVE  Link!LinkInv'
  <1>1. /\ x1' = x1 /\ x2' = x2 /\ x3' = x3 /\ x4' = x4 /\ x6' = x6 /\ x5' \in {x5, x7[c].socket}
        /\ x8' = x8 \/ x8' = x8 + 1
    BY DEF Link!Begin, Link!Send, Link!Answer, Link!Refuse, Link!Resume, Link!TimesOut, Link!Faulty, Link!Probed
  <1>2. x7[c] \in Link!CommandRecord
    BY LinkParts DEF Link!TypeOK
  <1>3. PICK d \in Link!CommandRecord :
           /\ x7' = [x7 EXCEPT ![c] = d]
           /\ d.pc = "pending" => x4 # 0 /\ d.socket = x4 /\ d.generation = x6
           /\ d.pc \in {"answered", "done"} => Link!Greeted(d.socket) /\ x3[d.socket].generation = d.generation
    <2>1. ASSUME NEW i \in BOOLEAN, Link!Begin(c, i)
          PROVE  \E d \in Link!CommandRecord : x7' = [x7 EXCEPT ![c] = d] /\ d.pc = "started"
      <3> DEFINE d == [pc |-> "started", inventory |-> i, generation |-> x6, socket |-> 0]
      <3>1. x7' = [x7 EXCEPT ![c] = d]
        BY <2>1 DEF Link!Begin
      <3>2. d \in Link!CommandRecord /\ d.pc = "started"
        BY LinkParts DEF Link!TypeOK, Link!CommandRecord
      <3> QED
        BY <3>1, <3>2
    <2>2. CASE Link!Send(c)
      <3> DEFINE d == IF Link!AtGeneration(c) /\ Link!AcceptsEvents
                      THEN [x7[c] EXCEPT !.pc = "pending", !.socket = x4] ELSE [x7[c] EXCEPT !.pc = "failed"]
      <3>1. x7' = [x7 EXCEPT ![c] = d]
        BY <2>2, LinkParts DEF Link!Send, Link!To, Link!TypeOK
      <3>2. d \in Link!CommandRecord /\ d.pc \in {"pending", "failed"}
        BY <1>2, LinkParts DEF Link!TypeOK, Link!CommandRecord
      <3>3. d.pc = "pending" => x4 # 0 /\ d.socket = x4 /\ d.generation = x6
        BY <1>2 DEF Link!CommandRecord, Link!AtGeneration, Link!AcceptsEvents, Link!IsOpen
      <3> HIDE DEF d
      <3> QED
        BY <3>1, <3>2, <3>3
    <2>3. CASE Link!Answer(c)
      <3> DEFINE d == [x7[c] EXCEPT !.pc = "answered"]
      <3>1. x7' = [x7 EXCEPT ![c] = d] /\ x7[c].pc = "pending"
        BY <2>3, LinkParts DEF Link!Answer, Link!To, Link!TypeOK
      <3>2. d \in Link!CommandRecord /\ d.pc = "answered" /\ d.socket = x7[c].socket /\ d.generation = x7[c].generation
        BY <1>2 DEF Link!CommandRecord
      <3> HIDE DEF d
      <3>3. x4 # 0 /\ x7[c].socket = x4 /\ x7[c].generation = x6
        BY <3>1, LinkParts DEF Link!CommandsKeepTheirGeneration, Link!CommandsStayOnTheirSocket
      <3>4. Link!Greeted(x4) /\ x3[x4].generation = x6
        BY <3>3, LinkParts DEF Link!CurrentIsGreeted, Link!NothingBeforeOpening, Link!Greeted, Link!Made, Link!TypeOK
      <3> QED
        BY <3>1, <3>2, <3>3, <3>4
    <2>4. CASE Link!Resume(c)
      <3> DEFINE d == [x7[c] EXCEPT !.pc = IF Link!AtGeneration(c) /\ Link!AcceptsEvents THEN "done" ELSE "failed"]
      <3>1. x7' = [x7 EXCEPT ![c] = d] /\ x7[c].pc = "answered"
        BY <2>4, LinkParts DEF Link!Resume, Link!To, Link!TypeOK
      <3>2. d \in Link!CommandRecord /\ d.pc \in {"done", "failed"} /\ d.socket = x7[c].socket /\ d.generation = x7[c].generation
        BY <1>2 DEF Link!CommandRecord
      <3> HIDE DEF d
      <3> QED
        BY <3>1, <3>2, LinkParts DEF Link!CommandsKeepTheirGeneration, Link!CommandsStayOnTheirSocket
    <2>5. CASE Link!TimesOut(c) \/ Link!Refuse(c)
      <3> DEFINE d == [x7[c] EXCEPT !.pc = "failed"]
      <3>1. x7' = [x7 EXCEPT ![c] = d]
        BY <2>5, LinkParts DEF Link!TimesOut, Link!Refuse, Link!To, Link!TypeOK
      <3>2. d \in Link!CommandRecord /\ d.pc = "failed"
        BY <1>2 DEF Link!CommandRecord
      <3> HIDE DEF d
      <3> QED
        BY <3>1, <3>2
    <2> QED
      BY <2>1, <2>2, <2>3, <2>4, <2>5
  <1>4. Link!TypeOK'
    BY <1>1, <1>2, <1>3, LinkParts DEF Link!TypeOK, Link!CommandRecord
  <1>5. x7'[c] = d /\ \A e \in LinkCommand \ {c} : x7'[e] = x7[e]
    BY <1>3, LinkParts DEF Link!TypeOK
  <1>6. Link!Made' = Link!Made
    BY <1>1 DEF Link!Made
  <1>7. Link!CommandsKeepTheirGeneration'
    BY <1>1, <1>3, <1>5, <1>6, LinkParts DEF Link!CommandsKeepTheirGeneration, Link!Greeted
  <1>8. Link!CommandsStayOnTheirSocket'
    BY <1>1, <1>3, <1>5, LinkParts DEF Link!CommandsStayOnTheirSocket
  <1> QED
    BY <1>1, <1>4, <1>7, <1>8, LinkNothingMoves DEF Link!LinkInv, Link!LinkHolds

(* The first state has the invariant of Link.                                           *)
LEMMA LinkInit == Link!Init => Link!LinkInv
  <1> SUFFICES ASSUME Link!Init
               PROVE  Link!LinkInv
    OBVIOUS
  <1>1. \A s \in Link!Socket : x3[s] = Link!NoSocket
    BY DEF Link!Init
  <1>2. /\ Link!NoSocket \in Link!SocketRecord /\ Link!NoSocket.ext = "none" /\ Link!NoSocket.relay = "none"
        /\ ~ Link!NoSocket.hello
    BY DEF Link!NoSocket, Link!SocketRecord
  <1>3. Link!Asleep \in Link!WorkerRecord /\ ~ Link!Asleep.awake /\ Link!Asleep.socket = 0
    BY DEF Link!Asleep, Link!WorkerRecord
  <1>4. Link!NewCommand \in Link!CommandRecord /\ Link!NewCommand.pc = "idle"
    BY DEF Link!NewCommand, Link!CommandRecord
  <1>5. Link!TypeOK
    BY <1>2, <1>3, <1>4 DEF Link!Init, Link!TypeOK
  <1>6. Link!SocketsInOrder
    <2>1. Link!Made = 1 .. 0 /\ 0 \in 0 .. MaxSockets
      BY <1>1, <1>2, LinkAssumption DEF Link!Made
    <2> QED
      BY <2>1 DEF Link!SocketsInOrder
  <1>7. Link!NothingBeforeOpening
    BY <1>1, <1>2 DEF Link!NothingBeforeOpening
  <1>8. Link!WorkersOwnTheirSocket /\ Link!NobodyIsStranded
    BY <1>3 DEF Link!Init, Link!WorkersOwnTheirSocket, Link!NobodyIsStranded
  <1>9. Link!CurrentIsGreeted
    BY DEF Link!Init, Link!CurrentIsGreeted
  <1>10. Link!CommandsKeepTheirGeneration /\ Link!CommandsStayOnTheirSocket
    BY <1>4 DEF Link!Init, Link!CommandsKeepTheirGeneration, Link!CommandsStayOnTheirSocket
  <1> QED
    BY <1>5, <1>6, <1>7, <1>8, <1>9, <1>10 DEF Link!LinkInv, Link!LinkHolds

(* Every step keeps the invariant of Link.                                              *)
LEMMA LinkNext == Link!LinkInv /\ Link!Next => Link!LinkInv'
  BY LinkEnsureConnection, LinkWorkerDies, LinkBrowserMoves, LinkExtensionMoves, LinkOnClose, LinkHello,
     LinkDisconnect, LinkCommandMoves, LinkPong, LinkProbeTimesOut, LinkSettles
  DEF Link!Next

(* A browser that answers keeps the relay: no other hello is taken, and only a reconciliation of its    *)
(* inventory that failed or an invalid frame of its own closes its end.       *)
LEMMA LinkStepKeeps == Link!LinkInv /\ Link!Next => Link!StepKeepsAnsweringBrowser
  <1> SUFFICES ASSUME Link!LinkInv, Link!Next,
                      Link!AcceptsEvents, x3[x4].ext = "open", Link!Owner(x4) \notin x2
               PROVE  \/ x3'[x4].relay = "open" /\ x4' = x4
                      \/ x4' = x4 /\ (Link!InventoryFailed(x4) \/ x3[x4].invalid)
    BY DEF Link!StepKeepsAnsweringBrowser, Link!Answering
  <1>1. x4 \in Link!Socket /\ x3[x4] \in Link!SocketRecord /\ x3[x4].relay = "open" /\ x3[x4].hello
    BY LinkParts DEF Link!AcceptsEvents, Link!IsOpen, Link!TypeOK, Link!CurrentIsGreeted
  <1>2. ASSUME NEW s \in Link!Socket, s # x4, NEW r, x3' = [x3 EXCEPT ![s] = r], x4' = x4
        PROVE  x3'[x4].relay = "open" /\ x4' = x4
    BY <1>1, <1>2, LinkParts DEF Link!TypeOK
  <1>3. CASE x3' = x3 /\ x4' = x4
    BY <1>1, <1>3
  <1>4. ASSUME NEW b \in Browser, Link!EnsureConnection(b)
        PROVE  x3'[x4].relay = "open" /\ x4' = x4
    <2> DEFINE s == Cardinality(Link!Made) + 1
    <2>1. s \in Link!Socket /\ x3[s].ext = "none"
      BY <1>4, LinkParts, LinkNextSocket, LinkCardinality DEF Link!EnsureConnection
    <2>2. x3' = [x3 EXCEPT ![s] = [Link!NoSocket EXCEPT !.owner = b, !.ext = "connecting"]] /\ x4' = x4
      BY <1>4, LinkCardinality, Zenon DEF Link!EnsureConnection, Link!Starts, Link!relayVars
    <2> HIDE DEF s
    <2> QED
      BY <1>2, <2>1, <2>2
  <1>5. ASSUME NEW b \in Browser, Link!WorkerDies(b)
        PROVE  x3'[x4].relay = "open" /\ x4' = x4
    <2> DEFINE q == [x3[x4] EXCEPT !.ext = "closed"]
    <2>1. x4' = x4 /\ x3'[x4] \in {x3[x4], Link!Forgotten(q)}
      BY <1>1, <1>5 DEF Link!WorkerDies, Link!relayVars
    <2>2. q \in Link!SocketRecord /\ q.relay = "open"
      BY <1>1 DEF Link!SocketRecord
    <2> HIDE DEF q
    <2>3. Link!Forgotten(q) = q
      BY <2>2, LinkForgotten
    <2> QED
      BY <1>1, <2>1, <2>2, <2>3
  <1>6. ASSUME NEW s \in Link!Socket, Link!OnOpen(s)
        PROVE  x3'[x4].relay = "open" /\ x4' = x4
    BY <1>1, <1>6, LinkParts DEF Link!OnOpen, Link!relayVars, Link!TypeOK
  <1>7. ASSUME NEW s \in Link!Socket, Link!Announced(s) \/ Link!CloseByWorker(s) \/ Link!InvalidFrame(s)
        PROVE  x3'[x4].relay = "open" /\ x4' = x4
    <2>1. x4' = x4
      BY <1>7 DEF Link!Announced, Link!CloseByWorker, Link!InvalidFrame, Link!relayVars
    <2>2. x3[s] \in Link!SocketRecord
      BY LinkParts, LinkSocketOf
    <2>3. x3' = [x3 EXCEPT ![s] = [x3[s] EXCEPT !.announced = TRUE]]
            \/ x3' = [x3 EXCEPT ![s] = [x3[s] EXCEPT !.ext = "closing"]]
            \/ x3' = [x3 EXCEPT ![s] = [x3[s] EXCEPT !.invalid = TRUE]]
      BY <1>7, LinkParts DEF Link!Announced, Link!CloseByWorker, Link!InvalidFrame, Link!TypeOK
    <2>4. x3'[x4].relay = x3[x4].relay
      BY <1>1, <2>2, <2>3, LinkParts DEF Link!TypeOK, Link!SocketRecord
    <2> QED
      BY <1>1, <2>1, <2>4
  <1>8. ASSUME NEW s \in Link!Socket, Link!OnClose(s)
        PROVE  x3'[x4].relay = "open" /\ x4' = x4
    <2>1. s # x4
      BY <1>1, <1>8 DEF Link!OnClose
    <2>2. x4' = x4
      BY <1>8 DEF Link!OnClose, Link!relayVars
    <2>3. x3' = [x3 EXCEPT ![s] = Link!Forgotten([x3[s] EXCEPT !.ext = "closed"])]
      BY <1>8, LinkParts DEF Link!OnClose, Link!TypeOK
    <2> QED
      BY <1>2, <2>1, <2>2, <2>3
  <1>9. ASSUME NEW s \in Link!Socket, Link!Hello(s)
        PROVE  x3'[x4].relay = "open" /\ x4' = x4
    <2>1. s # x4
      BY <1>1, <1>9 DEF Link!Hello
    <2>2. Link!Contended(s)
      BY <2>1 DEF Link!Contended
    <2>3. x4' = x4 /\ x3' = [x3 EXCEPT ![s] = [x3[s] EXCEPT !.hello = TRUE, !.relay = "closing"]]
      BY <1>9, <2>2, LinkParts DEF Link!Hello, Link!TypeOK
    <2> QED
      BY <1>2, <2>1, <2>3
  <1>10. ASSUME NEW s \in Link!Socket, Link!Disconnect(s)
         PROVE  x3'[x4].relay = "open" /\ x4' = x4
    <2>1. s # x4
      BY <1>1, <1>10 DEF Link!Disconnect
    <2>2. x4' = x4 /\ x3' = [x3 EXCEPT ![s] = Link!Forgotten([x3[s] EXCEPT !.relay = "closed"])]
      BY <1>10, <2>1, LinkParts DEF Link!Disconnect, Link!TypeOK
    <2> QED
      BY <1>2, <2>1, <2>2
  <1>11. ASSUME Link!ProbeTimesOut
         PROVE  x3'[x4].relay = "open" /\ x4' = x4
    <2>1. x5 # x4 /\ x5 \in Link!Socket
      BY <1>11, LinkParts DEF Link!ProbeTimesOut, Link!TypeOK
    <2>2. x4' = x4 /\ x3' = [x3 EXCEPT ![x5] = [x3[x5] EXCEPT !.relay = IF @ = "open" THEN "closing" ELSE @]]
      BY <1>11, LinkParts DEF Link!ProbeTimesOut, Link!TypeOK
    <2> QED
      BY <1>2, <2>1, <2>2
  <1>12. ASSUME NEW b \in Browser, Link!Silence(b) \/ Link!Hears(b)
         PROVE  x3' = x3 /\ x4' = x4
    BY <1>12 DEF Link!Silence, Link!Hears, Link!relayVars
  <1>13. ASSUME NEW c \in LinkCommand,
                \/ \E i \in BOOLEAN : Link!Begin(c, i)
                \/ Link!Send(c) \/ Link!Answer(c) \/ Link!Refuse(c) \/ Link!Resume(c) \/ Link!TimesOut(c)
         PROVE  x3' = x3 /\ x4' = x4
    BY <1>13 DEF Link!Begin, Link!Send, Link!Answer, Link!Refuse, Link!Resume, Link!TimesOut
  <1>14. Link!Pong => x3' = x3 /\ x4' = x4
    BY DEF Link!Pong
  <1>15. ASSUME NEW s \in Link!Socket, Link!Settle(s)
         PROVE  x4' = x4 /\ (x3'[x4].relay = "open" \/ Link!InventoryFailed(x4))
    <2>1. s = x4 /\ x4' = x4 /\ ~ x3[x4].settled
      BY <1>15 DEF Link!Settle, Link!relayVars
    <2>2. CASE Link!FailedReconciliations(x6) = {}
      <3>1. x3'[x4] = [x3[x4] EXCEPT !.settled = TRUE]
        BY <1>1, <1>15, <2>1, <2>2, LinkParts DEF Link!Settle, Link!TypeOK
      <3> QED
        BY <1>1, <2>1, <3>1 DEF Link!SocketRecord
    <2>3. CASE Link!FailedReconciliations(x6) # {}
      <3>1. x3[x4].generation = x6
        BY <1>1, LinkParts DEF Link!CurrentIsGreeted, Link!Socket
      <3>2. PICK c \in LinkCommand : x7[c].inventory /\ x7[c].generation = x6 /\ x7[c].pc = "failed"
        BY <2>3 DEF Link!FailedReconciliations
      <3> QED
        BY <2>1, <3>1, <3>2 DEF Link!InventoryFailed
    <2> QED
      BY <2>2, <2>3
  <1>16. ASSUME NEW s \in Link!Socket, Link!ReadInvalidFrame(s)
         PROVE  x4' = x4 /\ x3[x4].invalid
    BY <1>16 DEF Link!ReadInvalidFrame, Link!Reads, Link!relayVars
  <1> QED
    BY <1>3, <1>4, <1>5, <1>6, <1>7, <1>8, <1>9, <1>10, <1>11, <1>12, <1>13, <1>14, <1>15, <1>16 DEF Link!Next

(* A step that changes nothing keeps the invariant of Link.                             *)
LEMMA LinkSame ==
  ASSUME Link!LinkInv, x1' = x1, x2' = x2, x3' = x3, x4' = x4, x5' = x5, x6' = x6, x7' = x7, x8' = x8
  PROVE  Link!LinkInv'
  <1>1. Link!TypeOK'
    BY LinkParts DEF Link!TypeOK
  <1>2. Link!CommandsKeepTheirGeneration' /\ Link!CommandsStayOnTheirSocket'
    BY LinkNothingMoves, LinkCommandsKept
  <1> QED
    BY <1>1, <1>2, LinkNothingMoves DEF Link!LinkInv, Link!LinkHolds

(* The parts of the invariant, to be cited together.                          *)
LEMMA CurrentParts ==
  ASSUME Current!CurrentInv
  PROVE  /\ Current!TypeOK /\ Current!AloneKeepsTheCurrent /\ Current!SettlesTheCurrent
         /\ Current!NoticeIsTrue /\ Current!EstablishedIsKnown
  BY DEF Current!CurrentInv, Current!CurrentSessionIsTheAgents

(* What the relay counts only grows: what had a type keeps it.               *)
LEMMA CurrentGrows ==
  ASSUME Current!TypeOK, x2' \in {x2, x2 + 1}
  PROVE  /\ x2' \in Nat /\ 0 .. x2 \subseteq 0 .. x2' /\ Current!CallRecord \subseteq Current!CallRecord'
         /\ x1 \in [Session -> 0 .. x2'] /\ x4 \in [McpCall -> Current!CallRecord']
         /\ x5 \in [Session -> 0 .. x2' \cup {None}]
         /\ x7 \in [given : BOOLEAN, made : BOOLEAN, knew : 0 .. x2' \cup {None}, ran : 0 .. x2', undisturbed : BOOLEAN]
  <1>1. x2 \in Nat /\ x2' \in Nat /\ 0 .. x2 \subseteq 0 .. x2'
    BY DEF Current!TypeOK
  <1>2. Current!CallRecord \subseteq Current!CallRecord'
    BY <1>1 DEF Current!CallRecord
  <1>3. x7 \in [given : BOOLEAN, made : BOOLEAN, knew : 0 .. x2 \cup {None}, ran : 0 .. x2, undisturbed : BOOLEAN]
    BY DEF Current!TypeOK
  <1>4. x7 \in [given : BOOLEAN, made : BOOLEAN, knew : 0 .. x2' \cup {None}, ran : 0 .. x2', undisturbed : BOOLEAN]
    BY <1>1, <1>3
  <1> QED
    BY <1>1, <1>2, <1>4 DEF Current!TypeOK

\* What the invariant says of the record of one call.
CurrentAlone(r) == r.alone =>
  /\ r.pc \notin {"idle", "ready"}
  /\ r.named = None /\ r.tool # "session_new" => r.id = x3.id
  /\ r.pc = "answer" /\ r.created => \A id \in Session : x5[id] # r.ran
CurrentSettling(r) ==
  /\ r.pc = "list" => r.tool \in {"session_use", "network_start"}
  /\ r.tool = "session_use" => r.named # None
  /\ r.pc \in {"settle", "create"} => r.named = None /\ r.tool = "network_start"

(* A call that is over is a record of a call.                                           *)
LEMMA CurrentRestIsACall ==
  ASSUME Current!TypeOK
  PROVE  /\ Current!Rest \in Current!CallRecord /\ ~ Current!Rest.alone /\ Current!Rest.pc = "idle"
         /\ Current!Rest.tool = "other"
  BY CurrentAssumption DEF Current!TypeOK, Current!CallRecord, Current!Rest, Current!Tool

(* The record of a call under way has a type and what the invariant says.               *)
LEMMA CurrentCall ==
  ASSUME Current!CurrentInv, NEW c \in McpCall
  PROVE  x4[c] \in Current!CallRecord /\ CurrentAlone(x4[c]) /\ CurrentSettling(x4[c])
  <1>1. x4[c] \in Current!CallRecord
    BY CurrentParts DEF Current!TypeOK
  <1>2. CurrentAlone(x4[c])
    BY CurrentParts DEF Current!AloneKeepsTheCurrent, Current!At, CurrentAlone
  <1>3. CurrentSettling(x4[c])
    BY CurrentParts DEF Current!SettlesTheCurrent, CurrentSettling
  <1> QED
    BY <1>1, <1>2, <1>3

(* A step that answers no execute leaves nothing to be true of its notice.        *)
LEMMA CurrentNoNotice ==
  /\ \A n \in Nat : Current!NoNotice \in [given : BOOLEAN, made : BOOLEAN, knew : 0 .. n \cup {None}, ran : 0 .. n, undisturbed : BOOLEAN]
  /\ Current!NoNotice.undisturbed = FALSE
  BY DEF Current!NoNotice

(* One call goes on as r, and nothing is said of the current session.         *)
LEMMA CurrentCallMoves ==
  ASSUME Current!CurrentInv, x2' \in {x2, x2 + 1}, x1' \in [Session -> 0 .. x2'], x8' \in Nat,
         NEW c \in McpCall, NEW r \in Current!CallRecord', x4' = [x4 EXCEPT ![c] = r],
         CurrentAlone(r), CurrentSettling(r), x3' = x3, x5' = x5, x6' = x6, x7' = Current!NoNotice
  PROVE  Current!CurrentInv'
  <1>1. x4'[c] = r /\ \A d \in McpCall : d # c => x4'[d] = x4[d]
    BY CurrentParts DEF Current!TypeOK
  <1>2. Current!TypeOK'
    <2>1. x2 \in Nat /\ x2' \in Nat
      BY CurrentParts DEF Current!TypeOK
    <2>2. x7' \in [given : BOOLEAN, made : BOOLEAN, knew : 0 .. x2' \cup {None}, ran : 0 .. x2', undisturbed : BOOLEAN]
      BY <2>1, CurrentNoNotice
    <2> QED
      BY <2>1, <2>2, CurrentParts, CurrentGrows DEF Current!TypeOK
  <1>3. Current!AloneKeepsTheCurrent'
    BY <1>1, CurrentParts DEF Current!AloneKeepsTheCurrent, Current!At, CurrentAlone
  <1>4. Current!SettlesTheCurrent'
    BY <1>1, CurrentParts DEF Current!SettlesTheCurrent, CurrentSettling
  <1>5. Current!NoticeIsTrue' /\ Current!EstablishedIsKnown'
    BY CurrentParts, CurrentNoNotice DEF Current!NoticeIsTrue, Current!EstablishedIsKnown
  <1> QED
    BY <1>2, <1>3, <1>4, <1>5 DEF Current!CurrentInv, Current!CurrentSessionIsTheAgents

(* One call goes on as r and says which session is current: no other is alone any more.   *)
LEMMA CurrentCallSays ==
  ASSUME Current!CurrentInv, UNCHANGED <<x1, x2, x8>>, NEW c \in McpCall, NEW r \in Current!CallRecord,
         Current!Says(c, r), CurrentAlone(r)', CurrentSettling(r),
         x3' \in [id : Session, established : BOOLEAN], x5' \in [Session -> 0 .. x2 \cup {None}], x6' \in BOOLEAN,
         x7' \in [given : BOOLEAN, made : BOOLEAN, knew : 0 .. x2 \cup {None}, ran : 0 .. x2, undisturbed : BOOLEAN],
         Current!NoticeIsTrue', Current!EstablishedIsKnown'
  PROVE  Current!CurrentInv'
  <1> DEFINE q(d) == [x4[d] EXCEPT !.alone = FALSE]
  <1>1. x4' = [d \in McpCall |-> IF d = c THEN r ELSE q(d)]
    BY DEF Current!Says
  <1>2. \A d \in McpCall :
          /\ q(d) \in Current!CallRecord /\ q(d).alone = FALSE /\ q(d).pc = x4[d].pc
          /\ q(d).tool = x4[d].tool /\ q(d).named = x4[d].named
    BY CurrentParts DEF Current!TypeOK, Current!CallRecord
  <1>3. Current!CallRecord' = Current!CallRecord
    BY DEF Current!CallRecord
  <1> HIDE DEF q
  <1>4. Current!TypeOK'
    BY <1>1, <1>2, <1>3, CurrentParts DEF Current!TypeOK
  <1>5. x4'[c] = r /\ \A d \in McpCall : d # c => x4'[d] = q(d)
    BY <1>1
  <1>6. Current!AloneKeepsTheCurrent'
    BY <1>2, <1>5 DEF Current!AloneKeepsTheCurrent, Current!At, CurrentAlone
  <1>7. Current!SettlesTheCurrent'
    BY <1>2, <1>5, CurrentParts DEF Current!SettlesTheCurrent, CurrentSettling
  <1> QED
    BY <1>4, <1>6, <1>7 DEF Current!CurrentInv, Current!CurrentSessionIsTheAgents

(* Begin keeps the invariant of Current.                                                *)
LEMMA CurrentBegin ==
  ASSUME Current!CurrentInv, NEW c \in McpCall, NEW tool \in Current!Tool, NEW named \in Session \cup {None}, Current!Begin(c, tool, named)
  PROVE  Current!CurrentInv'
  <1> DEFINE r == [Current!Rest EXCEPT !.pc = "ready", !.tool = tool, !.named = named]
  <1>1. /\ x4' = [x4 EXCEPT ![c] = r] /\ x8' \in Nat /\ x1' = x1 /\ x2' = x2
        /\ x3' = x3 /\ x5' = x5 /\ x6' = x6 /\ x7' = Current!NoNotice
    BY CurrentParts DEF Current!Begin, Current!RelayIsLeft, Current!FrontIsLeft, Current!TypeOK
  <1>2. /\ r \in Current!CallRecord /\ ~ r.alone /\ r.pc = "ready" /\ r.tool = tool /\ r.named = named
    BY CurrentParts, CurrentRestIsACall DEF Current!CallRecord
  <1>3. tool = "session_use" => named # None
    BY DEF Current!Begin
  <1> HIDE DEF r
  <1>4. CurrentAlone(r) /\ CurrentSettling(r)
    BY <1>2, <1>3 DEF CurrentAlone, CurrentSettling
  <1> QED
    BY <1>1, <1>2, <1>4, CurrentParts, CurrentGrows, CurrentCallMoves

(* Choose keeps the invariant of Current.                                               *)
LEMMA CurrentChoose ==
  ASSUME Current!CurrentInv, NEW c \in McpCall, Current!Choose(c)
  PROVE  Current!CurrentInv'
  <1>1. PICK id \in Session :
          /\ IF x4[c].named # None THEN id = x4[c].named
             ELSE IF x4[c].tool = "session_new" THEN ~ Current!Exists(id) ELSE id = x3.id
          /\ x4' = [x4 EXCEPT ![c].id = id, ![c].alone = TRUE,
                      ![c].pc = IF x4[c].tool \in {"session_use", "network_start"} THEN "list" ELSE "act"]
    BY Zenon DEF Current!Choose
  <1> DEFINE pc == IF x4[c].tool \in {"session_use", "network_start"} THEN "list" ELSE "act"
             r == [x4[c] EXCEPT !.id = id, !.alone = TRUE, !.pc = pc]
  <1>2. /\ x4' = [x4 EXCEPT ![c] = r] /\ x8' \in Nat /\ x1' = x1 /\ x2' = x2
        /\ x3' = x3 /\ x5' = x5 /\ x6' = x6 /\ x7' = Current!NoNotice
    BY <1>1, CurrentParts DEF Current!Choose, Current!RelayIsLeft, Current!FrontIsLeft, Current!TypeOK
  <1>3. x4[c] \in Current!CallRecord /\ CurrentSettling(x4[c])
    BY CurrentCall
  <1>4. /\ r \in Current!CallRecord /\ r.id = id /\ r.pc = pc /\ r.tool = x4[c].tool /\ r.named = x4[c].named
    BY <1>3 DEF Current!CallRecord
  <1> HIDE DEF r
  <1>5. CurrentAlone(r) /\ CurrentSettling(r)
    BY <1>1, <1>3, <1>4 DEF CurrentAlone, CurrentSettling
  <1> QED
    BY <1>2, <1>4, <1>5, CurrentParts, CurrentGrows, CurrentCallMoves

(* List keeps the invariant of Current.                                                 *)
LEMMA CurrentList ==
  ASSUME Current!CurrentInv, NEW c \in McpCall, Current!List(c)
  PROVE  Current!CurrentInv'
  <1>1. /\ x8' = x8 /\ x1' = x1 /\ x2' = x2 /\ x3' = x3 /\ x5' = x5 /\ x6' = x6 /\ x7' = Current!NoNotice
    BY DEF Current!List, Current!RelayIsLeft, Current!FrontIsLeft
  <1>2. x4[c] \in Current!CallRecord /\ CurrentAlone(x4[c]) /\ CurrentSettling(x4[c]) /\ x4[c].pc = "list"
        /\ x1[x4[c].id] \in 0 .. x2
    BY CurrentCall, CurrentParts DEF Current!List, Current!At, Current!TypeOK, Current!CallRecord
  <1> DEFINE n == x1[x4[c].id]
             act == [x4[c] EXCEPT !.pc = "act"]
             create == [x4[c] EXCEPT !.pc = "create"]
             settle == [x4[c] EXCEPT !.pc = "settle", !.ran = n]
             answer == [x4[c] EXCEPT !.pc = "answer", !.ran = n, !.created = FALSE]
  <1>3. \/ x4' = [x4 EXCEPT ![c] = act]
        \/ x4' = [x4 EXCEPT ![c] = create] /\ x4[c].named = None
        \/ x4' = [x4 EXCEPT ![c] = settle] /\ x4[c].named = None
        \/ x4' = [x4 EXCEPT ![c] = answer]
        \/ x4' = [x4 EXCEPT ![c] = Current!Rest]
    <2>1. /\ Current!Go(c, "act") <=> x4' = [x4 EXCEPT ![c] = act]
          /\ Current!Go(c, "create") <=> x4' = [x4 EXCEPT ![c] = create]
          /\ Current!Ran(c, n, FALSE) <=> x4' = [x4 EXCEPT ![c] = answer]
          /\ [x4 EXCEPT ![c].pc = "settle", ![c].ran = n] = [x4 EXCEPT ![c] = settle]
      BY CurrentParts DEF Current!TypeOK, Current!Go, Current!Ran
    <2> QED
      BY <2>1 DEF Current!List, Current!End
  <1>4. /\ \A r \in {act, create, settle, answer} :
             r \in Current!CallRecord /\ r.tool = x4[c].tool /\ r.named = x4[c].named /\ r.id = x4[c].id /\ r.alone = x4[c].alone
        /\ act.pc = "act" /\ create.pc = "create" /\ settle.pc = "settle" /\ answer.pc = "answer" /\ answer.created = FALSE
    <2>1. act \in Current!CallRecord /\ act.pc = "act" /\ act.tool = x4[c].tool /\ act.named = x4[c].named
          /\ act.id = x4[c].id /\ act.alone = x4[c].alone
      BY <1>2 DEF Current!CallRecord
    <2>2. create \in Current!CallRecord /\ create.pc = "create" /\ create.tool = x4[c].tool /\ create.named = x4[c].named
          /\ create.id = x4[c].id /\ create.alone = x4[c].alone
      BY <1>2 DEF Current!CallRecord
    <2>3. settle \in Current!CallRecord /\ settle.pc = "settle" /\ settle.tool = x4[c].tool /\ settle.named = x4[c].named
          /\ settle.id = x4[c].id /\ settle.alone = x4[c].alone
      BY <1>2 DEF Current!CallRecord
    <2>4. answer \in Current!CallRecord /\ answer.pc = "answer" /\ answer.tool = x4[c].tool /\ answer.named = x4[c].named
          /\ answer.id = x4[c].id /\ answer.alone = x4[c].alone /\ answer.created = FALSE
      BY <1>2 DEF Current!CallRecord
    <2> HIDE DEF act, create, settle, answer
    <2> QED
      BY <2>1, <2>2, <2>3, <2>4
  <1> HIDE DEF n, act, create, settle, answer
  <1>5. PICK r \in Current!CallRecord : x4' = [x4 EXCEPT ![c] = r] /\ CurrentAlone(r) /\ CurrentSettling(r)
    <2>1. \A r \in {act, answer} : CurrentAlone(r) /\ CurrentSettling(r)
      BY <1>2, <1>4 DEF CurrentAlone, CurrentSettling
    <2>2. x4[c].named = None => \A r \in {create, settle} : CurrentAlone(r) /\ CurrentSettling(r)
      BY <1>2, <1>4 DEF CurrentAlone, CurrentSettling
    <2>3. Current!Rest \in Current!CallRecord /\ CurrentAlone(Current!Rest) /\ CurrentSettling(Current!Rest)
      BY CurrentParts, CurrentRestIsACall DEF CurrentAlone, CurrentSettling
    <2> QED
      BY <1>3, <1>4, <2>1, <2>2, <2>3
  <1> QED
    BY <1>1, <1>5, CurrentParts, CurrentGrows, CurrentCallMoves DEF Current!TypeOK

(* A session that is made has the next number.                               *)
LEMMA CurrentBorn ==
  ASSUME Current!TypeOK, NEW id \in Session, Current!Born(id)
  PROVE  x2' = x2 + 1 /\ x2 + 1 \in Nat /\ x1' \in [Session -> 0 .. x2'] /\ x2 + 1 \in 0 .. x2' /\ x2 + 1 \notin 0 .. x2
  <1>1. x2 \in Nat /\ x2' = x2 + 1 /\ x1' = [x1 EXCEPT ![id] = x2 + 1] /\ x1 \in [Session -> 0 .. x2]
    BY DEF Current!Born, Current!TypeOK
  <1> QED
    BY <1>1

(* Create keeps the invariant of Current.                                               *)
LEMMA CurrentCreate ==
  ASSUME Current!CurrentInv, NEW c \in McpCall, Current!Create(c)
  PROVE  Current!CurrentInv'
  <1>1. x8' = x8 /\ x3' = x3 /\ x5' = x5 /\ x6' = x6 /\ x7' = Current!NoNotice
    BY DEF Current!Create, Current!FrontIsLeft
  <1>2. x4[c] \in Current!CallRecord /\ CurrentAlone(x4[c]) /\ CurrentSettling(x4[c]) /\ x4[c].pc = "create" /\ x4[c].id \in Session
    BY CurrentCall DEF Current!Create, Current!At, Current!CallRecord
  <1>3. CASE Current!End(c) /\ Current!RelayIsLeft
    <2>1. x4' = [x4 EXCEPT ![c] = Current!Rest] /\ x1' = x1 /\ x2' = x2
      BY <1>3 DEF Current!End, Current!RelayIsLeft
    <2>2. Current!Rest \in Current!CallRecord /\ CurrentAlone(Current!Rest) /\ CurrentSettling(Current!Rest)
      BY CurrentParts, CurrentRestIsACall DEF CurrentAlone, CurrentSettling
    <2> QED
      BY <1>1, <2>1, <2>2, CurrentParts, CurrentGrows, CurrentCallMoves DEF Current!TypeOK
  <1>4. CASE Current!Born(x4[c].id) /\ x4' = [x4 EXCEPT ![c].pc = "settle", ![c].ran = x2 + 1]
    <2> DEFINE r == [x4[c] EXCEPT !.pc = "settle", !.ran = x2 + 1]
    <2>1. x2' = x2 + 1 /\ x1' \in [Session -> 0 .. x2'] /\ x2 + 1 \in 0 .. x2'
      BY <1>2, <1>4, CurrentBorn, CurrentParts
    <2>2. x4' = [x4 EXCEPT ![c] = r]
      BY <1>4, CurrentParts DEF Current!TypeOK
    <2>3. x4[c] \in Current!CallRecord'
      BY <1>2, <2>1, CurrentParts, CurrentGrows
    <2>4. /\ r \in Current!CallRecord' /\ r.pc = "settle" /\ r.tool = x4[c].tool /\ r.named = x4[c].named
          /\ r.id = x4[c].id /\ r.alone = x4[c].alone
      BY <2>1, <2>3 DEF Current!CallRecord
    <2> HIDE DEF r
    <2>5. CurrentAlone(r) /\ CurrentSettling(r)
      BY <1>2, <2>4 DEF CurrentAlone, CurrentSettling
    <2> QED
      BY <1>1, <2>1, <2>2, <2>4, <2>5, CurrentParts, CurrentCallMoves DEF Current!TypeOK
  <1> QED
    BY <1>3, <1>4 DEF Current!Create

(* Settle keeps the invariant of Current.                                               *)
LEMMA CurrentSettle ==
  ASSUME Current!CurrentInv, NEW c \in McpCall, Current!Settle(c)
  PROVE  Current!CurrentInv'
  <1> DEFINE q == [x4[c] EXCEPT !.pc = "act"]
  <1>1. /\ Current!Says(c, q) /\ x6' = ~ x4[c].alone /\ x3' = [x3 EXCEPT !.established = TRUE]
        /\ x5' = [x5 EXCEPT ![x4[c].id] = x4[c].ran] /\ UNCHANGED <<x1, x2, x8>> /\ x7' = Current!NoNotice
    BY DEF Current!Settle, Current!RelayIsLeft
  <1>2. /\ x4[c] \in Current!CallRecord /\ CurrentAlone(x4[c]) /\ CurrentSettling(x4[c]) /\ x4[c].pc = "settle"
        /\ x4[c].id \in Session /\ x4[c].ran \in 0 .. x2 /\ x4[c].alone \in BOOLEAN
    BY CurrentCall DEF Current!Settle, Current!At, Current!CallRecord
  <1>3. PICK r \in Current!CallRecord :
          /\ Current!Says(c, r) /\ r.pc = "act" /\ r.tool = x4[c].tool /\ r.named = x4[c].named
          /\ r.id = x4[c].id /\ r.alone = x4[c].alone
    <2>1. /\ q \in Current!CallRecord /\ q.pc = "act" /\ q.tool = x4[c].tool /\ q.named = x4[c].named
          /\ q.id = x4[c].id /\ q.alone = x4[c].alone
      BY <1>2 DEF Current!CallRecord
    <2> HIDE DEF q
    <2> QED
      BY <1>1, <2>1
  <1> HIDE DEF q
  <1>4. x3' \in [id : Session, established : BOOLEAN] /\ x3'.id = x3.id /\ x3'.established
    BY <1>1, CurrentParts DEF Current!TypeOK
  <1>5. x5' \in [Session -> 0 .. x2 \cup {None}] /\ x5'[x4[c].id] = x4[c].ran
    BY <1>1, <1>2, CurrentParts DEF Current!TypeOK
  <1>6. CurrentAlone(r)' /\ CurrentSettling(r)
    BY <1>2, <1>3, <1>4 DEF CurrentAlone, CurrentSettling
  <1>7. Current!NoticeIsTrue'
    BY <1>1, CurrentNoNotice DEF Current!NoticeIsTrue
  <1>8. Current!EstablishedIsKnown'
    <2>1. x4[c].alone => x4[c].id = x3.id
      BY <1>2 DEF CurrentAlone, CurrentSettling
    <2>2. x4[c].ran # None
      BY <1>2, CurrentAssumption, CurrentParts DEF Current!TypeOK
    <2> QED
      BY <1>1, <1>4, <1>5, <2>1, <2>2 DEF Current!EstablishedIsKnown
  <1>9. x6' \in BOOLEAN /\ x7' \in [given : BOOLEAN, made : BOOLEAN, knew : 0 .. x2 \cup {None}, ran : 0 .. x2, undisturbed : BOOLEAN]
    BY <1>1, CurrentParts, CurrentNoNotice DEF Current!TypeOK
  <1> QED
    BY <1>1, <1>3, <1>4, <1>5, <1>6, <1>7, <1>8, <1>9, CurrentCallSays

(* Act keeps the invariant of Current.                                                  *)
LEMMA CurrentAct ==
  ASSUME Current!CurrentInv, NEW c \in McpCall, Current!Act(c)
  PROVE  Current!CurrentInv'
  <1>1. x8' = x8 /\ x3' = x3 /\ x5' = x5 /\ x6' = x6 /\ x7' = Current!NoNotice
    BY DEF Current!Act, Current!FrontIsLeft
  <1>2. x4[c] \in Current!CallRecord /\ CurrentAlone(x4[c]) /\ CurrentSettling(x4[c]) /\ x4[c].pc = "act" /\ x4[c].id \in Session
    BY CurrentCall DEF Current!Act, Current!At, Current!CallRecord
  <1> DEFINE r(n, created) == [x4[c] EXCEPT !.pc = "answer", !.ran = n, !.created = created]
  <1>3. ASSUME NEW n \in 0 .. x2', NEW created \in BOOLEAN, x2' \in {x2, x2 + 1}
        PROVE  /\ r(n, created) \in Current!CallRecord' /\ r(n, created).pc = "answer" /\ r(n, created).ran = n
               /\ r(n, created).created = created /\ r(n, created).tool = x4[c].tool /\ r(n, created).named = x4[c].named
               /\ r(n, created).id = x4[c].id /\ r(n, created).alone = x4[c].alone
    <2>1. x4[c] \in Current!CallRecord'
      BY <1>2, <1>3, CurrentParts, CurrentGrows
    <2> QED
      BY <1>3, <2>1 DEF Current!CallRecord
  <1>4. ASSUME NEW n, NEW created, Current!Ran(c, n, created)
        PROVE  x4' = [x4 EXCEPT ![c] = r(n, created)]
    BY <1>4, CurrentParts DEF Current!Ran, Current!TypeOK
  <1> HIDE DEF r
  <1>5. CASE Current!Born(x4[c].id) /\ Current!Ran(c, x2 + 1, TRUE)
    <2>1. x2' = x2 + 1 /\ x1' \in [Session -> 0 .. x2'] /\ x2 + 1 \in 0 .. x2' /\ x2 + 1 \notin 0 .. x2
      BY <1>2, <1>5, CurrentBorn, CurrentParts
    <2>2. \A id \in Session : x5[id] # x2 + 1
      <3>1. x5 \in [Session -> 0 .. x2 \cup {None}] /\ x2 + 1 \in Nat /\ None \notin Nat
        BY CurrentParts, CurrentAssumption DEF Current!TypeOK
      <3> QED
        BY <2>1, <3>1
    <2>3. /\ r(x2 + 1, TRUE) \in Current!CallRecord' /\ r(x2 + 1, TRUE).pc = "answer" /\ r(x2 + 1, TRUE).ran = x2 + 1
          /\ r(x2 + 1, TRUE).tool = x4[c].tool /\ r(x2 + 1, TRUE).named = x4[c].named
          /\ r(x2 + 1, TRUE).id = x4[c].id /\ r(x2 + 1, TRUE).alone = x4[c].alone
      BY <1>3, <2>1
    <2>4. CurrentAlone(r(x2 + 1, TRUE)) /\ CurrentSettling(r(x2 + 1, TRUE))
      BY <1>2, <2>2, <2>3 DEF CurrentAlone, CurrentSettling
    <2>5. x4' = [x4 EXCEPT ![c] = r(x2 + 1, TRUE)]
      BY <1>4, <1>5
    <2>6. x2' \in {x2, x2 + 1} /\ x8' \in Nat
      BY <1>1, <2>1, CurrentParts DEF Current!TypeOK
    <2> QED
      BY <1>1, <2>1, <2>3, <2>4, <2>5, <2>6, CurrentCallMoves
  <1>6. ASSUME NEW n \in 0 .. x2, Current!Ran(c, n, FALSE), x2' = x2, x1' \in [Session -> 0 .. x2]
        PROVE  Current!CurrentInv'
    <2>1. /\ r(n, FALSE) \in Current!CallRecord' /\ r(n, FALSE).pc = "answer" /\ r(n, FALSE).created = FALSE
          /\ r(n, FALSE).tool = x4[c].tool /\ r(n, FALSE).named = x4[c].named
          /\ r(n, FALSE).id = x4[c].id /\ r(n, FALSE).alone = x4[c].alone
      BY <1>3, <1>6
    <2>2. CurrentAlone(r(n, FALSE)) /\ CurrentSettling(r(n, FALSE))
      BY <1>2, <2>1 DEF CurrentAlone, CurrentSettling
    <2>3. x4' = [x4 EXCEPT ![c] = r(n, FALSE)]
      BY <1>4, <1>6
    <2> QED
      BY <1>1, <1>6, <2>1, <2>2, <2>3, CurrentParts, CurrentCallMoves DEF Current!TypeOK
  <1>7. CASE Current!Works(c) /\ Current!Ran(c, x1[x4[c].id], FALSE) /\ Current!RelayIsLeft
    BY <1>2, <1>6, <1>7, CurrentParts DEF Current!RelayIsLeft, Current!TypeOK
  <1>8. CASE /\ x4[c].tool = "session_delete" /\ Current!Ran(c, 0, FALSE)
             /\ x1' = [x1 EXCEPT ![x4[c].id] = 0] /\ UNCHANGED x2
    <2>1. 0 \in 0 .. x2 /\ x1' \in [Session -> 0 .. x2] /\ x2' = x2
      BY <1>2, <1>8, CurrentParts DEF Current!TypeOK
    <2> QED
      BY <1>6, <1>8, <2>1
  <1> QED
    BY <1>5, <1>7, <1>8 DEF Current!Act

(* AnswerWork keeps the invariant of Current.                                           *)
LEMMA CurrentAnswerWork ==
  ASSUME Current!CurrentInv, NEW c \in McpCall, x4[c].pc = "answer", UNCHANGED <<x1, x2, x8>>, Current!AnswerWork(c)
  PROVE  Current!CurrentInv'
  <1>1. /\ x4[c] \in Current!CallRecord /\ CurrentAlone(x4[c])
        /\ x4[c].id \in Session /\ x4[c].ran \in 0 .. x2 /\ x4[c].alone \in BOOLEAN /\ x4[c].created \in BOOLEAN
    BY CurrentCall DEF Current!CallRecord
  <1>2. /\ x3' = [id |-> x4[c].id, established |-> TRUE] /\ x5' = [x5 EXCEPT ![x4[c].id] = x4[c].ran]
        /\ x6' = FALSE /\ Current!Says(c, Current!Rest)
    BY DEF Current!AnswerWork
  <1> DEFINE n == [given |-> Current!Recreated(c), made |-> x4[c].created, knew |-> x5[x4[c].id],
                   ran |-> x4[c].ran, undisturbed |-> x4[c].alone /\ ~ x6]
  <1>3. x7' = IF x4[c].tool = "execute" /\ x4[c].named = None THEN n ELSE Current!NoNotice
    BY DEF Current!AnswerWork
  <1>4. Current!Recreated(c) \in BOOLEAN /\ (x4[c].alone /\ ~ x6) \in BOOLEAN
    BY <1>1, CurrentParts DEF Current!Recreated, Current!TypeOK
  <1>5. x5[x4[c].id] \in 0 .. x2 \cup {None}
    BY <1>1, CurrentParts DEF Current!TypeOK
  <1>6. x7' \in [given : BOOLEAN, made : BOOLEAN, knew : 0 .. x2 \cup {None}, ran : 0 .. x2, undisturbed : BOOLEAN]
    <2>1. n \in [given : BOOLEAN, made : BOOLEAN, knew : 0 .. x2 \cup {None}, ran : 0 .. x2, undisturbed : BOOLEAN]
      BY <1>1, <1>4, <1>5
    <2> HIDE DEF n
    <2> QED
      BY <1>3, <2>1, CurrentParts, CurrentNoNotice DEF Current!TypeOK
  <1>7. x3' \in [id : Session, established : BOOLEAN] /\ x5' \in [Session -> 0 .. x2 \cup {None}] /\ x6' \in BOOLEAN
    BY <1>1, <1>2, CurrentParts DEF Current!TypeOK
  <1>8. Current!NoticeIsTrue'
    <2>1. CASE ~ (x4[c].tool = "execute" /\ x4[c].named = None)
      BY <1>3, <2>1, CurrentNoNotice DEF Current!NoticeIsTrue
    <2>2. CASE x4[c].tool = "execute" /\ x4[c].named = None
      <3>1. /\ x7'.given = Current!Recreated(c) /\ x7'.made = x4[c].created /\ x7'.knew = x5[x4[c].id]
            /\ x7'.ran = x4[c].ran /\ x7'.undisturbed = (x4[c].alone /\ ~ x6)
        BY <1>3, <2>2
      <3>2. x4[c].alone => x4[c].id = x3.id /\ (x4[c].created => x5[x4[c].id] # x4[c].ran)
        BY <1>1, <2>2 DEF CurrentAlone
      <3>3. Current!Recreated(c) <=> x3.established /\ x4[c].created
        BY <2>2 DEF Current!Recreated
      <3>4. ~ x6 => (x3.established <=> x5[x3.id] # None)
        BY CurrentParts DEF Current!EstablishedIsKnown
      <3> QED
        BY <3>1, <3>2, <3>3, <3>4 DEF Current!NoticeIsTrue
    <2> QED
      BY <2>1, <2>2
  <1>9. Current!EstablishedIsKnown'
    <2>1. x5'[x4[c].id] = x4[c].ran /\ x4[c].ran # None
      BY <1>1, <1>2, CurrentAssumption, CurrentParts DEF Current!TypeOK
    <2> QED
      BY <1>2, <2>1 DEF Current!EstablishedIsKnown
  <1>10. Current!Rest \in Current!CallRecord /\ CurrentAlone(Current!Rest)' /\ CurrentSettling(Current!Rest)
    <2>1. Current!Rest \in Current!CallRecord /\ Current!Rest' = Current!Rest
      BY CurrentParts, CurrentRestIsACall DEF Current!Rest
    <2> QED
      BY <2>1, CurrentParts, CurrentRestIsACall DEF CurrentAlone, CurrentSettling
  <1> QED
    BY <1>2, <1>6, <1>7, <1>8, <1>9, <1>10, CurrentCallSays

(* AnswerDelete keeps the invariant of Current.                                         *)
LEMMA CurrentAnswerDelete ==
  ASSUME Current!CurrentInv, NEW c \in McpCall, UNCHANGED <<x1, x2, x8>>, Current!AnswerDelete(c)
  PROVE  Current!CurrentInv'
  <1>1. x4[c].id \in Session
    BY CurrentCall DEF Current!CallRecord
  <1>2. /\ x3' = [x3 EXCEPT !.established = Current!Remains(x4[c].id)] /\ x5' = [x5 EXCEPT ![x4[c].id] = None]
        /\ x6' = (x6 /\ x3.id # x4[c].id) /\ Current!Says(c, Current!Rest) /\ x7' = Current!NoNotice
    BY DEF Current!AnswerDelete
  <1>3. Current!Remains(x4[c].id) = (x3.established /\ x3.id # x4[c].id) /\ x3.established \in BOOLEAN
    BY CurrentParts DEF Current!Remains, Current!TypeOK
  <1>4. x3' \in [id : Session, established : BOOLEAN] /\ x3'.id = x3.id /\ x3'.established = (x3.established /\ x3.id # x4[c].id)
    BY <1>2, <1>3, CurrentParts DEF Current!TypeOK
  <1>5. x5' \in [Session -> 0 .. x2 \cup {None}] /\ x6' \in BOOLEAN /\ x5'[x3.id] = IF x3.id = x4[c].id THEN None ELSE x5[x3.id]
    BY <1>1, <1>2, CurrentParts DEF Current!TypeOK
  <1>6. Current!NoticeIsTrue'
    BY <1>2, CurrentNoNotice DEF Current!NoticeIsTrue
  <1>7. Current!EstablishedIsKnown'
    BY <1>2, <1>4, <1>5, CurrentParts DEF Current!EstablishedIsKnown
  <1>8. Current!Rest \in Current!CallRecord /\ CurrentAlone(Current!Rest)' /\ CurrentSettling(Current!Rest)
    <2>1. Current!Rest \in Current!CallRecord /\ Current!Rest' = Current!Rest
      BY CurrentParts, CurrentRestIsACall DEF Current!Rest
    <2> QED
      BY <2>1, CurrentParts, CurrentRestIsACall DEF CurrentAlone, CurrentSettling
  <1>9. x7' \in [given : BOOLEAN, made : BOOLEAN, knew : 0 .. x2 \cup {None}, ran : 0 .. x2, undisturbed : BOOLEAN]
    BY <1>2, CurrentParts, CurrentNoNotice DEF Current!TypeOK
  <1> QED
    BY <1>2, <1>4, <1>5, <1>6, <1>7, <1>8, <1>9, CurrentCallSays

(* A call that ends and says nothing keeps the invariant of Current.                    *)
LEMMA CurrentEnds ==
  ASSUME Current!CurrentInv, NEW c \in McpCall, Current!End(c), Current!RelayIsLeft, Current!FrontIsLeft, x8' = x8
  PROVE  Current!CurrentInv'
  <1>1. x4' = [x4 EXCEPT ![c] = Current!Rest] /\ x1' = x1 /\ x2' = x2 /\ x3' = x3 /\ x5' = x5 /\ x6' = x6 /\ x7' = Current!NoNotice
    BY DEF Current!End, Current!RelayIsLeft, Current!FrontIsLeft
  <1>2. Current!Rest \in Current!CallRecord /\ CurrentAlone(Current!Rest) /\ CurrentSettling(Current!Rest)
    BY CurrentParts, CurrentRestIsACall DEF CurrentAlone, CurrentSettling
  <1> QED
    BY <1>1, <1>2, CurrentParts, CurrentGrows, CurrentCallMoves DEF Current!TypeOK

(* Answer keeps the invariant of Current.                                               *)
LEMMA CurrentAnswer ==
  ASSUME Current!CurrentInv, NEW c \in McpCall, Current!Answer(c)
  PROVE  Current!CurrentInv'
  <1>1. x4[c].pc = "answer" /\ UNCHANGED <<x1, x2, x8>> /\ Current!RelayIsLeft
    BY DEF Current!Answer, Current!At, Current!RelayIsLeft
  <1>2. CASE Current!AnswerWork(c)
    BY <1>1, <1>2, CurrentAnswerWork
  <1>3. CASE Current!AnswerDelete(c)
    BY <1>1, <1>3, CurrentAnswerDelete
  <1>4. CASE Current!AnswerOther(c)
    BY <1>1, <1>4, CurrentEnds DEF Current!AnswerOther
  <1> QED
    BY <1>2, <1>3, <1>4 DEF Current!Answer

(* Fails keeps the invariant of Current.                                                *)
LEMMA CurrentFails ==
  ASSUME Current!CurrentInv, NEW c \in McpCall, Current!Fails(c)
  PROVE  Current!CurrentInv'
  BY CurrentEnds DEF Current!Fails

(* What others do with the sessions of the relay keeps the invariant of Current.        *)
LEMMA CurrentOthers ==
  ASSUME Current!CurrentInv, NEW id \in Session, Current!Appears(id) \/ Current!Vanishes(id)
  PROVE  Current!CurrentInv'
  <1>1. x8' = x8 /\ x3' = x3 /\ x4' = x4 /\ x5' = x5 /\ x6' = x6 /\ x7' = Current!NoNotice
    BY DEF Current!Appears, Current!Vanishes, Current!FrontIsLeft
  <1>2. x2' \in {x2, x2 + 1} /\ x1' \in [Session -> 0 .. x2']
    <2>1. CASE Current!Appears(id)
      BY <2>1, CurrentParts, CurrentBorn DEF Current!Appears
    <2>2. CASE Current!Vanishes(id)
      BY <2>2, CurrentParts DEF Current!Vanishes, Current!TypeOK
    <2> QED
      BY <2>1, <2>2
  <1>3. Current!TypeOK'
    <2>1. x2 \in Nat /\ x2' \in Nat
      BY <1>2, CurrentParts DEF Current!TypeOK
    <2>2. x7' \in [given : BOOLEAN, made : BOOLEAN, knew : 0 .. x2' \cup {None}, ran : 0 .. x2', undisturbed : BOOLEAN]
      BY <1>1, <2>1, CurrentNoNotice
    <2> QED
      BY <1>1, <1>2, <2>1, <2>2, CurrentParts, CurrentGrows DEF Current!TypeOK
  <1>4. /\ Current!AloneKeepsTheCurrent' /\ Current!SettlesTheCurrent'
        /\ Current!NoticeIsTrue' /\ Current!EstablishedIsKnown'
    BY <1>1, CurrentParts, CurrentNoNotice
    DEF Current!AloneKeepsTheCurrent, Current!At, Current!SettlesTheCurrent, Current!NoticeIsTrue, Current!EstablishedIsKnown
  <1> QED
    BY <1>3, <1>4 DEF Current!CurrentInv, Current!CurrentSessionIsTheAgents

(* The first state has the invariant of Current.                                        *)
LEMMA CurrentInitially == Current!Init => Current!CurrentInv
  <1> SUFFICES ASSUME Current!Init
               PROVE  Current!CurrentInv
    OBVIOUS
  <1>1. /\ Current!Rest \in Current!CallRecord /\ Current!Rest.pc = "idle" /\ Current!Rest.tool = "other"
        /\ ~ Current!Rest.alone
    BY CurrentAssumption DEF Current!Init, Current!CallRecord, Current!Rest, Current!Tool
  <1>2. Current!TypeOK
    <2>1. x2 = 0 /\ x1 \in [Session -> 0 .. 0] /\ x5 \in [Session -> 0 .. 0 \cup {None}]
      BY DEF Current!Init
    <2>2. x3 \in [id : Session, established : BOOLEAN]
      BY CurrentAssumption DEF Current!Init
    <2>4. x6 \in BOOLEAN /\ x8 \in Nat /\ x4 \in [McpCall -> Current!CallRecord]
      BY <1>1 DEF Current!Init
    <2>3. x7 \in [given : BOOLEAN, made : BOOLEAN, knew : 0 .. 0 \cup {None}, ran : 0 .. 0, undisturbed : BOOLEAN]
      BY DEF Current!Init, Current!NoNotice
    <2> QED
      BY <1>1, <2>1, <2>2, <2>3, <2>4 DEF Current!TypeOK
  <1>3. Current!AloneKeepsTheCurrent /\ Current!SettlesTheCurrent
    BY <1>1 DEF Current!Init, Current!AloneKeepsTheCurrent, Current!At, Current!SettlesTheCurrent
  <1>4. Current!NoticeIsTrue /\ Current!EstablishedIsKnown
    BY CurrentAssumption DEF Current!Init, Current!NoNotice, Current!NoticeIsTrue, Current!EstablishedIsKnown
  <1> QED
    BY <1>2, <1>3, <1>4 DEF Current!CurrentInv, Current!CurrentSessionIsTheAgents

(* Every step keeps the invariant of Current.                                           *)
LEMMA CurrentNext == Current!CurrentInv /\ Current!Next => Current!CurrentInv'
  BY CurrentBegin, CurrentChoose, CurrentList, CurrentCreate, CurrentSettle, CurrentAct, CurrentAnswer,
     CurrentFails, CurrentOthers
  DEF Current!Next

(* A step that changes nothing keeps the invariant of Current.                          *)
LEMMA CurrentSame ==
  ASSUME Current!CurrentInv,
         x1' = x1, x2' = x2, x3' = x3, x4' = x4, x5' = x5, x6' = x6, x7' = x7, x8' = x8
  PROVE  Current!CurrentInv'
  <1>1. Current!TypeOK'
    BY CurrentParts DEF Current!TypeOK, Current!CallRecord
  <1>2. Current!AloneKeepsTheCurrent' /\ Current!SettlesTheCurrent'
    BY CurrentParts DEF Current!AloneKeepsTheCurrent, Current!At, Current!SettlesTheCurrent
  <1>3. Current!NoticeIsTrue' /\ Current!EstablishedIsKnown'
    BY CurrentParts DEF Current!NoticeIsTrue, Current!EstablishedIsKnown
  <1> QED
    BY <1>1, <1>2, <1>3 DEF Current!CurrentInv, Current!CurrentSessionIsTheAgents

(* The parts of the invariant, to be cited together.                          *)
LEMMA StoredParts ==
  ASSUME Stored!StoredInv
  PROVE  /\ Stored!TypeOK /\ Stored!FileIsChosen /\ Stored!ProcessesAreChosen
         /\ Stored!NoCommand \in Stored!CommandRecord /\ Stored!CurrentEntries \in [Endpoint -> Session \cup {None}]
  <1>1. Stored!NoCommand \in Stored!CommandRecord
    BY StoredAssumption DEF Stored!NoCommand, Stored!CommandRecord, Stored!Command
  <1> QED
    BY <1>1 DEF Stored!StoredInv, Stored!TypeOK, Stored!CurrentEntries

(* The process of a command after its step.                                             *)
LEMMA StoredProcess ==
  ASSUME Stored!StoredInv, NEW p \in Process, NEW r, x3' = [x3 EXCEPT ![p] = r]
  PROVE  x3'[p] = r
  BY StoredParts DEF Stored!TypeOK

(* One command moves, and the other ones keep what they are about to write.   *)
LEMMA StoredCommandMoves ==
  ASSUME Stored!StoredInv, NEW p \in Process, NEW r \in Stored!CommandRecord, x3' = [x3 EXCEPT ![p] = r],
         x4 \subseteq x4',
         r.pc \in {"open", "write"} => Stored!Writes(p)',
         Stored!Stored(p)' => <<r.endpoint, r.id>> \in x4'
  PROVE  Stored!ProcessesAreChosen'
  <1>1. x3' \in [Process -> Stored!CommandRecord] /\ x3'[p] = r /\ \A q \in Process : q # p => x3'[q] = x3[q]
    BY StoredParts DEF Stored!TypeOK
  <1> QED
    BY <1>1, StoredParts DEF Stored!ProcessesAreChosen, Stored!Writes, Stored!Stored


(* Begin keeps the invariant of Stored.                                                 *)
LEMMA StoredBegin ==
  ASSUME Stored!StoredInv, NEW p \in Process, NEW op \in Stored!Command, NEW e \in Endpoint, NEW named \in Session \cup {None}, Stored!Begin(p, op, e, named)
  PROVE  Stored!StoredInv'
  <1>TypeOK. Stored!TypeOK'
    BY StoredParts, StoredAssumption DEF Stored!TypeOK, Stored!CommandRecord, Stored!Command, Stored!Begin,
      Stored!StoreIsLeft, Stored!FirstStep, Stored!NoCommand, Stored!At
  <1>FileIsChosen. Stored!FileIsChosen'
    BY StoredParts, StoredAssumption DEF Stored!ProcessesAreChosen, Stored!Stored, Stored!Writes,
      Stored!FileIsChosen, Stored!CurrentEntries, Stored!TypeOK, Stored!CommandRecord, Stored!Command,
      Stored!Begin, Stored!StoreIsLeft, Stored!FirstStep, Stored!NoCommand, Stored!At
  <1>ProcessesAreChosen. Stored!ProcessesAreChosen'
    BY StoredParts, StoredAssumption DEF Stored!ProcessesAreChosen, Stored!Stored, Stored!Writes,
      Stored!FileIsChosen, Stored!CurrentEntries, Stored!TypeOK, Stored!CommandRecord, Stored!Command,
      Stored!Begin, Stored!StoreIsLeft, Stored!FirstStep, Stored!NoCommand, Stored!At
  <1> QED
    BY <1>TypeOK, <1>FileIsChosen, <1>ProcessesAreChosen DEF Stored!StoredInv

(* Resolve keeps the invariant of Stored.                                               *)
LEMMA StoredResolve ==
  ASSUME Stored!StoredInv, NEW p \in Process, Stored!Resolve(p)
  PROVE  Stored!StoredInv'
  <1>TypeOK. Stored!TypeOK'
    BY StoredParts, StoredAssumption DEF Stored!TypeOK, Stored!CommandRecord, Stored!Command, Stored!Resolve,
      Stored!StoreIsLeft, Stored!End, Stored!NoCommand, Stored!At, Stored!CurrentEntries
  <1>FileIsChosen. Stored!FileIsChosen'
    BY StoredParts, StoredAssumption DEF Stored!ProcessesAreChosen, Stored!Stored, Stored!Writes,
      Stored!FileIsChosen, Stored!CurrentEntries, Stored!TypeOK, Stored!CommandRecord, Stored!Command,
      Stored!Resolve, Stored!StoreIsLeft, Stored!End, Stored!NoCommand, Stored!At
  <1>ProcessesAreChosen. Stored!ProcessesAreChosen'
    BY StoredParts, StoredAssumption DEF Stored!ProcessesAreChosen, Stored!Stored, Stored!Writes,
      Stored!FileIsChosen, Stored!CurrentEntries, Stored!TypeOK, Stored!CommandRecord, Stored!Command,
      Stored!Resolve, Stored!StoreIsLeft, Stored!End, Stored!NoCommand, Stored!At
  <1> QED
    BY <1>TypeOK, <1>FileIsChosen, <1>ProcessesAreChosen DEF Stored!StoredInv

(* Check keeps the invariant of Stored.                                                 *)
LEMMA StoredCheck ==
  ASSUME Stored!StoredInv, NEW p \in Process, Stored!Check(p)
  PROVE  Stored!StoredInv'
  <1>TypeOK. Stored!TypeOK'
    <2>1. [x3[p] EXCEPT !.pc = "read"] \in Stored!CommandRecord /\ [x3[p] EXCEPT !.pc = "act"] \in Stored!CommandRecord
      BY StoredParts DEF Stored!TypeOK, Stored!CommandRecord
    <2> QED
      BY <2>1, StoredParts DEF Stored!Check, Stored!End, Stored!Go, Stored!StoreIsLeft, Stored!TypeOK
  <1>FileIsChosen. Stored!FileIsChosen'
    BY StoredParts, StoredAssumption DEF Stored!ProcessesAreChosen, Stored!Stored, Stored!Writes,
      Stored!FileIsChosen, Stored!CurrentEntries, Stored!TypeOK, Stored!CommandRecord, Stored!Command,
      Stored!Check, Stored!StoreIsLeft, Stored!Go, Stored!End, Stored!NoCommand, Stored!Mine, Stored!At
  <1>ProcessesAreChosen. Stored!ProcessesAreChosen'
    <2>1. PICK r \in Stored!CommandRecord :
            /\ x3' = [x3 EXCEPT ![p] = r] /\ r.pc \notin {"open", "write"}
            /\ r = Stored!NoCommand \/ (r.named = x3[p].named /\ r.id = x3[p].id /\ r.op = x3[p].op /\ r.endpoint = x3[p].endpoint)
      <3>1. [x3[p] EXCEPT !.pc = "read"] \in Stored!CommandRecord /\ [x3[p] EXCEPT !.pc = "act"] \in Stored!CommandRecord
        BY StoredParts DEF Stored!TypeOK, Stored!CommandRecord
      <3> QED
        BY <3>1, StoredParts DEF Stored!Check, Stored!End, Stored!Go, Stored!TypeOK, Stored!CommandRecord, Stored!NoCommand
    <2>2. x4' = x4
      BY DEF Stored!Check, Stored!StoreIsLeft
    <2>4. x3' = [x3 EXCEPT ![p] = r]
      BY <2>1
    <2>3. x3'[p] = r
      BY <2>4, StoredProcess
    <2>5. Stored!Stored(p)' => <<r.endpoint, r.id>> \in x4'
      BY <2>1, <2>2, <2>3, StoredParts DEF Stored!Stored, Stored!NoCommand, Stored!ProcessesAreChosen
    <2>6. r.pc \notin {"open", "write"} /\ x4 \subseteq x4'
      BY <2>1, <2>2
    <2> QED
      BY <2>4, <2>5, <2>6, StoredCommandMoves
  <1> QED
    BY <1>TypeOK, <1>FileIsChosen, <1>ProcessesAreChosen DEF Stored!StoredInv

(* MakeSession keeps the invariant of Stored.                                           *)
LEMMA StoredMakeSession ==
  ASSUME Stored!StoredInv, NEW p \in Process, Stored!MakeSession(p)
  PROVE  Stored!StoredInv'
  <1>TypeOK. Stored!TypeOK'
    BY StoredParts, StoredAssumption DEF Stored!TypeOK, Stored!CommandRecord, Stored!Command,
      Stored!MakeSession, Stored!StoreIsLeft, Stored!End, Stored!NoCommand, Stored!Mine, Stored!At
  <1>FileIsChosen. Stored!FileIsChosen'
    BY StoredParts, StoredAssumption DEF Stored!ProcessesAreChosen, Stored!Stored, Stored!Writes,
      Stored!FileIsChosen, Stored!CurrentEntries, Stored!TypeOK, Stored!CommandRecord, Stored!Command,
      Stored!MakeSession, Stored!StoreIsLeft, Stored!End, Stored!NoCommand, Stored!Mine, Stored!At
  <1>ProcessesAreChosen. Stored!ProcessesAreChosen'
    <2>1. PICK id \in Session : x3' = [x3 EXCEPT ![p] = Stored!NoCommand] \/
                                (x3[p].op # "execute" /\ x3' = [x3 EXCEPT ![p] = [x3[p] EXCEPT !.id = id, !.pc = "read"]])
      BY StoredParts DEF Stored!MakeSession, Stored!End, Stored!TypeOK
    <2>2. [x3[p] EXCEPT !.id = id, !.pc = "read"] \in Stored!CommandRecord
      BY StoredParts DEF Stored!TypeOK, Stored!CommandRecord
    <2>3. PICK r \in Stored!CommandRecord :
            /\ x3' = [x3 EXCEPT ![p] = r] /\ r.pc \notin {"open", "write"}
            /\ r = Stored!NoCommand \/ r.op = "new"
      BY <2>1, <2>2, StoredParts DEF Stored!MakeSession, Stored!TypeOK, Stored!CommandRecord, Stored!NoCommand
    <2>5. x3' = [x3 EXCEPT ![p] = r]
      BY <2>3
    <2>4. x4' = x4 /\ x3'[p] = r
      BY <2>5, StoredProcess DEF Stored!MakeSession, Stored!StoreIsLeft
    <2>6. ~ Stored!Stored(p)' /\ x4 \subseteq x4' /\ r.pc \notin {"open", "write"}
      BY <2>3, <2>4 DEF Stored!Stored, Stored!NoCommand
    <2> QED
      BY <2>5, <2>6, StoredCommandMoves
  <1> QED
    BY <1>TypeOK, <1>FileIsChosen, <1>ProcessesAreChosen DEF Stored!StoredInv

(* DeleteSession keeps the invariant of Stored.                                         *)
LEMMA StoredDeleteSession ==
  ASSUME Stored!StoredInv, NEW p \in Process, Stored!DeleteSession(p)
  PROVE  Stored!StoredInv'
  <1>TypeOK. Stored!TypeOK'
    BY StoredParts, StoredAssumption DEF Stored!TypeOK, Stored!CommandRecord, Stored!Command,
      Stored!DeleteSession, Stored!StoreIsLeft, Stored!Go, Stored!At
  <1>FileIsChosen. Stored!FileIsChosen'
    BY StoredParts, StoredAssumption DEF Stored!ProcessesAreChosen, Stored!Stored, Stored!Writes,
      Stored!FileIsChosen, Stored!CurrentEntries, Stored!TypeOK, Stored!CommandRecord, Stored!Command,
      Stored!DeleteSession, Stored!StoreIsLeft, Stored!Go, Stored!At
  <1>ProcessesAreChosen. Stored!ProcessesAreChosen'
    BY StoredParts, StoredAssumption DEF Stored!ProcessesAreChosen, Stored!Stored, Stored!Writes,
      Stored!FileIsChosen, Stored!CurrentEntries, Stored!TypeOK, Stored!CommandRecord, Stored!Command,
      Stored!DeleteSession, Stored!StoreIsLeft, Stored!Go, Stored!At
  <1> QED
    BY <1>TypeOK, <1>FileIsChosen, <1>ProcessesAreChosen DEF Stored!StoredInv

(* Compare keeps the invariant of Stored.                                               *)
LEMMA StoredCompare ==
  ASSUME Stored!StoredInv, NEW p \in Process, Stored!Compare(p)
  PROVE  Stored!StoredInv'
  <1>TypeOK. Stored!TypeOK'
    <2>1. [x3[p] EXCEPT !.pc = "read"] \in Stored!CommandRecord
      BY StoredParts DEF Stored!TypeOK, Stored!CommandRecord
    <2> QED
      BY <2>1, StoredParts DEF Stored!Compare, Stored!End, Stored!Go, Stored!StoreIsLeft, Stored!TypeOK
  <1>FileIsChosen. Stored!FileIsChosen'
    BY StoredParts, StoredAssumption DEF Stored!ProcessesAreChosen, Stored!Stored, Stored!Writes,
      Stored!FileIsChosen, Stored!CurrentEntries, Stored!TypeOK, Stored!CommandRecord, Stored!Command,
      Stored!Compare, Stored!StoreIsLeft, Stored!End, Stored!NoCommand, Stored!Go, Stored!At
  <1>ProcessesAreChosen. Stored!ProcessesAreChosen'
    <2>1. PICK r \in Stored!CommandRecord :
            /\ x3' = [x3 EXCEPT ![p] = r] /\ r.pc \notin {"open", "write"}
            /\ r = Stored!NoCommand \/ (r.named = x3[p].named /\ r.id = x3[p].id /\ r.op = x3[p].op /\ r.endpoint = x3[p].endpoint)
      <3>1. [x3[p] EXCEPT !.pc = "read"] \in Stored!CommandRecord /\ [x3[p] EXCEPT !.pc = "act"] \in Stored!CommandRecord
        BY StoredParts DEF Stored!TypeOK, Stored!CommandRecord
      <3> QED
        BY <3>1, StoredParts DEF Stored!Compare, Stored!End, Stored!Go, Stored!TypeOK, Stored!CommandRecord, Stored!NoCommand
    <2>2. x4' = x4
      BY DEF Stored!Compare, Stored!StoreIsLeft
    <2>4. x3' = [x3 EXCEPT ![p] = r]
      BY <2>1
    <2>3. x3'[p] = r
      BY <2>4, StoredProcess
    <2>5. Stored!Stored(p)' => <<r.endpoint, r.id>> \in x4'
      BY <2>1, <2>2, <2>3, StoredParts DEF Stored!Stored, Stored!NoCommand, Stored!ProcessesAreChosen
    <2>6. r.pc \notin {"open", "write"} /\ x4 \subseteq x4'
      BY <2>1, <2>2
    <2> QED
      BY <2>4, <2>5, <2>6, StoredCommandMoves
  <1> QED
    BY <1>TypeOK, <1>FileIsChosen, <1>ProcessesAreChosen DEF Stored!StoredInv

(* ReadToWrite keeps the invariant of Stored.                                           *)
LEMMA StoredReadToWrite ==
  ASSUME Stored!StoredInv, NEW p \in Process, Stored!ReadToWrite(p)
  PROVE  Stored!StoredInv'
  <1>TypeOK. Stored!TypeOK'
    BY StoredParts, StoredAssumption DEF Stored!TypeOK, Stored!CommandRecord, Stored!Command,
      Stored!ReadToWrite, Stored!StoreIsLeft, Stored!CurrentEntries, Stored!End, Stored!NoCommand, Stored!At
  <1>FileIsChosen. Stored!FileIsChosen'
    BY StoredParts, StoredAssumption DEF Stored!ProcessesAreChosen, Stored!Stored, Stored!Writes,
      Stored!FileIsChosen, Stored!CurrentEntries, Stored!TypeOK, Stored!CommandRecord, Stored!Command,
      Stored!ReadToWrite, Stored!StoreIsLeft, Stored!End, Stored!NoCommand, Stored!At
  <1>ProcessesAreChosen. Stored!ProcessesAreChosen'
    <2> DEFINE entries == [Stored!CurrentEntries EXCEPT ![x3[p].endpoint] = IF x3[p].op = "delete" THEN None ELSE x3[p].id]
               r == [x3[p] EXCEPT !.pc = "open", !.entries = entries]
    <2>1. entries \in [Endpoint -> Session \cup {None}] /\ x3[p] \in Stored!CommandRecord
      BY StoredParts DEF Stored!TypeOK, Stored!CommandRecord
    <2>2. \A e \in Endpoint : entries[e] # None =>
            \/ <<e, entries[e]>> \in x4
            \/ e = x3[p].endpoint /\ x3[p].op # "delete" /\ entries[e] = x3[p].id
      BY <2>1, StoredParts DEF Stored!FileIsChosen
    <2>3. x4' = x4 /\ (x3' = [x3 EXCEPT ![p] = Stored!NoCommand] \/ x3' = [x3 EXCEPT ![p] = r])
      BY StoredParts DEF Stored!ReadToWrite, Stored!End, Stored!StoreIsLeft, Stored!TypeOK
    <2> HIDE DEF entries
    <2>4. /\ r \in Stored!CommandRecord /\ r.entries = entries /\ r.op = x3[p].op /\ r.endpoint = x3[p].endpoint
          /\ r.id = x3[p].id /\ r.named = x3[p].named
      BY <2>1 DEF Stored!CommandRecord
    <2> HIDE DEF r
    <2>5. CASE x3' = [x3 EXCEPT ![p] = Stored!NoCommand]
      <3>1. x3'[p] = Stored!NoCommand /\ Stored!NoCommand.pc = "idle" /\ Stored!NoCommand.op = "use"
        BY <2>5, StoredParts DEF Stored!TypeOK, Stored!NoCommand
      <3> QED
        BY <2>3, <2>5, <3>1, StoredParts, StoredCommandMoves DEF Stored!Stored
    <2>6. CASE x3' = [x3 EXCEPT ![p] = r]
      <3>1. x3'[p] = r
        BY <2>4, <2>6, StoredParts DEF Stored!TypeOK
      <3>2. Stored!Writes(p)'
        BY <2>2, <2>3, <2>4, <3>1 DEF Stored!Writes
      <3>3. Stored!Stored(p)' => <<r.endpoint, r.id>> \in x4'
        BY <2>3, <2>4, <3>1, StoredParts DEF Stored!Stored, Stored!ProcessesAreChosen
      <3> QED
        BY <2>3, <2>4, <2>6, <3>2, <3>3, StoredParts, StoredCommandMoves
    <2> QED
      BY <2>3, <2>5, <2>6
  <1> QED
    BY <1>TypeOK, <1>FileIsChosen, <1>ProcessesAreChosen DEF Stored!StoredInv

(* OpenFile keeps the invariant of Stored.                                              *)
LEMMA StoredOpenFile ==
  ASSUME Stored!StoredInv, NEW p \in Process, Stored!OpenFile(p)
  PROVE  Stored!StoredInv'
  <1>TypeOK. Stored!TypeOK'
    <2>1. [x3[p] EXCEPT !.pc = "write"] \in Stored!CommandRecord
      BY StoredParts DEF Stored!TypeOK, Stored!CommandRecord
    <2>2. x2' \in [whole : BOOLEAN, legacy : Session \cup {None}, entries : [Endpoint -> Session \cup {None}]]
      BY StoredParts DEF Stored!OpenFile, Stored!TypeOK
    <2> QED
      BY <2>1, <2>2, StoredParts DEF Stored!OpenFile, Stored!Go, Stored!TypeOK
  <1>FileIsChosen. Stored!FileIsChosen'
    BY StoredParts, StoredAssumption DEF Stored!ProcessesAreChosen, Stored!Stored, Stored!Writes,
      Stored!FileIsChosen, Stored!CurrentEntries, Stored!TypeOK, Stored!CommandRecord, Stored!Command,
      Stored!OpenFile, Stored!Go, Stored!At
  <1>ProcessesAreChosen. Stored!ProcessesAreChosen'
    BY StoredParts, StoredAssumption DEF Stored!ProcessesAreChosen, Stored!Stored, Stored!Writes,
      Stored!FileIsChosen, Stored!CurrentEntries, Stored!TypeOK, Stored!CommandRecord, Stored!Command,
      Stored!OpenFile, Stored!Go, Stored!At
  <1> QED
    BY <1>TypeOK, <1>FileIsChosen, <1>ProcessesAreChosen DEF Stored!StoredInv

(* WriteFile keeps the invariant of Stored.                                             *)
LEMMA StoredWriteFile ==
  ASSUME Stored!StoredInv, NEW p \in Process, Stored!WriteFile(p)
  PROVE  Stored!StoredInv'
  <1>TypeOK. Stored!TypeOK'
    <2>1. x3[p].entries \in [Endpoint -> Session \cup {None}]
      BY StoredParts DEF Stored!TypeOK, Stored!CommandRecord
    <2>2. PICK whole \in BOOLEAN : x2' = [whole |-> whole, legacy |-> None, entries |-> x3[p].entries]
      BY StoredParts DEF Stored!WriteFile, Stored!TypeOK
    <2> QED
      BY <2>1, <2>2, StoredParts DEF Stored!WriteFile, Stored!End, Stored!TypeOK
  <1>FileIsChosen. Stored!FileIsChosen'
    <2>1. x2'.entries = x3[p].entries /\ x2'.legacy = None
      BY DEF Stored!WriteFile
    <2>2. \A e \in Endpoint : Stored!CurrentEntries'[e] = x3[p].entries[e] \/ Stored!CurrentEntries'[e] = None
      BY <2>1 DEF Stored!CurrentEntries
    <2>3. /\ x4 \subseteq x4'
          /\ x3[p].op # "delete" => <<x3[p].endpoint, x3[p].id>> \in x4'
      BY DEF Stored!WriteFile
    <2>4. Stored!Writes(p)
      BY StoredParts DEF Stored!WriteFile, Stored!At, Stored!ProcessesAreChosen
    <2>5. \A e \in Endpoint : x3[p].entries[e] # None => <<e, x3[p].entries[e]>> \in x4'
      BY <2>3, <2>4 DEF Stored!Writes
    <2> QED
      BY <2>2, <2>5 DEF Stored!FileIsChosen
  <1>ProcessesAreChosen. Stored!ProcessesAreChosen'
    BY StoredParts, StoredAssumption DEF Stored!ProcessesAreChosen, Stored!Stored, Stored!Writes,
      Stored!FileIsChosen, Stored!CurrentEntries, Stored!TypeOK, Stored!CommandRecord, Stored!Command,
      Stored!WriteFile, Stored!End, Stored!NoCommand, Stored!At
  <1> QED
    BY <1>TypeOK, <1>FileIsChosen, <1>ProcessesAreChosen DEF Stored!StoredInv

(* Ends keeps the invariant of Stored.                                                  *)
LEMMA StoredEnds ==
  ASSUME Stored!StoredInv, NEW p \in Process, Stored!Ends(p)
  PROVE  Stored!StoredInv'
  <1>TypeOK. Stored!TypeOK'
    BY StoredParts, StoredAssumption DEF Stored!TypeOK, Stored!CommandRecord, Stored!Command, Stored!Ends,
      Stored!StoreIsLeft, Stored!End, Stored!NoCommand, Stored!At
  <1>FileIsChosen. Stored!FileIsChosen'
    BY StoredParts, StoredAssumption DEF Stored!ProcessesAreChosen, Stored!Stored, Stored!Writes,
      Stored!FileIsChosen, Stored!CurrentEntries, Stored!TypeOK, Stored!CommandRecord, Stored!Command,
      Stored!Ends, Stored!StoreIsLeft, Stored!End, Stored!NoCommand, Stored!At
  <1>ProcessesAreChosen. Stored!ProcessesAreChosen'
    BY StoredParts, StoredAssumption DEF Stored!ProcessesAreChosen, Stored!Stored, Stored!Writes,
      Stored!FileIsChosen, Stored!CurrentEntries, Stored!TypeOK, Stored!CommandRecord, Stored!Command,
      Stored!Ends, Stored!StoreIsLeft, Stored!End, Stored!NoCommand, Stored!At
  <1> QED
    BY <1>TypeOK, <1>FileIsChosen, <1>ProcessesAreChosen DEF Stored!StoredInv

(* The first state has the invariant of Stored.                                         *)
LEMMA StoredInitially == Stored!Init => Stored!StoredInv
  <1> SUFFICES ASSUME Stored!Init
               PROVE  Stored!StoredInv
    OBVIOUS
  <1>1. Stored!NoCommand \in Stored!CommandRecord /\ Stored!NoCommand.pc = "idle" /\ Stored!NoCommand.op = "use"
    BY StoredAssumption DEF Stored!NoCommand, Stored!CommandRecord, Stored!Command
  <1>2. Stored!TypeOK /\ Stored!ProcessesAreChosen
    BY <1>1 DEF Stored!Init, Stored!TypeOK, Stored!ProcessesAreChosen, Stored!Stored
  <1>3. Stored!FileIsChosen
    BY DEF Stored!Init, Stored!FileIsChosen, Stored!CurrentEntries
  <1> QED
    BY <1>2, <1>3 DEF Stored!StoredInv

(* Every step keeps the invariant of Stored.                                            *)
LEMMA StoredNext == Stored!StoredInv /\ Stored!Next => Stored!StoredInv'
  BY StoredBegin, StoredResolve, StoredCheck, StoredMakeSession, StoredDeleteSession, StoredCompare,
     StoredReadToWrite, StoredOpenFile, StoredWriteFile, StoredEnds
  DEF Stored!Next

(* A step that changes nothing keeps the invariant of Stored.                           *)
LEMMA StoredSame ==
  ASSUME Stored!StoredInv, x1' = x1, x2' = x2, x3' = x3, x4' = x4, x5' = x5
  PROVE  Stored!StoredInv'
  BY StoredParts DEF Stored!StoredInv, Stored!TypeOK, Stored!FileIsChosen, Stored!CurrentEntries, Stored!ProcessesAreChosen,
                     Stored!Writes, Stored!Stored

(* What the invariant of Stored says of the current session.                            *)
LEMMA StoredIsChosen == Stored!StoredInv => Stored!StoredSessionsAreTheirEndpoints
  BY StoredParts DEF Stored!StoredSessionsAreTheirEndpoints, Stored!FileIsChosen, Stored!ProcessesAreChosen
(* The parts of the invariant, to be cited together.                          *)
LEMMA AgentsParts ==
  ASSUME Agents!AgentsInv
  PROVE  /\ Agents!TypeOK /\ Agents!OneCallOfAKey /\ Agents!OwnersHaveTheFile
         /\ Agents!CallsSeeTheirMapping /\ Agents!AnsweredSessionIsKept
         /\ \A c \in AgentCall : x1[c] \in Agents!CallRecord /\ KeyOf[c] \in AgentKey
  BY AgentsAssumption DEF Agents!AgentsInv, Agents!TypeOK

(* The relay only makes new sessions: what had a type keeps it.              *)
LEMMA AgentsGrows ==
  ASSUME Agents!TypeOK, x5'.created \in {x5.created, x5.created + 1}
  PROVE  /\ x5'.created \in Nat /\ Agents!Born \subseteq Agents!Born' /\ Agents!CallRecord \subseteq Agents!CallRecord'
         /\ x1 \in [AgentCall -> Agents!CallRecord']
         /\ x3 \in [AgentKey -> Agents!Born'] /\ x6 \in [AgentKey -> Agents!Born']
  <1>1. x5.created \in Nat /\ x5'.created \in Nat /\ Agents!Born \subseteq Agents!Born'
    BY DEF Agents!TypeOK, Agents!Born
  <1>2. Agents!CallRecord \subseteq Agents!CallRecord'
    BY <1>1 DEF Agents!CallRecord
  <1> QED
    BY <1>1, <1>2 DEF Agents!TypeOK

(* One call moves.                                                           *)
LEMMA AgentsCallMoves ==
  ASSUME Agents!TypeOK, x5'.created \in {x5.created, x5.created + 1},
         NEW c \in AgentCall, NEW r \in Agents!CallRecord', x1' = [x1 EXCEPT ![c] = r]
  PROVE  x1' \in [AgentCall -> Agents!CallRecord'] /\ x1'[c] = r /\ \A d \in AgentCall : d # c => x1'[d] = x1[d]
  BY AgentsGrows DEF Agents!TypeOK


(* Begin keeps the invariant of Agents.                                                 *)
LEMMA AgentsBegin ==
  ASSUME Agents!AgentsInv, NEW c \in AgentCall, NEW op \in {"execute", "reset"}, Agents!Begin(c, op)
  PROVE  Agents!AgentsInv'
  <1> DEFINE r == [x1[c] EXCEPT !.pc = "queued", !.op = op]
  <1>1. r \in Agents!CallRecord' /\ r.pc = "queued"
    <2>1. x5'.created \in {x5.created, x5.created + 1}
      BY DEF Agents!Begin
    <2>2. x1[c] \in Agents!CallRecord' /\ KeyOf[c] \in AgentKey /\ x3 \in [AgentKey -> Agents!Born']
      BY <2>1, AgentsParts, AgentsGrows
    <2> QED
      BY <2>2 DEF Agents!CallRecord, Agents!Active, Agents!Waiting, Agents!Inside
  <1>2. x1' = [x1 EXCEPT ![c] = r] /\ x3' = x3 /\ x4' = x4 /\ x5' = x5 /\ x6' = x6 /\ x7' = x7
            /\ x1[c].pc = "idle" /\ x2' = [x2 EXCEPT ![KeyOf[c]] = @ \cup {c}]
    BY AgentsParts DEF Agents!Begin, Agents!TypeOK
  <1> HIDE DEF r
  <1>3. x1' \in [AgentCall -> Agents!CallRecord'] /\ x1'[c] = r /\ \A d \in AgentCall : d # c => x1'[d] = x1[d]
    BY <1>1, <1>2, AgentsParts, AgentsCallMoves
  <1>TypeOK. Agents!TypeOK'
    BY <1>1, <1>2, <1>3, AgentsParts, AgentsGrows DEF Agents!TypeOK
  <1>OneCallOfAKey. Agents!OneCallOfAKey'
    BY <1>1, <1>2, <1>3, AgentsParts DEF Agents!OneCallOfAKey, Agents!Active, Agents!Waiting, Agents!Inside,
      Agents!TypeOK
  <1>OwnersHaveTheFile. Agents!OwnersHaveTheFile'
    BY <1>1, <1>2, <1>3, AgentsParts DEF Agents!OwnersHaveTheFile, Agents!AtWork, Agents!Entry, Agents!Active,
      Agents!Waiting, Agents!Inside, Agents!OneCallOfAKey, Agents!TypeOK
  <1>CallsSeeTheirMapping. Agents!CallsSeeTheirMapping'
    BY <1>1, <1>2, <1>3, AgentsParts DEF Agents!CallsSeeTheirMapping, Agents!Active, Agents!Waiting,
      Agents!Inside, Agents!OneCallOfAKey, Agents!OwnersHaveTheFile, Agents!AtWork, Agents!Entry,
      Agents!AnsweredSessionIsKept, Agents!TypeOK, Agents!Born
  <1>AnsweredSessionIsKept. Agents!AnsweredSessionIsKept'
    BY <1>1, <1>2, <1>3, AgentsParts DEF Agents!AnsweredSessionIsKept, Agents!CallsSeeTheirMapping,
      Agents!Active, Agents!Waiting, Agents!Inside, Agents!OwnersHaveTheFile, Agents!AtWork, Agents!Entry,
      Agents!TypeOK, Agents!Born, Agents!OneCallOfAKey
  <1> QED
    BY <1>TypeOK, <1>OneCallOfAKey, <1>OwnersHaveTheFile, <1>CallsSeeTheirMapping, <1>AnsweredSessionIsKept DEF Agents!AgentsInv

(* Lock keeps the invariant of Agents.                                                  *)
LEMMA AgentsLock ==
  ASSUME Agents!AgentsInv, NEW c \in AgentCall, Agents!Lock(c)
  PROVE  Agents!AgentsInv'
  <1> DEFINE r == [x1[c] EXCEPT !.pc = IF x4.held THEN "stat" ELSE "load"]
  <1>1. r \in Agents!CallRecord' /\ r.pc = (IF x4.held THEN "stat" ELSE "load") /\ r.op = x1[c].op /\ r.session = x1[c].session /\ r.entry = x1[c].entry /\ r.loaded = x1[c].loaded
    <2>1. x5'.created \in {x5.created, x5.created + 1}
      BY DEF Agents!Lock
    <2>2. x1[c] \in Agents!CallRecord' /\ KeyOf[c] \in AgentKey /\ x3 \in [AgentKey -> Agents!Born']
      BY <2>1, AgentsParts, AgentsGrows
    <2> QED
      BY <2>2 DEF Agents!CallRecord, Agents!Active, Agents!Waiting, Agents!Inside
  <1>2. x1' = [x1 EXCEPT ![c] = r] /\ x2' = x2 /\ x3' = x3 /\ x5' = x5 /\ x6' = x6 /\ x7' = x7
            /\ x1[c].pc = "locking" /\ (IF x4.held THEN x4' = x4 ELSE x4' = [held |-> TRUE, by |-> c, stale |-> FALSE])
    BY AgentsParts DEF Agents!Lock, Agents!To, Agents!Holds, Agents!TypeOK
  <1> HIDE DEF r
  <1>3. x1' \in [AgentCall -> Agents!CallRecord'] /\ x1'[c] = r /\ \A d \in AgentCall : d # c => x1'[d] = x1[d]
    BY <1>1, <1>2, AgentsParts, AgentsCallMoves
  <1>TypeOK. Agents!TypeOK'
    BY <1>1, <1>2, <1>3, AgentsParts, AgentsGrows DEF Agents!TypeOK
  <1>OneCallOfAKey. Agents!OneCallOfAKey'
    BY <1>1, <1>2, <1>3, AgentsParts DEF Agents!OneCallOfAKey, Agents!Active, Agents!Waiting, Agents!Inside,
      Agents!TypeOK
  <1>OwnersHaveTheFile. Agents!OwnersHaveTheFile'
    BY <1>1, <1>2, <1>3, AgentsParts DEF Agents!OwnersHaveTheFile, Agents!AtWork, Agents!Entry, Agents!Active,
      Agents!Waiting, Agents!Inside, Agents!OneCallOfAKey, Agents!TypeOK
  <1>CallsSeeTheirMapping. Agents!CallsSeeTheirMapping'
    BY <1>1, <1>2, <1>3, AgentsParts DEF Agents!CallsSeeTheirMapping, Agents!Active, Agents!Waiting,
      Agents!Inside, Agents!OneCallOfAKey, Agents!OwnersHaveTheFile, Agents!AtWork, Agents!Entry,
      Agents!AnsweredSessionIsKept, Agents!TypeOK, Agents!Born
  <1>AnsweredSessionIsKept. Agents!AnsweredSessionIsKept'
    BY <1>1, <1>2, <1>3, AgentsParts DEF Agents!AnsweredSessionIsKept, Agents!CallsSeeTheirMapping,
      Agents!Active, Agents!Waiting, Agents!Inside, Agents!OwnersHaveTheFile, Agents!AtWork, Agents!Entry,
      Agents!TypeOK, Agents!Born, Agents!OneCallOfAKey
  <1> QED
    BY <1>TypeOK, <1>OneCallOfAKey, <1>OwnersHaveTheFile, <1>CallsSeeTheirMapping, <1>AnsweredSessionIsKept DEF Agents!AgentsInv

(* Stat keeps the invariant of Agents.                                                  *)
LEMMA AgentsStat ==
  ASSUME Agents!AgentsInv, NEW c \in AgentCall, Agents!Stat(c)
  PROVE  Agents!AgentsInv'
  <1> DEFINE r == [x1[c] EXCEPT !.pc = IF x4.held /\ x4.stale THEN "unlink" ELSE "locking"]
  <1>1. r \in Agents!CallRecord' /\ r.pc \in {"unlink", "locking"} /\ r.op = x1[c].op /\ r.session = x1[c].session /\ r.entry = x1[c].entry /\ r.loaded = x1[c].loaded
    <2>1. x5'.created \in {x5.created, x5.created + 1}
      BY DEF Agents!Stat
    <2>2. x1[c] \in Agents!CallRecord' /\ KeyOf[c] \in AgentKey /\ x3 \in [AgentKey -> Agents!Born']
      BY <2>1, AgentsParts, AgentsGrows
    <2> QED
      BY <2>2 DEF Agents!CallRecord, Agents!Active, Agents!Waiting, Agents!Inside
  <1>2. x1' = [x1 EXCEPT ![c] = r] /\ x2' = x2 /\ x3' = x3 /\ x4' = x4 /\ x5' = x5 /\ x6' = x6 /\ x7' = x7 /\ x1[c].pc = "stat"
    BY AgentsParts DEF Agents!Stat, Agents!To, Agents!TypeOK
  <1> HIDE DEF r
  <1>3. x1' \in [AgentCall -> Agents!CallRecord'] /\ x1'[c] = r /\ \A d \in AgentCall : d # c => x1'[d] = x1[d]
    BY <1>1, <1>2, AgentsParts, AgentsCallMoves
  <1>TypeOK. Agents!TypeOK'
    BY <1>1, <1>2, <1>3, AgentsParts, AgentsGrows DEF Agents!TypeOK
  <1>OneCallOfAKey. Agents!OneCallOfAKey'
    BY <1>1, <1>2, <1>3, AgentsParts DEF Agents!OneCallOfAKey, Agents!Active, Agents!Waiting, Agents!Inside,
      Agents!TypeOK
  <1>OwnersHaveTheFile. Agents!OwnersHaveTheFile'
    BY <1>1, <1>2, <1>3, AgentsParts DEF Agents!OwnersHaveTheFile, Agents!AtWork, Agents!Entry, Agents!Active,
      Agents!Waiting, Agents!Inside, Agents!OneCallOfAKey, Agents!TypeOK
  <1>CallsSeeTheirMapping. Agents!CallsSeeTheirMapping'
    BY <1>1, <1>2, <1>3, AgentsParts DEF Agents!CallsSeeTheirMapping, Agents!Active, Agents!Waiting,
      Agents!Inside, Agents!OneCallOfAKey, Agents!OwnersHaveTheFile, Agents!AtWork, Agents!Entry,
      Agents!AnsweredSessionIsKept, Agents!TypeOK, Agents!Born
  <1>AnsweredSessionIsKept. Agents!AnsweredSessionIsKept'
    BY <1>1, <1>2, <1>3, AgentsParts DEF Agents!AnsweredSessionIsKept, Agents!CallsSeeTheirMapping,
      Agents!Active, Agents!Waiting, Agents!Inside, Agents!OwnersHaveTheFile, Agents!AtWork, Agents!Entry,
      Agents!TypeOK, Agents!Born, Agents!OneCallOfAKey
  <1> QED
    BY <1>TypeOK, <1>OneCallOfAKey, <1>OwnersHaveTheFile, <1>CallsSeeTheirMapping, <1>AnsweredSessionIsKept DEF Agents!AgentsInv

(* Unlink keeps the invariant of Agents.                                                *)
LEMMA AgentsUnlink ==
  ASSUME Agents!AgentsInv, NEW c \in AgentCall, Agents!Unlink(c)
  PROVE  Agents!AgentsInv'
  <1> DEFINE r == [x1[c] EXCEPT !.pc = "locking"]
  <1>1. r \in Agents!CallRecord' /\ r.pc = "locking" /\ r.op = x1[c].op /\ r.session = x1[c].session /\ r.entry = x1[c].entry /\ r.loaded = x1[c].loaded
    <2>1. x5'.created \in {x5.created, x5.created + 1}
      BY DEF Agents!Unlink
    <2>2. x1[c] \in Agents!CallRecord' /\ KeyOf[c] \in AgentKey /\ x3 \in [AgentKey -> Agents!Born']
      BY <2>1, AgentsParts, AgentsGrows
    <2> QED
      BY <2>2 DEF Agents!CallRecord, Agents!Active, Agents!Waiting, Agents!Inside
  <1>2. x1' = [x1 EXCEPT ![c] = r] /\ x2' = x2 /\ x3' = x3 /\ x5' = x5 /\ x6' = x6
            /\ x1[c].pc = "unlink" /\ ~ x4'.held /\ x7' = (x7 \/ (x4.held /\ Agents!AtWork(x4.by)))
    BY AgentsParts DEF Agents!Unlink, Agents!To, Agents!FreeLock, Agents!TypeOK
  <1> HIDE DEF r
  <1>3. x1' \in [AgentCall -> Agents!CallRecord'] /\ x1'[c] = r /\ \A d \in AgentCall : d # c => x1'[d] = x1[d]
    BY <1>1, <1>2, AgentsParts, AgentsCallMoves
  <1>TypeOK. Agents!TypeOK'
    BY <1>1, <1>2, <1>3, AgentsParts, AgentsGrows DEF Agents!TypeOK
  <1>OneCallOfAKey. Agents!OneCallOfAKey'
    BY <1>1, <1>2, <1>3, AgentsParts DEF Agents!OneCallOfAKey, Agents!Active, Agents!Waiting, Agents!Inside,
      Agents!TypeOK
  <1>OwnersHaveTheFile. Agents!OwnersHaveTheFile'
    BY <1>1, <1>2, <1>3, AgentsParts DEF Agents!OwnersHaveTheFile, Agents!AtWork, Agents!Entry, Agents!Active,
      Agents!Waiting, Agents!Inside, Agents!OneCallOfAKey, Agents!TypeOK
  <1>CallsSeeTheirMapping. Agents!CallsSeeTheirMapping'
    BY <1>1, <1>2, <1>3, AgentsParts DEF Agents!CallsSeeTheirMapping, Agents!Active, Agents!Waiting,
      Agents!Inside, Agents!OneCallOfAKey, Agents!OwnersHaveTheFile, Agents!AtWork, Agents!Entry,
      Agents!AnsweredSessionIsKept, Agents!TypeOK, Agents!Born
  <1>AnsweredSessionIsKept. Agents!AnsweredSessionIsKept'
    BY <1>1, <1>2, <1>3, AgentsParts DEF Agents!AnsweredSessionIsKept, Agents!CallsSeeTheirMapping,
      Agents!Active, Agents!Waiting, Agents!Inside, Agents!OwnersHaveTheFile, Agents!AtWork, Agents!Entry,
      Agents!TypeOK, Agents!Born, Agents!OneCallOfAKey
  <1> QED
    BY <1>TypeOK, <1>OneCallOfAKey, <1>OwnersHaveTheFile, <1>CallsSeeTheirMapping, <1>AnsweredSessionIsKept DEF Agents!AgentsInv

(* Load keeps the invariant of Agents.                                                  *)
LEMMA AgentsLoad ==
  ASSUME Agents!AgentsInv, NEW c \in AgentCall, Agents!Load(c)
  PROVE  Agents!AgentsInv'
  <1> DEFINE r == [x1[c] EXCEPT !.pc = "save", !.loaded = x3]
  <1>1. r \in Agents!CallRecord' /\ r.pc = "save" /\ r.loaded = x3 /\ r.op = x1[c].op /\ r.session = x1[c].session /\ r.entry = x1[c].entry
    <2>1. x5'.created \in {x5.created, x5.created + 1}
      BY DEF Agents!Load
    <2>2. x1[c] \in Agents!CallRecord' /\ KeyOf[c] \in AgentKey /\ x3 \in [AgentKey -> Agents!Born']
      BY <2>1, AgentsParts, AgentsGrows
    <2> QED
      BY <2>2 DEF Agents!CallRecord, Agents!Active, Agents!Waiting, Agents!Inside
  <1>2. x1' = [x1 EXCEPT ![c] = r] /\ x2' = x2 /\ x3' = x3 /\ x4' = x4 /\ x5' = x5 /\ x6' = x6 /\ x7' = x7 /\ x1[c].pc = "load"
    BY AgentsParts DEF Agents!Load, Agents!TypeOK
  <1> HIDE DEF r
  <1>3. x1' \in [AgentCall -> Agents!CallRecord'] /\ x1'[c] = r /\ \A d \in AgentCall : d # c => x1'[d] = x1[d]
    BY <1>1, <1>2, AgentsParts, AgentsCallMoves
  <1>TypeOK. Agents!TypeOK'
    BY <1>1, <1>2, <1>3, AgentsParts, AgentsGrows DEF Agents!TypeOK
  <1>OneCallOfAKey. Agents!OneCallOfAKey'
    BY <1>1, <1>2, <1>3, AgentsParts DEF Agents!OneCallOfAKey, Agents!Active, Agents!Waiting, Agents!Inside,
      Agents!TypeOK
  <1>OwnersHaveTheFile. Agents!OwnersHaveTheFile'
    BY <1>1, <1>2, <1>3, AgentsParts DEF Agents!OwnersHaveTheFile, Agents!AtWork, Agents!Entry, Agents!Active,
      Agents!Waiting, Agents!Inside, Agents!OneCallOfAKey, Agents!TypeOK
  <1>CallsSeeTheirMapping. Agents!CallsSeeTheirMapping'
    BY <1>1, <1>2, <1>3, AgentsParts DEF Agents!CallsSeeTheirMapping, Agents!Active, Agents!Waiting,
      Agents!Inside, Agents!OneCallOfAKey, Agents!OwnersHaveTheFile, Agents!AtWork, Agents!Entry,
      Agents!AnsweredSessionIsKept, Agents!TypeOK, Agents!Born
  <1>AnsweredSessionIsKept. Agents!AnsweredSessionIsKept'
    BY <1>1, <1>2, <1>3, AgentsParts DEF Agents!AnsweredSessionIsKept, Agents!CallsSeeTheirMapping,
      Agents!Active, Agents!Waiting, Agents!Inside, Agents!OwnersHaveTheFile, Agents!AtWork, Agents!Entry,
      Agents!TypeOK, Agents!Born, Agents!OneCallOfAKey
  <1> QED
    BY <1>TypeOK, <1>OneCallOfAKey, <1>OwnersHaveTheFile, <1>CallsSeeTheirMapping, <1>AnsweredSessionIsKept DEF Agents!AgentsInv

(* Save keeps the invariant of Agents.                                                  *)
LEMMA AgentsSave ==
  ASSUME Agents!AgentsInv, NEW c \in AgentCall, Agents!Save(c)
  PROVE  Agents!AgentsInv'
  <1> DEFINE r == [x1[c] EXCEPT !.pc = "release"]
  <1>1. r \in Agents!CallRecord' /\ r.pc = "release" /\ r.op = x1[c].op /\ r.session = x1[c].session /\ r.entry = x1[c].entry /\ r.loaded = x1[c].loaded
    <2>1. x5'.created \in {x5.created, x5.created + 1}
      BY DEF Agents!Save
    <2>2. x1[c] \in Agents!CallRecord' /\ KeyOf[c] \in AgentKey /\ x3 \in [AgentKey -> Agents!Born']
      BY <2>1, AgentsParts, AgentsGrows
    <2> QED
      BY <2>2 DEF Agents!CallRecord, Agents!Active, Agents!Waiting, Agents!Inside
  <1>2. x1' = [x1 EXCEPT ![c] = r] /\ x2' = x2 /\ x4' = x4 /\ x5' = x5 /\ x6' = x6 /\ x7' = x7
            /\ x1[c].pc = "save" /\ x3' = [x1[c].loaded EXCEPT ![KeyOf[c]] = Agents!Entry(c)]
    BY AgentsParts DEF Agents!Save, Agents!To, Agents!TypeOK
  <1> HIDE DEF r
  <1>3. x1' \in [AgentCall -> Agents!CallRecord'] /\ x1'[c] = r /\ \A d \in AgentCall : d # c => x1'[d] = x1[d]
    BY <1>1, <1>2, AgentsParts, AgentsCallMoves
  <1>TypeOK. Agents!TypeOK'
    <2>1. Agents!Entry(c) \in Agents!Born /\ x1[c].loaded \in [AgentKey -> Agents!Born] /\ KeyOf[c] \in AgentKey
      BY AgentsParts DEF Agents!Entry, Agents!CallRecord, Agents!TypeOK, Agents!Born
    <2>2. x3' \in [AgentKey -> Agents!Born]
      BY <1>2, <2>1, AgentsParts DEF Agents!TypeOK
    <2> QED
      BY <2>2, <1>1, <1>2, <1>3, AgentsParts, AgentsGrows DEF Agents!TypeOK
  <1>OneCallOfAKey. Agents!OneCallOfAKey'
    BY <1>1, <1>2, <1>3, AgentsParts DEF Agents!OneCallOfAKey, Agents!Active, Agents!Waiting, Agents!Inside,
      Agents!TypeOK
  <1>OwnersHaveTheFile. Agents!OwnersHaveTheFile'
    BY <1>1, <1>2, <1>3, AgentsParts DEF Agents!OwnersHaveTheFile, Agents!AtWork, Agents!Entry, Agents!Active,
      Agents!Waiting, Agents!Inside, Agents!OneCallOfAKey, Agents!TypeOK
  <1>CallsSeeTheirMapping. Agents!CallsSeeTheirMapping'
    BY <1>1, <1>2, <1>3, AgentsParts DEF Agents!CallsSeeTheirMapping, Agents!Active, Agents!Waiting,
      Agents!Inside, Agents!OneCallOfAKey, Agents!OwnersHaveTheFile, Agents!AtWork, Agents!Entry,
      Agents!AnsweredSessionIsKept, Agents!TypeOK, Agents!Born
  <1>AnsweredSessionIsKept. Agents!AnsweredSessionIsKept'
    BY <1>1, <1>2, <1>3, AgentsParts DEF Agents!AnsweredSessionIsKept, Agents!CallsSeeTheirMapping,
      Agents!Active, Agents!Waiting, Agents!Inside, Agents!OwnersHaveTheFile, Agents!AtWork, Agents!Entry,
      Agents!TypeOK, Agents!Born, Agents!OneCallOfAKey
  <1> QED
    BY <1>TypeOK, <1>OneCallOfAKey, <1>OwnersHaveTheFile, <1>CallsSeeTheirMapping, <1>AnsweredSessionIsKept DEF Agents!AgentsInv

(* Get keeps the invariant of Agents.                                                   *)
LEMMA AgentsGet ==
  ASSUME Agents!AgentsInv, NEW c \in AgentCall, Agents!Get(c)
  PROVE  Agents!AgentsInv'
  <1> DEFINE r == [x1[c] EXCEPT !.session = x3[KeyOf[c]], !.pc = IF x3[KeyOf[c]] # 0 THEN "command"
                                                              ELSE IF x1[c].op = "reset" THEN "done" ELSE "create"]
  <1>1. r \in Agents!CallRecord' /\ r.session = x3[KeyOf[c]] /\ r.pc \in {"command", "done", "create"}
        /\ (r.pc = "command" <=> x3[KeyOf[c]] # 0)
    <2>1. x5'.created \in {x5.created, x5.created + 1}
      BY DEF Agents!Get
    <2>2. x1[c] \in Agents!CallRecord' /\ KeyOf[c] \in AgentKey /\ x3 \in [AgentKey -> Agents!Born']
      BY <2>1, AgentsParts, AgentsGrows
    <2> QED
      BY <2>2 DEF Agents!CallRecord, Agents!Active, Agents!Waiting, Agents!Inside
  <1>2. x1' = [x1 EXCEPT ![c] = r] /\ x3' = x3 /\ x4' = x4 /\ x5' = x5 /\ x6' = x6 /\ x7' = x7
            /\ x1[c].pc = "queued" /\ x2' = [x2 EXCEPT ![KeyOf[c]] = IF x1'[c].pc = "done" THEN @ \ {c} ELSE @]
            /\ \A d \in x2[KeyOf[c]] : x1[d].pc = "queued"
    BY AgentsParts DEF Agents!Get, Agents!Serialized, Agents!Running, Agents!TypeOK
  <1> HIDE DEF r
  <1>3. x1' \in [AgentCall -> Agents!CallRecord'] /\ x1'[c] = r /\ \A d \in AgentCall : d # c => x1'[d] = x1[d]
    BY <1>1, <1>2, AgentsParts, AgentsCallMoves
  <1>TypeOK. Agents!TypeOK'
    BY <1>1, <1>2, <1>3, AgentsParts, AgentsGrows DEF Agents!TypeOK
  <1>OneCallOfAKey. Agents!OneCallOfAKey'
    BY <1>1, <1>2, <1>3, AgentsParts DEF Agents!OneCallOfAKey, Agents!Active, Agents!Waiting, Agents!Inside,
      Agents!TypeOK
  <1>OwnersHaveTheFile. Agents!OwnersHaveTheFile'
    BY <1>1, <1>2, <1>3, AgentsParts DEF Agents!OwnersHaveTheFile, Agents!AtWork, Agents!Entry, Agents!Active,
      Agents!Waiting, Agents!Inside, Agents!OneCallOfAKey, Agents!TypeOK
  <1>CallsSeeTheirMapping. Agents!CallsSeeTheirMapping'
    BY <1>1, <1>2, <1>3, AgentsParts DEF Agents!CallsSeeTheirMapping, Agents!Active, Agents!Waiting,
      Agents!Inside, Agents!OneCallOfAKey, Agents!OwnersHaveTheFile, Agents!AtWork, Agents!Entry,
      Agents!AnsweredSessionIsKept, Agents!TypeOK, Agents!Born
  <1>AnsweredSessionIsKept. Agents!AnsweredSessionIsKept'
    BY <1>1, <1>2, <1>3, AgentsParts DEF Agents!AnsweredSessionIsKept, Agents!CallsSeeTheirMapping,
      Agents!Active, Agents!Waiting, Agents!Inside, Agents!OwnersHaveTheFile, Agents!AtWork, Agents!Entry,
      Agents!TypeOK, Agents!Born, Agents!OneCallOfAKey
  <1> QED
    BY <1>TypeOK, <1>OneCallOfAKey, <1>OwnersHaveTheFile, <1>CallsSeeTheirMapping, <1>AnsweredSessionIsKept DEF Agents!AgentsInv

(* Command keeps the invariant of Agents.                                               *)
LEMMA AgentsCommand ==
  ASSUME Agents!AgentsInv, NEW c \in AgentCall, Agents!Command(c)
  PROVE  Agents!AgentsInv'
  <1> DEFINE r == IF x1[c].session \in x5.alive THEN [x1[c] EXCEPT !.pc = "done"]
                    ELSE [x1[c] EXCEPT !.pc = "locking", !.entry = "delete"]
  <1>1. r \in Agents!CallRecord' /\ r.session = x1[c].session
    <2>1. x5'.created \in {x5.created, x5.created + 1}
      BY DEF Agents!Command
    <2>2. x1[c] \in Agents!CallRecord' /\ KeyOf[c] \in AgentKey /\ x3 \in [AgentKey -> Agents!Born']
      BY <2>1, AgentsParts, AgentsGrows
    <2> QED
      BY <2>2 DEF Agents!CallRecord, Agents!Active, Agents!Waiting, Agents!Inside
  <1>2. x1' = [x1 EXCEPT ![c] = r] /\ x3' = x3 /\ x4' = x4 /\ x5' = x5 /\ x7' = x7
            /\ x1[c].pc = "command"
            /\ \/ /\ x1[c].session \in x5.alive /\ r.pc = "done" /\ x2' = [x2 EXCEPT ![KeyOf[c]] = @ \ {c}]
                  /\ x6' = [x6 EXCEPT ![KeyOf[c]] = x1[c].session]
               \/ x1[c].session \notin x5.alive /\ r.pc = "locking" /\ x2' = x2 /\ x6' = x6
    BY AgentsParts DEF Agents!Command, Agents!Succeeds, Agents!Leaves, Agents!To, Agents!CallRecord, Agents!TypeOK
  <1> HIDE DEF r
  <1>3. x1' \in [AgentCall -> Agents!CallRecord'] /\ x1'[c] = r /\ \A d \in AgentCall : d # c => x1'[d] = x1[d]
    BY <1>1, <1>2, AgentsParts, AgentsCallMoves
  <1>TypeOK. Agents!TypeOK'
    BY <1>1, <1>2, <1>3, AgentsParts, AgentsGrows DEF Agents!TypeOK
  <1>OneCallOfAKey. Agents!OneCallOfAKey'
    BY <1>1, <1>2, <1>3, AgentsParts DEF Agents!OneCallOfAKey, Agents!Active, Agents!Waiting, Agents!Inside,
      Agents!TypeOK
  <1>OwnersHaveTheFile. Agents!OwnersHaveTheFile'
    BY <1>1, <1>2, <1>3, AgentsParts DEF Agents!OwnersHaveTheFile, Agents!AtWork, Agents!Entry, Agents!Active,
      Agents!Waiting, Agents!Inside, Agents!OneCallOfAKey, Agents!TypeOK
  <1>CallsSeeTheirMapping. Agents!CallsSeeTheirMapping'
    BY <1>1, <1>2, <1>3, AgentsParts DEF Agents!CallsSeeTheirMapping, Agents!Active, Agents!Waiting,
      Agents!Inside, Agents!OneCallOfAKey, Agents!OwnersHaveTheFile, Agents!AtWork, Agents!Entry,
      Agents!AnsweredSessionIsKept, Agents!TypeOK, Agents!Born
  <1>AnsweredSessionIsKept. Agents!AnsweredSessionIsKept'
    BY <1>1, <1>2, <1>3, AgentsParts DEF Agents!AnsweredSessionIsKept, Agents!CallsSeeTheirMapping,
      Agents!Active, Agents!Waiting, Agents!Inside, Agents!OwnersHaveTheFile, Agents!AtWork, Agents!Entry,
      Agents!TypeOK, Agents!Born, Agents!OneCallOfAKey
  <1> QED
    BY <1>TypeOK, <1>OneCallOfAKey, <1>OwnersHaveTheFile, <1>CallsSeeTheirMapping, <1>AnsweredSessionIsKept DEF Agents!AgentsInv

(* Create keeps the invariant of Agents.                                                *)
LEMMA AgentsCreate ==
  ASSUME Agents!AgentsInv, NEW c \in AgentCall, Agents!Create(c)
  PROVE  Agents!AgentsInv'
  <1> DEFINE r == [x1[c] EXCEPT !.pc = "locking", !.session = x5.created + 1, !.entry = "set"]
  <1>1. r \in Agents!CallRecord' /\ r.pc = "locking" /\ r.session = x5.created + 1
    <2>1. x5'.created \in {x5.created, x5.created + 1}
      BY DEF Agents!Create
    <2>2. x1[c] \in Agents!CallRecord' /\ KeyOf[c] \in AgentKey /\ x3 \in [AgentKey -> Agents!Born']
      BY <2>1, AgentsParts, AgentsGrows
    <2> QED
      BY <2>2, AgentsParts DEF Agents!CallRecord, Agents!Active, Agents!Waiting, Agents!Inside, Agents!Born, Agents!Create, Agents!TypeOK
  <1>2. x1' = [x1 EXCEPT ![c] = r] /\ x2' = x2 /\ x3' = x3 /\ x4' = x4 /\ x6' = x6 /\ x7' = x7
            /\ x1[c].pc = "create" /\ x5' = [created |-> x5.created + 1, alive |-> x5.alive \cup {x5.created + 1}]
    BY AgentsParts DEF Agents!Create, Agents!TypeOK
  <1> HIDE DEF r
  <1>3. x1' \in [AgentCall -> Agents!CallRecord'] /\ x1'[c] = r /\ \A d \in AgentCall : d # c => x1'[d] = x1[d]
    BY <1>1, <1>2, AgentsParts, AgentsCallMoves
  <1>TypeOK. Agents!TypeOK'
    <2>1. x5'.created \in Nat /\ x5'.alive \subseteq Agents!Born' \ {0}
      BY <1>2, AgentsParts DEF Agents!TypeOK, Agents!Born
    <2> QED
      BY <2>1, <1>1, <1>2, <1>3, AgentsParts, AgentsGrows DEF Agents!TypeOK
  <1>OneCallOfAKey. Agents!OneCallOfAKey'
    BY <1>1, <1>2, <1>3, AgentsParts DEF Agents!OneCallOfAKey, Agents!Active, Agents!Waiting, Agents!Inside,
      Agents!TypeOK
  <1>OwnersHaveTheFile. Agents!OwnersHaveTheFile'
    BY <1>1, <1>2, <1>3, AgentsParts DEF Agents!OwnersHaveTheFile, Agents!AtWork, Agents!Entry, Agents!Active,
      Agents!Waiting, Agents!Inside, Agents!OneCallOfAKey, Agents!TypeOK
  <1>CallsSeeTheirMapping. Agents!CallsSeeTheirMapping'
    BY <1>1, <1>2, <1>3, AgentsParts DEF Agents!CallsSeeTheirMapping, Agents!Active, Agents!Waiting,
      Agents!Inside, Agents!OneCallOfAKey, Agents!OwnersHaveTheFile, Agents!AtWork, Agents!Entry,
      Agents!AnsweredSessionIsKept, Agents!TypeOK, Agents!Born
  <1>AnsweredSessionIsKept. Agents!AnsweredSessionIsKept'
    BY <1>1, <1>2, <1>3, AgentsParts DEF Agents!AnsweredSessionIsKept, Agents!CallsSeeTheirMapping,
      Agents!Active, Agents!Waiting, Agents!Inside, Agents!OwnersHaveTheFile, Agents!AtWork, Agents!Entry,
      Agents!TypeOK, Agents!Born, Agents!OneCallOfAKey
  <1> QED
    BY <1>TypeOK, <1>OneCallOfAKey, <1>OwnersHaveTheFile, <1>CallsSeeTheirMapping, <1>AnsweredSessionIsKept DEF Agents!AgentsInv

(* CommandFails keeps the invariant of Agents.                                          *)
LEMMA AgentsCommandFails ==
  ASSUME Agents!AgentsInv, NEW c \in AgentCall, Agents!CommandFails(c)
  PROVE  Agents!AgentsInv'
  <1>0. x5'.created \in {x5.created, x5.created + 1}
    BY DEF Agents!CommandFails, Agents!Unanswered, Agents!Unusable
  <1> DEFINE r == [x1[c] EXCEPT !.pc = "failed"]
  <1>1. r \in Agents!CallRecord' /\ r.pc = "failed"
    <2>1. x5'.created \in {x5.created, x5.created + 1}
      BY <1>0
    <2>2. x1[c] \in Agents!CallRecord' /\ KeyOf[c] \in AgentKey /\ x3 \in [AgentKey -> Agents!Born']
      BY <2>1, AgentsParts, AgentsGrows
    <2> QED
      BY <2>2 DEF Agents!CallRecord, Agents!Active, Agents!Waiting, Agents!Inside
  <1>2. x1' = [x1 EXCEPT ![c] = r] /\ x3' = x3 /\ x4' = x4 /\ x6' = x6 /\ x7' = x7
            /\ x2' = [x2 EXCEPT ![KeyOf[c]] = @ \ {c}]
            /\ (x5' = x5 \/ x5' = [created |-> x5.created + 1, alive |-> x5.alive \cup {x5.created + 1}])
    BY AgentsParts DEF Agents!CommandFails, Agents!Fails, Agents!Leaves, Agents!To, Agents!Unanswered, Agents!Unusable, Agents!TypeOK
  <1> HIDE DEF r
  <1>3. x1' \in [AgentCall -> Agents!CallRecord'] /\ x1'[c] = r /\ \A d \in AgentCall : d # c => x1'[d] = x1[d]
    BY <1>0, <1>1, <1>2, AgentsParts, AgentsCallMoves
  <1>TypeOK. Agents!TypeOK'
    <2>1. x5'.created \in Nat /\ x5'.alive \subseteq Agents!Born' \ {0}
      BY <1>2, AgentsParts DEF Agents!TypeOK, Agents!Born
    <2> QED
      BY <2>1, <1>0, <1>1, <1>2, <1>3, AgentsParts, AgentsGrows DEF Agents!TypeOK
  <1>OneCallOfAKey. Agents!OneCallOfAKey'
    BY <1>0, <1>1, <1>2, <1>3, AgentsParts DEF Agents!OneCallOfAKey, Agents!Active, Agents!Waiting,
      Agents!Inside, Agents!TypeOK
  <1>OwnersHaveTheFile. Agents!OwnersHaveTheFile'
    BY <1>0, <1>1, <1>2, <1>3, AgentsParts DEF Agents!OwnersHaveTheFile, Agents!AtWork, Agents!Entry,
      Agents!Active, Agents!Waiting, Agents!Inside, Agents!OneCallOfAKey, Agents!TypeOK
  <1>CallsSeeTheirMapping. Agents!CallsSeeTheirMapping'
    BY <1>0, <1>1, <1>2, <1>3, AgentsParts DEF Agents!CallsSeeTheirMapping, Agents!Active, Agents!Waiting,
      Agents!Inside, Agents!OneCallOfAKey, Agents!OwnersHaveTheFile, Agents!AtWork, Agents!Entry,
      Agents!AnsweredSessionIsKept, Agents!TypeOK, Agents!Born
  <1>AnsweredSessionIsKept. Agents!AnsweredSessionIsKept'
    BY <1>0, <1>1, <1>2, <1>3, AgentsParts DEF Agents!AnsweredSessionIsKept, Agents!CallsSeeTheirMapping,
      Agents!Active, Agents!Waiting, Agents!Inside, Agents!OwnersHaveTheFile, Agents!AtWork, Agents!Entry,
      Agents!TypeOK, Agents!Born, Agents!OneCallOfAKey
  <1> QED
    BY <1>TypeOK, <1>OneCallOfAKey, <1>OwnersHaveTheFile, <1>CallsSeeTheirMapping, <1>AnsweredSessionIsKept DEF Agents!AgentsInv

(* LockFails keeps the invariant of Agents.                                             *)
LEMMA AgentsLockFails ==
  ASSUME Agents!AgentsInv, NEW c \in AgentCall, Agents!LockFails(c)
  PROVE  Agents!AgentsInv'
  <1> DEFINE r == [x1[c] EXCEPT !.pc = "failed"]
  <1>1. r \in Agents!CallRecord' /\ r.pc = "failed"
    <2>1. x5'.created \in {x5.created, x5.created + 1}
      BY DEF Agents!LockFails
    <2>2. x1[c] \in Agents!CallRecord' /\ KeyOf[c] \in AgentKey /\ x3 \in [AgentKey -> Agents!Born']
      BY <2>1, AgentsParts, AgentsGrows
    <2> QED
      BY <2>2 DEF Agents!CallRecord, Agents!Active, Agents!Waiting, Agents!Inside
  <1>2. x1' = [x1 EXCEPT ![c] = r] /\ x3' = x3 /\ x4' = x4 /\ x5' = x5 /\ x6' = x6 /\ x7' = x7
            /\ x1[c].pc \in Agents!Waiting /\ x2' = [x2 EXCEPT ![KeyOf[c]] = @ \ {c}]
    BY AgentsParts DEF Agents!LockFails, Agents!Fails, Agents!Leaves, Agents!To, Agents!TypeOK
  <1> HIDE DEF r
  <1>3. x1' \in [AgentCall -> Agents!CallRecord'] /\ x1'[c] = r /\ \A d \in AgentCall : d # c => x1'[d] = x1[d]
    BY <1>1, <1>2, AgentsParts, AgentsCallMoves
  <1>TypeOK. Agents!TypeOK'
    BY <1>1, <1>2, <1>3, AgentsParts, AgentsGrows DEF Agents!TypeOK
  <1>OneCallOfAKey. Agents!OneCallOfAKey'
    BY <1>1, <1>2, <1>3, AgentsParts DEF Agents!OneCallOfAKey, Agents!Active, Agents!Waiting, Agents!Inside,
      Agents!TypeOK
  <1>OwnersHaveTheFile. Agents!OwnersHaveTheFile'
    BY <1>1, <1>2, <1>3, AgentsParts DEF Agents!OwnersHaveTheFile, Agents!AtWork, Agents!Entry, Agents!Active,
      Agents!Waiting, Agents!Inside, Agents!OneCallOfAKey, Agents!TypeOK
  <1>CallsSeeTheirMapping. Agents!CallsSeeTheirMapping'
    BY <1>1, <1>2, <1>3, AgentsParts DEF Agents!CallsSeeTheirMapping, Agents!Active, Agents!Waiting,
      Agents!Inside, Agents!OneCallOfAKey, Agents!OwnersHaveTheFile, Agents!AtWork, Agents!Entry,
      Agents!AnsweredSessionIsKept, Agents!TypeOK, Agents!Born
  <1>AnsweredSessionIsKept. Agents!AnsweredSessionIsKept'
    BY <1>1, <1>2, <1>3, AgentsParts DEF Agents!AnsweredSessionIsKept, Agents!CallsSeeTheirMapping,
      Agents!Active, Agents!Waiting, Agents!Inside, Agents!OwnersHaveTheFile, Agents!AtWork, Agents!Entry,
      Agents!TypeOK, Agents!Born, Agents!OneCallOfAKey
  <1> QED
    BY <1>TypeOK, <1>OneCallOfAKey, <1>OwnersHaveTheFile, <1>CallsSeeTheirMapping, <1>AnsweredSessionIsKept DEF Agents!AgentsInv

(* SaveFails keeps the invariant of Agents.                                             *)
LEMMA AgentsSaveFails ==
  ASSUME Agents!AgentsInv, NEW c \in AgentCall, Agents!SaveFails(c)
  PROVE  Agents!AgentsInv'
  <1> DEFINE r == [x1[c] EXCEPT !.pc = "failed"]
  <1>1. r \in Agents!CallRecord' /\ r.pc = "failed"
    <2>1. x5'.created \in {x5.created, x5.created + 1}
      BY DEF Agents!SaveFails
    <2>2. x1[c] \in Agents!CallRecord' /\ KeyOf[c] \in AgentKey /\ x3 \in [AgentKey -> Agents!Born']
      BY <2>1, AgentsParts, AgentsGrows
    <2> QED
      BY <2>2 DEF Agents!CallRecord, Agents!Active, Agents!Waiting, Agents!Inside
  <1>2. x1' = [x1 EXCEPT ![c] = r] /\ x5' = x5 /\ x6' = x6 /\ x7' = x7
            /\ x1[c].pc = "save" /\ x2' = [x2 EXCEPT ![KeyOf[c]] = @ \ {c}]
            /\ (IF x4.held /\ x4.by = c THEN ~ x4'.held ELSE x4' = x4)
            /\ (x3' = x3 \/ x3' = [x1[c].loaded EXCEPT ![KeyOf[c]] = Agents!Entry(c)])
    BY AgentsParts DEF Agents!SaveFails, Agents!Fails, Agents!Leaves, Agents!To, Agents!FreeLock, Agents!TypeOK
  <1> HIDE DEF r
  <1>3. x1' \in [AgentCall -> Agents!CallRecord'] /\ x1'[c] = r /\ \A d \in AgentCall : d # c => x1'[d] = x1[d]
    BY <1>1, <1>2, AgentsParts, AgentsCallMoves
  <1>TypeOK. Agents!TypeOK'
    <2>1. Agents!Entry(c) \in Agents!Born /\ x1[c].loaded \in [AgentKey -> Agents!Born] /\ KeyOf[c] \in AgentKey
      BY AgentsParts DEF Agents!Entry, Agents!CallRecord, Agents!TypeOK, Agents!Born
    <2>2. x3' \in [AgentKey -> Agents!Born]
      BY <1>2, <2>1, AgentsParts DEF Agents!TypeOK
    <2> QED
      BY <2>2, <1>1, <1>2, <1>3, AgentsParts, AgentsGrows DEF Agents!TypeOK
  <1>OneCallOfAKey. Agents!OneCallOfAKey'
    BY <1>1, <1>2, <1>3, AgentsParts DEF Agents!OneCallOfAKey, Agents!Active, Agents!Waiting, Agents!Inside,
      Agents!TypeOK
  <1>OwnersHaveTheFile. Agents!OwnersHaveTheFile'
    BY <1>1, <1>2, <1>3, AgentsParts DEF Agents!OwnersHaveTheFile, Agents!AtWork, Agents!Entry, Agents!Active,
      Agents!Waiting, Agents!Inside, Agents!OneCallOfAKey, Agents!TypeOK
  <1>CallsSeeTheirMapping. Agents!CallsSeeTheirMapping'
    BY <1>1, <1>2, <1>3, AgentsParts DEF Agents!CallsSeeTheirMapping, Agents!Active, Agents!Waiting,
      Agents!Inside, Agents!OneCallOfAKey, Agents!OwnersHaveTheFile, Agents!AtWork, Agents!Entry,
      Agents!AnsweredSessionIsKept, Agents!TypeOK, Agents!Born
  <1>AnsweredSessionIsKept. Agents!AnsweredSessionIsKept'
    BY <1>1, <1>2, <1>3, AgentsParts DEF Agents!AnsweredSessionIsKept, Agents!CallsSeeTheirMapping,
      Agents!Active, Agents!Waiting, Agents!Inside, Agents!OwnersHaveTheFile, Agents!AtWork, Agents!Entry,
      Agents!TypeOK, Agents!Born, Agents!OneCallOfAKey
  <1> QED
    BY <1>TypeOK, <1>OneCallOfAKey, <1>OwnersHaveTheFile, <1>CallsSeeTheirMapping, <1>AnsweredSessionIsKept DEF Agents!AgentsInv

(* Release keeps the invariant of Agents.                                               *)
LEMMA AgentsRelease ==
  ASSUME Agents!AgentsInv, NEW c \in AgentCall, Agents!Release(c)
  PROVE  Agents!AgentsInv'
  <1> DEFINE done == [x1[c] EXCEPT !.pc = "done"]
             again == [x1[c] EXCEPT !.pc = "create", !.session = 0, !.entry = "none"]
             r == IF x1[c].entry = "set" \/ x1[c].op = "reset" THEN done ELSE again
  <1>0. x3' = x3 /\ x5' = x5 /\ x7' = x7 /\ x1[c].pc = "release" /\ (IF x4.held /\ x4.by = c THEN ~ x4'.held ELSE x4' = x4)
    BY DEF Agents!Release, Agents!FreeLock
  <1>1. r \in Agents!CallRecord' /\ r.pc \in {"done", "create"} /\ (x1[c].entry = "set" => r.pc = "done")
    <2>1. done \in Agents!CallRecord' /\ done.pc = "done"
      BY <1>0, AgentsParts, AgentsGrows DEF Agents!CallRecord
    <2>2. again \in Agents!CallRecord' /\ again.pc = "create"
      <3>1. 0 \in Agents!Born'
        BY <1>0, AgentsParts, AgentsGrows DEF Agents!Born
      <3> QED
        BY <1>0, <3>1, AgentsParts, AgentsGrows DEF Agents!CallRecord, Agents!Active
    <2> HIDE DEF done, again
    <2> QED
      BY <2>1, <2>2
  <1>2. /\ x1' = [x1 EXCEPT ![c] = r]
        /\ IF r.pc = "done" THEN x2' = [x2 EXCEPT ![KeyOf[c]] = @ \ {c}] ELSE x2' = x2
        /\ IF x1[c].entry = "set" THEN x6' = [x6 EXCEPT ![KeyOf[c]] = x1[c].session] ELSE x6' = x6
    <2>1. CASE x1[c].entry = "set"
      <3>1. r = done /\ done.pc = "done"
        BY <2>1, AgentsParts DEF Agents!CallRecord
      <3> QED
        BY <2>1, <3>1, AgentsParts DEF Agents!Release, Agents!Succeeds, Agents!Leaves, Agents!To, Agents!TypeOK
    <2>2. CASE x1[c].entry # "set" /\ x1[c].op = "reset"
      <3>1. r = done /\ done.pc = "done"
        BY <2>2, AgentsParts DEF Agents!CallRecord
      <3> QED
        BY <2>2, <3>1, AgentsParts DEF Agents!Release, Agents!Leaves, Agents!To, Agents!TypeOK
    <2>3. CASE x1[c].entry # "set" /\ x1[c].op # "reset"
      <3>1. r = again /\ again.pc = "create"
        BY <2>3, AgentsParts DEF Agents!CallRecord
      <3> QED
        BY <2>3, <3>1, AgentsParts DEF Agents!Release, Agents!TypeOK
    <2> QED
      BY <2>1, <2>2, <2>3
  <1> HIDE DEF r
  <1>3. x1' \in [AgentCall -> Agents!CallRecord'] /\ x1'[c] = r /\ \A d \in AgentCall : d # c => x1'[d] = x1[d]
    BY <1>0, <1>1, <1>2, AgentsParts, AgentsCallMoves
  <1>TypeOK. Agents!TypeOK'
    <2>1. x1[c].session \in Agents!Born /\ KeyOf[c] \in AgentKey
      BY AgentsParts DEF Agents!CallRecord
    <2>2. x6' \in [AgentKey -> Agents!Born]
      BY <1>2, <2>1, AgentsParts DEF Agents!TypeOK
    <2>3. x2' \in [AgentKey -> SUBSET AgentCall] /\ (x4'.held => x4'.by \in AgentCall)
      BY <1>0, <1>2, <2>1, AgentsParts DEF Agents!TypeOK
    <2> QED
      BY <2>2, <2>3, <1>0, <1>1, <1>2, <1>3, AgentsParts, AgentsGrows DEF Agents!TypeOK
  <1>OneCallOfAKey. Agents!OneCallOfAKey'
    BY <1>0, <1>1, <1>2, <1>3, AgentsParts DEF Agents!OneCallOfAKey, Agents!Active, Agents!Waiting,
      Agents!Inside, Agents!TypeOK
  <1>OwnersHaveTheFile. Agents!OwnersHaveTheFile'
    BY <1>0, <1>1, <1>2, <1>3, AgentsParts DEF Agents!OwnersHaveTheFile, Agents!AtWork, Agents!Entry,
      Agents!Active, Agents!Waiting, Agents!Inside, Agents!OneCallOfAKey, Agents!TypeOK
  <1>CallsSeeTheirMapping. Agents!CallsSeeTheirMapping'
    BY <1>0, <1>1, <1>2, <1>3, AgentsParts DEF Agents!CallsSeeTheirMapping, Agents!Active, Agents!Waiting,
      Agents!Inside, Agents!OneCallOfAKey, Agents!OwnersHaveTheFile, Agents!AtWork, Agents!Entry,
      Agents!AnsweredSessionIsKept, Agents!TypeOK, Agents!Born
  <1>AnsweredSessionIsKept. Agents!AnsweredSessionIsKept'
    BY <1>0, <1>1, <1>2, <1>3, AgentsParts DEF Agents!AnsweredSessionIsKept, Agents!CallsSeeTheirMapping,
      Agents!Active, Agents!Waiting, Agents!Inside, Agents!OwnersHaveTheFile, Agents!AtWork, Agents!Entry,
      Agents!TypeOK, Agents!Born, Agents!OneCallOfAKey
  <1> QED
    BY <1>TypeOK, <1>OneCallOfAKey, <1>OwnersHaveTheFile, <1>CallsSeeTheirMapping, <1>AnsweredSessionIsKept DEF Agents!AgentsInv

(* A lock that grows old keeps the invariant.                                           *)
LEMMA AgentsAge ==
  ASSUME Agents!AgentsInv, Agents!Age
  PROVE  Agents!AgentsInv'
  <1>1. x1' = x1 /\ x2' = x2 /\ x3' = x3 /\ x5' = x5 /\ x6' = x6 /\ x7' = x7 /\ x4'.held /\ x4'.by = x4.by /\ x4.held
    BY AgentsParts DEF Agents!Age, Agents!TypeOK
  <1>TypeOK. Agents!TypeOK'
    BY <1>1, AgentsParts, AgentsGrows DEF Agents!TypeOK
  <1>OneCallOfAKey. Agents!OneCallOfAKey'
    BY <1>1, AgentsParts DEF Agents!OneCallOfAKey, Agents!Active, Agents!Waiting, Agents!Inside, Agents!TypeOK
  <1>OwnersHaveTheFile. Agents!OwnersHaveTheFile'
    BY <1>1, AgentsParts DEF Agents!OwnersHaveTheFile, Agents!AtWork, Agents!Entry, Agents!Active,
      Agents!Waiting, Agents!Inside, Agents!OneCallOfAKey, Agents!TypeOK
  <1>CallsSeeTheirMapping. Agents!CallsSeeTheirMapping'
    BY <1>1, AgentsParts DEF Agents!CallsSeeTheirMapping, Agents!Active, Agents!Waiting, Agents!Inside,
      Agents!OneCallOfAKey, Agents!OwnersHaveTheFile, Agents!AtWork, Agents!Entry, Agents!AnsweredSessionIsKept,
      Agents!TypeOK, Agents!Born
  <1>AnsweredSessionIsKept. Agents!AnsweredSessionIsKept'
    BY <1>1, AgentsParts DEF Agents!AnsweredSessionIsKept, Agents!CallsSeeTheirMapping, Agents!Active,
      Agents!Waiting, Agents!Inside, Agents!OwnersHaveTheFile, Agents!AtWork, Agents!Entry, Agents!TypeOK,
      Agents!Born, Agents!OneCallOfAKey
  <1> QED
    BY <1>TypeOK, <1>OneCallOfAKey, <1>OwnersHaveTheFile, <1>CallsSeeTheirMapping, <1>AnsweredSessionIsKept DEF Agents!AgentsInv

(* Forget keeps the invariant of Agents.                                                *)
LEMMA AgentsForget ==
  ASSUME Agents!AgentsInv, NEW s \in 1 .. MaxSessions, Agents!Forget(s)
  PROVE  Agents!AgentsInv'
  <1>1. x1' = x1 /\ x2' = x2 /\ x3' = x3 /\ x4' = x4 /\ x6' = x6 /\ x7' = x7 /\ x5'.created = x5.created /\ x5'.alive = x5.alive \ {s}
    BY AgentsParts DEF Agents!Forget, Agents!TypeOK
  <1>TypeOK. Agents!TypeOK'
    BY <1>1, AgentsParts, AgentsGrows DEF Agents!TypeOK
  <1>OneCallOfAKey. Agents!OneCallOfAKey'
    BY <1>1, AgentsParts DEF Agents!OneCallOfAKey, Agents!Active, Agents!Waiting, Agents!Inside, Agents!TypeOK
  <1>OwnersHaveTheFile. Agents!OwnersHaveTheFile'
    BY <1>1, AgentsParts DEF Agents!OwnersHaveTheFile, Agents!AtWork, Agents!Entry, Agents!Active,
      Agents!Waiting, Agents!Inside, Agents!OneCallOfAKey, Agents!TypeOK
  <1>CallsSeeTheirMapping. Agents!CallsSeeTheirMapping'
    BY <1>1, AgentsParts DEF Agents!CallsSeeTheirMapping, Agents!Active, Agents!Waiting, Agents!Inside,
      Agents!OneCallOfAKey, Agents!OwnersHaveTheFile, Agents!AtWork, Agents!Entry, Agents!AnsweredSessionIsKept,
      Agents!TypeOK, Agents!Born
  <1>AnsweredSessionIsKept. Agents!AnsweredSessionIsKept'
    BY <1>1, AgentsParts DEF Agents!AnsweredSessionIsKept, Agents!CallsSeeTheirMapping, Agents!Active,
      Agents!Waiting, Agents!Inside, Agents!OwnersHaveTheFile, Agents!AtWork, Agents!Entry, Agents!TypeOK,
      Agents!Born, Agents!OneCallOfAKey
  <1> QED
    BY <1>TypeOK, <1>OneCallOfAKey, <1>OwnersHaveTheFile, <1>CallsSeeTheirMapping, <1>AnsweredSessionIsKept DEF Agents!AgentsInv

(* Crash keeps the invariant of Agents.                                                 *)
LEMMA AgentsCrash ==
  ASSUME Agents!AgentsInv, NEW p, Agents!Crash(p)
  PROVE  Agents!AgentsInv'
  <1>1. /\ x3' = x3 /\ x4' = x4 /\ x5' = x5 /\ x6' = x6 /\ x7' = x7
        /\ x2' = [k \in AgentKey |-> IF ProcessOf[k] = p THEN {} ELSE x2[k]]
    BY DEF Agents!Crash
  <1>2. x1' \in [AgentCall -> Agents!CallRecord]
    BY AgentsParts DEF Agents!Crash, Agents!CallRecord
  <1>3. \A c \in AgentCall : IF ProcessOf[KeyOf[c]] = p THEN x1'[c].pc \in {"idle", "done", "failed"} ELSE x1'[c] = x1[c]
    BY AgentsParts DEF Agents!Crash, Agents!CallRecord
  <1>TypeOK. Agents!TypeOK'
    BY <1>1, <1>2, <1>3, AgentsParts, AgentsGrows DEF Agents!TypeOK
  <1>OneCallOfAKey. Agents!OneCallOfAKey'
    BY <1>1, <1>2, <1>3, AgentsParts DEF Agents!OneCallOfAKey, Agents!Active, Agents!Waiting, Agents!Inside,
      Agents!TypeOK
  <1>OwnersHaveTheFile. Agents!OwnersHaveTheFile'
    BY <1>1, <1>2, <1>3, AgentsParts DEF Agents!OwnersHaveTheFile, Agents!AtWork, Agents!Entry, Agents!Active,
      Agents!Waiting, Agents!Inside, Agents!OneCallOfAKey, Agents!TypeOK
  <1>CallsSeeTheirMapping. Agents!CallsSeeTheirMapping'
    BY <1>1, <1>2, <1>3, AgentsParts DEF Agents!CallsSeeTheirMapping, Agents!Active, Agents!Waiting,
      Agents!Inside, Agents!OneCallOfAKey, Agents!OwnersHaveTheFile, Agents!AtWork, Agents!Entry,
      Agents!AnsweredSessionIsKept, Agents!TypeOK, Agents!Born
  <1>AnsweredSessionIsKept. Agents!AnsweredSessionIsKept'
    BY <1>1, <1>2, <1>3, AgentsParts DEF Agents!AnsweredSessionIsKept, Agents!CallsSeeTheirMapping,
      Agents!Active, Agents!Waiting, Agents!Inside, Agents!OwnersHaveTheFile, Agents!AtWork, Agents!Entry,
      Agents!TypeOK, Agents!Born, Agents!OneCallOfAKey
  <1> QED
    BY <1>TypeOK, <1>OneCallOfAKey, <1>OwnersHaveTheFile, <1>CallsSeeTheirMapping, <1>AnsweredSessionIsKept DEF Agents!AgentsInv

(* The first state has the invariant of Agents.                                         *)
LEMMA AgentsInitially == Agents!Init => Agents!AgentsInv
  <1> SUFFICES ASSUME Agents!Init
               PROVE  Agents!AgentsInv
    OBVIOUS
  <1>1. Agents!NewCall \in Agents!CallRecord /\ Agents!NewCall.pc = "idle"
    BY DEF Agents!Init, Agents!NewCall, Agents!CallRecord, Agents!Born
  <1>2. Agents!TypeOK
    <2>1. x5.created = 0 /\ x5.alive = {} /\ ~ x4.held /\ 0 \in Agents!Born
      BY DEF Agents!Init, Agents!FreeLock, Agents!Born
    <2>2. x1 \in [AgentCall -> Agents!CallRecord]
      BY <1>1 DEF Agents!Init
    <2>3. x2 \in [AgentKey -> SUBSET AgentCall] /\ x3 \in [AgentKey -> Agents!Born] /\ x6 \in [AgentKey -> Agents!Born] /\ x7 \in BOOLEAN
      BY <2>1 DEF Agents!Init
    <2> QED
      BY <2>1, <2>2, <2>3 DEF Agents!TypeOK
  <1>3. Agents!OneCallOfAKey /\ Agents!OwnersHaveTheFile /\ Agents!CallsSeeTheirMapping
    BY <1>1 DEF Agents!Init, Agents!OneCallOfAKey, Agents!OwnersHaveTheFile, Agents!CallsSeeTheirMapping, Agents!AtWork,
                Agents!Active, Agents!Waiting, Agents!Inside
  <1> QED
    BY <1>2, <1>3 DEF Agents!Init, Agents!AgentsInv, Agents!AnsweredSessionIsKept

(* Every step keeps the invariant of Agents.                                            *)
LEMMA AgentsNext == Agents!AgentsInv /\ Agents!Next => Agents!AgentsInv'
  BY AgentsBegin, AgentsGet, AgentsCommand, AgentsCreate, AgentsCommandFails, AgentsLock, AgentsStat, AgentsUnlink,
     AgentsLockFails, AgentsLoad, AgentsSave, AgentsSaveFails, AgentsRelease, AgentsAge, AgentsCrash, AgentsForget
  DEF Agents!Next

(* A step that changes nothing keeps the invariant of Agents.                           *)
LEMMA AgentsSame ==
  ASSUME Agents!AgentsInv,
         x1' = x1, x2' = x2, x3' = x3, x4' = x4, x5' = x5, x6' = x6, x7' = x7, x8' = x8
  PROVE  Agents!AgentsInv'
  <1>TypeOK. Agents!TypeOK'
    BY AgentsParts, AgentsGrows DEF Agents!TypeOK
  <1>OneCallOfAKey. Agents!OneCallOfAKey'
    BY AgentsParts DEF Agents!OneCallOfAKey, Agents!Active, Agents!Waiting, Agents!Inside, Agents!TypeOK
  <1>OwnersHaveTheFile. Agents!OwnersHaveTheFile'
    BY AgentsParts DEF Agents!OwnersHaveTheFile, Agents!AtWork, Agents!Entry, Agents!Active, Agents!Waiting,
      Agents!Inside, Agents!OneCallOfAKey, Agents!TypeOK
  <1>CallsSeeTheirMapping. Agents!CallsSeeTheirMapping'
    BY AgentsParts DEF Agents!CallsSeeTheirMapping, Agents!Active, Agents!Waiting, Agents!Inside,
      Agents!OneCallOfAKey, Agents!OwnersHaveTheFile, Agents!AtWork, Agents!Entry, Agents!AnsweredSessionIsKept,
      Agents!TypeOK, Agents!Born
  <1>AnsweredSessionIsKept. Agents!AnsweredSessionIsKept'
    BY AgentsParts DEF Agents!AnsweredSessionIsKept, Agents!CallsSeeTheirMapping, Agents!Active, Agents!Waiting,
      Agents!Inside, Agents!OwnersHaveTheFile, Agents!AtWork, Agents!Entry, Agents!TypeOK, Agents!Born,
      Agents!OneCallOfAKey
  <1> QED
    BY <1>TypeOK, <1>OneCallOfAKey, <1>OwnersHaveTheFile, <1>CallsSeeTheirMapping, <1>AnsweredSessionIsKept DEF Agents!AgentsInv
(* The parts of the invariant, to be cited together.                          *)
LEMMA RequestsParts ==
  ASSUME Requests!RequestsInv
  PROVE  /\ Requests!TypeOK /\ Requests!PermitCovers /\ Requests!TagsAreTrue /\ Requests!RequestsAreUncaptured
         /\ x7 = {} /\ \A r \in Request : x1[r] \in Requests!RequestRecord
  BY DEF Requests!RequestsInv, Requests!TypeOK

(* One request moves.                                                        *)
LEMMA RequestMoves ==
  ASSUME Requests!TypeOK, NEW r \in Request, NEW n \in Requests!RequestRecord, x1' = [x1 EXCEPT ![r] = n]
  PROVE  x1' \in [Request -> Requests!RequestRecord] /\ x1'[r] = n /\ \A q \in Request : q # r => x1'[q] = x1[q]
  BY DEF Requests!TypeOK


(* A step that changes nothing keeps the invariant of Requests.                         *)
LEMMA RequestsSame ==
  ASSUME Requests!RequestsInv, x1' = x1, x2' = x2, x4' = x4, x5' = x5, x6' = x6, x7' = x7
  PROVE  Requests!RequestsInv'
  <1>TypeOK. Requests!TypeOK'
    BY RequestsParts DEF Requests!TypeOK
  <1>PermitCovers. Requests!PermitCovers'
    BY RequestsParts DEF Requests!PermitCovers, Requests!Permitting, Requests!TypeOK
  <1>TagsAreTrue. Requests!TagsAreTrue'
    BY RequestsParts DEF Requests!TagsAreTrue, Requests!Out, Requests!RefusedDidNotHappen, Requests!Unsent,
      Requests!TypeOK, Requests!Told, Requests!Unknown
  <1>RequestsAreUncaptured. Requests!RequestsAreUncaptured'
    BY RequestsParts DEF Requests!RequestsAreUncaptured, Requests!IsUncaptured, Requests!TypeOK,
      Requests!PermitCovers, Requests!Permitting
  <1>NothingStrayed. x7' = {}
    BY RequestsParts
  <1> QED
    BY <1>TypeOK, <1>PermitCovers, <1>TagsAreTrue, <1>RequestsAreUncaptured, <1>NothingStrayed DEF
      Requests!RequestsInv

(* Ask keeps the invariant of Requests.                                                 *)
LEMMA RequestsAsk ==
  ASSUME Requests!RequestsInv, NEW r \in Request, Requests!Ask(r)
  PROVE  Requests!RequestsInv'
  <1> DEFINE n == [x1[r] EXCEPT !.pc = "waiting"]
  <1>1. n \in Requests!RequestRecord /\ n.pc = "waiting" /\ n.tag = x1[r].tag /\ n.told = x1[r].told /\ n.lost = x1[r].lost
    BY RequestsParts DEF Requests!RequestRecord, Requests!Tag, Requests!Unsent, Requests!Permitting,
      Requests!TypeOK
  <1>2. x1' = [x1 EXCEPT ![r] = n] /\ x1[r].pc = "idle" /\ x2' = x2 /\ x3' = x3 /\ x4' = x4 /\ x5' = x5 /\ x6' = x6 /\ x7' = x7
    BY RequestsParts DEF Requests!Ask, Requests!To, Requests!TypeOK
  <1> HIDE DEF n
  <1>3. x1' \in [Request -> Requests!RequestRecord] /\ x1'[r] = n /\ \A q \in Request : q # r => x1'[q] = x1[q]
    BY <1>1, <1>2, RequestsParts, RequestMoves
  <1>TypeOK. Requests!TypeOK'
    BY <1>1, <1>2, <1>3, RequestsParts DEF Requests!TypeOK
  <1>PermitCovers. Requests!PermitCovers'
    BY <1>1, <1>2, <1>3, RequestsParts DEF Requests!PermitCovers, Requests!Permitting, Requests!TypeOK
  <1>TagsAreTrue. Requests!TagsAreTrue'
    BY <1>1, <1>2, <1>3, RequestsParts DEF Requests!TagsAreTrue, Requests!Out, Requests!RefusedDidNotHappen,
      Requests!Unsent, Requests!TypeOK, Requests!Told, Requests!Unknown
  <1>RequestsAreUncaptured. Requests!RequestsAreUncaptured'
    BY <1>1, <1>2, <1>3, RequestsParts DEF Requests!RequestsAreUncaptured, Requests!IsUncaptured,
      Requests!TypeOK, Requests!PermitCovers, Requests!Permitting
  <1>NothingStrayed. x7' = {}
    BY <1>1, <1>2, <1>3, RequestsParts
  <1> QED
    BY <1>TypeOK, <1>PermitCovers, <1>TagsAreTrue, <1>RequestsAreUncaptured, <1>NothingStrayed DEF
      Requests!RequestsInv

(* Reject keeps the invariant of Requests.                                              *)
LEMMA RequestsReject ==
  ASSUME Requests!RequestsInv, NEW r \in Request, Requests!Reject(r)
  PROVE  Requests!RequestsInv'
  <1> DEFINE n == [x1[r] EXCEPT !.pc = "replied", !.tag = "rejected"]
  <1>1. n \in Requests!RequestRecord /\ n.pc = "replied" /\ n.tag = "rejected" /\ n.told = x1[r].told /\ n.lost = x1[r].lost
    BY RequestsParts DEF Requests!RequestRecord, Requests!Tag, Requests!Unsent, Requests!Permitting,
      Requests!TypeOK
  <1>2. x1' = [x1 EXCEPT ![r] = n] /\ x1[r].pc = "waiting" /\ x2' = x2 /\ x3' = x3 /\ x4' = x4 /\ x5' = x5 /\ x6' = x6 /\ x7' = x7
    BY RequestsParts DEF Requests!Reject, Requests!TypeOK
  <1> HIDE DEF n
  <1>3. x1' \in [Request -> Requests!RequestRecord] /\ x1'[r] = n /\ \A q \in Request : q # r => x1'[q] = x1[q]
    BY <1>1, <1>2, RequestsParts, RequestMoves
  <1>TypeOK. Requests!TypeOK'
    BY <1>1, <1>2, <1>3, RequestsParts DEF Requests!TypeOK
  <1>PermitCovers. Requests!PermitCovers'
    BY <1>1, <1>2, <1>3, RequestsParts DEF Requests!PermitCovers, Requests!Permitting, Requests!TypeOK
  <1>TagsAreTrue. Requests!TagsAreTrue'
    BY <1>1, <1>2, <1>3, RequestsParts DEF Requests!TagsAreTrue, Requests!Out, Requests!RefusedDidNotHappen,
      Requests!Unsent, Requests!TypeOK, Requests!Told, Requests!Unknown
  <1>RequestsAreUncaptured. Requests!RequestsAreUncaptured'
    BY <1>1, <1>2, <1>3, RequestsParts DEF Requests!RequestsAreUncaptured, Requests!IsUncaptured,
      Requests!TypeOK, Requests!PermitCovers, Requests!Permitting
  <1>NothingStrayed. x7' = {}
    BY <1>1, <1>2, <1>3, RequestsParts
  <1> QED
    BY <1>TypeOK, <1>PermitCovers, <1>TagsAreTrue, <1>RequestsAreUncaptured, <1>NothingStrayed DEF
      Requests!RequestsInv

(* Grant keeps the invariant of Requests.                                               *)
LEMMA RequestsGrant ==
  ASSUME Requests!RequestsInv, NEW r \in Request, Requests!Grant(r)
  PROVE  Requests!RequestsInv'
  <1> DEFINE n == IF Requests!Excluded(r) THEN [x1[r] EXCEPT !.pc = "saving", !.tag = "SensitiveCaptureActive"]
                                             ELSE [x1[r] EXCEPT !.pc = "page"]
  <1>1. n \in Requests!RequestRecord /\ (SensitiveOf[r] /\ x4 => n.pc = "saving") /\ n.pc \in {"page", "saving"}
        /\ (n.pc = "saving" => n.tag = "SensitiveCaptureActive") /\ n.told = x1[r].told /\ n.lost = x1[r].lost
    BY RequestsParts DEF Requests!RequestRecord, Requests!Tag, Requests!Unsent, Requests!Permitting,
      Requests!TypeOK, Requests!Excluded
  <1>2. x1' = [x1 EXCEPT ![r] = n] /\ x1[r].pc = "waiting" /\ x2 = Nobody /\ x2' = r /\ x3' = x3 /\ x4' = x4 /\ x5' = x5 /\ x6' = x6 /\ x7' = x7
    BY RequestsParts DEF Requests!Grant, Requests!Ends, Requests!To, Requests!TypeOK
  <1> HIDE DEF n
  <1>3. x1' \in [Request -> Requests!RequestRecord] /\ x1'[r] = n /\ \A q \in Request : q # r => x1'[q] = x1[q]
    BY <1>1, <1>2, RequestsParts, RequestMoves
  <1>TypeOK. Requests!TypeOK'
    BY <1>1, <1>2, <1>3, RequestsParts, RequestsAssumption DEF Requests!TypeOK
  <1>PermitCovers. Requests!PermitCovers'
    BY <1>1, <1>2, <1>3, RequestsParts, RequestsAssumption DEF Requests!PermitCovers, Requests!Permitting,
      Requests!TypeOK
  <1>TagsAreTrue. Requests!TagsAreTrue'
    BY <1>1, <1>2, <1>3, RequestsParts, RequestsAssumption DEF Requests!TagsAreTrue, Requests!Out,
      Requests!RefusedDidNotHappen, Requests!Unsent, Requests!TypeOK, Requests!Told, Requests!Unknown
  <1>RequestsAreUncaptured. Requests!RequestsAreUncaptured'
    BY <1>1, <1>2, <1>3, RequestsParts, RequestsAssumption DEF Requests!RequestsAreUncaptured,
      Requests!IsUncaptured, Requests!TypeOK, Requests!PermitCovers, Requests!Permitting
  <1>NothingStrayed. x7' = {}
    BY <1>1, <1>2, <1>3, RequestsParts, RequestsAssumption
  <1> QED
    BY <1>TypeOK, <1>PermitCovers, <1>TagsAreTrue, <1>RequestsAreUncaptured, <1>NothingStrayed DEF
      Requests!RequestsInv

(* Reply keeps the invariant of Requests.                                               *)
LEMMA RequestsReply ==
  ASSUME Requests!RequestsInv, NEW r \in Request, Requests!Reply(r)
  PROVE  Requests!RequestsInv'
  <1>0. PICK tag \in {x1[r].tag, "unreachable", "mismatch"} : Requests!Tells(r, tag)
    BY DEF Requests!Reply
  <1> DEFINE n == [x1[r] EXCEPT !.pc = "told", !.tag = tag, !.told = Requests!Told(r, tag)]
  <1>1. n \in Requests!RequestRecord /\ n.pc = "told" /\ n.told = Requests!Told(r, tag) /\ n.lost = x1[r].lost
    <2>1. Requests!Told(r, tag) \in {"not-done", "refused", "unknown", "done"}
      BY DEF Requests!Told, Requests!Unknown
    <2>2. tag \in Requests!Tag
      BY RequestsParts DEF Requests!RequestRecord, Requests!Tag
    <2> QED
      BY <2>1, <2>2, RequestsParts DEF Requests!RequestRecord
  <1>2. x1' = [x1 EXCEPT ![r] = n] /\ x1[r].pc = "replied" /\ x2' = x2 /\ x3' = x3 /\ x4' = x4 /\ x5' = x5 /\ x6' = x6 /\ x7' = x7
    BY <1>0, RequestsParts DEF Requests!Reply, Requests!Tells, Requests!TypeOK
  <1> HIDE DEF n
  <1>3. x1' \in [Request -> Requests!RequestRecord] /\ x1'[r] = n /\ \A q \in Request : q # r => x1'[q] = x1[q]
    BY <1>1, <1>2, RequestsParts, RequestMoves
  <1>TypeOK. Requests!TypeOK'
    BY <1>0, <1>1, <1>2, <1>3, RequestsParts DEF Requests!TypeOK
  <1>PermitCovers. Requests!PermitCovers'
    BY <1>0, <1>1, <1>2, <1>3, RequestsParts DEF Requests!PermitCovers, Requests!Permitting, Requests!TypeOK
  <1>TagsAreTrue. Requests!TagsAreTrue'
    BY <1>0, <1>1, <1>2, <1>3, RequestsParts DEF Requests!TagsAreTrue, Requests!Out,
      Requests!RefusedDidNotHappen, Requests!Unsent, Requests!TypeOK, Requests!Told, Requests!Unknown
  <1>RequestsAreUncaptured. Requests!RequestsAreUncaptured'
    BY <1>0, <1>1, <1>2, <1>3, RequestsParts DEF Requests!RequestsAreUncaptured, Requests!IsUncaptured,
      Requests!TypeOK, Requests!PermitCovers, Requests!Permitting
  <1>NothingStrayed. x7' = {}
    BY <1>0, <1>1, <1>2, <1>3, RequestsParts
  <1> QED
    BY <1>TypeOK, <1>PermitCovers, <1>TagsAreTrue, <1>RequestsAreUncaptured, <1>NothingStrayed DEF
      Requests!RequestsInv

(* Save keeps the invariant of Requests.                                                *)
LEMMA RequestsSave ==
  ASSUME Requests!RequestsInv, NEW r \in Request, Requests!Save(r)
  PROVE  Requests!RequestsInv'
  <1>0. x2' = Nobody /\ x1[r].pc = "saving" /\ x3' = x3 /\ x4' = x4 /\ x5' = x5 /\ x6' = x6 /\ x7' = x7
    BY DEF Requests!Save
  <1>1. PICK n \in Requests!RequestRecord :
          /\ x1' = [x1 EXCEPT ![r] = n] /\ n.pc = "replied" /\ n.told = x1[r].told
          /\ n.lost \/ (n.tag = x1[r].tag /\ n.lost = x1[r].lost)
    <2> DEFINE a == [x1[r] EXCEPT !.pc = "replied"]
               b == [x1[r] EXCEPT !.pc = "replied", !.tag = "rejected", !.lost = TRUE]
    <2>1. /\ a \in Requests!RequestRecord /\ a.pc = "replied" /\ a.told = x1[r].told /\ a.tag = x1[r].tag /\ a.lost = x1[r].lost
          /\ b \in Requests!RequestRecord /\ b.pc = "replied" /\ b.told = x1[r].told /\ b.lost
      BY RequestsParts DEF Requests!RequestRecord, Requests!Tag
    <2>2. x1' = [x1 EXCEPT ![r] = a] \/ x1' = [x1 EXCEPT ![r] = b]
      BY RequestsParts DEF Requests!Save, Requests!To, Requests!TypeOK
    <2> HIDE DEF a, b
    <2> QED
      BY <2>1, <2>2
  <1>2. x1' \in [Request -> Requests!RequestRecord] /\ x1'[r] = n /\ \A q \in Request : q # r => x1'[q] = x1[q]
    <2>1. x1' = [x1 EXCEPT ![r] = n]
      BY <1>1
    <2> QED
      BY <2>1, RequestsParts, RequestMoves
  <1>TypeOK. Requests!TypeOK'
    BY <1>0, <1>1, <1>2, RequestsParts DEF Requests!TypeOK
  <1>PermitCovers. Requests!PermitCovers'
    BY <1>0, <1>1, <1>2, RequestsParts DEF Requests!PermitCovers, Requests!Permitting, Requests!TypeOK
  <1>TagsAreTrue. Requests!TagsAreTrue'
    BY <1>0, <1>1, <1>2, RequestsParts DEF Requests!TagsAreTrue, Requests!Out, Requests!RefusedDidNotHappen,
      Requests!Unsent, Requests!TypeOK, Requests!Told, Requests!Unknown
  <1>RequestsAreUncaptured. Requests!RequestsAreUncaptured'
    BY <1>0, <1>1, <1>2, RequestsParts DEF Requests!RequestsAreUncaptured, Requests!IsUncaptured,
      Requests!TypeOK, Requests!PermitCovers, Requests!Permitting
  <1>NothingStrayed. x7' = {}
    BY <1>0, <1>1, <1>2, RequestsParts
  <1> QED
    BY <1>TypeOK, <1>PermitCovers, <1>TagsAreTrue, <1>RequestsAreUncaptured, <1>NothingStrayed DEF
      Requests!RequestsInv

(* GoTo keeps the invariant of Requests.                                                *)
LEMMA RequestsGoTo ==
  ASSUME Requests!RequestsInv, NEW r \in Request, Requests!GoTo(r)
  PROVE  Requests!RequestsInv'
  <1>0. x1[r].pc = "page" /\ x2' \in {x2, Nobody} /\ x4' = x4 /\ x5' = x5 /\ x6' = x6 /\ x7' = x7
    BY DEF Requests!GoTo, Requests!Fails
  <1>1. PICK n \in Requests!RequestRecord :
          /\ x1' = [x1 EXCEPT ![r] = n] /\ n.told = x1[r].told
          /\ (n.pc = "checked" /\ x2' = x2 /\ n.lost = x1[r].lost) \/ (n.pc = "replied" /\ x2' = Nobody)
    <2> DEFINE a == [x1[r] EXCEPT !.pc = "checked"]
               b == [x1[r] EXCEPT !.pc = "replied", !.tag = "rejected", !.lost = (x1[r].pc = "fetching")]
    <2>1. /\ a \in Requests!RequestRecord /\ a.pc = "checked" /\ a.told = x1[r].told /\ a.lost = x1[r].lost
          /\ b \in Requests!RequestRecord /\ b.pc = "replied" /\ b.told = x1[r].told
      BY RequestsParts DEF Requests!RequestRecord, Requests!Tag, Requests!Unsent
    <2>2. (x1' = [x1 EXCEPT ![r] = a] /\ x2' = x2) \/ (x1' = [x1 EXCEPT ![r] = b] /\ x2' = Nobody)
      BY RequestsParts DEF Requests!GoTo, Requests!To, Requests!Fails, Requests!TypeOK
    <2> HIDE DEF a, b
    <2> QED
      BY <2>1, <2>2
  <1>2. x1' \in [Request -> Requests!RequestRecord] /\ x1'[r] = n /\ \A q \in Request : q # r => x1'[q] = x1[q]
    <2>1. x1' = [x1 EXCEPT ![r] = n]
      BY <1>1
    <2> QED
      BY <2>1, RequestsParts, RequestMoves
  <1>TypeOK. Requests!TypeOK'
    BY <1>0, <1>1, <1>2, RequestsParts DEF Requests!TypeOK
  <1>PermitCovers. Requests!PermitCovers'
    BY <1>0, <1>1, <1>2, RequestsParts DEF Requests!PermitCovers, Requests!Permitting, Requests!TypeOK
  <1>TagsAreTrue. Requests!TagsAreTrue'
    BY <1>0, <1>1, <1>2, RequestsParts DEF Requests!TagsAreTrue, Requests!Out, Requests!RefusedDidNotHappen,
      Requests!Unsent, Requests!TypeOK, Requests!Told, Requests!Unknown
  <1>RequestsAreUncaptured. Requests!RequestsAreUncaptured'
    BY <1>0, <1>1, <1>2, RequestsParts DEF Requests!RequestsAreUncaptured, Requests!IsUncaptured,
      Requests!TypeOK, Requests!PermitCovers, Requests!Permitting
  <1>NothingStrayed. x7' = {}
    BY <1>0, <1>1, <1>2, RequestsParts
  <1> QED
    BY <1>TypeOK, <1>PermitCovers, <1>TagsAreTrue, <1>RequestsAreUncaptured, <1>NothingStrayed DEF
      Requests!RequestsInv

(* CheckOrigin keeps the invariant of Requests.                                         *)
LEMMA RequestsCheckOrigin ==
  ASSUME Requests!RequestsInv, NEW r \in Request, Requests!CheckOrigin(r)
  PROVE  Requests!RequestsInv'
  <1> DEFINE n == IF x3.seen = "own" THEN [x1[r] EXCEPT !.pc = "evaluate"]
                     ELSE [x1[r] EXCEPT !.pc = "saving", !.tag = "OriginMismatch"]
  <1>1. n \in Requests!RequestRecord /\ n.pc \in {"evaluate", "saving"} /\ (n.pc = "saving" => n.tag = "OriginMismatch")
        /\ n.told = x1[r].told /\ n.lost = x1[r].lost
    BY RequestsParts DEF Requests!RequestRecord, Requests!Tag, Requests!Unsent, Requests!Permitting,
      Requests!TypeOK
  <1>2. x1' = [x1 EXCEPT ![r] = n] /\ x1[r].pc \in {"checked", "page"} /\ x2' = x2 /\ x3' = x3 /\ x4' = x4 /\ x5' = x5 /\ x6' = x6 /\ x7' = x7
    BY RequestsParts DEF Requests!CheckOrigin, Requests!Ends, Requests!To, Requests!TypeOK
  <1> HIDE DEF n
  <1>3. x1' \in [Request -> Requests!RequestRecord] /\ x1'[r] = n /\ \A q \in Request : q # r => x1'[q] = x1[q]
    BY <1>1, <1>2, RequestsParts, RequestMoves
  <1>TypeOK. Requests!TypeOK'
    BY <1>1, <1>2, <1>3, RequestsParts DEF Requests!TypeOK
  <1>PermitCovers. Requests!PermitCovers'
    BY <1>1, <1>2, <1>3, RequestsParts DEF Requests!PermitCovers, Requests!Permitting, Requests!TypeOK
  <1>TagsAreTrue. Requests!TagsAreTrue'
    BY <1>1, <1>2, <1>3, RequestsParts DEF Requests!TagsAreTrue, Requests!Out, Requests!RefusedDidNotHappen,
      Requests!Unsent, Requests!TypeOK, Requests!Told, Requests!Unknown
  <1>RequestsAreUncaptured. Requests!RequestsAreUncaptured'
    BY <1>1, <1>2, <1>3, RequestsParts DEF Requests!RequestsAreUncaptured, Requests!IsUncaptured,
      Requests!TypeOK, Requests!PermitCovers, Requests!Permitting
  <1>NothingStrayed. x7' = {}
    BY <1>1, <1>2, <1>3, RequestsParts
  <1> QED
    BY <1>TypeOK, <1>PermitCovers, <1>TagsAreTrue, <1>RequestsAreUncaptured, <1>NothingStrayed DEF
      Requests!RequestsInv

(* Fetch keeps the invariant of Requests.                                               *)
LEMMA RequestsFetch ==
  ASSUME Requests!RequestsInv, NEW r \in Request, Requests!Fetch(r)
  PROVE  Requests!RequestsInv'
  <1> DEFINE n == IF x3.origin = "own" THEN [x1[r] EXCEPT !.pc = "fetching"]
                     ELSE [x1[r] EXCEPT !.pc = "saving", !.tag = "OriginMismatch"]
  <1>1. n \in Requests!RequestRecord /\ n.pc \in {"fetching", "saving"} /\ (n.pc = "saving" => n.tag = "OriginMismatch")
        /\ n.told = x1[r].told /\ n.lost = x1[r].lost
    BY RequestsParts DEF Requests!RequestRecord, Requests!Tag, Requests!Unsent, Requests!Permitting,
      Requests!TypeOK
  <1>2. x1' = [x1 EXCEPT ![r] = n] /\ x1[r].pc = "evaluate" /\ x5' = (IF n.pc = "fetching" THEN x5 \cup {r} ELSE x5)
        /\ x2' = x2 /\ x3' = x3 /\ x4' = x4 /\ x6' = x6 /\ x7' = x7
    BY RequestsParts DEF Requests!Fetch, Requests!PageChecks, Requests!Ends, Requests!To,
      Requests!RequestRecord, Requests!TypeOK
  <1> HIDE DEF n
  <1>3. x1' \in [Request -> Requests!RequestRecord] /\ x1'[r] = n /\ \A q \in Request : q # r => x1'[q] = x1[q]
    BY <1>1, <1>2, RequestsParts, RequestMoves
  <1>TypeOK. Requests!TypeOK'
    BY <1>1, <1>2, <1>3, RequestsParts DEF Requests!TypeOK
  <1>PermitCovers. Requests!PermitCovers'
    BY <1>1, <1>2, <1>3, RequestsParts DEF Requests!PermitCovers, Requests!Permitting, Requests!TypeOK
  <1>TagsAreTrue. Requests!TagsAreTrue'
    BY <1>1, <1>2, <1>3, RequestsParts DEF Requests!TagsAreTrue, Requests!Out, Requests!RefusedDidNotHappen,
      Requests!Unsent, Requests!TypeOK, Requests!Told, Requests!Unknown
  <1>RequestsAreUncaptured. Requests!RequestsAreUncaptured'
    BY <1>1, <1>2, <1>3, RequestsParts DEF Requests!RequestsAreUncaptured, Requests!IsUncaptured,
      Requests!TypeOK, Requests!PermitCovers, Requests!Permitting
  <1>NothingStrayed. x7' = {}
    BY <1>1, <1>2, <1>3, RequestsParts
  <1> QED
    BY <1>TypeOK, <1>PermitCovers, <1>TagsAreTrue, <1>RequestsAreUncaptured, <1>NothingStrayed DEF
      Requests!RequestsInv

(* Answered keeps the invariant of Requests.                                            *)
LEMMA RequestsAnswered ==
  ASSUME Requests!RequestsInv, NEW r \in Request, Requests!Answered(r)
  PROVE  Requests!RequestsInv'
  <1>0. x1[r].pc = "fetching" /\ r \notin x5 /\ x2' = x2 /\ x3' = x3 /\ x4' = x4 /\ x5' = x5 /\ x6' = x6 /\ x7' = x7
    BY DEF Requests!Answered
  <1>1. PICK tag \in {"Success", "ResponseTooLarge", "InvalidJson", "HttpError"} :
          /\ x1' = [x1 EXCEPT ![r].pc = "saving", ![r].tag = tag]
          /\ r \in x6 => tag # "HttpError"
    BY DEF Requests!Answered, Requests!Ends
  <1> DEFINE n == [x1[r] EXCEPT !.pc = "saving", !.tag = tag]
  <1>2. n \in Requests!RequestRecord /\ n.pc = "saving" /\ n.tag = tag /\ n.told = x1[r].told /\ n.lost = x1[r].lost
    BY RequestsParts DEF Requests!RequestRecord, Requests!Tag, Requests!Permitting
  <1>3. x1' = [x1 EXCEPT ![r] = n]
    BY <1>1, RequestsParts DEF Requests!TypeOK
  <1> HIDE DEF n
  <1>4. x1' \in [Request -> Requests!RequestRecord] /\ x1'[r] = n /\ \A q \in Request : q # r => x1'[q] = x1[q]
    BY <1>2, <1>3, RequestsParts, RequestMoves
  <1>TypeOK. Requests!TypeOK'
    BY <1>0, <1>1, <1>2, <1>3, <1>4, RequestsParts DEF Requests!TypeOK
  <1>PermitCovers. Requests!PermitCovers'
    BY <1>0, <1>1, <1>2, <1>3, <1>4, RequestsParts DEF Requests!PermitCovers, Requests!Permitting,
      Requests!TypeOK
  <1>TagsAreTrue. Requests!TagsAreTrue'
    BY <1>0, <1>1, <1>2, <1>3, <1>4, RequestsParts DEF Requests!TagsAreTrue, Requests!Out,
      Requests!RefusedDidNotHappen, Requests!Unsent, Requests!TypeOK, Requests!Told, Requests!Unknown
  <1>RequestsAreUncaptured. Requests!RequestsAreUncaptured'
    BY <1>0, <1>1, <1>2, <1>3, <1>4, RequestsParts DEF Requests!RequestsAreUncaptured, Requests!IsUncaptured,
      Requests!TypeOK, Requests!PermitCovers, Requests!Permitting
  <1>NothingStrayed. x7' = {}
    BY <1>0, <1>1, <1>2, <1>3, <1>4, RequestsParts
  <1> QED
    BY <1>TypeOK, <1>PermitCovers, <1>TagsAreTrue, <1>RequestsAreUncaptured, <1>NothingStrayed DEF
      Requests!RequestsInv

(* FetchFails keeps the invariant of Requests.                                          *)
LEMMA RequestsFetchFails ==
  ASSUME Requests!RequestsInv, NEW r \in Request, Requests!FetchFails(r)
  PROVE  Requests!RequestsInv'
  <1> DEFINE n == [x1[r] EXCEPT !.pc = "saving", !.tag = "RequestFailed"]
  <1>1. n \in Requests!RequestRecord /\ n.pc = "saving" /\ n.tag = "RequestFailed" /\ n.told = x1[r].told /\ n.lost = x1[r].lost
    BY RequestsParts DEF Requests!RequestRecord, Requests!Tag, Requests!Unsent, Requests!Permitting,
      Requests!TypeOK
  <1>2. x1' = [x1 EXCEPT ![r] = n] /\ x1[r].pc = "fetching" /\ x2' = x2 /\ x3' = x3 /\ x4' = x4 /\ x5' = x5 /\ x6' = x6 /\ x7' = x7
    BY RequestsParts DEF Requests!FetchFails, Requests!Ends, Requests!TypeOK
  <1> HIDE DEF n
  <1>3. x1' \in [Request -> Requests!RequestRecord] /\ x1'[r] = n /\ \A q \in Request : q # r => x1'[q] = x1[q]
    BY <1>1, <1>2, RequestsParts, RequestMoves
  <1>TypeOK. Requests!TypeOK'
    BY <1>1, <1>2, <1>3, RequestsParts DEF Requests!TypeOK
  <1>PermitCovers. Requests!PermitCovers'
    BY <1>1, <1>2, <1>3, RequestsParts DEF Requests!PermitCovers, Requests!Permitting, Requests!TypeOK
  <1>TagsAreTrue. Requests!TagsAreTrue'
    BY <1>1, <1>2, <1>3, RequestsParts DEF Requests!TagsAreTrue, Requests!Out, Requests!RefusedDidNotHappen,
      Requests!Unsent, Requests!TypeOK, Requests!Told, Requests!Unknown
  <1>RequestsAreUncaptured. Requests!RequestsAreUncaptured'
    BY <1>1, <1>2, <1>3, RequestsParts DEF Requests!RequestsAreUncaptured, Requests!IsUncaptured,
      Requests!TypeOK, Requests!PermitCovers, Requests!Permitting
  <1>NothingStrayed. x7' = {}
    BY <1>1, <1>2, <1>3, RequestsParts
  <1> QED
    BY <1>TypeOK, <1>PermitCovers, <1>TagsAreTrue, <1>RequestsAreUncaptured, <1>NothingStrayed DEF
      Requests!RequestsInv

(* Serve keeps the invariant of Requests.                                               *)
LEMMA RequestsServe ==
  ASSUME Requests!RequestsInv, NEW r \in Request, Requests!Serve(r)
  PROVE  Requests!RequestsInv'
  <1>1. x5' = x5 \ {r} /\ r \in x5 /\ x6' \in {x6, x6 \cup {r}} /\ x1' = x1 /\ x2' = x2 /\ x3' = x3 /\ x4' = x4 /\ x7' = x7
    BY DEF Requests!Serve
  <1>TypeOK. Requests!TypeOK'
    BY <1>1, RequestsParts DEF Requests!TypeOK
  <1>PermitCovers. Requests!PermitCovers'
    BY <1>1, RequestsParts DEF Requests!PermitCovers, Requests!Permitting, Requests!TypeOK
  <1>TagsAreTrue. Requests!TagsAreTrue'
    BY <1>1, RequestsParts DEF Requests!TagsAreTrue, Requests!Out, Requests!RefusedDidNotHappen,
      Requests!Unsent, Requests!TypeOK, Requests!Told, Requests!Unknown
  <1>RequestsAreUncaptured. Requests!RequestsAreUncaptured'
    BY <1>1, RequestsParts DEF Requests!RequestsAreUncaptured, Requests!IsUncaptured, Requests!TypeOK,
      Requests!PermitCovers, Requests!Permitting
  <1>NothingStrayed. x7' = {}
    BY <1>1, RequestsParts
  <1> QED
    BY <1>TypeOK, <1>PermitCovers, <1>TagsAreTrue, <1>RequestsAreUncaptured, <1>NothingStrayed DEF
      Requests!RequestsInv

(* Navigate keeps the invariant of Requests.                                            *)
LEMMA RequestsNavigate ==
  ASSUME Requests!RequestsInv, NEW origin, Requests!Navigate(origin)
  PROVE  Requests!RequestsInv'
  <1>1. /\ x4' = x4 /\ x5' = x5 /\ x6' = x6 /\ x7' = x7
    BY DEF Requests!Navigate
  <1>2. CASE x2 # Nobody /\ x1[x2].pc = "fetching"
    <2> DEFINE n == [x1[x2] EXCEPT !.pc = "replied", !.tag = "rejected", !.lost = (x1[x2].pc = "fetching")]
    <2>1. x2 \in Request
      BY <1>2, RequestsParts DEF Requests!TypeOK
    <2>2. n \in Requests!RequestRecord /\ n.pc = "replied" /\ n.lost /\ n.told = x1[x2].told
      BY <1>2, <2>1, RequestsParts DEF Requests!RequestRecord, Requests!Tag
    <2>3. x1' = [x1 EXCEPT ![x2] = n] /\ x2' = Nobody
      BY <1>2, <2>1, RequestsParts DEF Requests!Navigate, Requests!Fails, Requests!TypeOK
    <2> HIDE DEF n
    <2>4. x1' \in [Request -> Requests!RequestRecord] /\ x1'[x2] = n /\ \A q \in Request : q # x2 => x1'[q] = x1[q]
      BY <2>1, <2>2, <2>3, RequestsParts, RequestMoves
    <2>TypeOK. Requests!TypeOK'
      BY <1>1, <1>2, <2>1, <2>2, <2>3, <2>4, RequestsParts DEF Requests!TypeOK
    <2>PermitCovers. Requests!PermitCovers'
      BY <1>1, <1>2, <2>1, <2>2, <2>3, <2>4, RequestsParts DEF Requests!PermitCovers, Requests!Permitting,
        Requests!TypeOK
    <2>TagsAreTrue. Requests!TagsAreTrue'
      BY <1>1, <1>2, <2>1, <2>2, <2>3, <2>4, RequestsParts DEF Requests!TagsAreTrue, Requests!Out,
        Requests!RefusedDidNotHappen, Requests!Unsent, Requests!TypeOK, Requests!Told, Requests!Unknown
    <2>RequestsAreUncaptured. Requests!RequestsAreUncaptured'
      BY <1>1, <1>2, <2>1, <2>2, <2>3, <2>4, RequestsParts DEF Requests!RequestsAreUncaptured,
        Requests!IsUncaptured, Requests!TypeOK, Requests!PermitCovers, Requests!Permitting
    <2>NothingStrayed. x7' = {}
      BY <1>1, <1>2, <2>1, <2>2, <2>3, <2>4, RequestsParts
    <2> QED
      BY <2>TypeOK, <2>PermitCovers, <2>TagsAreTrue, <2>RequestsAreUncaptured, <2>NothingStrayed DEF Requests!RequestsInv
  <1>3. CASE x1' = x1 /\ x2' = x2
    BY <1>1, <1>3, RequestsSame
  <1> QED
    BY <1>2, <1>3 DEF Requests!Navigate

(* See keeps the invariant of Requests.                                                 *)
LEMMA RequestsSee ==
  ASSUME Requests!RequestsInv, Requests!See
  PROVE  Requests!RequestsInv'
  <1>1. x1' = x1 /\ x2' = x2 /\ x4' = x4 /\ x5' = x5 /\ x6' = x6 /\ x7' = x7
    BY DEF Requests!See
  <1>TypeOK. Requests!TypeOK'
    BY <1>1, RequestsParts DEF Requests!TypeOK
  <1>PermitCovers. Requests!PermitCovers'
    BY <1>1, RequestsParts DEF Requests!PermitCovers, Requests!Permitting, Requests!TypeOK
  <1>TagsAreTrue. Requests!TagsAreTrue'
    BY <1>1, RequestsParts DEF Requests!TagsAreTrue, Requests!Out, Requests!RefusedDidNotHappen,
      Requests!Unsent, Requests!TypeOK, Requests!Told, Requests!Unknown
  <1>RequestsAreUncaptured. Requests!RequestsAreUncaptured'
    BY <1>1, RequestsParts DEF Requests!RequestsAreUncaptured, Requests!IsUncaptured, Requests!TypeOK,
      Requests!PermitCovers, Requests!Permitting
  <1>NothingStrayed. x7' = {}
    BY <1>1, RequestsParts
  <1> QED
    BY <1>TypeOK, <1>PermitCovers, <1>TagsAreTrue, <1>RequestsAreUncaptured, <1>NothingStrayed DEF
      Requests!RequestsInv

(* ToggleCapture keeps the invariant of Requests.                                       *)
LEMMA RequestsToggleCapture ==
  ASSUME Requests!RequestsInv, Requests!ToggleCapture
  PROVE  Requests!RequestsInv'
  <1>1. x2 = Nobody /\ x4' = ~ x4 /\ x1' = x1 /\ x2' = x2 /\ x3' = x3 /\ x5' = x5 /\ x6' = x6 /\ x7' = x7
    BY DEF Requests!ToggleCapture, Requests!Permitted
  <1>TypeOK. Requests!TypeOK'
    BY <1>1, RequestsParts, RequestsAssumption DEF Requests!TypeOK
  <1>PermitCovers. Requests!PermitCovers'
    BY <1>1, RequestsParts, RequestsAssumption DEF Requests!PermitCovers, Requests!Permitting, Requests!TypeOK
  <1>TagsAreTrue. Requests!TagsAreTrue'
    BY <1>1, RequestsParts, RequestsAssumption DEF Requests!TagsAreTrue, Requests!Out,
      Requests!RefusedDidNotHappen, Requests!Unsent, Requests!TypeOK, Requests!Told, Requests!Unknown
  <1>RequestsAreUncaptured. Requests!RequestsAreUncaptured'
    BY <1>1, RequestsParts, RequestsAssumption DEF Requests!RequestsAreUncaptured, Requests!IsUncaptured,
      Requests!TypeOK, Requests!PermitCovers, Requests!Permitting
  <1>NothingStrayed. x7' = {}
    BY <1>1, RequestsParts, RequestsAssumption
  <1> QED
    BY <1>TypeOK, <1>PermitCovers, <1>TagsAreTrue, <1>RequestsAreUncaptured, <1>NothingStrayed DEF
      Requests!RequestsInv

(* The first state has the invariant of Requests.                                       *)
LEMMA RequestsInitially == Requests!Init => Requests!RequestsInv
  <1> SUFFICES ASSUME Requests!Init
               PROVE  Requests!RequestsInv
    OBVIOUS
  <1>1. /\ Requests!NewRequest \in Requests!RequestRecord /\ Requests!NewRequest.pc = "idle" /\ Requests!NewRequest.told = "none"
    BY DEF Requests!NewRequest, Requests!RequestRecord, Requests!Unsent, Requests!Tag
  <1>2. Requests!TypeOK /\ Requests!PermitCovers
    BY <1>1 DEF Requests!Init, Requests!TypeOK, Requests!PermitCovers, Requests!Permitting
  <1>3. Requests!TagsAreTrue /\ Requests!RequestsAreUncaptured
    BY <1>1 DEF Requests!Init, Requests!TagsAreTrue, Requests!Out, Requests!RefusedDidNotHappen, Requests!RequestsAreUncaptured,
                Requests!IsUncaptured
  <1> QED
    BY <1>2, <1>3 DEF Requests!Init, Requests!RequestsInv

(* Every step keeps the invariant of Requests.                                          *)
LEMMA RequestsNext == Requests!RequestsInv /\ Requests!Next => Requests!RequestsInv'
  BY RequestsAsk, RequestsReply, RequestsReject, RequestsGrant, RequestsSave, RequestsGoTo, RequestsCheckOrigin, RequestsFetch,
     RequestsAnswered, RequestsFetchFails, RequestsServe, RequestsNavigate, RequestsSee, RequestsToggleCapture
  DEF Requests!Next

(* What the invariant of Requests says of the answers.                                  *)
LEMMA RequestsWord == Requests!RequestsInv => Requests!RequestsKeepTheirWord
  BY RequestsParts DEF Requests!RequestsKeepTheirWord, Requests!TagsAreTrue, Requests!RequestsAreUncaptured
(* The parts of the invariant, to be cited together.                          *)
LEMMA IssuesParts ==
  ASSUME Issues!IssuesInv
  PROVE  /\ Issues!TypeOK /\ Issues!Places /\ Issues!OwnersHaveTheLock /\ Issues!FilesAreSeen
         /\ Issues!OneFile /\ Issues!FilesCount /\ Issues!OneSubmits /\ Issues!CreatedOnce
         /\ \A c \in Filing : x1[c] \in Issues!ReportRecord /\ x2[c] \in Issues!FileRecord
         /\ Issues!NoFile \in Issues!FileRecord
  <1>1. Issues!NoFile \in Issues!FileRecord
    BY DEF Issues!NoFile, Issues!FileRecord, Issues!Class, Issues!Status
  <1> QED
    BY <1>1 DEF Issues!IssuesInv, Issues!TypeOK

(* The cardinality of the part is that of the theorems of the library.                  *)
LEMMA IssuesCardinality == \A S : Issues!Cardinality(S) = Cardinality(S)
  BY Zenon DEF Issues!Cardinality, Cardinality

(* One call moves.                                                           *)
LEMMA IssuesReportMoves ==
  ASSUME Issues!TypeOK, NEW c \in Filing, NEW r \in Issues!ReportRecord, x1' = [x1 EXCEPT ![c] = r]
  PROVE  x1' \in [Filing -> Issues!ReportRecord] /\ x1'[c] = r /\ \A d \in Filing : d # c => x1'[d] = x1[d]
  BY DEF Issues!TypeOK

(* The same files, and the same calls counted in them.                        *)
LEMMA IssuesFilesKept ==
  ASSUME \A d \in Filing : x2'[d].occurrences > 0 <=> x2[d].occurrences > 0
  PROVE  \A f : Issues!FilesOf(f)' = Issues!FilesOf(f)
  BY DEF Issues!FilesOf

(* The calls that are counted for a problem are the same when no call is counted anew.  *)
LEMMA IssuesCountedKept ==
  ASSUME \A c \in Filing : x1'[c].counted = x1[c].counted /\ (x1[c].counted => x1'[c].id = x1[c].id)
  PROVE  \A d \in Filing : Issues!Counted(d)' = Issues!Counted(d)
  BY DEF Issues!Counted

(* One call moves, and the others stay where they are with the lock.               *)
LockTurn(c, place) == x6' \in [Filing -> Issues!Place] /\ x6'[c] = place /\ \A d \in Filing : d # c => x6'[d] = x6[d]

(* What a step of a call does to the lock.                                     *)
LEMMA IssuesLockSteps ==
  ASSUME Issues!TypeOK, NEW c \in Filing
  PROVE  /\ Issues!Lock!Wants(c) => x6[c] = "out" /\ LockTurn(c, "waits") /\ x5' = x5 /\ x7' = x7
         /\ Issues!Lock!Opens(c) =>
              x6[c] = "waits" /\ LockTurn(c, "holds") /\ ~ x5.held /\ x5' = [held |-> TRUE, by |-> c, aged |-> FALSE] /\ x7' = x7
         /\ Issues!Lock!FindsItAged(c) => x6[c] = "waits" /\ LockTurn(c, "removes") /\ x5' = x5 /\ x7' = x7
         /\ Issues!Lock!RemovesAged(c) =>
              x6[c] = "removes" /\ LockTurn(c, "waits") /\ ~ x5'.held
                /\ x7' = (x7 \/ (x5.held /\ x5.by # c /\ Issues!Lock!AtWork(x5.by)))
         /\ Issues!Lock!GivesUp(c) => x6[c] = "waits" /\ LockTurn(c, "out") /\ x5' = x5 /\ x7' = x7
         /\ Issues!Lock!Leaves(c) =>
              x6[c] = "holds" /\ LockTurn(c, "out") /\ ~ x5'.held
                /\ x7' = (x7 \/ (x5.held /\ x5.by # c /\ Issues!Lock!AtWork(x5.by)))
         /\ Issues!Lock!Dies(c) => LockTurn(c, "gone") /\ x5' = x5 /\ x7' = x7
  BY DEF LockTurn, Issues!TypeOK, Issues!Place, Issues!Lock!Wants, Issues!Lock!Opens, Issues!Lock!FindsItAged, Issues!Lock!RemovesAged,
         Issues!Lock!GivesUp, Issues!Lock!Leaves, Issues!Lock!Dies, Issues!Lock!Unlinks, Issues!Lock!Free, Issues!Lock!Goes,
         Issues!Lock!AtWork


(* The calls that submit, when the files and the issues stay.                  *)
LEMMA IssuesSubmittersKept ==
  ASSUME Issues!IssuesInv, x2' = x2, x3' = x3, x7 => x7',
         \A d \in Filing : x1'[d].pc \in Issues!Submitting =>
           /\ x1[d].pc \in Issues!Submitting /\ x1'[d].id = x1[d].id
           /\ x1[d].pc \in {"update", "rewrite"} => x1'[d].pc \in {"update", "rewrite"} /\ x1'[d].submission = x1[d].submission
  PROVE  Issues!OneSubmits'
  BY IssuesParts DEF Issues!OneSubmits, Issues!FileIs


(* Refuse keeps the invariant of Issues.                                                *)
LEMMA IssuesRefuse ==
  ASSUME Issues!IssuesInv, NEW c \in Filing, Issues!Refuse(c)
  PROVE  Issues!IssuesInv'
  <1> DEFINE r == [x1[c] EXCEPT !.pc = "failed", !.seen = Issues!NoFile]
  <1>0. x1[c] \in Issues!ReportRecord /\ x2[x1[c].id] \in Issues!FileRecord /\ Issues!NoFile \in Issues!FileRecord
    BY IssuesParts DEF Issues!ReportRecord
  <1>1. r \in Issues!ReportRecord /\ r.pc = "failed" /\ r.id = x1[c].id /\ r.counted = x1[c].counted /\ r.submission = x1[c].submission
    BY <1>0 DEF Issues!ReportRecord
  <1>2. x1' = [x1 EXCEPT ![c] = r] /\ x1[c].pc = "idle" /\ x2' = x2 /\ x3' = x3 /\ x5' = x5 /\ x6' = x6 /\ x7' = x7
    BY IssuesParts DEF Issues!Refuse, Issues!Ends, Issues!TypeOK
  <1> HIDE DEF r
  <1>3. x1' \in [Filing -> Issues!ReportRecord] /\ x1'[c] = r /\ \A d \in Filing : d # c => x1'[d] = x1[d]
    BY <1>1, <1>2, IssuesParts, IssuesReportMoves
  <1>5. (\A f : Issues!FilesOf(f)' = Issues!FilesOf(f)) /\ \A d \in Filing : Issues!Counted(d)' = Issues!Counted(d)
    BY <1>1, <1>2, <1>3, IssuesParts, IssuesFilesKept, IssuesCountedKept DEF Issues!Places
  <1>TypeOK. Issues!TypeOK'
    BY <1>1, <1>2, <1>3, IssuesParts DEF Issues!TypeOK
  <1>Places. Issues!Places'
    BY <1>1, <1>2, <1>3, IssuesParts DEF Issues!Places, Issues!Lock!AtWork, Issues!Problem, Issues!TypeOK
  <1>OwnersHaveTheLock. Issues!OwnersHaveTheLock'
    BY <1>1, <1>2, <1>3, IssuesParts DEF Issues!OwnersHaveTheLock, Issues!Lock!AtWork, Issues!TypeOK
  <1>FilesAreSeen. Issues!FilesAreSeen'
    BY <1>1, <1>2, <1>3, <1>5, IssuesParts DEF Issues!FilesAreSeen, Issues!Places, Issues!Lock!AtWork,
      Issues!Problem, Issues!OwnersHaveTheLock
  <1>OneFile. Issues!OneFile'
    BY <1>1, <1>2, <1>3, <1>5, IssuesParts DEF Issues!OneFile
  <1>FilesCount. Issues!FilesCount'
    BY <1>1, <1>2, <1>3, <1>5, IssuesParts DEF Issues!FilesCount, Issues!TypeOK
  <1>OneSubmits. Issues!OneSubmits'
    <2>1. \A d \in Filing : x1'[d].pc \in Issues!Submitting =>
           /\ x1[d].pc \in Issues!Submitting /\ x1'[d].id = x1[d].id
           /\ x1[d].pc \in {"update", "rewrite"} => x1'[d].pc \in {"update", "rewrite"} /\ x1'[d].submission = x1[d].submission
      BY <1>0, <1>1, <1>2, <1>3 DEF Issues!Submitting, Issues!ReportRecord
    <2> QED
      BY <1>2, <2>1, IssuesSubmittersKept
  <1>CreatedOnce. Issues!CreatedOnce'
    BY <1>1, <1>2, <1>3, <1>5, IssuesParts DEF Issues!CreatedOnce, Issues!FileIs, Issues!TypeOK
  <1> QED
    BY <1>TypeOK, <1>Places, <1>OwnersHaveTheLock, <1>FilesAreSeen, <1>OneFile, <1>FilesCount, <1>OneSubmits,
      <1>CreatedOnce DEF Issues!IssuesInv

(* Begin keeps the invariant of Issues.                                                 *)
LEMMA IssuesBegin ==
  ASSUME Issues!IssuesInv, NEW c \in Filing, Issues!Begin(c)
  PROVE  Issues!IssuesInv'
  <1> DEFINE r == [x1[c] EXCEPT !.pc = "upsert"]
  <1>0. x1[c] \in Issues!ReportRecord /\ x2[x1[c].id] \in Issues!FileRecord /\ Issues!NoFile \in Issues!FileRecord
    BY IssuesParts DEF Issues!ReportRecord
  <1>1. r \in Issues!ReportRecord /\ r.pc = "upsert" /\ r.id = x1[c].id /\ r.counted = x1[c].counted /\ r.submission = x1[c].submission
    BY <1>0 DEF Issues!ReportRecord
  <1>2. x1' = [x1 EXCEPT ![c] = r] /\ x1[c].pc = "idle" /\ x2' = x2 /\ x3' = x3
    BY IssuesParts DEF Issues!Begin, Issues!To, Issues!TypeOK
  <1> HIDE DEF r
  <1>3. x1' \in [Filing -> Issues!ReportRecord] /\ x1'[c] = r /\ \A d \in Filing : d # c => x1'[d] = x1[d]
    BY <1>1, <1>2, IssuesParts, IssuesReportMoves
  <1>4. x6[c] = "out" /\ x6' \in [Filing -> Issues!Place] /\ x6'[c] = "waits" /\ (\A d \in Filing : d # c => x6'[d] = x6[d])
        /\ x5' = x5 /\ x7' = x7
    BY IssuesParts, IssuesLockSteps DEF LockTurn, Issues!Begin
  <1>5. (\A f : Issues!FilesOf(f)' = Issues!FilesOf(f)) /\ \A d \in Filing : Issues!Counted(d)' = Issues!Counted(d)
    BY <1>1, <1>2, <1>3, IssuesParts, IssuesFilesKept, IssuesCountedKept DEF Issues!Places
  <1>TypeOK. Issues!TypeOK'
    BY <1>1, <1>2, <1>3, <1>4, IssuesParts DEF Issues!TypeOK
  <1>Places. Issues!Places'
    BY <1>1, <1>2, <1>3, <1>4, IssuesParts DEF Issues!Places, Issues!Lock!AtWork, Issues!Problem, Issues!TypeOK
  <1>OwnersHaveTheLock. Issues!OwnersHaveTheLock'
    BY <1>1, <1>2, <1>3, <1>4, IssuesParts DEF Issues!OwnersHaveTheLock, Issues!Lock!AtWork, Issues!TypeOK
  <1>FilesAreSeen. Issues!FilesAreSeen'
    BY <1>1, <1>2, <1>3, <1>4, <1>5, IssuesParts DEF Issues!FilesAreSeen, Issues!Places, Issues!Lock!AtWork,
      Issues!Problem, Issues!OwnersHaveTheLock
  <1>OneFile. Issues!OneFile'
    BY <1>1, <1>2, <1>3, <1>4, <1>5, IssuesParts DEF Issues!OneFile
  <1>FilesCount. Issues!FilesCount'
    BY <1>1, <1>2, <1>3, <1>4, <1>5, IssuesParts DEF Issues!FilesCount, Issues!TypeOK
  <1>OneSubmits. Issues!OneSubmits'
    <2>1. \A d \in Filing : x1'[d].pc \in Issues!Submitting =>
           /\ x1[d].pc \in Issues!Submitting /\ x1'[d].id = x1[d].id
           /\ x1[d].pc \in {"update", "rewrite"} => x1'[d].pc \in {"update", "rewrite"} /\ x1'[d].submission = x1[d].submission
      BY <1>0, <1>1, <1>2, <1>3 DEF Issues!Submitting, Issues!ReportRecord
    <2> QED
      BY <1>2, <1>4, <2>1, IssuesSubmittersKept
  <1>CreatedOnce. Issues!CreatedOnce'
    BY <1>1, <1>2, <1>3, <1>4, <1>5, IssuesParts DEF Issues!CreatedOnce, Issues!FileIs, Issues!TypeOK
  <1> QED
    BY <1>TypeOK, <1>Places, <1>OwnersHaveTheLock, <1>FilesAreSeen, <1>OneFile, <1>FilesCount, <1>OneSubmits,
      <1>CreatedOnce DEF Issues!IssuesInv

(* LockFails keeps the invariant of Issues.                                             *)
LEMMA IssuesLockFails ==
  ASSUME Issues!IssuesInv, NEW c \in Filing, Issues!LockFails(c)
  PROVE  Issues!IssuesInv'
  <1> DEFINE r == [x1[c] EXCEPT !.pc = "failed", !.seen = Issues!NoFile]
  <1>0. x1[c] \in Issues!ReportRecord /\ x2[x1[c].id] \in Issues!FileRecord /\ Issues!NoFile \in Issues!FileRecord
    BY IssuesParts DEF Issues!ReportRecord
  <1>1. r \in Issues!ReportRecord /\ r.pc = "failed" /\ r.id = x1[c].id /\ r.counted = x1[c].counted /\ r.submission = x1[c].submission
    BY <1>0 DEF Issues!ReportRecord
  <1>2. x1' = [x1 EXCEPT ![c] = r] /\ x2' = x2 /\ x3' = x3
    BY IssuesParts DEF Issues!LockFails, Issues!Ends, Issues!TypeOK
  <1> HIDE DEF r
  <1>3. x1' \in [Filing -> Issues!ReportRecord] /\ x1'[c] = r /\ \A d \in Filing : d # c => x1'[d] = x1[d]
    BY <1>1, <1>2, IssuesParts, IssuesReportMoves
  <1>4. x6[c] = "waits" /\ x6' \in [Filing -> Issues!Place] /\ x6'[c] = "out" /\ (\A d \in Filing : d # c => x6'[d] = x6[d])
        /\ x5' = x5 /\ x7' = x7
    BY IssuesParts, IssuesLockSteps DEF LockTurn, Issues!LockFails
  <1>5. (\A f : Issues!FilesOf(f)' = Issues!FilesOf(f)) /\ \A d \in Filing : Issues!Counted(d)' = Issues!Counted(d)
    BY <1>1, <1>2, <1>3, IssuesParts, IssuesFilesKept, IssuesCountedKept DEF Issues!Places
  <1>TypeOK. Issues!TypeOK'
    BY <1>1, <1>2, <1>3, <1>4, IssuesParts DEF Issues!TypeOK
  <1>Places. Issues!Places'
    BY <1>1, <1>2, <1>3, <1>4, IssuesParts DEF Issues!Places, Issues!Lock!AtWork, Issues!Problem, Issues!TypeOK
  <1>OwnersHaveTheLock. Issues!OwnersHaveTheLock'
    BY <1>1, <1>2, <1>3, <1>4, IssuesParts DEF Issues!OwnersHaveTheLock, Issues!Lock!AtWork, Issues!TypeOK
  <1>FilesAreSeen. Issues!FilesAreSeen'
    BY <1>1, <1>2, <1>3, <1>4, <1>5, IssuesParts DEF Issues!FilesAreSeen, Issues!Places, Issues!Lock!AtWork,
      Issues!Problem, Issues!OwnersHaveTheLock
  <1>OneFile. Issues!OneFile'
    BY <1>1, <1>2, <1>3, <1>4, <1>5, IssuesParts DEF Issues!OneFile
  <1>FilesCount. Issues!FilesCount'
    BY <1>1, <1>2, <1>3, <1>4, <1>5, IssuesParts DEF Issues!FilesCount, Issues!TypeOK
  <1>OneSubmits. Issues!OneSubmits'
    <2>1. \A d \in Filing : x1'[d].pc \in Issues!Submitting =>
           /\ x1[d].pc \in Issues!Submitting /\ x1'[d].id = x1[d].id
           /\ x1[d].pc \in {"update", "rewrite"} => x1'[d].pc \in {"update", "rewrite"} /\ x1'[d].submission = x1[d].submission
      BY <1>0, <1>1, <1>2, <1>3 DEF Issues!Submitting, Issues!ReportRecord
    <2> QED
      BY <1>2, <1>4, <2>1, IssuesSubmittersKept
  <1>CreatedOnce. Issues!CreatedOnce'
    BY <1>1, <1>2, <1>3, <1>4, <1>5, IssuesParts DEF Issues!CreatedOnce, Issues!FileIs, Issues!TypeOK
  <1> QED
    BY <1>TypeOK, <1>Places, <1>OwnersHaveTheLock, <1>FilesAreSeen, <1>OneFile, <1>FilesCount, <1>OneSubmits,
      <1>CreatedOnce DEF Issues!IssuesInv

(* Leave keeps the invariant of Issues.                                                 *)
LEMMA IssuesLeave ==
  ASSUME Issues!IssuesInv, NEW c \in Filing, Issues!Leave(c)
  PROVE  Issues!IssuesInv'
  <1> DEFINE r == [x1[c] EXCEPT !.pc = IF x1[c].pc = "leaves" THEN "told" ELSE "auth", !.seen = Issues!NoFile]
  <1>0. x1[c] \in Issues!ReportRecord /\ x2[x1[c].id] \in Issues!FileRecord /\ Issues!NoFile \in Issues!FileRecord
    BY IssuesParts DEF Issues!ReportRecord
  <1>1. r \in Issues!ReportRecord /\ r.pc = (IF x1[c].pc = "leaves" THEN "told" ELSE "auth") /\ r.id = x1[c].id /\ r.counted = x1[c].counted /\ r.submission = x1[c].submission
    BY <1>0 DEF Issues!ReportRecord
  <1>2. x1' = [x1 EXCEPT ![c] = r] /\ x1[c].pc \in {"leaves", "leaves to submit"} /\ x2' = x2 /\ x3' = x3
    BY IssuesParts DEF Issues!Leave, Issues!Ends, Issues!TypeOK
  <1> HIDE DEF r
  <1>3. x1' \in [Filing -> Issues!ReportRecord] /\ x1'[c] = r /\ \A d \in Filing : d # c => x1'[d] = x1[d]
    BY <1>1, <1>2, IssuesParts, IssuesReportMoves
  <1>4. x6[c] = "holds" /\ x6' \in [Filing -> Issues!Place] /\ x6'[c] = "out" /\ (\A d \in Filing : d # c => x6'[d] = x6[d])
        /\ ~ x5'.held /\ x7' = (x7 \/ (x5.held /\ x5.by # c /\ Issues!Lock!AtWork(x5.by)))
    BY IssuesParts, IssuesLockSteps DEF LockTurn, Issues!Leave
  <1>5. (\A f : Issues!FilesOf(f)' = Issues!FilesOf(f)) /\ \A d \in Filing : Issues!Counted(d)' = Issues!Counted(d)
    BY <1>1, <1>2, <1>3, IssuesParts, IssuesFilesKept, IssuesCountedKept DEF Issues!Places
  <1>TypeOK. Issues!TypeOK'
    BY <1>1, <1>2, <1>3, <1>4, IssuesParts DEF Issues!TypeOK
  <1>Places. Issues!Places'
    BY <1>1, <1>2, <1>3, <1>4, IssuesParts DEF Issues!Places, Issues!Lock!AtWork, Issues!Problem, Issues!TypeOK
  <1>OwnersHaveTheLock. Issues!OwnersHaveTheLock'
    BY <1>1, <1>2, <1>3, <1>4, IssuesParts DEF Issues!OwnersHaveTheLock, Issues!Lock!AtWork, Issues!TypeOK
  <1>FilesAreSeen. Issues!FilesAreSeen'
    BY <1>1, <1>2, <1>3, <1>4, <1>5, IssuesParts DEF Issues!FilesAreSeen, Issues!Places, Issues!Lock!AtWork,
      Issues!Problem, Issues!OwnersHaveTheLock
  <1>OneFile. Issues!OneFile'
    BY <1>1, <1>2, <1>3, <1>4, <1>5, IssuesParts DEF Issues!OneFile
  <1>FilesCount. Issues!FilesCount'
    BY <1>1, <1>2, <1>3, <1>4, <1>5, IssuesParts DEF Issues!FilesCount, Issues!TypeOK
  <1>OneSubmits. Issues!OneSubmits'
    <2>1. \A d \in Filing : x1'[d].pc \in Issues!Submitting =>
           /\ x1[d].pc \in Issues!Submitting /\ x1'[d].id = x1[d].id
           /\ x1[d].pc \in {"update", "rewrite"} => x1'[d].pc \in {"update", "rewrite"} /\ x1'[d].submission = x1[d].submission
      BY <1>0, <1>1, <1>2, <1>3 DEF Issues!Submitting, Issues!ReportRecord
    <2> QED
      BY <1>2, <1>4, <2>1, IssuesSubmittersKept
  <1>CreatedOnce. Issues!CreatedOnce'
    BY <1>1, <1>2, <1>3, <1>4, <1>5, IssuesParts DEF Issues!CreatedOnce, Issues!FileIs, Issues!TypeOK
  <1> QED
    BY <1>TypeOK, <1>Places, <1>OwnersHaveTheLock, <1>FilesAreSeen, <1>OneFile, <1>FilesCount, <1>OneSubmits,
      <1>CreatedOnce DEF Issues!IssuesInv

(* WriteFails keeps the invariant of Issues.                                            *)
LEMMA IssuesWriteFails ==
  ASSUME Issues!IssuesInv, NEW c \in Filing, Issues!WriteFails(c)
  PROVE  Issues!IssuesInv'
  <1> DEFINE r == [x1[c] EXCEPT !.pc = "failed", !.seen = Issues!NoFile]
  <1>0. x1[c] \in Issues!ReportRecord /\ x2[x1[c].id] \in Issues!FileRecord /\ Issues!NoFile \in Issues!FileRecord
    BY IssuesParts DEF Issues!ReportRecord
  <1>1. r \in Issues!ReportRecord /\ r.pc = "failed" /\ r.id = x1[c].id /\ r.counted = x1[c].counted /\ r.submission = x1[c].submission
    BY <1>0 DEF Issues!ReportRecord
  <1>2. x1' = [x1 EXCEPT ![c] = r] /\ x1[c].pc \in {"upsert", "write", "update", "rewrite"} /\ x2' = x2 /\ x3' = x3
    BY IssuesParts DEF Issues!WriteFails, Issues!Ends, Issues!TypeOK
  <1> HIDE DEF r
  <1>3. x1' \in [Filing -> Issues!ReportRecord] /\ x1'[c] = r /\ \A d \in Filing : d # c => x1'[d] = x1[d]
    BY <1>1, <1>2, IssuesParts, IssuesReportMoves
  <1>4. x6[c] = "holds" /\ x6' \in [Filing -> Issues!Place] /\ x6'[c] = "out" /\ (\A d \in Filing : d # c => x6'[d] = x6[d])
        /\ ~ x5'.held /\ x7' = (x7 \/ (x5.held /\ x5.by # c /\ Issues!Lock!AtWork(x5.by)))
    BY IssuesParts, IssuesLockSteps DEF LockTurn, Issues!WriteFails
  <1>5. (\A f : Issues!FilesOf(f)' = Issues!FilesOf(f)) /\ \A d \in Filing : Issues!Counted(d)' = Issues!Counted(d)
    BY <1>1, <1>2, <1>3, IssuesParts, IssuesFilesKept, IssuesCountedKept DEF Issues!Places
  <1>TypeOK. Issues!TypeOK'
    BY <1>1, <1>2, <1>3, <1>4, IssuesParts DEF Issues!TypeOK
  <1>Places. Issues!Places'
    BY <1>1, <1>2, <1>3, <1>4, IssuesParts DEF Issues!Places, Issues!Lock!AtWork, Issues!Problem, Issues!TypeOK
  <1>OwnersHaveTheLock. Issues!OwnersHaveTheLock'
    BY <1>1, <1>2, <1>3, <1>4, IssuesParts DEF Issues!OwnersHaveTheLock, Issues!Lock!AtWork, Issues!TypeOK
  <1>FilesAreSeen. Issues!FilesAreSeen'
    BY <1>1, <1>2, <1>3, <1>4, <1>5, IssuesParts DEF Issues!FilesAreSeen, Issues!Places, Issues!Lock!AtWork,
      Issues!Problem, Issues!OwnersHaveTheLock
  <1>OneFile. Issues!OneFile'
    BY <1>1, <1>2, <1>3, <1>4, <1>5, IssuesParts DEF Issues!OneFile
  <1>FilesCount. Issues!FilesCount'
    BY <1>1, <1>2, <1>3, <1>4, <1>5, IssuesParts DEF Issues!FilesCount, Issues!TypeOK
  <1>OneSubmits. Issues!OneSubmits'
    <2>1. \A d \in Filing : x1'[d].pc \in Issues!Submitting =>
           /\ x1[d].pc \in Issues!Submitting /\ x1'[d].id = x1[d].id
           /\ x1[d].pc \in {"update", "rewrite"} => x1'[d].pc \in {"update", "rewrite"} /\ x1'[d].submission = x1[d].submission
      BY <1>0, <1>1, <1>2, <1>3 DEF Issues!Submitting, Issues!ReportRecord
    <2> QED
      BY <1>2, <1>4, <2>1, IssuesSubmittersKept
  <1>CreatedOnce. Issues!CreatedOnce'
    BY <1>1, <1>2, <1>3, <1>4, <1>5, IssuesParts DEF Issues!CreatedOnce, Issues!FileIs, Issues!TypeOK
  <1> QED
    BY <1>TypeOK, <1>Places, <1>OwnersHaveTheLock, <1>FilesAreSeen, <1>OneFile, <1>FilesCount, <1>OneSubmits,
      <1>CreatedOnce DEF Issues!IssuesInv

(* Crash keeps the invariant of Issues.                                                 *)
LEMMA IssuesCrash ==
  ASSUME Issues!IssuesInv, NEW c \in Filing, Issues!Crash(c)
  PROVE  Issues!IssuesInv'
  <1> DEFINE r == [x1[c] EXCEPT !.pc = "failed", !.seen = Issues!NoFile]
  <1>0. x1[c] \in Issues!ReportRecord /\ x2[x1[c].id] \in Issues!FileRecord /\ Issues!NoFile \in Issues!FileRecord
    BY IssuesParts DEF Issues!ReportRecord
  <1>1. r \in Issues!ReportRecord /\ r.pc = "failed" /\ r.id = x1[c].id /\ r.counted = x1[c].counted /\ r.submission = x1[c].submission
    BY <1>0 DEF Issues!ReportRecord
  <1>2. x1' = [x1 EXCEPT ![c] = r] /\ x2' = x2 /\ x3' = x3
    BY IssuesParts DEF Issues!Crash, Issues!Ends, Issues!TypeOK
  <1> HIDE DEF r
  <1>3. x1' \in [Filing -> Issues!ReportRecord] /\ x1'[c] = r /\ \A d \in Filing : d # c => x1'[d] = x1[d]
    BY <1>1, <1>2, IssuesParts, IssuesReportMoves
  <1>4. x6' \in [Filing -> Issues!Place] /\ x6'[c] = "gone" /\ (\A d \in Filing : d # c => x6'[d] = x6[d])
        /\ x5' = x5 /\ x7' = x7
    BY IssuesParts, IssuesLockSteps DEF LockTurn, Issues!Crash
  <1>5. (\A f : Issues!FilesOf(f)' = Issues!FilesOf(f)) /\ \A d \in Filing : Issues!Counted(d)' = Issues!Counted(d)
    BY <1>1, <1>2, <1>3, IssuesParts, IssuesFilesKept, IssuesCountedKept DEF Issues!Places
  <1>TypeOK. Issues!TypeOK'
    BY <1>1, <1>2, <1>3, <1>4, IssuesParts DEF Issues!TypeOK
  <1>Places. Issues!Places'
    BY <1>1, <1>2, <1>3, <1>4, IssuesParts DEF Issues!Places, Issues!Lock!AtWork, Issues!Problem, Issues!TypeOK
  <1>OwnersHaveTheLock. Issues!OwnersHaveTheLock'
    BY <1>1, <1>2, <1>3, <1>4, IssuesParts DEF Issues!OwnersHaveTheLock, Issues!Lock!AtWork, Issues!TypeOK
  <1>FilesAreSeen. Issues!FilesAreSeen'
    BY <1>1, <1>2, <1>3, <1>4, <1>5, IssuesParts DEF Issues!FilesAreSeen, Issues!Places, Issues!Lock!AtWork,
      Issues!Problem, Issues!OwnersHaveTheLock
  <1>OneFile. Issues!OneFile'
    BY <1>1, <1>2, <1>3, <1>4, <1>5, IssuesParts DEF Issues!OneFile
  <1>FilesCount. Issues!FilesCount'
    BY <1>1, <1>2, <1>3, <1>4, <1>5, IssuesParts DEF Issues!FilesCount, Issues!TypeOK
  <1>OneSubmits. Issues!OneSubmits'
    <2>1. \A d \in Filing : x1'[d].pc \in Issues!Submitting =>
           /\ x1[d].pc \in Issues!Submitting /\ x1'[d].id = x1[d].id
           /\ x1[d].pc \in {"update", "rewrite"} => x1'[d].pc \in {"update", "rewrite"} /\ x1'[d].submission = x1[d].submission
      BY <1>0, <1>1, <1>2, <1>3 DEF Issues!Submitting, Issues!ReportRecord
    <2> QED
      BY <1>2, <1>4, <2>1, IssuesSubmittersKept
  <1>CreatedOnce. Issues!CreatedOnce'
    BY <1>1, <1>2, <1>3, <1>4, <1>5, IssuesParts DEF Issues!CreatedOnce, Issues!FileIs, Issues!TypeOK
  <1> QED
    BY <1>TypeOK, <1>Places, <1>OwnersHaveTheLock, <1>FilesAreSeen, <1>OneFile, <1>FilesCount, <1>OneSubmits,
      <1>CreatedOnce DEF Issues!IssuesInv

(* Reread keeps the invariant of Issues.                                                *)
LEMMA IssuesReread ==
  ASSUME Issues!IssuesInv, NEW c \in Filing, Issues!Reread(c)
  PROVE  Issues!IssuesInv'
  <1> DEFINE r == [x1[c] EXCEPT !.pc = "rewrite", !.seen = x2[x1[c].id]]
  <1>0. x1[c] \in Issues!ReportRecord /\ x2[x1[c].id] \in Issues!FileRecord /\ Issues!NoFile \in Issues!FileRecord
    BY IssuesParts DEF Issues!ReportRecord
  <1>1. r \in Issues!ReportRecord /\ r.pc = "rewrite" /\ r.seen = x2[x1[c].id] /\ r.id = x1[c].id /\ r.counted = x1[c].counted /\ r.submission = x1[c].submission
    BY <1>0 DEF Issues!ReportRecord
  <1>2. x1' = [x1 EXCEPT ![c] = r] /\ x1[c].pc = "update" /\ Issues!Lock!AtWork(c) /\ x2' = x2 /\ x3' = x3 /\ x5' = x5 /\ x6' = x6 /\ x7' = x7
    BY IssuesParts DEF Issues!Reread, Issues!TypeOK
  <1> HIDE DEF r
  <1>3. x1' \in [Filing -> Issues!ReportRecord] /\ x1'[c] = r /\ \A d \in Filing : d # c => x1'[d] = x1[d]
    BY <1>1, <1>2, IssuesParts, IssuesReportMoves
  <1>5. (\A f : Issues!FilesOf(f)' = Issues!FilesOf(f)) /\ \A d \in Filing : Issues!Counted(d)' = Issues!Counted(d)
    BY <1>1, <1>2, <1>3, IssuesParts, IssuesFilesKept, IssuesCountedKept DEF Issues!Places
  <1>TypeOK. Issues!TypeOK'
    BY <1>1, <1>2, <1>3, IssuesParts DEF Issues!TypeOK
  <1>Places. Issues!Places'
    BY <1>1, <1>2, <1>3, IssuesParts DEF Issues!Places, Issues!Lock!AtWork, Issues!Problem, Issues!TypeOK
  <1>OwnersHaveTheLock. Issues!OwnersHaveTheLock'
    BY <1>1, <1>2, <1>3, IssuesParts DEF Issues!OwnersHaveTheLock, Issues!Lock!AtWork, Issues!TypeOK
  <1>FilesAreSeen. Issues!FilesAreSeen'
    BY <1>1, <1>2, <1>3, <1>5, IssuesParts DEF Issues!FilesAreSeen, Issues!Places, Issues!Lock!AtWork,
      Issues!Problem, Issues!OwnersHaveTheLock
  <1>OneFile. Issues!OneFile'
    BY <1>1, <1>2, <1>3, <1>5, IssuesParts DEF Issues!OneFile
  <1>FilesCount. Issues!FilesCount'
    BY <1>1, <1>2, <1>3, <1>5, IssuesParts DEF Issues!FilesCount, Issues!TypeOK
  <1>OneSubmits. Issues!OneSubmits'
    <2>1. \A d \in Filing : x1'[d].pc \in Issues!Submitting =>
           /\ x1[d].pc \in Issues!Submitting /\ x1'[d].id = x1[d].id
           /\ x1[d].pc \in {"update", "rewrite"} => x1'[d].pc \in {"update", "rewrite"} /\ x1'[d].submission = x1[d].submission
      BY <1>0, <1>1, <1>2, <1>3 DEF Issues!Submitting, Issues!ReportRecord
    <2> QED
      BY <1>2, <2>1, IssuesSubmittersKept
  <1>CreatedOnce. Issues!CreatedOnce'
    BY <1>1, <1>2, <1>3, <1>5, IssuesParts DEF Issues!CreatedOnce, Issues!FileIs, Issues!TypeOK
  <1> QED
    BY <1>TypeOK, <1>Places, <1>OwnersHaveTheLock, <1>FilesAreSeen, <1>OneFile, <1>FilesCount, <1>OneSubmits,
      <1>CreatedOnce DEF Issues!IssuesInv

(* A step of a call with the lock keeps the invariant.                                  *)
LEMMA IssuesLockMoves ==
  ASSUME Issues!IssuesInv, NEW c \in Filing, Issues!LockMoves(c)
  PROVE  Issues!IssuesInv'
  <1>1. x1' = x1 /\ x2' = x2 /\ x3' = x3
    BY DEF Issues!LockMoves
  <1>2. /\ x6' \in [Filing -> Issues!Place] /\ \A d \in Filing : d # c => x6'[d] = x6[d]
        /\ \/ x6[c] = "waits" /\ x6'[c] = "holds" /\ ~ x5.held /\ x5'.held /\ x5'.by = c /\ x7' = x7
           \/ x6[c] = "waits" /\ x6'[c] = "removes" /\ x5' = x5 /\ x7' = x7
           \/ /\ x6[c] = "removes" /\ x6'[c] = "waits" /\ ~ x5'.held
              /\ x7' = (x7 \/ (x5.held /\ x5.by # c /\ Issues!Lock!AtWork(x5.by)))
    BY IssuesParts, IssuesLockSteps DEF LockTurn, Issues!LockMoves
  <1>3. x7 => x7'
    BY <1>2
  <1>5. (\A f : Issues!FilesOf(f)' = Issues!FilesOf(f)) /\ \A d \in Filing : Issues!Counted(d)' = Issues!Counted(d)
    BY <1>1, IssuesFilesKept, IssuesCountedKept
  <1>TypeOK. Issues!TypeOK'
    BY <1>1, <1>2, <1>3, IssuesParts DEF Issues!TypeOK
  <1>Places. Issues!Places'
    BY <1>1, <1>2, <1>3, IssuesParts DEF Issues!Places, Issues!Lock!AtWork, Issues!Problem, Issues!TypeOK
  <1>OwnersHaveTheLock. Issues!OwnersHaveTheLock'
    <2> SUFFICES ASSUME ~ x7', NEW d \in Filing, x6'[d] = "holds"
                 PROVE  x5'.held /\ x5'.by = d
      BY DEF Issues!OwnersHaveTheLock, Issues!Lock!AtWork
    <2>1. \A e \in Filing : x6[e] = "holds" => x5.held /\ x5.by = e
      BY <1>3, IssuesParts DEF Issues!OwnersHaveTheLock, Issues!Lock!AtWork
    <2> QED
      BY <1>2, <2>1 DEF Issues!Lock!AtWork
  <1>FilesAreSeen. Issues!FilesAreSeen'
    BY <1>1, <1>3, <1>5, IssuesParts DEF Issues!FilesAreSeen
  <1>OneFile. Issues!OneFile'
    BY <1>1, <1>3, <1>5, IssuesParts DEF Issues!OneFile
  <1>FilesCount. Issues!FilesCount'
    BY <1>1, <1>2, <1>3, <1>5, IssuesParts DEF Issues!FilesCount, Issues!TypeOK
  <1>OneSubmits. Issues!OneSubmits'
    BY <1>1, <1>3, IssuesSubmittersKept
  <1>CreatedOnce. Issues!CreatedOnce'
    BY <1>1, <1>2, <1>3, <1>5, IssuesParts DEF Issues!CreatedOnce, Issues!FileIs, Issues!TypeOK
  <1> QED
    BY <1>TypeOK, <1>Places, <1>OwnersHaveTheLock, <1>FilesAreSeen, <1>OneFile, <1>FilesCount, <1>OneSubmits,
      <1>CreatedOnce DEF Issues!IssuesInv

(* A lock that grows old keeps the invariant.                                           *)
LEMMA IssuesAge ==
  ASSUME Issues!IssuesInv, Issues!Age
  PROVE  Issues!IssuesInv'
  <1>1. x1' = x1 /\ x2' = x2 /\ x3' = x3 /\ x6' = x6 /\ x7' = x7 /\ x5.held /\ x5'.held /\ x5'.by = x5.by
    BY IssuesParts DEF Issues!Age, Issues!Lock!Ages, Issues!TypeOK
  <1>5. (\A f : Issues!FilesOf(f)' = Issues!FilesOf(f)) /\ \A d \in Filing : Issues!Counted(d)' = Issues!Counted(d)
    BY <1>1, IssuesFilesKept, IssuesCountedKept
  <1>TypeOK. Issues!TypeOK'
    BY <1>1, IssuesParts DEF Issues!TypeOK
  <1>Places. Issues!Places'
    BY <1>1, IssuesParts DEF Issues!Places, Issues!Lock!AtWork, Issues!Problem, Issues!TypeOK
  <1>OwnersHaveTheLock. Issues!OwnersHaveTheLock'
    BY <1>1, IssuesParts DEF Issues!OwnersHaveTheLock, Issues!Lock!AtWork, Issues!TypeOK
  <1>FilesAreSeen. Issues!FilesAreSeen'
    BY <1>1, <1>5, IssuesParts DEF Issues!FilesAreSeen
  <1>OneFile. Issues!OneFile'
    BY <1>1, <1>5, IssuesParts DEF Issues!OneFile
  <1>FilesCount. Issues!FilesCount'
    BY <1>1, <1>5, IssuesParts DEF Issues!FilesCount, Issues!TypeOK
  <1>OneSubmits. Issues!OneSubmits'
    BY <1>1, IssuesSubmittersKept
  <1>CreatedOnce. Issues!CreatedOnce'
    BY <1>1, <1>5, IssuesParts DEF Issues!CreatedOnce, Issues!FileIs, Issues!TypeOK
  <1> QED
    BY <1>TypeOK, <1>Places, <1>OwnersHaveTheLock, <1>FilesAreSeen, <1>OneFile, <1>FilesCount, <1>OneSubmits,
      <1>CreatedOnce DEF Issues!IssuesInv

(* A step that changes nothing keeps the invariant of Issues.                           *)
LEMMA IssuesSame ==
  ASSUME Issues!IssuesInv, x1' = x1, x2' = x2, x3' = x3, x5' = x5, x6' = x6, x7' = x7
  PROVE  Issues!IssuesInv'
  <1>1. x1' = x1 /\ x2' = x2 /\ x3' = x3 /\ x5' = x5 /\ x6' = x6 /\ x7' = x7
    OBVIOUS
  <1>5. (\A f : Issues!FilesOf(f)' = Issues!FilesOf(f)) /\ \A d \in Filing : Issues!Counted(d)' = Issues!Counted(d)
    BY <1>1, IssuesFilesKept, IssuesCountedKept
  <1>TypeOK. Issues!TypeOK'
    BY <1>1, IssuesParts DEF Issues!TypeOK
  <1>Places. Issues!Places'
    BY <1>1, IssuesParts DEF Issues!Places, Issues!Lock!AtWork, Issues!Problem, Issues!TypeOK
  <1>OwnersHaveTheLock. Issues!OwnersHaveTheLock'
    BY <1>1, IssuesParts DEF Issues!OwnersHaveTheLock, Issues!Lock!AtWork, Issues!TypeOK
  <1>FilesAreSeen. Issues!FilesAreSeen'
    BY <1>1, <1>5, IssuesParts DEF Issues!FilesAreSeen
  <1>OneFile. Issues!OneFile'
    BY <1>1, <1>5, IssuesParts DEF Issues!OneFile
  <1>FilesCount. Issues!FilesCount'
    BY <1>1, <1>5, IssuesParts DEF Issues!FilesCount, Issues!TypeOK
  <1>OneSubmits. Issues!OneSubmits'
    BY <1>1, IssuesSubmittersKept
  <1>CreatedOnce. Issues!CreatedOnce'
    BY <1>1, <1>5, IssuesParts DEF Issues!CreatedOnce, Issues!FileIs, Issues!TypeOK
  <1> QED
    BY <1>TypeOK, <1>Places, <1>OwnersHaveTheLock, <1>FilesAreSeen, <1>OneFile, <1>FilesCount, <1>OneSubmits,
      <1>CreatedOnce DEF Issues!IssuesInv

(* The problem of a report is named by its fingerprint.                                 *)
LEMMA IssuesProblem ==
  ASSUME NEW c \in Filing
  PROVE  Issues!Problem(c) \in Issues!Fingerprint
  BY DEF Issues!Problem, Issues!issueFingerprint, Issues!Fingerprint

(* The file of a call that submits.                                           *)
LEMMA IssuesSubmittersFile ==
  ASSUME Issues!IssuesInv, ~ x7, NEW c \in Filing, x1[c].pc \in Issues!Submitting
  PROVE  x1[c].id \in Issues!FilesOf(Issues!Problem(c)) /\ Issues!FileIs(x1[c].id, Issues!Decided)
  <1>1. x1[c].id \in Filing
    BY IssuesParts DEF Issues!ReportRecord
  <1>2. Issues!FileIs(x1[c].id, {"pending"}) /\ Issues!Problem(x1[c].id) = Issues!Problem(c)
    BY IssuesParts DEF Issues!OneSubmits, Issues!Places
  <1> QED
    BY <1>1, <1>2 DEF Issues!FileIs, Issues!Decided, Issues!FilesOf, Issues!Problem

(* A step between a call and GitHub.                                          *)

(* A call that asks GitHub, or goes on with its answer, keeps the invariant: an issue   *)
(* is created by the call that submits.                                                 *)
LEMMA IssuesAsks ==
  ASSUME Issues!IssuesInv, NEW c \in Filing, NEW r \in Issues!ReportRecord, x1[c].pc \in {"auth", "search", "create"},
         x1' = [x1 EXCEPT ![c] = r], r.id = x1[c].id, r.counted = x1[c].counted, r.pc \in {"search", "create", "update"}, x2' = x2,
         x3' = x3 \/ (x3' = [x3 EXCEPT ![Issues!Problem(c)] = @ + 1] /\ r.pc = "update" /\ r.submission \in Issues!Decided),
         (x5' = x5 /\ x6' = x6 /\ x7' = x7) \/ Issues!Lock!Wants(c)
  PROVE  Issues!IssuesInv'
  <1>1. /\ x1[c].pc \in {"auth", "search", "create"} /\ r.pc \in {"search", "create", "update"} /\ x2' = x2
        /\ x3' = x3 \/ (x3' = [x3 EXCEPT ![Issues!Problem(c)] = @ + 1] /\ r.pc = "update" /\ r.submission \in Issues!Decided)
        /\ x1'[c] = r /\ r.id = x1[c].id /\ r.counted = x1[c].counted
    BY IssuesParts, IssuesReportMoves
  <1>2. x7' = x7 /\ x5' = x5 /\ x6' \in [Filing -> Issues!Place] /\ \A d \in Filing : x6'[d] = "holds" <=> x6[d] = "holds"
    BY IssuesParts, IssuesLockSteps DEF LockTurn, Issues!TypeOK
  <1>3. x1' \in [Filing -> Issues!ReportRecord] /\ \A d \in Filing : d # c => x1'[d] = x1[d]
    BY IssuesParts, IssuesReportMoves
  <1>5. (\A f : Issues!FilesOf(f)' = Issues!FilesOf(f)) /\ \A d \in Filing : Issues!Counted(d)' = Issues!Counted(d)
    BY <1>1, <1>3, IssuesFilesKept, IssuesCountedKept
  <1>6. \A d \in Filing : x1'[d].pc \in Issues!Submitting <=> x1[d].pc \in Issues!Submitting
    BY <1>1, <1>3 DEF Issues!Submitting
  <1>TypeOK. Issues!TypeOK'
    <2>1. x3' \in [Issues!Fingerprint -> Nat]
      BY IssuesProblem, IssuesParts DEF Issues!TypeOK
    <2> QED
      BY <2>1, <1>1, <1>2, <1>3, <1>5, <1>6, IssuesParts DEF Issues!TypeOK
  <1>Places. Issues!Places'
    BY <1>1, <1>2, <1>3, <1>6, IssuesParts DEF Issues!Places, Issues!Lock!AtWork, Issues!Problem, Issues!TypeOK
  <1>OwnersHaveTheLock. Issues!OwnersHaveTheLock'
    BY <1>1, <1>2, <1>3, <1>6, IssuesParts DEF Issues!OwnersHaveTheLock, Issues!Lock!AtWork, Issues!TypeOK
  <1>FilesAreSeen. Issues!FilesAreSeen'
    BY <1>1, <1>2, <1>3, <1>5, IssuesParts DEF Issues!FilesAreSeen
  <1>OneFile. Issues!OneFile'
    BY <1>1, <1>2, <1>3, <1>5, <1>6, IssuesParts DEF Issues!OneFile
  <1>FilesCount. Issues!FilesCount'
    BY <1>1, <1>2, <1>3, <1>5, <1>6, IssuesParts DEF Issues!FilesCount, Issues!TypeOK
  <1>OneSubmits. Issues!OneSubmits'
    <2> SUFFICES ASSUME ~ x7', NEW d \in Filing, x1'[d].pc \in Issues!Submitting
                 PROVE  /\ Issues!FileIs(x1[d].id, {"pending"})
                        /\ \A e \in Filing : x1[e].pc \in Issues!Submitting /\ Issues!Problem(e) = Issues!Problem(d) => e = d
                        /\ x3'[Issues!Problem(d)] = 0 \/ (x1'[d].pc \in {"update", "rewrite"} /\ x1'[d].submission \in Issues!Decided)
      BY <1>1, <1>3, <1>6 DEF Issues!OneSubmits, Issues!FileIs
    <2>1. ~ x7 /\ x1[d].pc \in Issues!Submitting
      BY <1>2, <1>6
    <2>2. CASE d = c
      BY <1>1, <1>3, <2>1, <2>2, IssuesParts, IssuesProblem DEF Issues!OneSubmits, Issues!TypeOK
    <2>3. CASE d # c
      <3>1. Issues!Problem(d) # Issues!Problem(c)
        BY <1>1, <2>1, <2>3, IssuesParts DEF Issues!OneSubmits, Issues!Submitting
      <3>2. x3'[Issues!Problem(d)] = x3[Issues!Problem(d)]
        BY <1>1, <3>1, IssuesParts, IssuesProblem DEF Issues!TypeOK
      <3> QED
        BY <1>3, <2>1, <2>3, <3>2, IssuesParts DEF Issues!OneSubmits
    <2> QED
      BY <2>2, <2>3
  <1>CreatedOnce. Issues!CreatedOnce'
    <2> SUFFICES ASSUME ~ x7', NEW f \in Issues!Fingerprint
                 PROVE  x3'[f] <= 1 /\ (x3'[f] = 1 => \E d \in Issues!FilesOf(f) : Issues!FileIs(d, Issues!Decided))
      BY <1>1, <1>5 DEF Issues!CreatedOnce, Issues!FileIs
    <2>1. CASE f = Issues!Problem(c)
      <3>1. x3[f] = 0
        BY <1>1, <1>2, <2>1, IssuesParts DEF Issues!OneSubmits, Issues!Submitting
      <3>2. x3'[f] \in {0, 1}
        BY <1>1, <2>1, <3>1, IssuesParts DEF Issues!TypeOK
      <3>3. x1[c].id \in Issues!FilesOf(f) /\ Issues!FileIs(x1[c].id, Issues!Decided)
        BY <1>1, <1>2, <2>1, IssuesSubmittersFile DEF Issues!Submitting
      <3> QED
        BY <3>2, <3>3
    <2>2. CASE f # Issues!Problem(c)
      BY <1>1, <1>2, <2>2, IssuesParts DEF Issues!CreatedOnce, Issues!TypeOK
    <2> QED
      BY <2>1, <2>2
  <1> QED
    BY <1>TypeOK, <1>Places, <1>OwnersHaveTheLock, <1>FilesAreSeen, <1>OneFile, <1>FilesCount, <1>OneSubmits,
      <1>CreatedOnce DEF Issues!IssuesInv

(* Authenticate keeps the invariant of Issues.                                          *)
LEMMA IssuesAuthenticate ==
  ASSUME Issues!IssuesInv, NEW c \in Filing, Issues!Authenticate(c)
  PROVE  Issues!IssuesInv'
  <1>0. x1[c] \in Issues!ReportRecord /\ x1[c].pc = "auth" /\ x2' = x2 /\ x3' = x3
    BY IssuesParts DEF Issues!Authenticate
  <1>1. CASE Issues!To(c, "search") /\ x5' = x5 /\ x6' = x6 /\ x7' = x7
    <2> DEFINE r == [x1[c] EXCEPT !.pc = "search"]
    <2>1. r \in Issues!ReportRecord /\ r.pc = "search" /\ r.id = x1[c].id /\ r.counted = x1[c].counted
      BY <1>0 DEF Issues!ReportRecord
    <2>2. x1' = [x1 EXCEPT ![c] = r]
      BY <1>1, IssuesParts DEF Issues!To, Issues!TypeOK
    <2> HIDE DEF r
    <2> QED
      BY <1>0, <1>1, <2>1, <2>2, IssuesAsks
  <1>2. ASSUME NEW status \in Issues!Status, Issues!Answer(c, status)
        PROVE  Issues!IssuesInv'
    <2> DEFINE r == [x1[c] EXCEPT !.pc = "update", !.submission = status]
    <2>1. r \in Issues!ReportRecord /\ r.pc = "update" /\ r.id = x1[c].id /\ r.counted = x1[c].counted
      BY <1>0, <1>2 DEF Issues!ReportRecord
    <2>2. x1' = [x1 EXCEPT ![c] = r] /\ Issues!Lock!Wants(c)
      BY <1>2, IssuesParts DEF Issues!Answer, Issues!TypeOK
    <2> HIDE DEF r
    <2> QED
      BY <1>0, <2>1, <2>2, IssuesAsks
  <1>3. "unavailable" \in Issues!Status /\ "submitted" \in Issues!Status /\ "unknown" \in Issues!Status /\ "failed" \in Issues!Status
    BY DEF Issues!Status, Issues!Decided
  <1> QED
    BY <1>1, <1>2, <1>3 DEF Issues!Authenticate

(* Search keeps the invariant of Issues.                                                *)
LEMMA IssuesSearch ==
  ASSUME Issues!IssuesInv, NEW c \in Filing, Issues!Search(c)
  PROVE  Issues!IssuesInv'
  <1>0. x1[c] \in Issues!ReportRecord /\ x1[c].pc = "search" /\ x2' = x2 /\ x3' = x3
    BY IssuesParts DEF Issues!Search
  <1>1. CASE Issues!To(c, "create") /\ x5' = x5 /\ x6' = x6 /\ x7' = x7
    <2> DEFINE r == [x1[c] EXCEPT !.pc = "create"]
    <2>1. r \in Issues!ReportRecord /\ r.pc = "create" /\ r.id = x1[c].id /\ r.counted = x1[c].counted
      BY <1>0 DEF Issues!ReportRecord
    <2>2. x1' = [x1 EXCEPT ![c] = r]
      BY <1>1, IssuesParts DEF Issues!To, Issues!TypeOK
    <2> HIDE DEF r
    <2> QED
      BY <1>0, <1>1, <2>1, <2>2, IssuesAsks
  <1>2. ASSUME NEW status \in Issues!Status, Issues!Answer(c, status)
        PROVE  Issues!IssuesInv'
    <2> DEFINE r == [x1[c] EXCEPT !.pc = "update", !.submission = status]
    <2>1. r \in Issues!ReportRecord /\ r.pc = "update" /\ r.id = x1[c].id /\ r.counted = x1[c].counted
      BY <1>0, <1>2 DEF Issues!ReportRecord
    <2>2. x1' = [x1 EXCEPT ![c] = r] /\ Issues!Lock!Wants(c)
      BY <1>2, IssuesParts DEF Issues!Answer, Issues!TypeOK
    <2> HIDE DEF r
    <2> QED
      BY <1>0, <2>1, <2>2, IssuesAsks
  <1>3. "unavailable" \in Issues!Status /\ "submitted" \in Issues!Status /\ "unknown" \in Issues!Status /\ "failed" \in Issues!Status
    BY DEF Issues!Status, Issues!Decided
  <1> QED
    BY <1>1, <1>2, <1>3 DEF Issues!Search

(* Create keeps the invariant of Issues.                                                *)
LEMMA IssuesCreate ==
  ASSUME Issues!IssuesInv, NEW c \in Filing, Issues!Create(c)
  PROVE  Issues!IssuesInv'
  <1>0. x1[c] \in Issues!ReportRecord /\ x1[c].pc = "create" /\ x2' = x2
    BY IssuesParts DEF Issues!Create
  <1>1. PICK status \in {"submitted", "unknown"} : Issues!Answer(c, status)
    BY DEF Issues!Create
  <1>2. status \in Issues!Status /\ status \in Issues!Decided
    BY DEF Issues!Status, Issues!Decided
  <1> DEFINE r == [x1[c] EXCEPT !.pc = "update", !.submission = status]
  <1>3. r \in Issues!ReportRecord /\ r.pc = "update" /\ r.submission = status /\ r.id = x1[c].id /\ r.counted = x1[c].counted
    BY <1>0, <1>2 DEF Issues!ReportRecord
  <1>4. x1' = [x1 EXCEPT ![c] = r] /\ Issues!Lock!Wants(c)
    BY <1>1, IssuesParts DEF Issues!Answer, Issues!TypeOK
  <1> HIDE DEF r
  <1>5. x3' = x3 \/ x3' = [x3 EXCEPT ![Issues!Problem(c)] = @ + 1]
    <2>1. PICK made \in BOOLEAN : x3' = [x3 EXCEPT ![Issues!Problem(c)] = @ + (IF made THEN 1 ELSE 0)]
      BY DEF Issues!Create
    <2>2. x3 = [x3 EXCEPT ![Issues!Problem(c)] = @ + 0]
      BY IssuesParts, IssuesProblem DEF Issues!TypeOK
    <2> QED
      BY <2>1, <2>2
  <1> QED
    BY <1>0, <1>2, <1>3, <1>4, <1>5, IssuesAsks

(* The decisions of a submission, and the class of a problem reported again.    *)
LEMMA IssuesSubmission ==
  ASSUME NEW status \in Issues!Status, NEW class \in Issues!Class, NEW auto \in BOOLEAN
  PROVE  LET n == Issues!nextSubmission(status, class, auto)
         IN  /\ n.status \in Issues!Status /\ n.submits \in BOOLEAN
             /\ status \in Issues!Decided => n.status = status /\ ~ n.submits
             /\ n.submits => n.status = "pending" /\ class = "suspected-bug"
  BY DEF Issues!nextSubmission, Issues!Submission, Issues!Status, Issues!Decided

(* The class of a merged report is security as soon as one of the two is.               *)
LEMMA IssuesMerged ==
  ASSUME NEW left \in Issues!Class, NEW right \in Issues!Class
  PROVE  LET m == Issues!mergeClassification(left, right)
         IN  /\ m \in Issues!Class /\ (m = "security" <=> left = "security" \/ right = "security")
             /\ (left = "suspected-bug" /\ right # "security") => m = "suspected-bug"
  <1>1. CASE left = "security" \/ right = "security"
    BY <1>1 DEF Issues!mergeClassification, Issues!Class
  <1>2. CASE left # "security" /\ right # "security" /\ (left = "suspected-bug" \/ right = "suspected-bug")
    BY <1>2 DEF Issues!mergeClassification, Issues!Class
  <1>3. CASE left = "operational" /\ right = "operational"
    BY <1>3 DEF Issues!mergeClassification, Issues!Class
  <1> QED
    BY <1>1, <1>2, <1>3 DEF Issues!Class

(* The security reports share one problem.                                              *)
LEMMA IssuesSecurity ==
  ASSUME NEW c \in Filing
  PROVE  ClassOf[c] \in Issues!Class /\ (ClassOf[c] = "security" <=> Issues!Problem(c) = "security")
  BY IssuesAssumption DEF Issues!Problem, Issues!issueFingerprint, Issues!Class

(* Read keeps the invariant of Issues.                                                  *)
LEMMA IssuesRead ==
  ASSUME Issues!IssuesInv, NEW c \in Filing, Issues!Read(c)
  PROVE  Issues!IssuesInv'
  <1>0. /\ x1[c] \in Issues!ReportRecord /\ x1[c].pc = "upsert" /\ Issues!Lock!AtWork(c) /\ ~ x1[c].counted
        /\ x2' = x2 /\ x3' = x3 /\ x5' = x5 /\ x6' = x6 /\ x7' = x7
    BY IssuesParts DEF Issues!Read, Issues!Places, Issues!ReportRecord
  <1>1. PICK id \in IF Issues!FilesOf(Issues!Problem(c)) = {} THEN {c} ELSE Issues!FilesOf(Issues!Problem(c)) :
          x1' = [x1 EXCEPT ![c].pc = "write", ![c].id = id, ![c].seen = x2[id]]
    BY DEF Issues!Read, Issues!Problem
  <1>2. id \in Filing /\ x2[id] \in Issues!FileRecord /\ Issues!Problem(id) = Issues!Problem(c)
    BY <1>1, IssuesParts DEF Issues!FilesOf, Issues!Problem
  <1> DEFINE r == [x1[c] EXCEPT !.pc = "write", !.id = id, !.seen = x2[id]]
  <1>3. /\ r \in Issues!ReportRecord /\ r.pc = "write" /\ r.id = id /\ r.seen = x2[id] /\ ~ r.counted
        /\ x1' = [x1 EXCEPT ![c] = r]
    BY <1>0, <1>1, <1>2, IssuesParts DEF Issues!ReportRecord, Issues!TypeOK
  <1> HIDE DEF r
  <1>4. x1' \in [Filing -> Issues!ReportRecord] /\ x1'[c] = r /\ \A d \in Filing : d # c => x1'[d] = x1[d]
    BY <1>3, IssuesParts, IssuesReportMoves
  <1>5. (\A f : Issues!FilesOf(f)' = Issues!FilesOf(f)) /\ \A d \in Filing : Issues!Counted(d)' = Issues!Counted(d)
    <2>1. \A d \in Filing : Issues!Counted(d)' = Issues!Counted(d)
      BY <1>0, <1>3, <1>4 DEF Issues!Counted
    <2> QED
      BY <1>0, <2>1, IssuesFilesKept
  <1>6. ~ x7 => Issues!FilesOf(Issues!Problem(c)) \subseteq {id}
    <2>1. ~ x7 /\ Issues!FilesOf(Issues!Problem(c)) # {} => x2[id].occurrences > 0
      BY <1>1 DEF Issues!FilesOf
    <2> QED
      BY <1>2, <2>1, IssuesParts DEF Issues!OneFile
  <1>TypeOK. Issues!TypeOK'
    BY <1>0, <1>4, IssuesParts DEF Issues!TypeOK
  <1>Places. Issues!Places'
    BY <1>0, <1>2, <1>3, <1>4, IssuesParts DEF Issues!Places, Issues!Lock!AtWork
  <1>OwnersHaveTheLock. Issues!OwnersHaveTheLock'
    BY <1>0, IssuesParts DEF Issues!OwnersHaveTheLock, Issues!Lock!AtWork
  <1>FilesAreSeen. Issues!FilesAreSeen'
    BY <1>0, <1>3, <1>4, <1>5, <1>6, IssuesParts DEF Issues!FilesAreSeen
  <1>OneFile. Issues!OneFile'
    BY <1>0, <1>5, IssuesParts DEF Issues!OneFile
  <1>FilesCount. Issues!FilesCount'
    BY <1>0, <1>5, IssuesParts DEF Issues!FilesCount
  <1>OneSubmits. Issues!OneSubmits'
    <2>1. \A d \in Filing : x1'[d].pc \in Issues!Submitting => x1'[d] = x1[d]
      BY <1>3, <1>4 DEF Issues!Submitting
    <2> QED
      BY <1>0, <2>1, IssuesSubmittersKept
  <1>CreatedOnce. Issues!CreatedOnce'
    BY <1>0, <1>5, IssuesParts DEF Issues!CreatedOnce, Issues!FileIs
  <1> QED
    BY <1>TypeOK, <1>Places, <1>OwnersHaveTheLock, <1>FilesAreSeen, <1>OneFile, <1>FilesCount, <1>OneSubmits, <1>CreatedOnce
    DEF Issues!IssuesInv

(* Write keeps the invariant of Issues.                                                 *)
LEMMA IssuesWrite ==
  ASSUME Issues!IssuesInv, NEW c \in Filing, Issues!Write(c)
  PROVE  Issues!IssuesInv'
  <1>i. PICK i \in Filing : i = x1[c].id
    BY IssuesParts DEF Issues!ReportRecord
  <1>s. PICK s \in Issues!FileRecord : s = x1[c].seen
    BY IssuesParts DEF Issues!ReportRecord
  <1> DEFINE K == IF s.occurrences = 0 THEN ClassOf[c] ELSE Issues!mergeClassification(s.class, ClassOf[c])
             n == Issues!nextSubmission(s.submission, K, AutoOf[c])
             w == [occurrences |-> s.occurrences + 1, class |-> K, submission |-> n.status]
             r == [x1[c] EXCEPT !.pc = IF n.submits THEN "leaves to submit" ELSE "leaves", !.seen = Issues!NoFile, !.counted = TRUE]
  <1>0. /\ x1[c] \in Issues!ReportRecord /\ x1[c].pc = "write" /\ i \in Filing /\ s \in Issues!FileRecord
        /\ s.occurrences \in Nat /\ s.class \in Issues!Class /\ s.submission \in Issues!Status
        /\ x3' = x3 /\ x5' = x5 /\ x6' = x6 /\ x7' = x7
    BY <1>i, <1>s, IssuesParts DEF Issues!Write, Issues!ReportRecord, Issues!FileRecord
  <1>1. ~ x1[c].counted /\ Issues!Lock!AtWork(c) /\ Issues!Problem(i) = Issues!Problem(c)
    BY <1>0, <1>i, IssuesParts DEF Issues!Places
  <1>2. x2' = [x2 EXCEPT ![i] = w] /\ x1' = [x1 EXCEPT ![c] = r]
    BY <1>i, <1>s, IssuesParts DEF Issues!Write, Issues!TypeOK
  <1>3. /\ K \in Issues!Class
        /\ s.occurrences = 0 => (K = "security" <=> Issues!Problem(c) = "security")
        /\ s.occurrences # 0 => (K = "security" <=> s.class = "security" \/ Issues!Problem(c) = "security")
        /\ (s.occurrences # 0 /\ s.class = "suspected-bug" /\ Issues!Problem(c) # "security") => K = "suspected-bug"
    <2>1. CASE s.occurrences = 0
      BY <1>0, <2>1, IssuesSecurity
    <2>2. CASE s.occurrences # 0
      <3>1. K = Issues!mergeClassification(s.class, ClassOf[c])
        BY <2>2
      <3> QED
        BY <1>0, <2>2, <3>1, IssuesSecurity, IssuesMerged
    <2> QED
      BY <2>1, <2>2
  <1> HIDE DEF K
  <1>4. /\ n.status \in Issues!Status /\ n.submits \in BOOLEAN
        /\ s.submission \in Issues!Decided => n.status = s.submission /\ ~ n.submits
        /\ n.submits => n.status = "pending" /\ K = "suspected-bug"
    <2>1. K \in Issues!Class /\ s.submission \in Issues!Status /\ AutoOf[c] \in BOOLEAN
      BY <1>0, <1>3, IssuesAssumption
    <2> QED
      BY <2>1, IssuesSubmission
  <1> HIDE DEF n
  <1>5. w \in Issues!FileRecord /\ w.occurrences = s.occurrences + 1 /\ w.occurrences > 0 /\ w.class = K /\ w.submission = n.status
    BY <1>0, <1>3, <1>4 DEF Issues!FileRecord
  <1>r. r \in Issues!ReportRecord /\ r.pc = (IF n.submits THEN "leaves to submit" ELSE "leaves") /\ r.counted /\ r.id = i
    <2>1. (IF n.submits THEN "leaves to submit" ELSE "leaves") \in {"leaves to submit", "leaves"}
      OBVIOUS
    <2> QED
      BY <1>0, <1>i, <2>1, IssuesParts DEF Issues!ReportRecord
  <1> HIDE DEF w, r
  <1>6. /\ x1' \in [Filing -> Issues!ReportRecord] /\ x1'[c] = r /\ \A d \in Filing : d # c => x1'[d] = x1[d]
        /\ x2' \in [Filing -> Issues!FileRecord] /\ x2'[i] = w /\ \A d \in Filing : d # i => x2'[d] = x2[d]
    BY <1>0, <1>2, <1>5, <1>r, IssuesParts, IssuesReportMoves DEF Issues!TypeOK
  <1>7. ASSUME ~ x7
        PROVE  /\ s = x2[i] /\ Issues!FilesOf(Issues!Problem(c)) \subseteq {i}
               /\ \A d \in Filing : d # c => x1[d].pc \notin {"write", "rewrite"}
    BY <1>0, <1>1, <1>7, <1>i, <1>s, IssuesParts DEF Issues!FilesAreSeen, Issues!OwnersHaveTheLock, Issues!Places
  <1>8. ASSUME ~ x7
        PROVE  Issues!FilesOf(Issues!Problem(c))' = {i} /\ \A f : f # Issues!Problem(c) => Issues!FilesOf(f)' = Issues!FilesOf(f)
    BY <1>0, <1>1, <1>5, <1>6, <1>7, <1>8 DEF Issues!FilesOf, Issues!Problem
  <1>9. ASSUME ~ x7
        PROVE  Issues!FileIs(i, Issues!Decided) => w.class = "suspected-bug" /\ w.submission = s.submission /\ ~ n.submits
    <2> SUFFICES ASSUME Issues!FileIs(i, Issues!Decided)
                 PROVE  w.class = "suspected-bug" /\ w.submission = s.submission /\ ~ n.submits
      OBVIOUS
    <2>1. s.occurrences > 0 /\ s.class = "suspected-bug" /\ s.submission \in Issues!Decided
      BY <1>0, <1>7, <1>9 DEF Issues!FileIs
    <2>2. Issues!Problem(c) # "security"
      BY <1>0, <1>1, <1>7, <1>9, <2>1, IssuesParts DEF Issues!OneFile
    <2> QED
      BY <1>0, <1>3, <1>4, <1>5, <2>1, <2>2
  <1>TypeOK. Issues!TypeOK'
    BY <1>0, <1>6, IssuesParts DEF Issues!TypeOK
  <1>Places. Issues!Places'
    BY <1>0, <1>1, <1>r, <1>6, IssuesParts DEF Issues!Places, Issues!Lock!AtWork
  <1>OwnersHaveTheLock. Issues!OwnersHaveTheLock'
    BY <1>0, IssuesParts DEF Issues!OwnersHaveTheLock, Issues!Lock!AtWork
  <1>FilesAreSeen. Issues!FilesAreSeen'
    <2>1. \A d \in Filing : x1'[d].pc \in {"write", "rewrite"} => d # c /\ x1'[d] = x1[d]
      BY <1>r, <1>6
    <2> QED
      BY <1>0, <1>7, <2>1 DEF Issues!FilesAreSeen
  <1>OneFile. Issues!OneFile'
    <2> SUFFICES ASSUME ~ x7, NEW d \in Filing, x2'[d].occurrences > 0
                 PROVE  Issues!FilesOf(Issues!Problem(d))' = {d} /\ (x2'[d].class = "security" <=> Issues!Problem(d) = "security")
      BY <1>0 DEF Issues!OneFile
    <2>1. CASE d = i
      <3>1. s.occurrences # 0 => (s.class = "security" <=> Issues!Problem(c) = "security")
        BY <1>0, <1>1, <1>7, IssuesParts DEF Issues!OneFile
      <3>2. K = "security" <=> Issues!Problem(c) = "security"
        BY <1>3, <3>1, IssuesSecurity
      <3> QED
        BY <1>1, <1>5, <1>6, <1>8, <2>1, <3>2
    <2>2. CASE d # i
      <3>1. x2'[d] = x2[d]
        BY <1>6, <2>2
      <3>2. d \in Issues!FilesOf(Issues!Problem(d))
        BY <3>1 DEF Issues!FilesOf, Issues!Problem
      <3>3. Issues!Problem(d) # Issues!Problem(c)
        BY <1>7, <2>2, <3>2
      <3> QED
        BY <1>8, <3>1, <3>3, IssuesParts DEF Issues!OneFile
    <2> QED
      BY <2>1, <2>2
  <1>FilesCount. Issues!FilesCount'
    <2> SUFFICES ASSUME ~ x7, NEW d \in Filing
                 PROVE  x2'[d].occurrences = Issues!Cardinality(Issues!Counted(d)')
      BY <1>0 DEF Issues!FilesCount
    <2>1. x2[d].occurrences = Issues!Cardinality(Issues!Counted(d))
      BY IssuesParts DEF Issues!FilesCount
    <2>2. CASE d = i
      <3>1. Issues!Counted(d)' = Issues!Counted(d) \cup {c} /\ c \notin Issues!Counted(d)
        BY <1>1, <1>r, <1>6, <2>2 DEF Issues!Counted
      <3>2. IsFiniteSet(Issues!Counted(d))
        BY IssuesAssumption, FS_Subset DEF Issues!Counted
      <3>3. Cardinality(Issues!Counted(d) \cup {c}) = Cardinality(Issues!Counted(d)) + 1
        BY <3>1, <3>2, FS_AddElement
      <3> QED
        <4>1. Issues!Cardinality(Issues!Counted(d)') = Issues!Cardinality(Issues!Counted(d)) + 1
          BY <3>1, <3>3, IssuesCardinality
        <4>2. x2'[d].occurrences = x2[d].occurrences + 1
          BY <1>5, <1>6, <1>7, <2>2
        <4> QED
          BY <2>1, <4>1, <4>2
    <2>3. CASE d # i
      <3>1. Issues!Counted(d)' = Issues!Counted(d)
        BY <1>1, <1>r, <1>6, <2>3 DEF Issues!Counted
      <3> QED
        BY <1>6, <2>1, <2>3, <3>1
    <2> QED
      BY <2>2, <2>3
  <1>OneSubmits. Issues!OneSubmits'
    <2> SUFFICES ASSUME ~ x7, NEW d \in Filing, x1'[d].pc \in Issues!Submitting
                 PROVE  /\ Issues!FileIs(x1[d].id, {"pending"})'
                        /\ \A e \in Filing : x1'[e].pc \in Issues!Submitting /\ Issues!Problem(e) = Issues!Problem(d) => e = d
                        /\ x3[Issues!Problem(d)] = 0 \/ (x1'[d].pc \in {"update", "rewrite"} /\ x1'[d].submission \in Issues!Decided)
      BY <1>0 DEF Issues!OneSubmits, Issues!FileIs
    <2>0. PICK j \in Filing : j = x1'[d].id
      BY <1>6 DEF Issues!ReportRecord
    <2>1. \A e \in Filing : e # c /\ x1'[e].pc \in Issues!Submitting => x1'[e] = x1[e] /\ x1[e].pc \in Issues!Submitting
      BY <1>6
    <2>2. \A e \in Filing : e # c /\ x1'[e].pc \in Issues!Submitting /\ Issues!Problem(e) = Issues!Problem(c) =>
            x1[e].id = i /\ Issues!FileIs(i, {"pending"})
      BY <1>7, <2>1, IssuesParts, IssuesSubmittersFile DEF Issues!OneSubmits
    <2>3. Issues!FileIs(i, {"pending"}) => Issues!FileIs(i, Issues!Decided)
      BY DEF Issues!FileIs, Issues!Decided
    <2>4. x1'[c].pc \in Issues!Submitting => n.submits
      BY <1>r, <1>6 DEF Issues!Submitting
    <2>5. CASE d = c
      <3>1. n.submits /\ ~ Issues!FileIs(i, Issues!Decided)
        BY <1>9, <2>4, <2>5
      <3>2. Issues!FileIs(i, {"pending"})'
        BY <1>4, <1>5, <1>6, <3>1 DEF Issues!FileIs
      <3>3. \A e \in Filing : x1'[e].pc \in Issues!Submitting /\ Issues!Problem(e) = Issues!Problem(d) => e = d
        BY <2>2, <2>3, <2>5, <3>1
      <3>4. x3[Issues!Problem(c)] = 0
        <4>1. x3[Issues!Problem(c)] \in Nat /\ x3[Issues!Problem(c)] <= 1 /\ x3[Issues!Problem(c)] # 1
          BY <1>7, <3>1, IssuesProblem, IssuesParts DEF Issues!CreatedOnce, Issues!TypeOK
        <4> QED
          BY <4>1
      <3> QED
        BY <1>r, <1>6, <2>5, <3>2, <3>3, <3>4 DEF Issues!FileIs
    <2>6. CASE d # c
      <3>1. x1'[d] = x1[d] /\ x1[d].pc \in Issues!Submitting /\ x1[d].id \in Filing /\ Issues!FileIs(x1[d].id, {"pending"})
        BY <2>1, <2>6, IssuesParts DEF Issues!OneSubmits, Issues!ReportRecord
      <3>2. Issues!FileIs(j, {"pending"})'
        <4>0. j = x1[d].id
          BY <2>0, <3>1
        <4>1. CASE j = i
          BY <1>5, <1>6, <1>7, <1>9, <2>3, <3>1, <4>0, <4>1 DEF Issues!FileIs
        <4>2. CASE j # i
          BY <1>6, <3>1, <4>0, <4>2 DEF Issues!FileIs
        <4> QED
          BY <4>1, <4>2
      <3>3. \A e \in Filing : x1'[e].pc \in Issues!Submitting /\ Issues!Problem(e) = Issues!Problem(d) => e = d
        <4> SUFFICES ASSUME NEW e \in Filing, x1'[e].pc \in Issues!Submitting, Issues!Problem(e) = Issues!Problem(d)
                     PROVE  e = d
          OBVIOUS
        <4>1. CASE e = c
          BY <1>9, <2>2, <2>3, <2>4, <2>6, <4>1
        <4>2. CASE e # c
          BY <2>1, <3>1, <4>2, IssuesParts DEF Issues!OneSubmits
        <4> QED
          BY <4>1, <4>2
      <3>4. x3[Issues!Problem(d)] = 0 \/ (x1[d].pc \in {"update", "rewrite"} /\ x1[d].submission \in Issues!Decided)
        BY <3>1, IssuesParts DEF Issues!OneSubmits
      <3> QED
        BY <2>0, <3>1, <3>2, <3>3, <3>4 DEF Issues!FileIs
    <2> QED
      BY <2>5, <2>6
  <1>CreatedOnce. Issues!CreatedOnce'
    <2> SUFFICES ASSUME ~ x7, NEW f \in Issues!Fingerprint
                 PROVE  x3[f] <= 1 /\ (x3[f] = 1 => \E d \in Issues!FilesOf(f)' : Issues!FileIs(d, Issues!Decided)')
      BY <1>0 DEF Issues!CreatedOnce, Issues!FileIs
    <2>1. x3[f] <= 1 /\ (x3[f] = 1 => \E d \in Issues!FilesOf(f) : Issues!FileIs(d, Issues!Decided))
      BY IssuesParts DEF Issues!CreatedOnce
    <2>2. CASE f = Issues!Problem(c)
      <3>1. x3[f] = 1 => Issues!FileIs(i, Issues!Decided)
        BY <1>7, <2>1, <2>2
      <3>2. x3[f] = 1 => Issues!FileIs(i, Issues!Decided)'
        BY <1>5, <1>6, <1>7, <1>9, <3>1 DEF Issues!FileIs
      <3> QED
        BY <1>8, <2>1, <2>2, <3>2
    <2>3. CASE f # Issues!Problem(c)
      <3>1. \A d \in Issues!FilesOf(f) : d \in Filing /\ d # i
        BY <1>1, <2>3 DEF Issues!FilesOf, Issues!Problem
      <3>2. \A d \in Issues!FilesOf(f) : Issues!FileIs(d, Issues!Decided) => Issues!FileIs(d, Issues!Decided)'
        BY <1>6, <3>1 DEF Issues!FileIs
      <3> QED
        BY <1>8, <2>1, <2>3, <3>2
    <2> QED
      BY <2>2, <2>3
  <1> QED
    BY <1>TypeOK, <1>Places, <1>OwnersHaveTheLock, <1>FilesAreSeen, <1>OneFile, <1>FilesCount, <1>OneSubmits, <1>CreatedOnce
    DEF Issues!IssuesInv

(* Rewrite keeps the invariant of Issues.                                               *)
LEMMA IssuesRewrite ==
  ASSUME Issues!IssuesInv, NEW c \in Filing, Issues!Rewrite(c)
  PROVE  Issues!IssuesInv'
  <1>i. PICK i \in Filing : i = x1[c].id
    BY IssuesParts DEF Issues!ReportRecord
  <1>s. PICK s \in Issues!FileRecord : s = x1[c].seen
    BY IssuesParts DEF Issues!ReportRecord
  <1>t. PICK status \in Issues!Status : status = x1[c].submission
    BY IssuesParts DEF Issues!ReportRecord
  <1> DEFINE w == [s EXCEPT !.submission = status]
             r == [x1[c] EXCEPT !.pc = "leaves", !.seen = Issues!NoFile]
  <1>0. x1[c] \in Issues!ReportRecord /\ x1[c].pc = "rewrite" /\ x3' = x3 /\ x5' = x5 /\ x6' = x6 /\ x7' = x7
    BY IssuesParts DEF Issues!Rewrite
  <1>1. Issues!Lock!AtWork(c) /\ Issues!Problem(i) = Issues!Problem(c)
    BY <1>0, <1>i, IssuesParts DEF Issues!Places
  <1>2. x2' = [x2 EXCEPT ![i] = w] /\ x1' = [x1 EXCEPT ![c] = r]
    BY <1>i, <1>s, <1>t, IssuesParts DEF Issues!Rewrite, Issues!Ends, Issues!TypeOK
  <1>5. w \in Issues!FileRecord /\ w.occurrences = s.occurrences /\ w.class = s.class /\ w.submission = status
    BY DEF Issues!FileRecord
  <1>r. r \in Issues!ReportRecord /\ r.pc = "leaves" /\ r.counted = x1[c].counted /\ r.id = i
    BY <1>0, <1>i, IssuesParts DEF Issues!ReportRecord
  <1> HIDE DEF w, r
  <1>6. /\ x1' \in [Filing -> Issues!ReportRecord] /\ x1'[c] = r /\ \A d \in Filing : d # c => x1'[d] = x1[d]
        /\ x2' \in [Filing -> Issues!FileRecord] /\ x2'[i] = w /\ \A d \in Filing : d # i => x2'[d] = x2[d]
    BY <1>0, <1>2, <1>5, <1>r, IssuesParts, IssuesReportMoves DEF Issues!TypeOK
  <1>7. ASSUME ~ x7
        PROVE  s = x2[i] /\ \A d \in Filing : d # c => x1[d].pc \notin {"write", "rewrite"}
    BY <1>0, <1>1, <1>7, <1>i, <1>s, IssuesParts DEF Issues!FilesAreSeen, Issues!OwnersHaveTheLock, Issues!Places
  <1>8. ASSUME ~ x7
        PROVE  (\A f : Issues!FilesOf(f)' = Issues!FilesOf(f)) /\ \A d \in Filing : Issues!Counted(d)' = Issues!Counted(d)
    <2>1. \A d \in Filing : x2'[d].occurrences = x2[d].occurrences
      BY <1>5, <1>6, <1>7, <1>8
    <2>2. \A d \in Filing : x1'[d].counted = x1[d].counted /\ x1'[d].id = x1[d].id
      BY <1>6, <1>r, <1>i
    <2> QED
      BY <2>1, <2>2, IssuesFilesKept, IssuesCountedKept
  <1>9. ASSUME ~ x7
        PROVE  /\ Issues!FileIs(i, {"pending"})
               /\ x3[Issues!Problem(c)] = 0 \/ status \in Issues!Decided
               /\ \A d \in Filing : x1[d].pc \in Issues!Submitting /\ Issues!Problem(d) = Issues!Problem(c) => d = c
    BY <1>0, <1>9, <1>i, <1>t, IssuesParts DEF Issues!OneSubmits, Issues!Submitting
  <1>TypeOK. Issues!TypeOK'
    BY <1>0, <1>6, IssuesParts DEF Issues!TypeOK
  <1>Places. Issues!Places'
    BY <1>0, <1>1, <1>r, <1>6, <1>i, IssuesParts DEF Issues!Places, Issues!Lock!AtWork
  <1>OwnersHaveTheLock. Issues!OwnersHaveTheLock'
    BY <1>0, IssuesParts DEF Issues!OwnersHaveTheLock, Issues!Lock!AtWork
  <1>FilesAreSeen. Issues!FilesAreSeen'
    <2>1. \A d \in Filing : x1'[d].pc \in {"write", "rewrite"} => d # c /\ x1'[d] = x1[d]
      BY <1>r, <1>6
    <2> QED
      BY <1>0, <1>7, <2>1 DEF Issues!FilesAreSeen
  <1>OneFile. Issues!OneFile'
    <2>1. ~ x7 => \A d \in Filing : x2'[d].occurrences = x2[d].occurrences /\ x2'[d].class = x2[d].class
      BY <1>5, <1>6, <1>7
    <2> QED
      BY <1>0, <1>8, <2>1, IssuesParts DEF Issues!OneFile
  <1>FilesCount. Issues!FilesCount'
    <2>1. ~ x7 => \A d \in Filing : x2'[d].occurrences = x2[d].occurrences
      BY <1>5, <1>6, <1>7
    <2> QED
      BY <1>0, <1>8, <2>1, IssuesParts DEF Issues!FilesCount
  <1>OneSubmits. Issues!OneSubmits'
    <2> SUFFICES ASSUME ~ x7, NEW d \in Filing, x1'[d].pc \in Issues!Submitting
                 PROVE  /\ Issues!FileIs(x1[d].id, {"pending"})'
                        /\ \A e \in Filing : x1'[e].pc \in Issues!Submitting /\ Issues!Problem(e) = Issues!Problem(d) => e = d
                        /\ x3[Issues!Problem(d)] = 0 \/ (x1'[d].pc \in {"update", "rewrite"} /\ x1'[d].submission \in Issues!Decided)
      BY <1>0 DEF Issues!OneSubmits, Issues!FileIs
    <2>1. \A e \in Filing : x1'[e].pc \in Issues!Submitting => e # c /\ x1'[e] = x1[e]
      BY <1>6, <1>r DEF Issues!Submitting
    <2>2. d # c /\ x1'[d] = x1[d] /\ x1[d].pc \in Issues!Submitting
      BY <2>1
    <2>3. /\ \A e \in Filing : x1[e].pc \in Issues!Submitting /\ Issues!Problem(e) = Issues!Problem(d) => e = d
          /\ x3[Issues!Problem(d)] = 0 \/ (x1[d].pc \in {"update", "rewrite"} /\ x1[d].submission \in Issues!Decided)
      BY <2>2, IssuesParts DEF Issues!OneSubmits
    <2>4. Issues!Problem(d) # Issues!Problem(c)
      BY <1>9, <2>2
    <2>5. PICK j \in Filing : j = x1[d].id
      BY IssuesParts DEF Issues!ReportRecord
    <2>6. Issues!FileIs(j, {"pending"})
      BY <2>2, <2>5, IssuesParts DEF Issues!OneSubmits
    <2>7. j # i
      BY <1>1, <2>4, <2>5, IssuesParts DEF Issues!Places
    <2>8. Issues!FileIs(j, {"pending"})'
      BY <1>6, <2>6, <2>7 DEF Issues!FileIs
    <2>9. \A e \in Filing : x1'[e].pc \in Issues!Submitting /\ Issues!Problem(e) = Issues!Problem(d) => e = d
      BY <2>1, <2>3
    <2> QED
      BY <2>2, <2>3, <2>5, <2>8, <2>9 DEF Issues!FileIs
  <1>CreatedOnce. Issues!CreatedOnce'
    <2> SUFFICES ASSUME ~ x7, NEW f \in Issues!Fingerprint
                 PROVE  x3[f] <= 1 /\ (x3[f] = 1 => \E d \in Issues!FilesOf(f) : Issues!FileIs(d, Issues!Decided)')
      BY <1>0, <1>8 DEF Issues!CreatedOnce, Issues!FileIs
    <2>1. x3[f] <= 1 /\ (x3[f] = 1 => \E d \in Issues!FilesOf(f) : Issues!FileIs(d, Issues!Decided))
      BY IssuesParts DEF Issues!CreatedOnce
    <2>2. CASE f = Issues!Problem(c)
      <3>1. x3[f] = 1 => Issues!FileIs(i, Issues!Decided)'
        BY <1>5, <1>6, <1>7, <1>9, <2>2 DEF Issues!FileIs
      <3>2. i \in Issues!FilesOf(f)
        BY <1>1, <1>9, <2>2 DEF Issues!FilesOf, Issues!FileIs, Issues!Problem
      <3> QED
        BY <2>1, <3>1, <3>2
    <2>3. CASE f # Issues!Problem(c)
      <3>1. \A d \in Issues!FilesOf(f) : d \in Filing /\ d # i
        BY <1>1, <2>3 DEF Issues!FilesOf, Issues!Problem
      <3>2. \A d \in Issues!FilesOf(f) : Issues!FileIs(d, Issues!Decided) => Issues!FileIs(d, Issues!Decided)'
        BY <1>6, <3>1 DEF Issues!FileIs
      <3> QED
        BY <2>1, <3>2
    <2> QED
      BY <2>2, <2>3
  <1> QED
    BY <1>TypeOK, <1>Places, <1>OwnersHaveTheLock, <1>FilesAreSeen, <1>OneFile, <1>FilesCount, <1>OneSubmits, <1>CreatedOnce
    DEF Issues!IssuesInv

(* The first state has the invariant of Issues.                                         *)
LEMMA IssuesInitially == Issues!Init => Issues!IssuesInv
  <1> SUFFICES ASSUME Issues!Init
               PROVE  Issues!IssuesInv
    OBVIOUS
  <1>1. Issues!NoFile \in Issues!FileRecord /\ Issues!NoFile.occurrences = 0
    BY DEF Issues!NoFile, Issues!FileRecord, Issues!Class, Issues!Status
  <1>2. \A c \in Filing : /\ Issues!NewReport(c) \in Issues!ReportRecord /\ Issues!NewReport(c).pc = "idle"
                          /\ ~ Issues!NewReport(c).counted /\ Issues!NewReport(c).id = c
    BY <1>1 DEF Issues!NewReport, Issues!ReportRecord, Issues!Status
  <1>3. /\ \A c \in Filing : x1[c] \in Issues!ReportRecord /\ x1[c].pc = "idle" /\ ~ x1[c].counted /\ x1[c].id = c
        /\ \A c \in Filing : x2[c].occurrences = 0
        /\ \A f \in Issues!Fingerprint : x3[f] = 0
    BY <1>1, <1>2 DEF Issues!Init
  <1>4. Issues!TypeOK
    <2>1. x1 \in [Filing -> Issues!ReportRecord] /\ x2 \in [Filing -> Issues!FileRecord] /\ x3 \in [Issues!Fingerprint -> Nat]
      BY <1>1, <1>2 DEF Issues!Init
    <2>2. x6 \in [Filing -> Issues!Place] /\ x7 \in BOOLEAN /\ ~ x5.held
      BY DEF Issues!Init, Issues!Lock!LockInit, Issues!Lock!Free, Issues!Place
    <2> QED
      BY <2>1, <2>2 DEF Issues!TypeOK
  <1>5. Issues!Places
    BY <1>3 DEF Issues!Places
  <1>6. Issues!OwnersHaveTheLock
    BY DEF Issues!Init, Issues!Lock!LockInit, Issues!OwnersHaveTheLock, Issues!Lock!AtWork
  <1>7. Issues!FilesAreSeen /\ Issues!OneFile /\ Issues!OneSubmits /\ Issues!CreatedOnce
    <2>1. Issues!FilesAreSeen
      BY <1>3 DEF Issues!FilesAreSeen
    <2>2. Issues!OneFile
      BY <1>3 DEF Issues!OneFile
    <2>3. Issues!OneSubmits
      BY <1>3 DEF Issues!OneSubmits, Issues!Submitting
    <2>4. Issues!CreatedOnce
      BY <1>3 DEF Issues!CreatedOnce
    <2> QED
      BY <2>1, <2>2, <2>3, <2>4
  <1>8. Issues!FilesCount
    <2>1. \A d \in Filing : Issues!Counted(d) = {}
      BY <1>3 DEF Issues!Counted
    <2>2. Issues!Cardinality({}) = 0
      BY FS_EmptySet, IssuesCardinality
    <2> QED
      BY <1>3, <2>1, <2>2 DEF Issues!FilesCount
  <1> QED
    BY <1>4, <1>5, <1>6, <1>7, <1>8 DEF Issues!IssuesInv

(* Every step keeps the invariant of Issues.                                            *)
LEMMA IssuesNext == Issues!IssuesInv /\ Issues!Next => Issues!IssuesInv'
  BY IssuesRefuse, IssuesLockFails, IssuesLockMoves, IssuesLeave, IssuesBegin, IssuesRead, IssuesWrite, IssuesWriteFails,
     IssuesAuthenticate, IssuesSearch, IssuesCreate, IssuesReread, IssuesRewrite, IssuesCrash, IssuesAge
  DEF Issues!Next

(* What the invariant of Issues says of the files and the issues.                       *)
LEMMA IssuesFiled == Issues!IssuesInv => Issues!ProblemsAreFiledOnce
  <1> SUFFICES ASSUME Issues!IssuesInv, ~ x7, NEW f \in Issues!Fingerprint
               PROVE  /\ Issues!Cardinality(Issues!FilesOf(f)) <= 1
                      /\ \A d \in Issues!FilesOf(f) : x2[d].occurrences = Issues!Cardinality(Issues!Counted(d))
                      /\ x3[f] <= 1
                      /\ x3[f] = 1 =>
                           \E d \in Issues!FilesOf(f) : x2[d].class = "suspected-bug" /\ x2[d].submission \in Issues!Decided
    BY DEF Issues!ProblemsAreFiledOnce, Issues!Counted
  <1>1. Issues!FilesOf(f) \subseteq Filing
    BY DEF Issues!FilesOf
  <1>2. Issues!Cardinality(Issues!FilesOf(f)) <= 1
    <2>1. CASE Issues!FilesOf(f) = {}
      BY <2>1, FS_EmptySet, IssuesCardinality
    <2>2. ASSUME NEW d \in Issues!FilesOf(f)
          PROVE  Issues!FilesOf(f) = {d}
      <3>1. d \in Filing /\ x2[d].occurrences > 0 /\ Issues!Problem(d) = f
        BY DEF Issues!FilesOf, Issues!Problem
      <3> QED
        BY <3>1, IssuesParts DEF Issues!OneFile
    <2>3. ASSUME NEW d \in Issues!FilesOf(f)
          PROVE  Cardinality(Issues!FilesOf(f)) = 1
      BY <2>2, FS_Singleton
    <2> QED
      BY <2>1, <2>3, IssuesCardinality
  <1>3. \A d \in Issues!FilesOf(f) : x2[d].occurrences = Issues!Cardinality(Issues!Counted(d))
    BY <1>1, IssuesParts DEF Issues!FilesCount
  <1>4. x3[f] <= 1 /\ (x3[f] = 1 =>
          \E d \in Issues!FilesOf(f) : x2[d].class = "suspected-bug" /\ x2[d].submission \in Issues!Decided)
    BY IssuesParts DEF Issues!CreatedOnce, Issues!FileIs
  <1> QED
    BY <1>2, <1>3, <1>4
-----------------------------------------------------------------------------
(* The parts together.                                                      *)

(* A behaviour of one part starts and goes on as the part does.              *)
LEMMA PartsOfHelpers ==
  /\ AllInit /\ Is("requests") => Requests!Init
  /\ AllInit /\ Is("agents") => Agents!Init
  /\ AllInit /\ Is("issues") => Issues!Init
  /\ AllInit /\ Is("link") => Link!Init
  /\ AllInit /\ Is("current") => Current!Init
  /\ AllInit /\ Is("stored") => Stored!Init
  /\ AllNext /\ Is("requests") => Requests!Next
  /\ AllNext /\ Is("agents") => Agents!Next
  /\ AllNext /\ Is("issues") => Issues!Next
  /\ AllNext /\ Is("link") => Link!Next
  /\ AllNext /\ Is("current") => Current!Next
  /\ AllNext /\ Is("stored") => Stored!Next
  BY DEF AllInit, AllNext, Is, PageMoves, ToolsMove, RequestsMove, GroupsMove, AgentsMove, IssuesMove, LinkMoves,
         ProfilesMove, CurrentMoves, StoredMoves

(* It stays the part that it is.                                             *)
LEMMA PartStays == AllNext => part' = part
  BY DEF AllNext, PageMoves, ToolsMove, RequestsMove, GroupsMove, AgentsMove, IssuesMove, LinkMoves,
         ProfilesMove, CurrentMoves, StoredMoves

(* The invariant of Link holds in every behaviour of it.                    *)
LEMMA LinkAlways == AllSpec => [](Is("link") => Link!LinkInv)
  <1>1. AllInit => (Is("link") => Link!LinkInv)
    BY PartsOfHelpers, LinkInit
  <1>2. (Is("link") => Link!LinkInv) /\ [AllNext]_<<part, x>> => (Is("link") => Link!LinkInv)'
    <2> SUFFICES ASSUME Is("link") => Link!LinkInv, [AllNext]_<<part, x>>, Is("link")'
                 PROVE  Link!LinkInv'
      OBVIOUS
    <2>1. CASE AllNext
      <3>1. Is("link")
        BY <2>1, PartStays DEF Is
      <3> QED
        BY <2>1, <3>1, PartsOfHelpers, LinkNext
    <2>2. CASE UNCHANGED <<part, x>>
      <3>1. Is("link") /\ x1' = x1 /\ x2' = x2 /\ x3' = x3 /\ x4' = x4 /\ x5' = x5 /\ x6' = x6 /\ x7' = x7 /\ x8' = x8
        BY <2>2 DEF Is, x
      <3> QED
        BY <3>1, LinkSame
    <2> QED
      BY <2>1, <2>2
  <1> QED
    BY <1>1, <1>2, PTL DEF AllSpec

(* The invariant of Current holds in every behaviour of it.                    *)
LEMMA CurrentAlways == AllSpec => [](Is("current") => Current!CurrentInv)
  <1>1. AllInit => (Is("current") => Current!CurrentInv)
    BY PartsOfHelpers, CurrentInitially
  <1>2. (Is("current") => Current!CurrentInv) /\ [AllNext]_<<part, x>> => (Is("current") => Current!CurrentInv)'
    <2> SUFFICES ASSUME Is("current") => Current!CurrentInv, [AllNext]_<<part, x>>, Is("current")'
                 PROVE  Current!CurrentInv'
      OBVIOUS
    <2>1. CASE AllNext
      <3>1. Is("current")
        BY <2>1, PartStays DEF Is
      <3> QED
        BY <2>1, <3>1, PartsOfHelpers, CurrentNext
    <2>2. CASE UNCHANGED <<part, x>>
      <3>1. Is("current") /\ x1' = x1 /\ x2' = x2 /\ x3' = x3 /\ x4' = x4 /\ x5' = x5 /\ x6' = x6 /\ x7' = x7 /\ x8' = x8
        BY <2>2 DEF Is, x
      <3> QED
        BY <3>1, CurrentSame
    <2> QED
      BY <2>1, <2>2
  <1> QED
    BY <1>1, <1>2, PTL DEF AllSpec

(* The invariant of Stored holds in every behaviour of it.                    *)
LEMMA StoredAlways == AllSpec => [](Is("stored") => Stored!StoredInv)
  <1>1. AllInit => (Is("stored") => Stored!StoredInv)
    BY PartsOfHelpers, StoredInitially
  <1>2. (Is("stored") => Stored!StoredInv) /\ [AllNext]_<<part, x>> => (Is("stored") => Stored!StoredInv)'
    <2> SUFFICES ASSUME Is("stored") => Stored!StoredInv, [AllNext]_<<part, x>>, Is("stored")'
                 PROVE  Stored!StoredInv'
      OBVIOUS
    <2>1. CASE AllNext
      <3>1. Is("stored")
        BY <2>1, PartStays DEF Is
      <3> QED
        BY <2>1, <3>1, PartsOfHelpers, StoredNext
    <2>2. CASE UNCHANGED <<part, x>>
      <3>1. Is("stored") /\ x1' = x1 /\ x2' = x2 /\ x3' = x3 /\ x4' = x4 /\ x5' = x5
        BY <2>2 DEF Is, x
      <3> QED
        BY <3>1, StoredSame
    <2> QED
      BY <2>1, <2>2
  <1> QED
    BY <1>1, <1>2, PTL DEF AllSpec

(* The invariant of Agents holds in every behaviour of it.                    *)
LEMMA AgentsAlways == AllSpec => [](Is("agents") => Agents!AgentsInv)
  <1>1. AllInit => (Is("agents") => Agents!AgentsInv)
    BY PartsOfHelpers, AgentsInitially
  <1>2. (Is("agents") => Agents!AgentsInv) /\ [AllNext]_<<part, x>> => (Is("agents") => Agents!AgentsInv)'
    <2> SUFFICES ASSUME Is("agents") => Agents!AgentsInv, [AllNext]_<<part, x>>, Is("agents")'
                 PROVE  Agents!AgentsInv'
      OBVIOUS
    <2>1. CASE AllNext
      <3>1. Is("agents")
        BY <2>1, PartStays DEF Is
      <3> QED
        BY <2>1, <3>1, PartsOfHelpers, AgentsNext
    <2>2. CASE UNCHANGED <<part, x>>
      <3>1. Is("agents") /\ x1' = x1 /\ x2' = x2 /\ x3' = x3 /\ x4' = x4 /\ x5' = x5 /\ x6' = x6 /\ x7' = x7 /\ x8' = x8
        BY <2>2 DEF Is, x
      <3> QED
        BY <3>1, AgentsSame
    <2> QED
      BY <2>1, <2>2
  <1> QED
    BY <1>1, <1>2, PTL DEF AllSpec

(* The invariant of Requests holds in every behaviour of it.                    *)
LEMMA RequestsAlways == AllSpec => [](Is("requests") => Requests!RequestsInv)
  <1>1. AllInit => (Is("requests") => Requests!RequestsInv)
    BY PartsOfHelpers, RequestsInitially
  <1>2. (Is("requests") => Requests!RequestsInv) /\ [AllNext]_<<part, x>> => (Is("requests") => Requests!RequestsInv)'
    <2> SUFFICES ASSUME Is("requests") => Requests!RequestsInv, [AllNext]_<<part, x>>, Is("requests")'
                 PROVE  Requests!RequestsInv'
      OBVIOUS
    <2>1. CASE AllNext
      <3>1. Is("requests")
        BY <2>1, PartStays DEF Is
      <3> QED
        BY <2>1, <3>1, PartsOfHelpers, RequestsNext
    <2>2. CASE UNCHANGED <<part, x>>
      <3>1. Is("requests") /\ x1' = x1 /\ x2' = x2 /\ x3' = x3 /\ x4' = x4 /\ x5' = x5 /\ x6' = x6 /\ x7' = x7 /\ x8' = x8
        BY <2>2 DEF Is, x
      <3> QED
        BY <3>1, RequestsSame
    <2> QED
      BY <2>1, <2>2
  <1> QED
    BY <1>1, <1>2, PTL DEF AllSpec

(* The invariant of Issues holds in every behaviour of it.                    *)
LEMMA IssuesAlways == AllSpec => [](Is("issues") => Issues!IssuesInv)
  <1>1. AllInit => (Is("issues") => Issues!IssuesInv)
    BY PartsOfHelpers, IssuesInitially
  <1>2. (Is("issues") => Issues!IssuesInv) /\ [AllNext]_<<part, x>> => (Is("issues") => Issues!IssuesInv)'
    <2> SUFFICES ASSUME Is("issues") => Issues!IssuesInv, [AllNext]_<<part, x>>, Is("issues")'
                 PROVE  Issues!IssuesInv'
      OBVIOUS
    <2>1. CASE AllNext
      <3>1. Is("issues")
        BY <2>1, PartStays DEF Is
      <3> QED
        BY <2>1, <3>1, PartsOfHelpers, IssuesNext
    <2>2. CASE UNCHANGED <<part, x>>
      <3>1. Is("issues") /\ x1' = x1 /\ x2' = x2 /\ x3' = x3 /\ x4' = x4 /\ x5' = x5 /\ x6' = x6 /\ x7' = x7
        BY <2>2 DEF Is, x
      <3> QED
        BY <3>1, IssuesSame
    <2> QED
      BY <2>1, <2>2
  <1> QED
    BY <1>1, <1>2, PTL DEF AllSpec

(* A command gets the answer of the extension generation it was sent to, or none; and no compatible     *)
(* browser is left with neither a socket nor a timer that makes one.                                  *)
THEOREM LinkIsTrue == AllSpec => []LinkHolds
  <1>1. (Is("link") => Link!LinkInv) => LinkHolds
    BY DEF LinkHolds, Link!LinkInv
  <1> QED
    BY <1>1, LinkAlways, PTL

(* No step takes the relay from a browser that still answers, but those that close its socket for a       *)
(* failed reconciliation of its own inventory or for an invalid frame that it sent.                       *)
THEOREM AnsweringBrowserStays == AllSpec => AnsweringBrowserKeepsTheRelay
  <1>1. (Is("link") => Link!LinkInv) /\ [AllNext]_<<part, x>> => [Is("link") => Link!StepKeepsAnsweringBrowser]_<<part, x>>
    BY PartsOfHelpers, LinkStepKeeps
  <1> QED
    BY <1>1, LinkAlways, PTL DEF AllSpec, AnsweringBrowserKeepsTheRelay

(* While other calls of the agent are under way and others use the relay, an execute is told that it     *)
(* recreated the session exactly when it did, in place of one its agent knew, unless another call of     *)
(* the agent was answered after it had read which session is current.  And the session that a command    *)
(* of an endpoint works on is one that was chosen for that endpoint.         *)
THEOREM CurrentSessionsAreTrue == AllSpec => []CurrentSessionsAreTheirs
  <1>1. (Is("current") => Current!CurrentInv) /\ (Is("stored") => Stored!StoredInv) => CurrentSessionsAreTheirs
    BY StoredIsChosen DEF CurrentSessionsAreTheirs, Current!CurrentInv
  <1> QED
    BY <1>1, CurrentAlways, StoredAlways, PTL

(* An agent whose session was answered once is answered with the same session, unless it was forgotten    *)
(* or a lock taken from its owner.                                                                    *)
THEOREM AnsweredSessionStays == AllSpec => []AnsweredSessionIsKept
  <1>1. (Is("agents") => Agents!AgentsInv) => AnsweredSessionIsKept
    BY DEF AnsweredSessionIsKept, Agents!AgentsInv
  <1> QED
    BY <1>1, AgentsAlways, PTL

(* A request that was told as not done was not applied, none was sent from another origin, and none       *)
(* that carries credentials ran inside a capture.                                                    *)
THEOREM RequestsAreTold == AllSpec => []RequestsKeepTheirWord
  <1>1. (Is("requests") => Requests!RequestsInv) => RequestsKeepTheirWord
    BY RequestsWord DEF RequestsKeepTheirWord
  <1> QED
    BY <1>1, RequestsAlways, PTL

(* Every problem has one file at most, which counts its reports, and one issue on GitHub at most, however  *)
(* many processes report it, and whichever of them crash or fail.                                      *)
THEOREM ProblemsFiled == AllSpec => []ProblemsAreFiledOnce
  <1>1. (Is("issues") => Issues!IssuesInv) => ProblemsAreFiledOnce
    BY IssuesFiled DEF ProblemsAreFiledOnce
  <1> QED
    BY <1>1, IssuesAlways, PTL

=============================================================================
