----------------------------- MODULE DshAdapter -----------------------------
(***************************************************************************)
(* The agents of DeepSeek Harness: every agent session keeps one BrowserRig    *)
(* session, through a file that all processes of the harness share               *)
(* (BrowserRigDshAdapter and PackageBrowserRigCliRunner of src/src/dsh-adapter.ts,  *)
(* DshSessionMap of src/src/dsh-session-map.ts).                              *)
(*                                                                         *)
(* An agent session lives in one process at a time.  A call starts the command   *)
(* line program, which asks the relay; it may fail before or after the relay has  *)
(* done its work, and its output may be unusable.  Processes crash.  Other users    *)
(* of the relay delete sessions.  A step of a call is what it does between two     *)
(* file operations.                                                         *)
(***************************************************************************)
EXTENDS Naturals, FiniteSets

CONSTANTS Key,             \* agent sessions (mapping keys)
          Call, KeyOf,     \* the tool calls and the agent session of each
          ProcessOf,       \* the process of each agent session
          MaxSessions, MaxFaults   \* bounds: BrowserRig sessions, failures of any kind

VARIABLES
  call,      \* every tool call
  queue,     \* sessionChains: the unfinished calls of a key (their order does not matter here)
  file,      \* the session map: a session for every key, 0 is none
  lock,      \* the lock file: the call whose token it holds, whether its time looks stale
  relay,     \* the sessions of the relay and the number created
  answered,  \* history: the session in which the last successful call of a key ran
  taken,     \* history: a lock was removed whose owner was still at work
  faults

vars == <<call, queue, file, lock, relay, answered, taken, faults>>

FreeLock == [held |-> FALSE, by |-> CHOOSE c \in Call : TRUE, stale |-> FALSE]
NewCall == [pc |-> "idle", op |-> "execute", session |-> 0, entry |-> "none", loaded |-> [k \in Key |-> 0]]
Faulty == faults < MaxFaults /\ faults' = faults + 1
To(c, pc) == call' = [call EXCEPT ![c].pc = pc]

Waiting == {"locking", "stat", "unlink"}
Inside == {"load", "save", "release"}

-----------------------------------------------------------------------------
(* serialized, execute, adoptActive and reset.                              *)
Begin(c, op) ==
  /\ call[c].pc = "idle"
  /\ call' = [call EXCEPT ![c].pc = "queued", ![c].op = op]
  /\ queue' = [queue EXCEPT ![KeyOf[c]] = @ \cup {c}]
  /\ UNCHANGED <<file, lock, relay, answered, taken, faults>>

Running(k) == {c \in queue[k] : call[c].pc # "queued"}
NotSerialized(k) == TRUE   \* variant
Serialized(k) == Running(k) = {}

\* the mapping is read without the lock
Get(c) ==
  /\ call[c].pc = "queued" /\ Serialized(KeyOf[c])
  /\ LET session == file[KeyOf[c]]
     IN  call' = [call EXCEPT ![c].session = session,
                              ![c].pc = IF session # 0 THEN "command"
                                        ELSE IF call[c].op = "reset" THEN "done" ELSE "create"]
  /\ queue' = [queue EXCEPT ![KeyOf[c]] = IF call'[c].pc = "done" THEN @ \ {c} ELSE @]
  /\ UNCHANGED <<file, lock, relay, answered, taken, faults>>

\* the end of a call; a failed one leaves the chain as well
Leaves(c, pc) == /\ To(c, pc) /\ queue' = [queue EXCEPT ![KeyOf[c]] = @ \ {c}]
Fails(c) == Leaves(c, "failed")
Succeeds(c, session) == /\ Leaves(c, "done")
                        /\ answered' = [answered EXCEPT ![KeyOf[c]] = session]

-----------------------------------------------------------------------------
(* PackageBrowserRigCliRunner.run and what its output says.                  *)

\* with the remembered session; a reset answers as well, in the same session
Command(c) ==
  /\ call[c].pc = "command"
  /\ IF call[c].session \in relay.alive THEN Succeeds(c, call[c].session)
     ELSE /\ call' = [call EXCEPT ![c].pc = "locking", ![c].entry = "delete"]   \* isMissingSession
          /\ UNCHANGED <<queue, answered>>
  /\ UNCHANGED <<file, lock, relay, taken, faults>>

\* without one: the relay creates a session and its answer names it
Create(c) ==
  /\ call[c].pc = "create" /\ relay.created < MaxSessions
  /\ LET session == relay.created + 1
     IN  /\ relay' = [created |-> session, alive |-> relay.alive \cup {session}]
         /\ call' = [call EXCEPT ![c].pc = "locking", ![c].session = session, ![c].entry = "set"]
  /\ UNCHANGED <<queue, file, lock, answered, taken, faults>>

\* the command is aborted, killed or not started, or it reports an error
Unanswered(c) == UNCHANGED relay

\* its output is lost, truncated or malformed: the relay may have created a session
Unusable(c) == /\ call[c].pc = "create" /\ relay.created < MaxSessions
               /\ relay' = [created |-> relay.created + 1, alive |-> relay.alive \cup {relay.created + 1}]

CommandFails(c) ==
  /\ call[c].pc \in {"command", "create"} /\ Faulty
  /\ Fails(c) /\ (Unanswered(c) \/ Unusable(c))
  /\ UNCHANGED <<file, lock, answered, taken>>

-----------------------------------------------------------------------------
(* DshSessionMap.withLock: the lock file is created exclusively.             *)
Holds(c) == [held |-> TRUE, by |-> c, stale |-> FALSE]

Lock(c) ==
  /\ call[c].pc = "locking"
  /\ IF lock.held THEN To(c, "stat") /\ UNCHANGED lock
     ELSE To(c, "load") /\ lock' = Holds(c)
  /\ UNCHANGED <<queue, file, relay, answered, taken, faults>>

Stat(c) ==
  /\ call[c].pc = "stat"
  /\ To(c, IF lock.held /\ lock.stale THEN "unlink" ELSE "locking")
  /\ UNCHANGED <<queue, file, lock, relay, answered, taken, faults>>

AtWork(c) == call[c].pc \in Inside

\* the lock that is removed need not be the one whose time was read
Unlink(c) ==
  /\ call[c].pc = "unlink"
  /\ To(c, "locking") /\ lock' = FreeLock
  /\ taken' = (taken \/ (lock.held /\ AtWork(lock.by)))
  /\ UNCHANGED <<queue, file, relay, answered, faults>>

\* the lock stays busy for five seconds, or the caller aborts the removal of a mapping
LockFails(c) ==
  /\ call[c].pc \in Waiting /\ lock.held /\ Faulty
  /\ Fails(c)
  /\ UNCHANGED <<file, lock, relay, answered, taken>>

\* set, delete
Load(c) ==
  /\ call[c].pc = "load"
  /\ call' = [call EXCEPT ![c].pc = "save", ![c].loaded = file]
  /\ UNCHANGED <<queue, file, lock, relay, answered, taken, faults>>

Entry(c) == IF call[c].entry = "set" THEN call[c].session ELSE 0

\* the whole file is replaced by a rename
Save(c) ==
  /\ call[c].pc = "save"
  /\ file' = [call[c].loaded EXCEPT ![KeyOf[c]] = Entry(c)]
  /\ To(c, "release")
  /\ UNCHANGED <<queue, lock, relay, answered, taken, faults>>

SaveFails(c) ==
  /\ call[c].pc = "save" /\ Faulty
  /\ lock' = IF lock.held /\ lock.by = c THEN FreeLock ELSE lock
  /\ \/ UNCHANGED file
     \/ file' = [call[c].loaded EXCEPT ![KeyOf[c]] = Entry(c)]   \* replaced, but not confirmed
  /\ Fails(c)
  /\ UNCHANGED <<relay, answered, taken>>

\* only the own token is removed; then a new session is wanted, or the call is answered
Release(c) ==
  /\ call[c].pc = "release"
  /\ lock' = IF lock.held /\ lock.by = c THEN FreeLock ELSE lock
  /\ IF call[c].entry = "set" THEN Succeeds(c, call[c].session)
     ELSE IF call[c].op = "reset" THEN Leaves(c, "done") /\ UNCHANGED answered
     ELSE /\ call' = [call EXCEPT ![c].pc = "create", ![c].session = 0, ![c].entry = "none"]
          /\ UNCHANGED <<queue, answered>>
  /\ UNCHANGED <<file, relay, taken, faults>>

-----------------------------------------------------------------------------
(* The environment.                                                         *)

\* thirty seconds pass: a lock whose owner is gone, or whose machine slept, looks stale
Age == /\ lock.held /\ ~ lock.stale
       /\ IF AtWork(lock.by) THEN Faulty ELSE UNCHANGED faults
       /\ lock' = [lock EXCEPT !.stale = TRUE]
       /\ UNCHANGED <<call, queue, file, relay, answered, taken>>

Crash(p) ==
  /\ Faulty /\ \E c \in Call : ProcessOf[KeyOf[c]] = p /\ call[c].pc \notin {"idle", "done", "failed"}
  /\ call' = [c \in Call |-> IF ProcessOf[KeyOf[c]] = p /\ call[c].pc \notin {"idle", "done"}
                             THEN [call[c] EXCEPT !.pc = "failed"] ELSE call[c]]
  /\ queue' = [k \in Key |-> IF ProcessOf[k] = p THEN {} ELSE queue[k]]
  /\ UNCHANGED <<file, lock, relay, answered, taken>>

Forget(session) == /\ session \in relay.alive /\ Faulty
                   /\ relay' = [relay EXCEPT !.alive = @ \ {session}]
                   /\ UNCHANGED <<call, queue, file, lock, answered, taken>>

Init == /\ call = [c \in Call |-> NewCall] /\ queue = [k \in Key |-> {}]
        /\ file = [k \in Key |-> 0] /\ lock = FreeLock
        /\ relay = [created |-> 0, alive |-> {}]
        /\ answered = [k \in Key |-> 0] /\ taken = FALSE /\ faults = 0

Next == \/ \E c \in Call : \/ \E op \in {"execute", "reset"} : Begin(c, op)
                           \/ Get(c) \/ Command(c) \/ Create(c) \/ CommandFails(c)
                           \/ Lock(c) \/ Stat(c) \/ Unlink(c) \/ LockFails(c)
                           \/ Load(c) \/ Save(c) \/ SaveFails(c) \/ Release(c)
        \/ Age \/ \E k \in Key : Crash(ProcessOf[k]) \/ \E s \in 1 .. MaxSessions : Forget(s)

Spec == Init /\ [][Next]_vars

-----------------------------------------------------------------------------
\* A successful call of an agent leaves the mapping on the session it ran in, and nothing takes
\* it away while the relay has that session: not another call of the agent, not one of another
\* agent that writes the same file, not a failure or a crash.  Excluded: a lock removed under
\* an owner that is still at work.
AnsweredSessionIsKept ==
  ~ taken => \A k \in Key : answered[k] \in relay.alive => file[k] = answered[k]

-----------------------------------------------------------------------------
(* Why AnsweredSessionIsKept is always true: the states that the steps above can reach.      *)

Active == {"command", "create"} \cup Waiting \cup Inside
Born == 0 .. relay.created
CallRecord ==
  [pc : {"idle", "queued", "done", "failed"} \cup Active, op : {"execute", "reset"}, session : Born,
   entry : {"none", "set", "delete"}, loaded : [Key -> Born]]

TypeOK ==
  /\ relay.created \in Nat /\ relay.alive \subseteq Born \ {0}
  /\ call \in [Call -> CallRecord] /\ queue \in [Key -> SUBSET Call]
  /\ file \in [Key -> Born] /\ answered \in [Key -> Born] /\ taken \in BOOLEAN
  /\ lock.held => lock.by \in Call

\* A key has one call at a time that is past its place in the chain.
OneCallOfAKey == \A c \in Call :
  /\ call[c].pc \in Active \cup {"queued"} => c \in queue[KeyOf[c]]
  /\ call[c].pc \in Active => \A d \in Call : KeyOf[d] = KeyOf[c] /\ call[d].pc \in Active => d = c

\* The owner of the lock is alone with the file: it writes what it has read, and finds what it wrote.
OwnersHaveTheFile == ~ taken => \A c \in Call : AtWork(c) =>
  /\ lock.held /\ lock.by = c
  /\ call[c].pc = "save" => call[c].loaded = file
  /\ call[c].pc = "release" => file[KeyOf[c]] = Entry(c)

\* A call works with the session of the mapping, and changes the mapping only when the relay no longer
\* has the session of the last answer.
CallsSeeTheirMapping == ~ taken => \A c \in Call :
  /\ call[c].pc = "command" => call[c].session = file[KeyOf[c]]
  /\ call[c].pc \in Active \ {"command"} => answered[KeyOf[c]] \notin relay.alive

AgentsInv == TypeOK /\ OneCallOfAKey /\ OwnersHaveTheFile /\ CallsSeeTheirMapping /\ AnsweredSessionIsKept
=============================================================================
