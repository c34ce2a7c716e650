----------------------------- MODULE StoreLock -----------------------------
(***************************************************************************)
(* The lock file of a store in the user's directory (withIssueStoreLock of       *)
(* src/src/issue-report.ts, withLock of src/src/auth-profile.ts).               *)
(*                                                                         *)
(* The file is created exclusively and holds no token.  One that is a minute old    *)
(* is removed by whoever waits for it, and an owner removes the file it finds when    *)
(* it leaves.  Reading the age and removing the file are two operations.          *)
(***************************************************************************)
CONSTANTS Holder   \* the operations that want the lock

VARIABLES
  lock,    \* the file: whether it exists, who made it, whether it looks a minute old
  at,      \* where an operation stands with the lock
  taken    \* history: a lock was removed whose owner was still at work

Free == [held |-> FALSE, by |-> CHOOSE h \in Holder : TRUE, aged |-> FALSE]

LockInit == lock = Free /\ at = [h \in Holder |-> "out"] /\ taken = FALSE

AtWork(h) == at[h] = "holds"
Goes(h, place) == at' = [at EXCEPT ![h] = place]

Wants(h) == at[h] = "out" /\ Goes(h, "waits") /\ UNCHANGED <<lock, taken>>

Opens(h) ==
  /\ at[h] = "waits" /\ ~ lock.held
  /\ Goes(h, "holds") /\ lock' = [held |-> TRUE, by |-> h, aged |-> FALSE]
  /\ UNCHANGED taken

FindsItAged(h) ==
  /\ at[h] = "waits" /\ lock.held /\ lock.aged
  /\ Goes(h, "removes") /\ UNCHANGED <<lock, taken>>

\* unlink removes the file there is now
Unlinks(h) ==
  /\ lock' = Free
  /\ taken' = (taken \/ (lock.held /\ lock.by # h /\ AtWork(lock.by)))

RemovesAged(h) == at[h] = "removes" /\ Goes(h, "waits") /\ Unlinks(h)

\* the lock stays busy until the deadline
GivesUp(h) ==
  /\ at[h] = "waits" /\ lock.held /\ ~ lock.aged
  /\ Goes(h, "out") /\ UNCHANGED <<lock, taken>>

Leaves(h) == AtWork(h) /\ Goes(h, "out") /\ Unlinks(h)

\* a minute passes: the owner is gone, slow, or its machine slept
Ages == /\ lock.held /\ ~ lock.aged
        /\ lock' = [lock EXCEPT !.aged = TRUE] /\ UNCHANGED <<at, taken>>

\* the process of an operation ends: the file stays
Dies(h) == at[h] # "gone" /\ Goes(h, "gone") /\ UNCHANGED <<lock, taken>>
=============================================================================
