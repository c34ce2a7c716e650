---------------------------- MODULE SessionStore ----------------------------
(***************************************************************************)
(* The session file of the command line program (src/src/session-store.ts)     *)
(* and the commands that read and write it (src/src/cli.ts).                  *)
(*                                                                         *)
(* One file keeps the current session of every relay endpoint.  A command is     *)
(* a process for one endpoint.  It reads the file, and writes the whole of it       *)
(* later, without a lock; a file that is being written, or was when its writer       *)
(* crashed, cannot be decoded.  A file of an older version holds one id, for the      *)
(* default endpoint.                                                          *)
(***************************************************************************)
EXTENDS Naturals

CONSTANTS Endpoint, Default, Session,
          Process, MaxCommands,   \* bound: commands ever started
          None

VARIABLES
  sessions,  \* the sessions of the relay at each endpoint
  file,      \* whole: whether it can be decoded; legacy: the old id; entries: an id by endpoint
  process,   \* the command of each process
  chosen,    \* history: <<endpoint, id>> that a command for the endpoint made current, or the old version did
  commands

vars == <<sessions, file, process, chosen, commands>>

Command == {"new", "use", "reset", "delete", "execute"}
NoCommand == [pc |-> "idle", op |-> "use", endpoint |-> Default, named |-> None, id |-> None,
              entries |-> [e \in Endpoint |-> None]]

At(p, pc) == process[p].pc = pc
Go(p, pc) == process' = [process EXCEPT ![p].pc = pc]
End(p) == process' = [process EXCEPT ![p] = NoCommand]
Mine(p) == sessions[process[p].endpoint]
StoreIsLeft == UNCHANGED <<file, chosen>>

-----------------------------------------------------------------------------
(* The file.                                                                *)
MigrateToAll == [e \in Endpoint |-> IF file.entries[e] = None THEN file.legacy ELSE file.entries[e]]   \* variant
CurrentEntries == [e \in Endpoint |->
  IF e = Default /\ file.entries[e] = None THEN file.legacy ELSE file.entries[e]]

\* store.write and store.clear: read, then open, then write
ReadToWrite(p) ==
  /\ At(p, "read")
  /\ IF ~ file.whole THEN End(p)
     ELSE process' = [process EXCEPT ![p].pc = "open",
            ![p].entries = [CurrentEntries EXCEPT
               ![process[p].endpoint] = IF process[p].op = "delete" THEN None ELSE process[p].id]]
  /\ StoreIsLeft /\ UNCHANGED <<sessions, commands>>

\* opening truncates
OpenFile(p) ==
  /\ At(p, "open") /\ Go(p, "write")
  /\ file' = [file EXCEPT !.whole = FALSE] /\ UNCHANGED <<sessions, chosen, commands>>

\* over what another process wrote since, the end of a longer text may remain
WriteFile(p) ==
  /\ At(p, "write") /\ End(p)
  /\ \E whole \in (IF file.whole THEN BOOLEAN ELSE {TRUE}) :
       file' = [whole |-> whole, legacy |-> None, entries |-> process[p].entries]
  /\ chosen' = IF process[p].op = "delete" THEN chosen
               ELSE chosen \cup {<<process[p].endpoint, process[p].id>>}
  /\ UNCHANGED <<sessions, commands>>

-----------------------------------------------------------------------------
(* The commands.                                                           *)
FirstStep(op, named) ==
  CASE op \in {"new", "execute"} -> "act"
    [] op = "use" -> "check"
    [] op = "delete" -> IF named = None THEN "resolve" ELSE "act"
    [] OTHER -> IF named = None THEN "resolve" ELSE "check"

Begin(p, op, e, named) ==
  /\ At(p, "idle") /\ commands < MaxCommands /\ commands' = commands + 1
  /\ named = None => op # "use"
  /\ process' = [process EXCEPT ![p] = [NoCommand EXCEPT !.pc = FirstStep(op, named), !.op = op,
                                          !.endpoint = e, !.named = named, !.id = named]]
  /\ StoreIsLeft /\ UNCHANGED sessions

\* resolveExistingSessionId, resolveSessionDeletionId: without an id, the current session of the endpoint
Resolve(p) ==
  LET id == CurrentEntries[process[p].endpoint]
  IN  /\ At(p, "resolve")
      /\ IF ~ file.whole \/ id = None THEN End(p)
         ELSE process' = [process EXCEPT ![p].id = id,
                            ![p].pc = IF process[p].op = "delete" THEN "act" ELSE "check"]
      /\ StoreIsLeft /\ UNCHANGED <<sessions, commands>>

\* ensureSessionExists
Check(p) ==
  /\ At(p, "check")
  /\ IF process[p].id \notin Mine(p) THEN End(p)
     ELSE Go(p, IF process[p].op = "use" THEN "read" ELSE "act")
  /\ StoreIsLeft /\ UNCHANGED <<sessions, commands>>

\* A new session gets the name it is asked for, if that is free, or a name of its own.
MakeSession(p) ==
  /\ At(p, "act")
  /\ process[p].op = "new" \/ (process[p].op = "execute" /\ process[p].named = None)
  /\ \E id \in Session \ Mine(p) :
       /\ process[p].named \in {None, id}
       /\ sessions' = [sessions EXCEPT ![process[p].endpoint] = @ \cup {id}]
       /\ IF process[p].op = "execute" THEN End(p)
          ELSE process' = [process EXCEPT ![p].id = id, ![p].pc = "read"]
  /\ StoreIsLeft /\ UNCHANGED commands

DeleteSession(p) ==
  /\ At(p, "act") /\ process[p].op = "delete" /\ Go(p, "compare")
  /\ sessions' = [sessions EXCEPT ![process[p].endpoint] = @ \ {process[p].id}]
  /\ StoreIsLeft /\ UNCHANGED commands

\* the current session is forgotten when it is the one deleted
Compare(p) ==
  /\ At(p, "compare")
  /\ IF file.whole /\ CurrentEntries[process[p].endpoint] = process[p].id THEN Go(p, "read") ELSE End(p)
  /\ StoreIsLeft /\ UNCHANGED <<sessions, commands>>

\* A command ends: with the answer, refused by the relay, or killed wherever it stands.
Ends(p) ==
  /\ ~ At(p, "idle") /\ End(p)
  /\ StoreIsLeft /\ UNCHANGED <<sessions, commands>>

-----------------------------------------------------------------------------
Init ==
  /\ sessions = [e \in Endpoint |-> {}]
  /\ \E old \in Session \cup {None} :
       /\ file = [whole |-> TRUE, legacy |-> old, entries |-> [e \in Endpoint |-> None]]
       /\ chosen = {<<Default, id>> : id \in {old} \ {None}}
  /\ process = [p \in Process |-> NoCommand] /\ commands = 0

Next ==
  \E p \in Process :
    \/ \E op \in Command, e \in Endpoint, named \in Session \cup {None} : Begin(p, op, e, named)
    \/ Resolve(p) \/ Check(p) \/ MakeSession(p) \/ DeleteSession(p) \/ Compare(p)
    \/ ReadToWrite(p) \/ OpenFile(p) \/ WriteFile(p) \/ Ends(p)

Spec == Init /\ [][Next]_vars

-----------------------------------------------------------------------------
(* Properties.                                                             *)
\* Whatever commands overwrite and whatever an old file held: the current session of an endpoint is one that
\* was made current there, and a command that names none works in such a session of its own endpoint.
Stored(p) == process[p].named = None /\ process[p].id # None /\ process[p].op \in {"reset", "delete"}

StoredSessionsAreTheirEndpoints ==
  /\ \A e \in Endpoint : file.whole /\ CurrentEntries[e] # None => <<e, CurrentEntries[e]>> \in chosen
  /\ \A p \in Process : Stored(p) => <<process[p].endpoint, process[p].id>> \in chosen

-----------------------------------------------------------------------------
(* Why StoredSessionsAreTheirEndpoints is always true: the states that the steps above can reach.   *)

CommandRecord ==
  [pc : {"idle", "resolve", "check", "act", "compare", "read", "open", "write"}, op : Command, endpoint : Endpoint,
   named : Session \cup {None}, id : Session \cup {None}, entries : [Endpoint -> Session \cup {None}]]

TypeOK ==
  /\ file \in [whole : BOOLEAN, legacy : Session \cup {None}, entries : [Endpoint -> Session \cup {None}]]
  /\ process \in [Process -> CommandRecord]

\* What the file holds, also while it cannot be decoded, and what is about to be written to it, was made
\* current for its endpoint.
FileIsChosen == \A e \in Endpoint : CurrentEntries[e] # None => <<e, CurrentEntries[e]>> \in chosen
Writes(p) == \A e \in Endpoint : process[p].entries[e] # None =>
  \/ <<e, process[p].entries[e]>> \in chosen
  \/ e = process[p].endpoint /\ process[p].op # "delete" /\ process[p].entries[e] = process[p].id

ProcessesAreChosen == \A p \in Process :
  /\ process[p].pc \in {"open", "write"} => Writes(p)
  /\ Stored(p) => <<process[p].endpoint, process[p].id>> \in chosen

StoredInv == TypeOK /\ FileIsChosen /\ ProcessesAreChosen
=============================================================================
