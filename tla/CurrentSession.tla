--------------------------- MODULE CurrentSession ---------------------------
(***************************************************************************)
(* The session an agent works in without naming it: CurrentSession of the    *)
(* MCP server (makeToolSpecs and registerTools of src/src/mcp.ts).            *)
(*                                                                         *)
(* Every tool reads it before a request to the relay and writes it after the   *)
(* answer.  The agent may have several calls under way.  Other users of the     *)
(* relay make and delete sessions, and a relay may start without them.  An id    *)
(* is reused: sessions of one id in turn are told apart by a number.           *)
(***************************************************************************)
EXTENDS Naturals

CONSTANTS Session, Own,         \* ids, and the one the server starts with
          Call,                 \* the agent's calls at one time
          MaxCalls, MaxBirths,  \* bounds: calls and sessions ever made
          None

VARIABLES
  sessions,    \* the relay: the number of the session of an id, 0 without one
  births,
  current,     \* id and established
  call,
  known,       \* history: the session of an id that the agent was last answered in, None once it deleted it
  astray,      \* history: what is established was last said by a network_start of a session that another
               \* call had left meanwhile
  notice,      \* history: the answer of this step, if it was of an execute without a session
  calls

vars == <<sessions, births, current, call, known, astray, notice, calls>>

Tool == {"execute", "session_new", "session_use", "session_reset", "session_delete", "session_adopt",
         "network_start", "other"}
Rest == [pc |-> "idle", tool |-> "other", named |-> None, id |-> Own, ran |-> 0, created |-> FALSE, alone |-> FALSE]
At(c, pc) == call[c].pc = pc
End(c) == call' = [call EXCEPT ![c] = Rest]
Go(c, pc) == call' = [call EXCEPT ![c].pc = pc]
Ran(c, n, created) == call' = [call EXCEPT ![c].pc = "answer", ![c].ran = n, ![c].created = created]
Exists(id) == sessions[id] # 0

\* the relay makes a session
Born(id) ==
  /\ births < MaxBirths /\ births' = births + 1
  /\ sessions' = [sessions EXCEPT ![id] = births + 1]
RelayIsLeft == UNCHANGED <<sessions, births>>
NoNotice == [given |-> FALSE, made |-> FALSE, knew |-> None, ran |-> 0, undisturbed |-> FALSE]
FrontIsLeft == UNCHANGED <<current, known, astray>> /\ notice' = NoNotice
\* c ends or goes on as r, and has said which session is current: the others are not alone any more
Says(c, r) == call' = [d \in Call |-> IF d = c THEN r ELSE [call[d] EXCEPT !.alone = FALSE]]

-----------------------------------------------------------------------------
Begin(c, tool, named) ==
  /\ At(c, "idle") /\ calls < MaxCalls /\ calls' = calls + 1
  /\ named = None => tool # "session_use"
  /\ call' = [call EXCEPT ![c] = [Rest EXCEPT !.pc = "ready", !.tool = tool, !.named = named]]
  /\ RelayIsLeft /\ FrontIsLeft

\* After the relay was found ready: the id the caller named, or the current one.  The relay chooses the id
\* of a session_new without one.
Choose(c) ==
  /\ At(c, "ready")
  /\ \E id \in Session :
       /\ IF call[c].named # None THEN id = call[c].named
          ELSE IF call[c].tool = "session_new" THEN ~ Exists(id) ELSE id = current.id
       /\ call' = [call EXCEPT ![c].id = id, ![c].alone = TRUE,
                     ![c].pc = IF call[c].tool \in {"session_use", "network_start"} THEN "list" ELSE "act"]
  /\ RelayIsLeft /\ FrontIsLeft /\ UNCHANGED calls

\* ensureSessionExists; network_start makes the current session when it is missing
List(c) ==
  /\ At(c, "list")
  /\ IF Exists(call[c].id)
     THEN IF call[c].tool = "session_use" THEN Ran(c, sessions[call[c].id], FALSE)
          ELSE IF call[c].named # None THEN Go(c, "act")
          ELSE call' = [call EXCEPT ![c].pc = "settle", ![c].ran = sessions[call[c].id]]
     ELSE IF call[c].named # None THEN End(c) ELSE Go(c, "create")
  /\ RelayIsLeft /\ FrontIsLeft /\ UNCHANGED calls

Create(c) ==
  /\ At(c, "create")
  /\ IF Exists(call[c].id) THEN End(c) /\ RelayIsLeft
     ELSE /\ Born(call[c].id)
          /\ call' = [call EXCEPT ![c].pc = "settle", ![c].ran = births + 1]
  /\ FrontIsLeft /\ UNCHANGED calls

Settle(c) ==
  /\ At(c, "settle") /\ Says(c, [call[c] EXCEPT !.pc = "act"])
  /\ astray' = ~ call[c].alone
  /\ current' = [current EXCEPT !.established = TRUE]
  /\ known' = [known EXCEPT ![call[c].id] = call[c].ran]
  /\ RelayIsLeft /\ notice' = NoNotice /\ UNCHANGED calls

\* the request the tool is for, done by the relay
Makes(c) ==
  /\ ~ Exists(call[c].id)
  /\ call[c].tool = "session_new" \/ (call[c].tool \in {"execute", "session_adopt"} /\ call[c].named = None)
Works(c) == Exists(call[c].id) /\ call[c].tool \notin {"session_new", "session_delete"}

Act(c) ==
  /\ At(c, "act")
  /\ \/ Makes(c) /\ Born(call[c].id) /\ Ran(c, births + 1, TRUE)
     \/ Works(c) /\ Ran(c, sessions[call[c].id], FALSE) /\ RelayIsLeft
     \/ /\ call[c].tool = "session_delete" /\ Ran(c, 0, FALSE)
        /\ sessions' = [sessions EXCEPT ![call[c].id] = 0] /\ UNCHANGED births
  /\ FrontIsLeft /\ UNCHANGED calls

-----------------------------------------------------------------------------
(* The answer reaches the server.                                           *)
Recreated(c) == call[c].named = None /\ current.established /\ call[c].created

AnswerWork(c) ==
  /\ call[c].tool \in {"execute", "session_new", "session_use", "session_reset", "session_adopt"}
  /\ notice' = IF call[c].tool = "execute" /\ call[c].named = None
               THEN [given |-> Recreated(c), made |-> call[c].created, knew |-> known[call[c].id],
                     ran |-> call[c].ran, undisturbed |-> call[c].alone /\ ~ astray]
               ELSE NoNotice
  /\ current' = [id |-> call[c].id, established |-> TRUE]
  /\ known' = [known EXCEPT ![call[c].id] = call[c].ran] /\ astray' = FALSE
  /\ Says(c, Rest)

KeepsEstablished(id) == current.established   \* variant
Remains(id) == current.established /\ current.id # id
AnswerDelete(c) ==
  /\ call[c].tool = "session_delete"
  /\ current' = [current EXCEPT !.established = Remains(call[c].id)]
  /\ known' = [known EXCEPT ![call[c].id] = None]
  /\ astray' = (astray /\ current.id # call[c].id)
  /\ Says(c, Rest) /\ notice' = NoNotice

\* tools that only say which session they are for
AnswerOther(c) == call[c].tool \in {"network_start", "other"} /\ End(c) /\ FrontIsLeft

Answer(c) ==
  /\ At(c, "answer")
  /\ AnswerWork(c) \/ AnswerDelete(c) \/ AnswerOther(c)
  /\ RelayIsLeft /\ UNCHANGED calls

\* The relay refuses the call or is out of reach, before it has done its work or after.
Fails(c) ==
  /\ ~ At(c, "idle") /\ End(c)
  /\ RelayIsLeft /\ FrontIsLeft /\ UNCHANGED calls

\* somebody else's session, or the loss of one
Appears(id) == ~ Exists(id) /\ Born(id) /\ FrontIsLeft /\ UNCHANGED <<call, calls>>
Vanishes(id) ==
  /\ Exists(id) /\ sessions' = [sessions EXCEPT ![id] = 0]
  /\ FrontIsLeft /\ UNCHANGED <<births, call, calls>>

-----------------------------------------------------------------------------
\* BROWSERRIG_SESSION names a session of before, number 0; without it the server starts with a new id.
Init ==
  /\ sessions = [id \in Session |-> 0] /\ births = 0
  /\ \E configured \in BOOLEAN :
       /\ current = [id |-> Own, established |-> configured]
       /\ known = [id \in Session |-> IF id = Own /\ configured THEN 0 ELSE None]
  /\ call = [c \in Call |-> Rest] /\ astray = FALSE /\ calls = 0
  /\ notice = NoNotice

Next ==
  \/ \E c \in Call :
       \/ \E tool \in Tool, named \in Session \cup {None} : Begin(c, tool, named)
       \/ Choose(c) \/ List(c) \/ Create(c) \/ Settle(c) \/ Act(c) \/ Answer(c) \/ Fails(c)
  \/ \E id \in Session : Appears(id) \/ Vanishes(id)

Spec == Init /\ [][Next]_vars

-----------------------------------------------------------------------------
(* Properties.                                                             *)
\* An execute that names no session says "Recreated session: page and state were reset" exactly when it has
\* itself made the session, in the place of another that the agent had worked in and not deleted.  Other calls
\* of the agent may be under way, other users may make and delete the session meanwhile; only a call of the
\* agent that is answered between the moment the execute reads which session is current and its own answer
\* can make this wrong, or a network_start that was overtaken so.
NoticeIsTrue ==
  notice.undisturbed =>
    /\ notice.given <=> notice.made /\ notice.knew # None
    /\ notice.given => notice.knew # notice.ran

\* The current session counts as established (issue_report names it as affected) exactly when the agent was
\* answered in a session of that id and has not deleted it since, with the same exception of network_start.
EstablishedIsKnown == ~ astray => (current.established <=> known[current.id] # None)

CurrentSessionIsTheAgents == NoticeIsTrue /\ EstablishedIsKnown

-----------------------------------------------------------------------------
(* Why CurrentSessionIsTheAgents is always true: the states that the steps above can reach.   *)

CallRecord ==
  [pc : {"idle", "ready", "list", "create", "settle", "act", "answer"}, tool : Tool, named : Session \cup {None},
   id : Session, ran : 0 .. births, created : BOOLEAN, alone : BOOLEAN]

TypeOK ==
  /\ births \in Nat /\ sessions \in [Session -> 0 .. births]
  /\ current \in [id : Session, established : BOOLEAN]
  /\ call \in [Call -> CallRecord] /\ known \in [Session -> 0 .. births \cup {None}]
  /\ astray \in BOOLEAN /\ calls \in Nat
  /\ notice \in [given : BOOLEAN, made : BOOLEAN, knew : 0 .. births \cup {None}, ran : 0 .. births,
                 undisturbed : BOOLEAN]

\* A call that no other has overtaken is for the current session unless the caller named another, and the
\* session it made is not one that the agent knows.
AloneKeepsTheCurrent == \A c \in Call : call[c].alone =>
  /\ ~ At(c, "idle") /\ ~ At(c, "ready")
  /\ call[c].named = None /\ call[c].tool # "session_new" => call[c].id = current.id
  /\ At(c, "answer") /\ call[c].created => \A id \in Session : known[id] # call[c].ran
\* Only network_start makes the current session while it looks for it.
SettlesTheCurrent == \A c \in Call :
  /\ call[c].pc = "list" => call[c].tool \in {"session_use", "network_start"}
  /\ call[c].tool = "session_use" => call[c].named # None
  /\ call[c].pc \in {"settle", "create"} => call[c].named = None /\ call[c].tool = "network_start"

CurrentInv == TypeOK /\ AloneKeepsTheCurrent /\ SettlesTheCurrent /\ CurrentSessionIsTheAgents
=============================================================================
