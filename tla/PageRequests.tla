---------------------------- MODULE PageRequests ----------------------------
(***************************************************************************)
(* Requests an application makes in the user's page                           *)
(* (src/src/browserrig-client.ts, src/src/authenticated-origin.ts, the          *)
(* authenticatedJson of src/src/session-manager.ts and src/src/execute.ts).       *)
(*                                                                         *)
(* One session, one page that the user and its scripts navigate, a server for    *)
(* the origin the requests declare.  Other work of the session, the start and    *)
(* stop of a network capture included, needs the permit the requests take.  A     *)
(* request that has left the page may reach the server at any later time.         *)
(***************************************************************************)
EXTENDS Naturals, FiniteSets

CONSTANTS Request, MutationOf, SensitiveOf, StartOf,   \* the requests and their options
          Nobody, MaxMoves                             \* bound: navigations, captures, failures

VARIABLES
  req,      \* every request: where it is, what the page answered, what the caller was told
  permit,   \* the execute permit of the session
  page,     \* its origin, the origin Playwright has seen
  capture,  \* network capture of the session
  sent,     \* requests on their way to the server
  applied, strayed,   \* requests the server has carried out; requests of another origin's document
  moves

vars == <<req, permit, page, capture, sent, applied, strayed, moves>>

NewRequest == [pc |-> "idle", tag |-> "none", told |-> "none",
               lost |-> FALSE]   \* history: the page or the catalog failed after the request was sent
Moved == moves < MaxMoves /\ moves' = moves + 1
To(r, pc) == req' = [req EXCEPT ![r].pc = pc]

-----------------------------------------------------------------------------
(* The client: what a caller is told.                                       *)
Unknown(r, else) == IF MutationOf[r] THEN "unknown" ELSE else

\* decodeOutcome, clientError
Told(r, tag) ==
  CASE tag \in {"OriginMismatch", "SensitiveCaptureActive", "rejected"} -> "not-done"
    [] tag = "HttpError" -> "refused"
    [] tag = "RequestFailed" -> "unknown"
    [] tag \in {"InvalidJson", "ResponseTooLarge", "unreachable", "mismatch"} -> Unknown(r, "not-done")
    [] OTHER -> "done"

Tells(r, tag) == req' = [req EXCEPT ![r].pc = "told", ![r].tag = tag, ![r].told = Told(r, tag)]

\* json
Ask(r) == /\ req[r].pc = "idle" /\ To(r, "waiting")
          /\ UNCHANGED <<permit, page, capture, sent, applied, strayed, moves>>

\* the answer arrives, it does not match the schema of the caller, or the relay is lost
Reply(r) == /\ req[r].pc = "replied"
            /\ \/ Tells(r, req[r].tag) /\ UNCHANGED moves
               \/ Moved /\ Tells(r, "unreachable")
               \/ Moved /\ req[r].tag = "Success" /\ Tells(r, "mismatch")
            /\ UNCHANGED <<permit, page, capture, sent, applied, strayed>>

-----------------------------------------------------------------------------
(* The session.                                                             *)

\* no such session, read-only, or the permit is not granted in time
Reject(r) == /\ req[r].pc = "waiting" /\ Moved
             /\ req' = [req EXCEPT ![r].pc = "replied", ![r].tag = "rejected"]
             /\ UNCHANGED <<permit, page, capture, sent, applied, strayed>>

Ends(r, tag) == req' = [req EXCEPT ![r].pc = "saving", ![r].tag = tag]
Excluded(r) == SensitiveOf[r] /\ capture

Grant(r) == /\ req[r].pc = "waiting" /\ permit = Nobody
            /\ permit' = r
            /\ IF Excluded(r) THEN Ends(r, "SensitiveCaptureActive") ELSE To(r, "page")
            /\ UNCHANGED <<page, capture, sent, applied, strayed, moves>>

\* the catalog is written after the result
Save(r) == /\ req[r].pc = "saving"
           /\ permit' = Nobody
           /\ \/ To(r, "replied") /\ UNCHANGED moves
              \/ Moved /\ req' = [req EXCEPT ![r].pc = "replied", ![r].tag = "rejected", ![r].lost = TRUE]
           /\ UNCHANGED <<page, capture, sent, applied, strayed>>

Fails(r) == /\ req' = [req EXCEPT ![r].pc = "replied", ![r].tag = "rejected",
                                  ![r].lost = req[r].pc = "fetching"]
            /\ permit' = Nobody

-----------------------------------------------------------------------------
(* requestJson and runPageRequest.                                          *)

\* the start page, when the session is elsewhere; it may lead to another origin
GoTo(r) == /\ req[r].pc = "page" /\ page.seen # "own" /\ StartOf[r]
           /\ \/ /\ \E origin \in {"own", "other"} : page' = [origin |-> origin, seen |-> origin]
                 /\ To(r, "checked") /\ UNCHANGED <<permit, moves>>
              \/ Moved /\ Fails(r) /\ UNCHANGED page
           /\ UNCHANGED <<capture, sent, applied, strayed>>

CheckOrigin(r) == /\ req[r].pc = "checked" \/ (req[r].pc = "page" /\ (page.seen = "own" \/ ~ StartOf[r]))
                  /\ IF page.seen = "own" THEN To(r, "evaluate") ELSE Ends(r, "OriginMismatch")
                  /\ UNCHANGED <<permit, page, capture, sent, applied, strayed, moves>>

AnyDocument(origin) == TRUE   \* variant
PageChecks(origin) == origin = "own"

\* in the page: its origin is checked and the request sent in one turn
Fetch(r) == /\ req[r].pc = "evaluate"
            /\ IF PageChecks(page.origin)
               THEN /\ To(r, "fetching") /\ sent' = sent \cup {r}
                    /\ strayed' = IF page.origin = "own" THEN strayed ELSE strayed \cup {r}
               ELSE Ends(r, "OriginMismatch") /\ UNCHANGED <<sent, strayed>>
            /\ UNCHANGED <<permit, page, capture, applied, moves>>

Answered(r) == /\ req[r].pc = "fetching" /\ r \notin sent
               /\ IF r \in applied THEN \E tag \in {"Success", "ResponseTooLarge", "InvalidJson"} : Ends(r, tag)
                  ELSE Ends(r, "HttpError")
               /\ UNCHANGED <<permit, page, capture, sent, applied, strayed, moves>>

\* the time limit, a redirect, a network failure
FetchFails(r) == /\ req[r].pc = "fetching" /\ Moved /\ Ends(r, "RequestFailed")
                 /\ UNCHANGED <<permit, page, capture, sent, applied, strayed>>

-----------------------------------------------------------------------------
(* The environment.                                                         *)
Serve(r) == /\ r \in sent /\ sent' = sent \ {r}
            /\ applied' \in {applied, applied \cup {r}}
            /\ UNCHANGED <<req, permit, page, capture, strayed, moves>>

\* a document that goes takes the running evaluation with it
Navigate(origin) ==
  /\ Moved /\ page' = [page EXCEPT !.origin = origin]
  /\ IF permit # Nobody /\ req[permit].pc = "fetching" THEN Fails(permit) ELSE UNCHANGED <<req, permit>>
  /\ UNCHANGED <<capture, sent, applied, strayed>>

See == /\ page.seen # page.origin /\ page' = [page EXCEPT !.seen = page.origin]
       /\ UNCHANGED <<req, permit, capture, sent, applied, strayed, moves>>

Permitted == permit = Nobody
ToggleCapture == /\ Permitted /\ Moved /\ capture' = ~ capture
                 /\ UNCHANGED <<req, permit, page, sent, applied, strayed>>

Init == /\ req = [r \in Request |-> NewRequest] /\ permit = Nobody
        /\ \E origin \in {"own", "other"} : page = [origin |-> origin, seen |-> origin]
        /\ capture \in BOOLEAN
        /\ sent = {} /\ applied = {} /\ strayed = {} /\ moves = 0

Next == \/ \E r \in Request : \/ Ask(r) \/ Reply(r) \/ Reject(r) \/ Grant(r) \/ Save(r)
                              \/ GoTo(r) \/ CheckOrigin(r) \/ Fetch(r) \/ Answered(r) \/ FetchFails(r) \/ Serve(r)
        \/ \E origin \in {"own", "other"} : Navigate(origin)
        \/ See \/ ToggleCapture

Spec == Init /\ [][Next]_vars

-----------------------------------------------------------------------------
\* A caller that is told that its mutation was not done or was refused can rely on it: the server
\* has not carried it out, nor will a request still on its way be carried out.  Excluded: the page
\* or the catalog failed after the request was sent, which the relay reports as a plain error.
\* Whatever the page does while a request is prepared, no document of another origin sends it.
\* And while one that is sensitive is under way no network capture of the session begins.
RefusedDidNotHappen(r) ==
  MutationOf[r] /\ req[r].told \in {"not-done", "refused"} /\ ~ req[r].lost => r \notin applied \cup sent
IsUncaptured(r) ==
  SensitiveOf[r] /\ req[r].pc \in {"page", "checked", "evaluate", "fetching"} => ~ capture
RequestsKeepTheirWord ==
  strayed = {} /\ \A r \in Request : RefusedDidNotHappen(r) /\ IsUncaptured(r)

-----------------------------------------------------------------------------
(* Why RequestsKeepTheirWord is always true: the states that the steps above can reach.      *)

Unsent == {"idle", "waiting", "page", "checked", "evaluate"}
Permitting == {"page", "checked", "evaluate", "fetching", "saving"}
Tag == {"none", "OriginMismatch", "SensitiveCaptureActive", "rejected", "HttpError", "RequestFailed", "InvalidJson",
        "ResponseTooLarge", "unreachable", "mismatch", "Success"}

RequestRecord == [pc : Unsent \cup Permitting \cup {"replied", "told"}, tag : Tag,
                  told : {"none", "not-done", "refused", "unknown", "done"}, lost : BOOLEAN]

TypeOK ==
  /\ req \in [Request -> RequestRecord] /\ permit \in Request \cup {Nobody}
  /\ capture \in BOOLEAN /\ sent \subseteq Request /\ applied \subseteq Request

\* The permit covers a request from its grant to the end of its result.
PermitCovers == \A r \in Request : req[r].pc \in Permitting => permit = r

\* A request leaves the page once, and then no tag says that it did not happen.
Out(r) == r \in applied \cup sent
TagsAreTrue == \A r \in Request :
  /\ req[r].pc \in Unsent => ~ Out(r)
  /\ Out(r) /\ MutationOf[r] /\ ~ req[r].lost /\ req[r].pc \in {"saving", "replied"} =>
       req[r].tag \in {"RequestFailed", "InvalidJson", "ResponseTooLarge", "Success"}
  /\ req[r].pc # "told" => req[r].told = "none"
  /\ RefusedDidNotHappen(r)

RequestsAreUncaptured == \A r \in Request : IsUncaptured(r)

RequestsInv == TypeOK /\ PermitCovers /\ TagsAreTrue /\ RequestsAreUncaptured /\ strayed = {}
=============================================================================
