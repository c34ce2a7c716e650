---------------------------- MODULE IssueReports ----------------------------
(***************************************************************************)
(* The issue sink of BrowserRig (src/src/issue-report.ts): agents of several     *)
(* processes report problems, reports of one problem are counted in one file, and    *)
(* a suspected bug may be put on GitHub with the gh program.                      *)
(*                                                                         *)
(* The file is changed under a lock, GitHub is asked without it, and the outcome is   *)
(* written under the lock again.  Processes crash, gh fails or is killed after       *)
(* thirty seconds, and GitHub's search may not know an issue yet.  All reports are    *)
(* about one summary; its fingerprint tells a security report from the others.       *)
(***************************************************************************)
EXTENDS Naturals, FiniteSets

CONSTANTS Call,              \* calls of recordIssueReport
          ClassOf, AutoOf,   \* what each reports; whether its process may submit
          MaxFaults          \* bound: crashes, failed writes, busy locks, slow owners

VARIABLES report,    \* every call
          file,      \* the report files; a file has the name of the call that made it
          created,   \* the issues about a problem that these calls put on GitHub
          faults, lock, at, taken

vars == <<report, file, created, faults, lock, at, taken>>

Lock == INSTANCE StoreLock WITH Holder <- Call

Fingerprint == {"issue", "security"}
\* statuses of a submission after which it is never tried again
Decided == {"submitted", "unknown", "pending"}

NoFile == [occurrences |-> 0, class |-> "operational", submission |-> "none"]
NewReport(c) == [pc |-> "idle", id |-> c, seen |-> NoFile, submission |-> "none", counted |-> FALSE]

issueFingerprint(class) == IF class = "security" THEN "security" ELSE "issue"
FilesOf(f) == {d \in Call : file[d].occurrences > 0 /\ issueFingerprint(ClassOf[d]) = f}

mergeClassification(left, right) ==
  IF "security" \in {left, right} THEN "security"
  ELSE IF "suspected-bug" \in {left, right} THEN "suspected-bug" ELSE "operational"

Submission(decided, status, class, auto) ==
  CASE status \in decided -> [status |-> status, submits |-> FALSE]
    [] status \notin decided /\ class # "suspected-bug" -> [status |-> "not-eligible", submits |-> FALSE]
    [] OTHER -> [status |-> IF auto THEN "pending" ELSE "disabled", submits |-> auto]
RetriesPending(status, class, auto) == Submission(Decided \ {"pending"}, status, class, auto)   \* variant
nextSubmission(status, class, auto) == Submission(Decided, status, class, auto)

To(c, pc) == report' = [report EXCEPT ![c].pc = pc]
Ends(c, pc) == report' = [report EXCEPT ![c] = [@ EXCEPT !.pc = pc, !.seen = NoFile]]
Faulty == faults < MaxFaults /\ faults' = faults + 1

-----------------------------------------------------------------------------
(* recordIssueReport.                                                       *)

\* input that normalizeInput refuses is not stored
Refuse(c) == /\ report[c].pc = "idle" /\ Ends(c, "failed")
             /\ UNCHANGED <<file, created, faults, lock, at, taken>>

\* journal references are collected and the lock is wanted
Begin(c) == /\ report[c].pc = "idle" /\ To(c, "upsert")
            /\ Lock!Wants(c) /\ UNCHANGED <<file, created, faults>>

\* a failure while the lock is wanted ends the call
LockFails(c) == /\ Faulty /\ Lock!GivesUp(c) /\ Ends(c, "failed") /\ UNCHANGED <<file, created>>

LockMoves(c) == /\ Lock!Opens(c) \/ Lock!FindsItAged(c) \/ Lock!RemovesAged(c)
                /\ UNCHANGED <<report, file, created, faults>>

\* readAllReports finds the file of the same problem, or there is none
Read(c) ==
  /\ report[c].pc = "upsert" /\ Lock!AtWork(c)
  /\ LET existing == FilesOf(issueFingerprint(ClassOf[c]))
     IN  \E id \in IF existing = {} THEN {c} ELSE existing :
           report' = [report EXCEPT ![c].pc = "write", ![c].id = id, ![c].seen = file[id]]
  /\ UNCHANGED <<file, created, faults, lock, at, taken>>

\* upsertReport: the file is replaced by a rename
Write(c) ==
  /\ report[c].pc = "write"
  /\ LET seen == report[c].seen
         class == IF seen.occurrences = 0 THEN ClassOf[c] ELSE mergeClassification(seen.class, ClassOf[c])
         next == nextSubmission(seen.submission, class, AutoOf[c])
     IN  /\ file' = [file EXCEPT ![report[c].id] =
                      [occurrences |-> seen.occurrences + 1, class |-> class, submission |-> next.status]]
         /\ report' = [report EXCEPT ![c] = [@ EXCEPT !.pc = IF next.submits THEN "leaves to submit" ELSE "leaves",
                                                      !.seen = NoFile, !.counted = TRUE]]
  /\ UNCHANGED <<created, faults, lock, at, taken>>

Leave(c) ==
  /\ report[c].pc \in {"leaves", "leaves to submit"} /\ Lock!Leaves(c)
  /\ Ends(c, IF report[c].pc = "leaves" THEN "told" ELSE "auth")
  /\ UNCHANGED <<file, created, faults>>

\* a file that cannot be written leaves the old one
WriteFails(c) ==
  /\ report[c].pc \in {"upsert", "write", "update", "rewrite"} /\ Faulty
  /\ Lock!Leaves(c) /\ Ends(c, "failed") /\ UNCHANGED <<file, created>>

-----------------------------------------------------------------------------
(* submitIssueToGitHub.                                                     *)

\* the outcome is to be stored: the lock is wanted again
Answer(c, status) ==
  /\ report' = [report EXCEPT ![c] = [@ EXCEPT !.pc = "update", !.submission = status]]
  /\ Lock!Wants(c)

Problem(c) == issueFingerprint(ClassOf[c])

\* how a run of gh ends: with a good or a bad exit code, not started, killed after thirty seconds
runGh == {"completed", "refused", "spawn-error", "timeout"}

Authenticate(c) ==
  /\ report[c].pc = "auth"
  /\ \E gh \in runGh : IF gh = "completed" THEN To(c, "search") /\ UNCHANGED <<lock, at, taken>>
                        ELSE Answer(c, "unavailable")
  /\ UNCHANGED <<file, created, faults>>

\* an issue of somebody else may be found, and one that was made a moment ago be missed
Search(c) ==
  /\ report[c].pc = "search"
  /\ \E gh \in runGh :
       \/ gh = "completed" /\ To(c, "create") /\ UNCHANGED <<lock, at, taken>>
       \/ gh = "completed" /\ Answer(c, "submitted")
       \/ gh # "completed" /\ Answer(c, IF gh = "timeout" THEN "unknown" ELSE "failed")
  /\ UNCHANGED <<file, created, faults>>

\* a gh that is killed or fails may have made the issue; what it prints may not name it
Create(c) ==
  /\ report[c].pc = "create"
  /\ \E gh \in runGh, made \in BOOLEAN, named \in BOOLEAN :
       /\ gh = "completed" => made
       /\ gh = "spawn-error" => ~ made
       /\ created' = [created EXCEPT ![Problem(c)] = @ + (IF made THEN 1 ELSE 0)]
       /\ Answer(c, IF gh = "completed" /\ named THEN "submitted" ELSE "unknown")
  /\ UNCHANGED <<file, faults>>

\* the file is read again under the lock, and only the submission changes
Reread(c) ==
  /\ report[c].pc = "update" /\ Lock!AtWork(c)
  /\ report' = [report EXCEPT ![c].pc = "rewrite", ![c].seen = file[report[c].id]]
  /\ UNCHANGED <<file, created, faults, lock, at, taken>>

Rewrite(c) ==
  /\ report[c].pc = "rewrite" /\ Ends(c, "leaves")
  /\ file' = [file EXCEPT ![report[c].id] = [report[c].seen EXCEPT !.submission = report[c].submission]]
  /\ UNCHANGED <<created, faults, lock, at, taken>>

-----------------------------------------------------------------------------
(* The environment.                                                         *)

Crash(c) == /\ report[c].pc \notin {"idle", "told", "failed"} /\ Faulty
            /\ Lock!Dies(c) /\ Ends(c, "failed") /\ UNCHANGED <<file, created>>

Age == /\ Lock!Ages /\ IF Lock!AtWork(lock.by) THEN Faulty ELSE UNCHANGED faults
       /\ UNCHANGED <<report, file, created>>

Init == /\ report = [c \in Call |-> NewReport(c)] /\ file = [c \in Call |-> NoFile]
        /\ created = [f \in Fingerprint |-> 0]
        /\ faults = 0 /\ Lock!LockInit

Next == \/ \E c \in Call :
             \/ Refuse(c) \/ LockFails(c) \/ LockMoves(c) \/ Leave(c)
             \/ Begin(c) \/ Read(c) \/ Write(c) \/ WriteFails(c)
             \/ Authenticate(c) \/ Search(c) \/ Create(c) \/ Reread(c) \/ Rewrite(c) \/ Crash(c)
        \/ Age

Spec == Init /\ [][Next]_vars

-----------------------------------------------------------------------------
\* A problem has one file, which counts every report of it, and it is put on GitHub once at
\* the most, whatever gh, the search or a crash do; only a suspected bug is put there, and its
\* file never says afterwards that nothing was submitted.  Excluded: a lock removed under an
\* operation that is still at work.
ProblemsAreFiledOnce ==
  ~ taken => \A f \in Fingerprint :
    /\ Cardinality(FilesOf(f)) <= 1
    /\ \A d \in FilesOf(f) : file[d].occurrences = Cardinality({c \in Call : report[c].counted /\ report[c].id = d})
    /\ created[f] <= 1
    /\ created[f] = 1 =>
         \E d \in FilesOf(f) : file[d].class = "suspected-bug" /\ file[d].submission \in Decided

-----------------------------------------------------------------------------
(* Why ProblemsAreFiledOnce is always true: the states that the steps above can reach.       *)

Class == {"operational", "suspected-bug", "security"}
Status == Decided \cup {"none", "not-eligible", "disabled", "unavailable", "failed"}
FileRecord == [occurrences : Nat, class : Class, submission : Status]
Place == {"out", "waits", "holds", "removes", "gone"}
ReportRecord ==
  [pc : {"idle", "upsert", "write", "leaves", "leaves to submit", "auth", "search", "create", "update", "rewrite",
         "told", "failed"},
   id : Call, seen : FileRecord, submission : Status, counted : BOOLEAN]

TypeOK ==
  /\ report \in [Call -> ReportRecord] /\ file \in [Call -> FileRecord] /\ created \in [Fingerprint -> Nat]
  /\ at \in [Call -> Place] /\ taken \in BOOLEAN
  /\ lock.held => lock.by \in Call

\* A call is at work with the lock where it uses the file, and its file is of its problem.
Places == \A c \in Call :
  /\ report[c].pc \in {"write", "rewrite", "leaves", "leaves to submit"} => Lock!AtWork(c)
  /\ Problem(report[c].id) = Problem(c)
  /\ report[c].counted => report[c].pc \notin {"idle", "upsert", "write"}

\* Whoever is at work has the lock, and has seen the files as they are.
OwnersHaveTheLock == ~ taken => \A c \in Call : Lock!AtWork(c) => lock.held /\ lock.by = c

FilesAreSeen == ~ taken => \A c \in Call :
  /\ report[c].pc \in {"write", "rewrite"} => report[c].seen = file[report[c].id]
  /\ report[c].pc = "write" => FilesOf(Problem(c)) \subseteq {report[c].id}

OneFile == ~ taken => \A d \in Call : file[d].occurrences > 0 =>
  /\ FilesOf(Problem(d)) = {d}
  /\ file[d].class = "security" <=> Problem(d) = "security"

Counted(d) == {c \in Call : report[c].counted /\ report[c].id = d}
FilesCount == ~ taken => \A d \in Call : file[d].occurrences = Cardinality(Counted(d))

\* A call that submits is the only one for its problem: the file of the problem says so until the outcome is known.
Submitting == {"leaves to submit", "auth", "search", "create", "update", "rewrite"}
FileIs(d, statuses) == file[d].occurrences > 0 /\ file[d].class = "suspected-bug" /\ file[d].submission \in statuses
OneSubmits == ~ taken => \A c \in Call : report[c].pc \in Submitting =>
  /\ FileIs(report[c].id, {"pending"})
  /\ \A d \in Call : report[d].pc \in Submitting /\ Problem(d) = Problem(c) => d = c
  /\ created[Problem(c)] = 0 \/ (report[c].pc \in {"update", "rewrite"} /\ report[c].submission \in Decided)

CreatedOnce == ~ taken => \A f \in Fingerprint :
  /\ created[f] <= 1
  /\ created[f] = 1 => \E d \in FilesOf(f) : FileIs(d, Decided)

IssuesInv == TypeOK /\ Places /\ OwnersHaveTheLock /\ FilesAreSeen /\ OneFile /\ FilesCount /\ OneSubmits /\ CreatedOnce
=============================================================================
