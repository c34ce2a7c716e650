---------------------------- MODULE Builds_proofs ----------------------------
(***************************************************************************)
(* Proofs about a build of the program on its way to a user's machine: how *)
(* it is published (Release) and how it replaces the relay of another      *)
(* build there (RelayProcess).  The two share nothing: no theorem is about *)
(* both.                                                                   *)
(***************************************************************************)
EXTENDS Release, RelayProcess, TLAPS

-----------------------------------------------------------------------------
(***************************************************************************)
(* Publication, for every number of runs, versions and files: what a job   *)
(* reports is so, what is public is in the store, and submissions advance. *)
(***************************************************************************)
(* Types.  A job looks for its candidate from the newest run down, so the    *)
(* runs it has left are always the oldest ones.                             *)
Runs == Run \cup {NoRun}
Bytes == Runs \cup {Foreign}
Versions == Version \cup {NoVersion}

Artifact == [origin : Origin, version : Version, extension : Version, expired : BOOLEAN]
GitHubRelease == [state : {"none", "draft", "public"}, files : [File -> Bytes], target : Runs,
                  conflict : {"none", "release", "asset"}]
Submission == [state : {"none", "PENDING_REVIEW", "STAGED", "REJECTED", "CANCELLED", "PUBLISHED"},
               version : Versions]
Item == [submitted : Submission, published : Versions, package : Versions, uploading : Versions,
         upload : {"none", "SUCCEEDED", "IN_PROGRESS", "FAILED"}, warned : BOOLEAN]

Checking == {"releases", "tag", "create", "assets", "files"}
Submitting == {"upload", "poll", "submit"}
Working == Checking \cup Submitting \cup {"status", "publish", "verify"}
Job == [pc : Working \cup {"idle", "runs"}, run : Runs, left : SUBSET Run,
        found : {"none", "draft", "public"}, files : SUBSET File]

ReleaseTypeOK ==
  /\ artifact \in [Run -> Artifact]
  /\ npm \in [Version -> Runs]
  /\ release \in [Version -> GitHubRelease]
  /\ tag \in [Version -> Bytes]
  /\ store \in Item
  /\ job \in Job
  /\ At("runs") => \E k \in 0..MaxRun : job.left = 1..k
  /\ outcome \in [status : {"none", "waiting", "created", "no-op"}, run : Runs]
  /\ accepted \subseteq Version
  /\ failures \in Nat /\ interference \in Nat

-----------------------------------------------------------------------------
(* What the store shows: a submission that was not refused before the job    *)
(* began is of the newest version, and what the job submits is newer still.  *)
StoreInv ==
  LET s == store.submitted
  IN  /\ s.state # "none" => s.version \in accepted /\ s.version >= store.published
      /\ s.state = "none" => s.version = NoVersion
      /\ s.state = "PENDING_REVIEW" => s.version > store.published
      /\ s.state = "PUBLISHED" => s.version = store.published
      /\ \A e \in accepted : e <= store.published \/ e <= s.version

(* What a job knows of the store while it submits: nobody else submits.      *)
SubmitInv ==
  /\ job.pc \in Submitting =>
       /\ store.published < target
       /\ store.submitted.version < target
       /\ store.submitted.state \notin {"PENDING_REVIEW", "STAGED"}
  /\ At("poll") => /\ store.upload = "IN_PROGRESS" => store.uploading = target
                   /\ store.upload = "SUCCEEDED" => store.package = target
  /\ At("submit") => store.upload = "SUCCEEDED" /\ store.package = target
  /\ job.pc \in {"publish", "verify"} => target \in accepted \/ target <= store.published

(* What a job knows of its release: no other job writes it.                  *)
ReleaseInv ==
  /\ job.pc \in Working => job.run \in Run /\ npm[v] = job.run
  /\ At("tag") => release[v].state = job.found
  /\ At("create") => release[v].state = "none" /\ job.found = "none"
  /\ job.pc \in {"assets", "files"} /\ job.found = "public" =>
       release[v].state = "public" /\ tag[v] = job.run
  /\ At("files") => \A f \in File \ job.files : IsOurs(f)
  /\ job.pc \in Working \ Checking => \A f \in File : IsOurs(f)
  /\ At("verify") => release[v].state = "public"

ReportsARun == outcome.status \in {"created", "no-op"} => outcome.run \in Run

-----------------------------------------------------------------------------
(* A job goes on from a record of its own, or ends.                          *)
LEMMA GoType ==
  ASSUME job \in Job, NEW pc \in Working, Go(pc)
  PROVE  /\ job' \in Job /\ job'.pc = pc /\ job'.run = job.run
         /\ job'.found = job.found /\ job'.files = job.files
  BY DEF Go, Job

LEMMA IdleType == Idle \in Job /\ Idle.pc = "idle"
  BY DEF Idle, Job, Runs

LEMMA EndType ==
  ASSUME job \in Job, Throw \/ \E status \in {"waiting", "created", "no-op"} : Report(status),
         outcome \in [status : {"none", "waiting", "created", "no-op"}, run : Runs]
  PROVE  /\ job' = Idle /\ job' \in Job /\ job'.pc = "idle"
         /\ outcome' \in [status : {"none", "waiting", "created", "no-op"}, run : Runs]
  BY IdleType DEF Throw, Report, Job

(* The newest of the runs that are left.                                     *)
LEMMA NewestLeft ==
  ASSUME NEW k \in Nat, k # 0
  PROVE  Max(1..k) = k /\ (1..k) \ {k} = 1..(k - 1)
  <1>1. k \in 1..k /\ \A y \in 1..k : k >= y
    OBVIOUS
  <1>2. \A x \in 1..k : (\A y \in 1..k : x >= y) => x = k
    BY <1>1
  <1> QED
    BY <1>1, <1>2 DEF Max

LEMMA TypeInit == ReleaseInit => ReleaseTypeOK
  <1> SUFFICES ASSUME ReleaseInit PROVE ReleaseTypeOK
    OBVIOUS
  <1>1. 1 \in Version
    BY ReleaseAssumption DEF Version
  <1>2. artifact \in [Run -> Artifact]
    BY DEF ReleaseInit, Artifact
  <1>3. store \in Item
    <2>1. NoSubmission \in Submission
      BY DEF NoSubmission, Submission, Versions
    <2> QED
      BY <1>1, <2>1 DEF ReleaseInit, Item, Versions
  <1>4. NoRelease \in GitHubRelease
    BY DEF NoRelease, GitHubRelease, Bytes, Runs
  <1> QED
    BY <1>2, <1>3, <1>4, IdleType DEF ReleaseInit, ReleaseTypeOK, Runs, Bytes, At

(* Looking for the candidate.                                                *)
LEMMA TypeSearch ==
  ASSUME ReleaseTypeOK, StartJob \/ ExamineRun
  PROVE  ReleaseTypeOK'
  <1>1. CASE StartJob
    <2>1. job' \in Job /\ job'.left = 1..MaxRun
      BY <1>1 DEF StartJob, Idle, Job, Runs, Run
    <2> QED
      BY <1>1, <2>1, ReleaseAssumption DEF StartJob, Reads, ReleaseTypeOK
  <1>2. CASE ExamineRun
    <2> DEFINE r == Max(job.left)
               next == [job EXCEPT !.left = @ \ {r}]
    <2>1. PICK k \in 0..MaxRun : job.left = 1..k
      BY <1>2 DEF ExamineRun, ReleaseTypeOK
    <2>2. CASE Throw \/ Report("waiting")
      <3>1. /\ job' \in Job /\ job'.pc = "idle"
            /\ outcome' \in [status : {"none", "waiting", "created", "no-op"}, run : Runs]
        BY <2>2, EndType DEF ReleaseTypeOK
      <3> QED
        BY <1>2, <3>1 DEF ExamineRun, Reads, ReleaseTypeOK, At
    <2>3. CASE job.left # {}
      <3>1. k # 0
        BY <2>1, <2>3
      <3>2. r = k /\ job.left \ {r} = 1..(k - 1) /\ k - 1 \in 0..MaxRun
        BY <2>1, <3>1, NewestLeft, ReleaseAssumption
      <3>3. r \in Run
        BY <2>1, <3>1, <3>2 DEF Run
      <3> HIDE DEF r
      <3>4. next \in Job /\ next.pc = "runs" /\ next.left = 1..(k - 1)
        BY <1>2, <3>2 DEF ExamineRun, At, ReleaseTypeOK, Job
      <3>5. [next EXCEPT !.pc = "releases", !.run = r] \in Job
        BY <3>3, <3>4 DEF Job, Working, Checking, Runs
      <3>6. [next EXCEPT !.pc = "releases", !.run = r].pc = "releases"
        BY <3>4 DEF Job
      <3> HIDE DEF next
      <3>7. \/ job' = next /\ UNCHANGED outcome
            \/ job' = [next EXCEPT !.pc = "releases", !.run = r] /\ UNCHANGED outcome
            \/ Throw
        BY <1>2, <2>3 DEF ExamineRun, next, r
      <3>8. CASE job' = next /\ UNCHANGED outcome
        BY <1>2, <3>2, <3>4, <3>8 DEF ExamineRun, Reads, ReleaseTypeOK
      <3>9. CASE job' = [next EXCEPT !.pc = "releases", !.run = r] /\ UNCHANGED outcome
        BY <1>2, <3>5, <3>6, <3>9 DEF ExamineRun, Reads, ReleaseTypeOK, At
      <3> QED
        BY <2>2, <3>7, <3>8, <3>9
    <2>4. CASE job.left = {}
      BY <1>2, <2>2, <2>4 DEF ExamineRun
    <2> QED
      BY <2>3, <2>4
  <1> QED
    BY <1>1, <1>2

(* The job's candidate and its version.                                      *)
LEMMA CandidateType ==
  ASSUME ReleaseTypeOK, ReleaseInv, job.pc \in Working
  PROVE  /\ job.run \in Run /\ job.run # NoRun /\ v \in Version /\ target \in Version
         /\ release[v] \in GitHubRelease /\ tag[v] \in Bytes /\ npm[v] = job.run
  BY DEF ReleaseTypeOK, ReleaseInv, v, target, Artifact, Run, NoRun

(* Checking and completing the release.                                      *)
LEMMA TypeFinalize ==
  ASSUME ReleaseTypeOK, ReleaseInv, Finalize
  PROVE  ReleaseTypeOK'
  <1>1. CASE ExamineRun
    BY <1>1, TypeSearch
  <1>2. CASE ListReleases
    <2>1. CASE Throw
      BY <1>2, <2>1, EndType DEF ListReleases, Reads, ReleaseTypeOK, At
    <2>2. CASE job' = [job EXCEPT !.pc = "tag", !.found = release[v].state] /\ UNCHANGED outcome
      <3>1. release[v].state \in {"none", "draft", "public"}
        BY <1>2, CandidateType DEF ListReleases, At, Working, Checking, GitHubRelease
      <3>2. job' \in Job /\ job'.pc = "tag"
        BY <2>2, <3>1 DEF ReleaseTypeOK, Job, Working, Checking
      <3> QED
        BY <1>2, <2>2, <3>2 DEF ListReleases, Reads, ReleaseTypeOK, At
    <2> QED
      BY <1>2, <2>1, <2>2 DEF ListReleases
  <1>3. CASE ResolveTag
    <2>1. CASE Throw
      BY <1>3, <2>1, EndType DEF ResolveTag, Reads, ReleaseTypeOK, At
    <2>2. ASSUME NEW pc \in {"create", "assets"}, Go(pc), UNCHANGED outcome PROVE ReleaseTypeOK'
      <3>1. job' \in Job /\ job'.pc = pc
        BY <2>2, GoType DEF ReleaseTypeOK, Working, Checking
      <3> QED
        BY <1>3, <2>2, <3>1 DEF ResolveTag, Reads, ReleaseTypeOK, At
    <2> QED
      BY <1>3, <2>1, <2>2 DEF ResolveTag
  <1>4. CASE CreateDraft
    <2>1. job' \in Job /\ job'.pc = "assets"
      BY <1>4, GoType DEF CreateDraft, ReleaseTypeOK, Working, Checking
    <2>2. release' \in [Version -> GitHubRelease]
      BY <1>4, CandidateType DEF CreateDraft, ReleaseTypeOK, At, Working, Checking, GitHubRelease, Runs
    <2> QED
      BY <1>4, <2>1, <2>2 DEF CreateDraft, ReleaseTypeOK, At
  <1>5. CASE AssertAssetSet
    <2>1. CASE Throw
      BY <1>5, <2>1, EndType DEF AssertAssetSet, Reads, ReleaseTypeOK, At
    <2>2. CASE job' = [job EXCEPT !.pc = "files", !.files = File] /\ UNCHANGED outcome
      <3>1. job' \in Job /\ job'.pc = "files"
        BY <2>2 DEF ReleaseTypeOK, Job, Working, Checking
      <3> QED
        BY <1>5, <2>2, <3>1 DEF AssertAssetSet, Reads, ReleaseTypeOK, At
    <2> QED
      BY <1>5, <2>1, <2>2 DEF AssertAssetSet
  <1>6. CASE VerifyOrUpload
    <2>1. PICK f \in job.files :
            /\ \/ release' = [release EXCEPT ![v].files[f] = job.run]
               \/ release' = release
            /\ (job' = [job EXCEPT !.files = @ \ {f}] /\ UNCHANGED outcome) \/ Throw
      BY <1>6 DEF VerifyOrUpload
    <2>2. release' \in [Version -> GitHubRelease]
      <3>1. /\ v \in Version /\ release[v] \in GitHubRelease /\ job.run \in Bytes
            /\ release \in [Version -> GitHubRelease] /\ f \in File
        BY <1>6, CandidateType DEF VerifyOrUpload, ReleaseTypeOK, At, Working, Checking, Runs, Bytes, Job
      <3>2. [release[v] EXCEPT !.files[f] = job.run] \in GitHubRelease
        BY <3>1 DEF GitHubRelease
      <3> QED
        BY <2>1, <3>1, <3>2
    <2>3. CASE Throw
      BY <1>6, <2>2, <2>3, EndType DEF VerifyOrUpload, ReleaseTypeOK, At
    <2>4. CASE job' = [job EXCEPT !.files = @ \ {f}] /\ UNCHANGED outcome
      <3>1. job' \in Job /\ job'.pc = "files"
        BY <1>6, <2>4 DEF VerifyOrUpload, At, ReleaseTypeOK, Job
      <3> QED
        BY <1>6, <2>2, <2>4, <3>1 DEF VerifyOrUpload, ReleaseTypeOK, At
    <2> QED
      BY <2>1, <2>3, <2>4
  <1>7. CASE VerifyAll \/ VerifyTag
    <2>1. CASE Throw \/ Report("no-op") \/ Report("created")
      <3>1. /\ job' \in Job /\ job'.pc = "idle"
            /\ outcome' \in [status : {"none", "waiting", "created", "no-op"}, run : Runs]
        BY <2>1, EndType DEF ReleaseTypeOK
      <3> QED
        BY <1>7, <3>1 DEF VerifyAll, VerifyTag, Reads, ReleaseTypeOK, At
    <2>2. CASE Go("status") /\ UNCHANGED outcome
      <3>1. job' \in Job /\ job'.pc = "status"
        BY <2>2, GoType DEF ReleaseTypeOK, Working
      <3> QED
        BY <1>7, <2>2, <3>1 DEF VerifyAll, VerifyTag, Reads, ReleaseTypeOK, At
    <2> QED
      BY <1>7, <2>1, <2>2 DEF VerifyAll, VerifyTag
  <1>8. CASE PublishDraft
    <2>1. job' \in Job /\ job'.pc = "verify"
      BY <1>8, GoType DEF PublishDraft, ReleaseTypeOK, Working
    <2>2. release' \in [Version -> GitHubRelease] /\ tag' \in [Version -> Bytes]
      BY <1>8, CandidateType DEF PublishDraft, ReleaseTypeOK, At, Working, GitHubRelease, Bytes
    <2> QED
      BY <1>8, <2>1, <2>2 DEF PublishDraft, ReleaseTypeOK, At
  <1> QED
    BY <1>1, <1>2, <1>3, <1>4, <1>5, <1>6, <1>7, <1>8 DEF Finalize

(* Submitting the extension.                                                 *)
LEMMA TypePublish ==
  ASSUME ReleaseTypeOK, ReleaseInv, SubmitInv, PublishExtension \/ JobFails
  PROVE  ReleaseTypeOK'
  <1>1. ASSUME Throw, UNCHANGED <<artifact, npm, release, tag, store, accepted, interference>>,
               failures' \in Nat
        PROVE  ReleaseTypeOK'
    BY <1>1, EndType DEF ReleaseTypeOK, At
  <1>2. ASSUME NEW pc \in {"publish", "upload", "submit", "poll"}, Go(pc), store' \in Item,
               accepted' \subseteq Version,
               UNCHANGED <<artifact, npm, release, tag, outcome, failures, interference>>
        PROVE  ReleaseTypeOK'
    <2>1. job' \in Job /\ job'.pc = pc
      BY <1>2, GoType DEF ReleaseTypeOK, Working, Submitting
    <2> QED
      BY <1>2, <2>1 DEF ReleaseTypeOK, At
  <1>3. CASE FetchStatus
    BY <1>1, <1>2, <1>3 DEF FetchStatus, Decide, Reads, ReleaseTypeOK
  <1>4. CASE Upload
    <2>1. target \in Version
      BY <1>4, CandidateType DEF Upload, At, Working, Submitting
    <2>2. store' \in Item
      BY <1>4, <2>1 DEF Upload, ReleaseTypeOK, Item, Versions
    <2> QED
      BY <1>2, <1>4, <2>2 DEF Upload, ReleaseTypeOK
  <1>5. CASE Poll
    BY <1>1, <1>2, <1>5 DEF Poll, Decide, Reads, ReleaseTypeOK
  <1>6. CASE JobFails
    BY <1>1, <1>6 DEF JobFails, ReleaseTypeOK
  <1>7. CASE Submit
    <2>1. store.package = target /\ target \in Version /\ store \in Item
      BY <1>7, CandidateType DEF Submit, SubmitInv, At, Working, Submitting, ReleaseTypeOK
    <2>2. [state |-> "PENDING_REVIEW", version |-> store.package] \in Submission
      BY <2>1 DEF Submission, Versions
    <2>3. [store EXCEPT !.submitted = [state |-> "PENDING_REVIEW", version |-> store.package]] \in Item
      BY <2>1, <2>2 DEF Item
    <2> QED
      BY <1>1, <1>2, <1>7, <2>1, <2>3 DEF Submit, ReleaseTypeOK
  <1> QED
    BY <1>3, <1>4, <1>5, <1>6, <1>7 DEF PublishExtension

(* What a maintainer does: a tag, an edited release, a submission withdrawn,  *)
(* a warning, an artifact that expires.                                      *)
LEMMA Interferes ==
  ASSUME ReleaseTypeOK, Interfere
  PROVE  /\ tag' \in [Version -> Bytes] /\ artifact' \in [Run -> Artifact]
         /\ store' \in Item /\ release' \in [Version -> GitHubRelease] /\ interference' \in Nat
         /\ \A w \in Version :
              /\ tag[w] # NoRun => tag'[w] = tag[w]
              /\ release'[w].state = release[w].state
              /\ \A f \in File : release[w].files[f] # NoRun => release'[w].files[f] = release[w].files[f]
         /\ \A r \in Run : /\ artifact'[r].version = artifact[r].version
                            /\ artifact'[r].extension = artifact[r].extension
         /\ store'.published = store.published
         /\ store'.upload = store.upload /\ store'.uploading = store.uploading
         /\ store'.package = store.package
         /\ \/ store'.submitted = store.submitted
            \/ /\ store.submitted.state = "PENDING_REVIEW"
               /\ store'.submitted.state \in {"STAGED", "CANCELLED"}
               /\ store'.submitted.version = store.submitted.version
  <1> USE DEF ReleaseTypeOK
  <1>1. interference' \in Nat
    BY DEF Interfere
  <1>2. CASE /\ \E w \in Version : tag[w] = NoRun /\ tag' = [tag EXCEPT ![w] = Foreign]
             /\ UNCHANGED <<artifact, release, store>>
    BY <1>1, <1>2 DEF Bytes
  <1>3. ASSUME NEW w \in Version, UNCHANGED <<artifact, tag, store>>,
               \/ \E c \in {"release", "asset"} : release' = [release EXCEPT ![w].conflict = c]
               \/ \E f \in File : /\ release[w].files[f] = NoRun
                                  /\ release' = [release EXCEPT ![w].files[f] = Foreign]
        PROVE  /\ release' \in [Version -> GitHubRelease]
               /\ \A u \in Version :
                    /\ release'[u].state = release[u].state
                    /\ \A f \in File : release[u].files[f] # NoRun => release'[u].files[f] = release[u].files[f]
    <2>1. release[w] \in GitHubRelease
      OBVIOUS
    <2>2. ASSUME NEW c \in {"release", "asset"}
          PROVE  /\ [release[w] EXCEPT !.conflict = c] \in GitHubRelease
                 /\ [release[w] EXCEPT !.conflict = c].state = release[w].state
                 /\ [release[w] EXCEPT !.conflict = c].files = release[w].files
      BY <2>1 DEF GitHubRelease
    <2>3. ASSUME NEW f \in File
          PROVE  /\ [release[w] EXCEPT !.files[f] = Foreign] \in GitHubRelease
                 /\ [release[w] EXCEPT !.files[f] = Foreign].state = release[w].state
                 /\ [release[w] EXCEPT !.files[f] = Foreign].files = [release[w].files EXCEPT ![f] = Foreign]
                 /\ release[w].files \in [File -> Bytes]
      BY <2>1 DEF GitHubRelease, Bytes
    <2>4. CASE \E c \in {"release", "asset"} : release' = [release EXCEPT ![w].conflict = c]
      BY <2>2, <2>4
    <2>5. CASE \E f \in File : /\ release[w].files[f] = NoRun
                               /\ release' = [release EXCEPT ![w].files[f] = Foreign]
      <3>1. PICK f \in File : /\ release[w].files[f] = NoRun
                             /\ release' = [release EXCEPT ![w].files[f] = Foreign]
        BY <2>5
      <3> DEFINE q == [release[w] EXCEPT !.files[f] = Foreign]
      <3>2. release' = [release EXCEPT ![w] = q]
        BY <3>1
      <3>3. q \in GitHubRelease /\ q.state = release[w].state
            /\ q.files = [release[w].files EXCEPT ![f] = Foreign] /\ release[w].files \in [File -> Bytes]
        BY <2>3
      <3> HIDE DEF q
      <3> QED
        BY <3>1, <3>2, <3>3
    <2> QED
      BY <1>3, <2>4, <2>5
  <1>4. CASE \/ /\ store.submitted.state = "PENDING_REVIEW"
                /\ \E s \in {"STAGED", "CANCELLED"} : store' = [store EXCEPT !.submitted.state = s]
                /\ UNCHANGED <<artifact, release, tag>>
             \/ store' = [store EXCEPT !.warned = TRUE] /\ UNCHANGED <<artifact, release, tag>>
    <2>1. store \in Item /\ store.submitted \in Submission
      BY DEF Item
    <2>2. CASE store' = [store EXCEPT !.warned = TRUE] /\ UNCHANGED <<artifact, release, tag>>
      <3>1. store' \in Item
        BY <2>1, <2>2 DEF Item
      <3> QED
        BY <1>1, <2>1, <2>2, <3>1 DEF Item
    <2>3. ASSUME NEW s \in {"STAGED", "CANCELLED"}, store.submitted.state = "PENDING_REVIEW",
                 store' = [store EXCEPT !.submitted.state = s], UNCHANGED <<artifact, release, tag>>
          PROVE  /\ store' \in Item /\ store'.published = store.published
                 /\ store'.upload = store.upload /\ store'.uploading = store.uploading
                 /\ store'.package = store.package
                 /\ store'.submitted.state = s /\ store'.submitted.version = store.submitted.version
      <3> DEFINE sub == [store.submitted EXCEPT !.state = s]
      <3>1. sub \in Submission /\ sub.state = s /\ sub.version = store.submitted.version
        BY <2>1 DEF Submission
      <3>2. store' = [store EXCEPT !.submitted = sub]
        BY <2>3
      <3> HIDE DEF sub
      <3> QED
        BY <2>1, <3>1, <3>2 DEF Item
    <2> QED
      BY <1>1, <1>4, <2>2, <2>3
  <1>5. ASSUME NEW r \in Run, artifact' = [artifact EXCEPT ![r].expired = TRUE]
        PROVE  /\ artifact' \in [Run -> Artifact]
               /\ \A k \in Run : /\ artifact'[k].version = artifact[k].version
                                 /\ artifact'[k].extension = artifact[k].extension
    <2> DEFINE a == [artifact[r] EXCEPT !.expired = TRUE]
    <2>1. a \in Artifact /\ a.version = artifact[r].version /\ a.extension = artifact[r].extension
      BY DEF Artifact
    <2>2. artifact' = [artifact EXCEPT ![r] = a]
      BY <1>5
    <2> HIDE DEF a
    <2> QED
      BY <2>1, <2>2
  <1> QED
    BY <1>1, <1>2, <1>3, <1>4, <1>5 DEF Interfere

(* npm, the store's review and the maintainer.                               *)
LEMMA TypeWorld ==
  ASSUME ReleaseTypeOK, (\E r \in Run : Approve(r)) \/ UploadEnds \/ Review \/ Interfere
  PROVE  ReleaseTypeOK'
  <1>1. CASE \E r \in Run : Approve(r)
    BY <1>1 DEF Approve, ReleaseTypeOK, At, Runs
  <1>2. CASE UploadEnds
    <2>1. /\ [store EXCEPT !.package = store.uploading, !.upload = "SUCCEEDED"] \in Item
          /\ [store EXCEPT !.upload = "FAILED"] \in Item
      BY DEF ReleaseTypeOK, Item
    <2>2. store' \in Item /\ failures' \in Nat
      BY <1>2, <2>1 DEF UploadEnds, ReleaseTypeOK
    <2> QED
      BY <1>2, <2>2 DEF UploadEnds, ReleaseTypeOK, At
  <1>3. CASE Review
    <2> DEFINE s == store.submitted
    <2>1. store \in Item /\ s \in Submission /\ s.version \in Versions
      BY DEF ReleaseTypeOK, Item, Submission
    <2>2. /\ NoSubmission \in Submission /\ [s EXCEPT !.state = "PUBLISHED"] \in Submission
          /\ [s EXCEPT !.state = "REJECTED"] \in Submission
      BY <2>1 DEF NoSubmission, Submission, Versions
    <2> HIDE DEF s
    <2>3. /\ \A t \in Submission : [store EXCEPT !.submitted = t, !.published = s.version] \in Item
          /\ \A t \in Submission : [store EXCEPT !.submitted = t] \in Item
      BY <2>1 DEF Item
    <2>4. /\ [store EXCEPT !.submitted = NoSubmission, !.published = s.version] \in Item
          /\ [store EXCEPT !.submitted = [s EXCEPT !.state = "PUBLISHED"], !.published = s.version] \in Item
      BY <2>2, <2>3
    <2>5. [store EXCEPT !.submitted = [s EXCEPT !.state = "REJECTED"]] \in Item
      BY <2>2, <2>3
    <2>6. store' \in Item
      BY <1>3, <2>1, <2>4, <2>5 DEF Review, s, Item
    <2> QED
      BY <1>3, <2>6 DEF Review, ReleaseTypeOK, At
  <1>4. CASE Interfere
    BY <1>4, Interferes DEF Interfere, ReleaseTypeOK, At
  <1> QED
    BY <1>1, <1>2, <1>3, <1>4

LEMMA ReleaseTypeNext ==
  ASSUME ReleaseTypeOK, ReleaseInv, SubmitInv, [ReleaseNext]_releaseVars
  PROVE  ReleaseTypeOK'
  <1>1. CASE UNCHANGED releaseVars
    BY <1>1 DEF releaseVars, ReleaseTypeOK, At
  <1> QED
    BY <1>1, TypeSearch, TypeFinalize, TypePublish, TypeWorld DEF ReleaseNext

-----------------------------------------------------------------------------
(* What no step takes back: the versions of a candidate, what npm serves, a   *)
(* public release, an uploaded file, a tag, a submission, a published        *)
(* extension.                                                               *)
KeptWhole ==
  /\ \A r \in Run : artifact'[r].version = artifact[r].version /\ artifact'[r].extension = artifact[r].extension
  /\ \A w \in Version :
       /\ npm[w] # NoRun => npm'[w] = npm[w]
       /\ tag[w] # NoRun => tag'[w] = tag[w]
       /\ release[w].state = "public" => release'[w].state = "public"
       /\ \A f \in File : release[w].files[f] # NoRun => release'[w].files[f] = release[w].files[f]
  /\ accepted \subseteq accepted' /\ store'.published >= store.published

LEMMA NextKeeps ==
  ASSUME ReleaseTypeOK, StoreInv, ReleaseInv, [ReleaseNext]_releaseVars
  PROVE  KeptWhole
  <1>1. store.published \in Nat
    BY DEF ReleaseTypeOK, Item, Versions, Version, NoVersion
  <1>2. CASE UNCHANGED <<artifact, npm, release, tag, store, accepted>>
    BY <1>1, <1>2 DEF KeptWhole
  <1>3. CASE UNCHANGED <<artifact, npm, tag, store, accepted>> /\ (CreateDraft \/ VerifyOrUpload)
    <2>1. /\ v \in Version /\ release[v] \in GitHubRelease /\ release \in [Version -> GitHubRelease]
          /\ CreateDraft => release[v].state = "none"
      BY <1>3, CandidateType DEF CreateDraft, VerifyOrUpload, At, Working, Checking, ReleaseInv, ReleaseTypeOK
    <2>2. CASE CreateDraft
      BY <1>1, <1>3, <2>1, <2>2 DEF CreateDraft, KeptWhole, GitHubRelease
    <2>3. CASE VerifyOrUpload
      BY <1>1, <1>3, <2>1, <2>3 DEF VerifyOrUpload, KeptWhole, GitHubRelease
    <2> QED
      BY <1>3, <2>2, <2>3
  <1>4. CASE PublishDraft
    BY <1>1, <1>4 DEF PublishDraft, KeptWhole, ReleaseTypeOK, GitHubRelease
  <1>5. CASE Upload \/ UploadEnds
    <2>1. store'.published = store.published
      BY <1>5 DEF Upload, UploadEnds, ReleaseTypeOK, Item
    <2> QED
      BY <1>1, <1>5, <2>1 DEF Upload, UploadEnds, KeptWhole
  <1>6. CASE Submit
    BY <1>1, <1>6 DEF Submit, KeptWhole, ReleaseTypeOK, Item
  <1>7. CASE Review
    <2>1. store \in Item /\ store.submitted.version > store.published
      BY <1>7 DEF Review, StoreInv, ReleaseTypeOK
    <2>2. store.submitted.version \in Nat
      BY <2>1 DEF Item, Submission, Versions, Version, NoVersion
    <2>3. store'.published \in {store.published, store.submitted.version}
      BY <1>7, <2>1 DEF Review, Item
    <2> QED
      BY <1>1, <1>7, <2>1, <2>2, <2>3 DEF Review, KeptWhole
  <1>8. ASSUME NEW r \in Run, Approve(r) PROVE KeptWhole
    BY <1>1, <1>8 DEF Approve, KeptWhole, ReleaseTypeOK
  <1>9. CASE Interfere
    BY <1>1, <1>9, Interferes DEF Interfere, KeptWhole
  <1> QED
    BY <1>2, <1>3, <1>4, <1>5, <1>6, <1>7, <1>8, <1>9
       DEF ReleaseNext, Finalize, PublishExtension, StartJob, ExamineRun, ListReleases, ResolveTag,
           AssertAssetSet, VerifyAll, VerifyTag, FetchStatus, Poll, JobFails, Reads, CreateDraft,
           VerifyOrUpload, releaseVars

-----------------------------------------------------------------------------
LEMMA ItemType ==
  ASSUME ReleaseTypeOK
  PROVE  /\ store \in Item /\ store.submitted \in Submission
         /\ store.submitted.version \in Nat /\ store.published \in Nat
  BY DEF ReleaseTypeOK, Item, Submission, Versions, Version, NoVersion

(* The steps that write the submission or the published version.             *)
LEMMA StoreSteps ==
  ASSUME ReleaseTypeOK, SubmitInv, ReleaseInv, [ReleaseNext]_releaseVars
  PROVE  \/ /\ store'.submitted = store.submitted /\ store'.published = store.published
            /\ UNCHANGED accepted
         \/ /\ store.submitted.state = "PENDING_REVIEW"
            /\ store'.submitted.state \in {"STAGED", "CANCELLED", "REJECTED"}
            /\ store'.submitted.version = store.submitted.version
            /\ store'.published = store.published /\ UNCHANGED accepted
         \/ /\ store.submitted.state = "PENDING_REVIEW"
            /\ \/ store'.submitted = NoSubmission
               \/ /\ store'.submitted.state = "PUBLISHED"
                  /\ store'.submitted.version = store.submitted.version
            /\ store'.published = store.submitted.version /\ UNCHANGED accepted
         \/ /\ At("submit") /\ Submit
            /\ store'.submitted = [state |-> "PENDING_REVIEW", version |-> target]
            /\ store'.published = store.published /\ accepted' = accepted \cup {target}
            /\ target \in Version /\ store.published < target
            /\ store.submitted.version < target
  <1>1. CASE UNCHANGED <<store, accepted>>
    BY <1>1
  <1>2. CASE Upload \/ UploadEnds
    <2>1. store'.published = store.published /\ store'.submitted = store.submitted
      BY <1>2, ItemType DEF Upload, UploadEnds, Item
    <2> QED
      BY <1>2, <2>1 DEF Upload, UploadEnds
  <1>3. CASE Review
    <2>1. \/ store' = [store EXCEPT !.submitted = NoSubmission, !.published = store.submitted.version]
          \/ store' = [store EXCEPT !.submitted = [store.submitted EXCEPT !.state = "PUBLISHED"],
                                    !.published = store.submitted.version]
          \/ store' = [store EXCEPT !.submitted.state = "REJECTED"]
      BY <1>3 DEF Review
    <2>2. /\ [store.submitted EXCEPT !.state = "PUBLISHED"].state = "PUBLISHED"
          /\ [store.submitted EXCEPT !.state = "PUBLISHED"].version = store.submitted.version
          /\ [store.submitted EXCEPT !.state = "REJECTED"].state = "REJECTED"
          /\ [store.submitted EXCEPT !.state = "REJECTED"].version = store.submitted.version
      BY ItemType DEF Submission
    <2>3. \/ store'.submitted = NoSubmission /\ store'.published = store.submitted.version
          \/ store'.submitted = [store.submitted EXCEPT !.state = "PUBLISHED"]
             /\ store'.published = store.submitted.version
          \/ store'.submitted = [store.submitted EXCEPT !.state = "REJECTED"]
             /\ store'.published = store.published
      BY <2>1, ItemType DEF Item
    <2> QED
      BY <1>3, <2>2, <2>3 DEF Review
  <1>4. CASE Submit
    <2>1. /\ store.package = target /\ target \in Version /\ store.published < target
          /\ store.submitted.version < target
      BY <1>4, CandidateType DEF Submit, SubmitInv, At, Working, Submitting
    <2>2. \/ UNCHANGED <<store, accepted>>
          \/ /\ store' = [store EXCEPT !.submitted = [state |-> "PENDING_REVIEW", version |-> target]]
             /\ accepted' = accepted \cup {target}
      BY <1>4, <2>1 DEF Submit
    <2> QED
      BY <1>1, <1>4, <2>1, <2>2, ItemType DEF Submit, Item
  <1>5. CASE Interfere
    BY <1>5, Interferes DEF Interfere
  <1> QED
    BY <1>1, <1>2, <1>3, <1>4, <1>5
       DEF ReleaseNext, Finalize, PublishExtension, StartJob, ExamineRun, ListReleases, ResolveTag,
           AssertAssetSet, VerifyAll, VerifyTag, FetchStatus, Poll, JobFails, Reads, CreateDraft,
           VerifyOrUpload, PublishDraft, Approve, releaseVars

LEMMA StoreInvNext ==
  ASSUME ReleaseTypeOK, StoreInv, SubmitInv, ReleaseInv, [ReleaseNext]_releaseVars
  PROVE  StoreInv'
  <1>1. /\ store.submitted.version \in Nat /\ store.published \in Nat
        /\ \A e \in accepted : e \in Nat
    BY ItemType DEF ReleaseTypeOK, Version
  <1>2. \A e \in Version : e \in Nat
    BY DEF Version
  <1> QED
    BY <1>1, <1>2, StoreSteps DEF StoreInv, NoSubmission, NoVersion

-----------------------------------------------------------------------------
(* The steps of a job: it ends, it begins, it takes a candidate, it goes on.  *)
JobEnds == Throw \/ \E status \in {"waiting", "created", "no-op"} : Report(status)

LEMMA JobSteps ==
  ASSUME ReleaseTypeOK, ReleaseInv, [ReleaseNext]_releaseVars
  PROVE  \/ job'.pc \in {"idle", "runs"}
         \/ /\ At("runs") /\ ExamineRun /\ job'.pc = "releases"
            /\ job'.run \in Run /\ npm[artifact[job'.run].version] = job'.run
         \/ job.pc \in Working /\ job'.pc \in Working /\ job'.run = job.run
  <1>1. job \in Job
    BY DEF ReleaseTypeOK
  <1>2. CASE UNCHANGED job
    BY <1>1, <1>2 DEF Job
  <1>3. ASSUME JobEnds PROVE job'.pc = "idle"
    BY <1>1, <1>3, EndType DEF JobEnds, ReleaseTypeOK
  <1>4. ASSUME NEW pc \in Working, Go(pc) PROVE job'.pc \in Working /\ job'.run = job.run
    BY <1>1, <1>4, GoType
  <1>5. CASE StartJob
    BY <1>5 DEF StartJob, Idle
  <1>6. CASE ExamineRun
    <2> DEFINE r == Max(job.left)
               next == [job EXCEPT !.left = @ \ {r}]
    <2>1. PICK k \in 0..MaxRun : job.left = 1..k
      BY <1>6 DEF ExamineRun, ReleaseTypeOK
    <2>2. CASE job.left # {}
      <3>1. r \in Run
        BY <2>1, <2>2, NewestLeft, ReleaseAssumption DEF Run
      <3> HIDE DEF r
      <3>2. next.pc = "runs" /\ [next EXCEPT !.pc = "releases", !.run = r].pc = "releases"
            /\ [next EXCEPT !.pc = "releases", !.run = r].run = r
        BY <1>1, <1>6 DEF ExamineRun, At, Job
      <3> HIDE DEF next
      <3>3. \/ job' = next
            \/ /\ job' = [next EXCEPT !.pc = "releases", !.run = r]
               /\ Published(r) \notin {"not-published", "conflict"}
            \/ JobEnds
        BY <1>6, <2>2 DEF ExamineRun, next, r, JobEnds
      <3>4. Published(r) \notin {"not-published", "conflict"} => npm[artifact[r].version] = r
        BY DEF Published
      <3> QED
        BY <1>3, <1>6, <3>1, <3>2, <3>3, <3>4 DEF ExamineRun
    <2>3. CASE job.left = {}
      BY <1>3, <1>6, <2>3 DEF ExamineRun, JobEnds
    <2> QED
      BY <2>2, <2>3
  <1>7. CASE ListReleases \/ AssertAssetSet \/ VerifyOrUpload
    <2>1. \/ JobEnds
          \/ job.pc \in Working /\ \E x : job' = [job EXCEPT !.pc = "tag", !.found = x]
          \/ job.pc \in Working /\ job' = [job EXCEPT !.pc = "files", !.files = File]
          \/ job.pc \in Working /\ \E x : job' = [job EXCEPT !.files = x]
      BY <1>7 DEF ListReleases, AssertAssetSet, VerifyOrUpload, At, JobEnds, Working, Checking
    <2> QED
      BY <1>1, <1>3, <2>1 DEF Job, Working, Checking
  <1>8. CASE ResolveTag \/ CreateDraft \/ VerifyAll \/ PublishDraft \/ VerifyTag \/ PublishExtension \/ JobFails
    <2>1. JobEnds \/ (job.pc \in Working /\ \E pc \in Working : Go(pc))
      <3> DEFINE next == IF job.found = "none" THEN "create" ELSE "assets"
      <3>1. /\ {"create", "assets", "upload", "poll", "submit", "status", "publish", "verify"} \subseteq Working
            /\ next \in Working /\ {"tag", "files"} \subseteq Working
        BY DEF Working, Checking, Submitting
      <3>2. CASE ResolveTag
        <4>1. (Throw \/ Go(next)) /\ job.pc = "tag"
          BY <3>2 DEF ResolveTag, At
        <4> HIDE DEF next
        <4> QED
          BY <3>1, <4>1 DEF JobEnds
      <3>3. CASE VerifyAll
        BY <3>1, <3>3 DEF VerifyAll, At, JobEnds
      <3>4. CASE CreateDraft \/ PublishDraft \/ VerifyTag
        BY <3>1, <3>4 DEF CreateDraft, PublishDraft, VerifyTag, At, JobEnds
      <3>5. CASE FetchStatus
        BY <3>1, <3>5 DEF FetchStatus, Decide, At, JobEnds
      <3>6. CASE Poll
        BY <3>1, <3>6 DEF Poll, Decide, At, JobEnds
      <3>7. CASE Upload
        BY <3>1, <3>7 DEF Upload, At
      <3>8. CASE Submit
        BY <3>1, <3>8 DEF Submit, At, JobEnds
      <3>9. CASE JobFails
        BY <3>9 DEF JobFails, JobEnds
      <3> QED
        BY <1>8, <3>2, <3>3, <3>4, <3>5, <3>6, <3>7, <3>8, <3>9 DEF PublishExtension
    <2> QED
      BY <1>3, <1>4, <2>1
  <1> QED
    BY <1>2, <1>5, <1>6, <1>7, <1>8 DEF ReleaseNext, Finalize, Approve, UploadEnds, Review, Interfere, releaseVars

(* Where the steps that write the release, and those that end a search, lead. *)
LEMMA OtherPlaces ==
  ASSUME ReleaseTypeOK, [ReleaseNext]_releaseVars, job'.pc \in Submitting \cup {"publish", "verify"}
  PROVE  \/ UNCHANGED job
         \/ FetchStatus \/ Poll \/ Upload \/ Submit \/ PublishDraft
  <1> USE DEF Submitting
  <1>1. job \in Job
    BY DEF ReleaseTypeOK
  <1>2. ~ JobEnds
    BY EndType DEF JobEnds, ReleaseTypeOK
  <1>3. ~ StartJob
    BY DEF StartJob, Idle
  <1>4. ~ ExamineRun
    <2> DEFINE r == Max(job.left)
               next == [job EXCEPT !.left = @ \ {r}]
    <2>1. At("runs") => next.pc = "runs" /\ [next EXCEPT !.pc = "releases", !.run = r].pc = "releases"
      BY <1>1 DEF At, Job
    <2> HIDE DEF r
    <2>2. ExamineRun => \/ job' = next
                        \/ job' = [next EXCEPT !.pc = "releases", !.run = r]
                        \/ JobEnds
      BY DEF ExamineRun, JobEnds, r
    <2> QED
      BY <1>2, <2>1, <2>2 DEF ExamineRun
  <1>5. ~ (ListReleases \/ AssertAssetSet \/ VerifyOrUpload)
    <2>1. ListReleases \/ AssertAssetSet \/ VerifyOrUpload =>
            \/ JobEnds
            \/ \E x : job' = [job EXCEPT !.pc = "tag", !.found = x]
            \/ job' = [job EXCEPT !.pc = "files", !.files = File]
            \/ job.pc = "files" /\ \E x : job' = [job EXCEPT !.files = x]
      BY DEF ListReleases, AssertAssetSet, VerifyOrUpload, At, JobEnds
    <2> QED
      BY <1>1, <1>2, <2>1 DEF Job
  <1>6. ~ (CreateDraft \/ VerifyAll \/ VerifyTag \/ JobFails)
    <2>1. CreateDraft \/ VerifyAll \/ VerifyTag \/ JobFails => JobEnds \/ Go("assets") \/ Go("status")
      BY DEF CreateDraft, VerifyAll, VerifyTag, JobFails, JobEnds
    <2> QED
      BY <1>1, <1>2, <2>1, GoType DEF Working, Checking
  <1>7. ~ ResolveTag
    <2> DEFINE next == IF job.found = "none" THEN "create" ELSE "assets"
    <2>1. ResolveTag => JobEnds \/ Go(next)
      BY DEF ResolveTag, JobEnds
    <2>2. next \in {"create", "assets"}
      OBVIOUS
    <2> HIDE DEF next
    <2> QED
      BY <1>1, <1>2, <2>1, <2>2, GoType DEF Working, Checking
  <1> QED
    BY <1>3, <1>4, <1>5, <1>6, <1>7
       DEF ReleaseNext, Finalize, PublishExtension, Approve, UploadEnds, Review, Interfere, releaseVars

(* While a job waits, only the world acts on the store.                      *)
LEMMA OnlyWorld ==
  ASSUME ReleaseTypeOK, [ReleaseNext]_releaseVars, UNCHANGED job, job.pc \in Submitting
  PROVE  UploadEnds \/ Review \/ Interfere \/ UNCHANGED store
  <1>1. Upload \/ Submit => FALSE
    <2>1. Upload \/ Submit => \/ At("upload") /\ (Go("submit") \/ Go("poll"))
                              \/ At("submit") /\ (Go("publish") \/ Throw)
      BY DEF Upload, Submit
    <2>2. job \in Job
      BY DEF ReleaseTypeOK
    <2> QED
      BY <2>1, <2>2, GoType, IdleType DEF At, Throw, Working, Submitting
  <1> QED
    BY <1>1
       DEF ReleaseNext, Finalize, PublishExtension, StartJob, ExamineRun, ListReleases, ResolveTag,
           AssertAssetSet, VerifyAll, VerifyTag, FetchStatus, Poll, JobFails, Reads, CreateDraft,
           VerifyOrUpload, PublishDraft, Approve, releaseVars

LEMMA SameCandidate ==
  ASSUME ReleaseTypeOK, ReleaseInv, KeptWhole, job.pc \in Working, job'.run = job.run
  PROVE  v' = v /\ target' = target /\ npm'[v] = npm[v]
  BY CandidateType DEF KeptWhole, v, target

-----------------------------------------------------------------------------
(* A job submits only what is newer than all the store has seen.             *)
LEMMA Undecided ==
  ASSUME ReleaseTypeOK, StoreInv, target \in Version, ~ Refused(target), ~ Completed(target)
  PROVE  /\ store.published < target
         /\ store.submitted.version < target
         /\ store.submitted.state \notin {"PENDING_REVIEW", "STAGED"}
  <1>1. target \in Nat /\ target # NoVersion
    BY DEF Version, NoVersion
  <1>2. ~ store.warned /\ ~ SubmissionRefuses(target) /\ store.published < target
    BY <1>1, ItemType DEF Refused
  <1>3. store.submitted.version # target
    BY <1>1, <1>2, ItemType DEF SubmissionRefuses, Completed, StoreInv, Submission
  <1> QED
    BY <1>1, <1>2, <1>3, ItemType DEF SubmissionRefuses

LEMMA DecidedInStore ==
  ASSUME ReleaseTypeOK, StoreInv, target \in Version, Completed(target)
  PROVE  target \in accepted \/ target <= store.published
  <1>1. CASE store.submitted.version = target
    BY <1>1, ItemType DEF Completed, StoreInv, Submission
  <1>2. CASE store.submitted.version # target
    BY <1>2, ItemType DEF Completed, Version
  <1> QED
    BY <1>1, <1>2

LEMMA SubmitInvNext ==
  ASSUME ReleaseTypeOK, StoreInv, SubmitInv, ReleaseInv, [ReleaseNext]_releaseVars
  PROVE  SubmitInv'
  <1>1. CASE job'.pc \notin Submitting \cup {"publish", "verify"}
    BY <1>1 DEF SubmitInv, At, Submitting
  <1>2. CASE job'.pc \in Submitting \cup {"publish", "verify"}
    <2>1. job \in Job /\ job.pc \in Working /\ job'.run = job.run
      BY <1>2, JobSteps DEF Submitting, ReleaseTypeOK
    <2>2. target' = target /\ target \in Version /\ target \in Nat /\ KeptWhole
      BY <2>1, SameCandidate, CandidateType, NextKeeps DEF Version
    <2>3. store'.published \in Nat /\ store.published \in Nat
      BY ItemType, ReleaseTypeNext DEF ReleaseTypeOK, Item, Versions, Version, NoVersion
    <2>4. CASE UNCHANGED job
      <3>1. CASE job.pc \in Submitting
        <4>1. store'.submitted = store.submitted /\ store'.published = store.published
          BY <2>4, <3>1, StoreSteps DEF SubmitInv, Submit, Go, At, ReleaseTypeOK, Job
        <4>2. \/ /\ store'.upload = store.upload /\ store'.uploading = store.uploading
                 /\ store'.package = store.package
              \/ /\ store.upload = "IN_PROGRESS" /\ store'.upload = "SUCCEEDED"
                 /\ store'.package = store.uploading
              \/ /\ store.upload = "IN_PROGRESS" /\ store'.upload = "FAILED"
          <5>1. CASE UploadEnds
            BY <5>1, ItemType DEF UploadEnds, Item
          <5>2. CASE Review
            BY <5>2, <3>1, StoreSteps DEF SubmitInv, Review
          <5>3. CASE Interfere
            BY <5>3, Interferes
          <5>4. CASE UNCHANGED store
            BY <5>4
          <5> QED
            BY <2>4, <3>1, <5>1, <5>2, <5>3, <5>4, OnlyWorld
        <4> QED
          BY <2>2, <2>4, <3>1, <4>1, <4>2 DEF SubmitInv, At, Submitting
      <3>2. CASE job.pc \in {"publish", "verify"}
        BY <2>2, <2>3, <2>4, <3>2 DEF SubmitInv, At, Submitting, KeptWhole
      <3> QED
        BY <1>2, <2>4, <3>1, <3>2
    <2>5. CASE FetchStatus \/ Poll
      <3>1. UNCHANGED <<store, accepted>> /\ ~ Refused(target)
        BY <1>2, <2>5, EndType DEF FetchStatus, Poll, Reads, Decide, Submitting, ReleaseTypeOK
      <3>2. CASE Completed(target)
        <4>1. job'.pc = "publish"
          BY <2>1, <2>5, <3>1, <3>2, GoType DEF FetchStatus, Poll, Decide, Working
        <4> QED
          BY <2>2, <3>1, <3>2, <4>1, DecidedInStore DEF SubmitInv, At, Submitting
      <3>3. CASE ~ Completed(target)
        <4>1. \/ job'.pc = "upload"
              \/ job'.pc = "submit" /\ At("poll") /\ store.upload = "SUCCEEDED"
          BY <1>2, <2>1, <2>5, <3>1, <3>3, GoType, EndType DEF FetchStatus, Poll, Decide, Working, Submitting, ReleaseTypeOK
        <4> QED
          BY <2>2, <3>1, <3>3, <4>1, Undecided DEF SubmitInv, At, Submitting
      <3> QED
        BY <3>2, <3>3
    <2>6. CASE Upload
      <3>1. /\ store'.submitted = store.submitted /\ store'.published = store.published
            /\ \/ job'.pc = "submit" /\ store'.upload = "SUCCEEDED" /\ store'.package = target
               \/ job'.pc = "poll" /\ store'.upload = "IN_PROGRESS" /\ store'.uploading = target
        BY <2>1, <2>6, ItemType, GoType DEF Upload, Item, Working, Submitting
      <3> QED
        BY <2>2, <2>6, <3>1 DEF Upload, SubmitInv, At, Submitting
    <2>7. CASE Submit
      <3>1. job'.pc = "publish" /\ target \in accepted'
        BY <1>2, <2>1, <2>7, GoType, EndType DEF Submit, SubmitInv, At, Working, Submitting, ReleaseTypeOK
      <3> QED
        BY <2>2, <3>1 DEF SubmitInv, At, Submitting
    <2>8. CASE PublishDraft
      BY <2>1, <2>2, <2>8, GoType DEF PublishDraft, SubmitInv, At, Submitting, Working
    <2> QED
      BY <1>2, <2>1, <2>4, <2>5, <2>6, <2>7, <2>8, OtherPlaces
  <1> QED
    BY <1>1, <1>2

-----------------------------------------------------------------------------
(* Nobody but the job changes the state of a release.                        *)
LEMMA OnlyJobReleases ==
  ASSUME ReleaseTypeOK, [ReleaseNext]_releaseVars
  PROVE  \/ CreateDraft \/ VerifyOrUpload \/ PublishDraft
         \/ \A w \in Version : release'[w].state = release[w].state
  BY Interferes
     DEF ReleaseNext, Finalize, PublishExtension, StartJob, ExamineRun, ListReleases, ResolveTag,
         AssertAssetSet, VerifyAll, VerifyTag, FetchStatus, Upload, Poll, Submit, JobFails, Reads,
         Approve, UploadEnds, Review, releaseVars

LEMMA ReleaseInvNext ==
  ASSUME ReleaseTypeOK, StoreInv, SubmitInv, ReleaseInv, [ReleaseNext]_releaseVars
  PROVE  ReleaseInv'
  <1> USE DEF At, Working, Checking, Submitting
  <1>1. CASE job'.pc \in {"idle", "runs"}
    BY <1>1 DEF ReleaseInv
  <1>2. CASE /\ job.pc = "runs" /\ ExamineRun /\ job'.pc = "releases"
             /\ job'.run \in Run /\ npm[artifact[job'.run].version] = job'.run
    BY <1>2 DEF ReleaseInv, ExamineRun, Reads, v
  <1>3. CASE job.pc \in Working /\ job'.pc \in Working /\ job'.run = job.run
    <2>1. /\ job \in Job /\ KeptWhole /\ v' = v /\ v \in Version /\ job.run \in Run /\ job.run # NoRun
          /\ npm'[v'] = job'.run /\ release[v] \in GitHubRelease
      BY <1>3, NextKeeps, SameCandidate, CandidateType DEF ReleaseTypeOK
    <2>2. /\ release[v].state = "public" => release'[v].state = "public"
          /\ tag[v] = job.run => tag'[v] = job.run
          /\ \A f \in File : release[v].files[f] = job.run => release'[v].files[f] = job.run
      BY <2>1 DEF KeptWhole
    <2>3. ~ JobEnds
      BY <1>3, EndType DEF JobEnds, ReleaseTypeOK
    <2>4. CASE UNCHANGED job
      <3>1. CASE job.pc \in {"tag", "create"}
        <4>1. release'[v].state = release[v].state
          BY <2>1, <2>4, <3>1, OnlyJobReleases DEF CreateDraft, VerifyOrUpload, PublishDraft, Go, Job
        <4> QED
          BY <1>3, <2>1, <2>4, <3>1, <4>1 DEF ReleaseInv
      <3>2. CASE job.pc \notin {"tag", "create"}
        BY <1>3, <2>1, <2>2, <2>4, <3>2 DEF ReleaseInv, IsOurs
      <3> QED
        BY <3>1, <3>2
    <2>5. CASE ListReleases
      <3>1. job' = [job EXCEPT !.pc = "tag", !.found = release[v].state] /\ UNCHANGED <<release, tag>>
        BY <2>3, <2>5 DEF ListReleases, JobEnds, Reads
      <3> QED
        BY <1>3, <2>1, <3>1 DEF ReleaseInv, Job
    <2>6. CASE ResolveTag
      <3> DEFINE next == IF job.found = "none" THEN "create" ELSE "assets"
      <3>1. Go(next) /\ UNCHANGED <<release, tag>> /\ ~ TagConflicts /\ job.pc = "tag"
        BY <2>3, <2>6 DEF ResolveTag, JobEnds, Reads
      <3>2. job'.pc = next /\ job'.found = job.found
        BY <2>1, <3>1, GoType
      <3> QED
        BY <1>3, <2>1, <3>1, <3>2 DEF ReleaseInv, TagConflicts
    <2>7. CASE CreateDraft
      <3>1. job'.pc = "assets" /\ job'.found = "none"
        BY <2>1, <2>7, GoType DEF CreateDraft, ReleaseInv
      <3> QED
        BY <1>3, <2>1, <3>1 DEF ReleaseInv
    <2>8. CASE AssertAssetSet
      <3>1. job' = [job EXCEPT !.pc = "files", !.files = File] /\ UNCHANGED <<release, tag>>
            /\ job.pc = "assets"
        BY <2>3, <2>8 DEF AssertAssetSet, JobEnds, Reads
      <3>2. job'.pc = "files" /\ job'.files = File /\ job'.found = job.found
        BY <2>1, <3>1 DEF Job
      <3> QED
        BY <1>3, <2>1, <3>1, <3>2 DEF ReleaseInv
    <2>9. CASE VerifyOrUpload
      <3>1. PICK f \in job.files :
              /\ release' = IF release[v].files[f] = NoRun /\ job.found # "public"
                            THEN [release EXCEPT ![v].files[f] = job.run] ELSE release
              /\ Resumes(f) \/ (release[v].files[f] = NoRun /\ job.found # "public")
              /\ job' = [job EXCEPT !.files = @ \ {f}]
        BY <2>3, <2>9 DEF VerifyOrUpload, JobEnds
      <3>2. job.pc = "files" /\ job'.pc = "files" /\ job'.found = job.found /\ job'.files = job.files \ {f}
            /\ f \in File
        BY <2>1, <2>9, <3>1 DEF VerifyOrUpload, Job
      <3>3. release'[v].files[f] = job.run
        <4>1. CASE Resumes(f)
          BY <2>2, <3>2, <4>1 DEF Resumes, IsOurs
        <4>2. CASE release[v].files[f] = NoRun /\ job.found # "public"
          BY <2>1, <3>1, <3>2, <4>2 DEF ReleaseTypeOK, GitHubRelease
        <4> QED
          BY <3>1, <4>1, <4>2
      <3> QED
        BY <1>3, <2>1, <2>2, <3>2, <3>3 DEF ReleaseInv, IsOurs
    <2>10. CASE VerifyAll
      <3>1. Go("status") /\ UNCHANGED <<release, tag>> /\ \A f \in File : IsOurs(f)
        BY <2>3, <2>10 DEF VerifyAll, JobEnds, Reads
      <3>2. job'.pc = "status"
        BY <2>1, <3>1, GoType
      <3> QED
        BY <1>3, <2>1, <3>1, <3>2 DEF ReleaseInv, IsOurs
    <2>11. CASE PublishDraft
      <3>1. job'.pc = "verify" /\ job.pc = "publish"
        BY <2>1, <2>11, GoType DEF PublishDraft
      <3>2. release'[v].state = "public"
        BY <2>1, <2>11 DEF PublishDraft, ReleaseTypeOK, GitHubRelease
      <3> QED
        BY <1>3, <2>1, <2>2, <3>1, <3>2 DEF ReleaseInv, IsOurs
    <2>12. CASE PublishExtension
      <3>1. /\ job.pc \in {"status", "upload", "poll", "submit"}
            /\ job'.pc \in {"upload", "poll", "submit", "publish"}
        BY <2>1, <2>3, <2>12, GoType DEF PublishExtension, FetchStatus, Upload, Poll, Submit, Decide, JobEnds
      <3> QED
        BY <1>3, <2>1, <2>2, <3>1 DEF ReleaseInv, IsOurs
    <2> QED
      BY <1>3, <2>3, <2>4, <2>5, <2>6, <2>7, <2>8, <2>9, <2>10, <2>11, <2>12
         DEF ReleaseNext, Finalize, StartJob, ExamineRun, VerifyTag, JobFails, JobEnds, Approve, UploadEnds, Review,
             Interfere, releaseVars
  <1> QED
    BY <1>1, <1>2, <1>3, JobSteps

-----------------------------------------------------------------------------
(* A report is made of a release that is whole, and what makes it whole is    *)
(* never taken back.                                                        *)
LEMMA ReportedNext ==
  ASSUME ReleaseTypeOK, StoreInv, SubmitInv, ReleaseInv, ReportsARun, ReportedReleaseIsWhole, [ReleaseNext]_releaseVars
  PROVE  ReportsARun' /\ ReportedReleaseIsWhole'
  <1>1. ReleaseTypeOK' /\ KeptWhole
    BY ReleaseTypeNext, NextKeeps
  <1>2. CASE UNCHANGED outcome
    <2> DEFINE r == outcome.run
               w == artifact[r].version
    <2>1. CASE outcome.status \in {"created", "no-op"}
      <3>1. /\ npm[w] = r /\ release[w].state = "public" /\ tag[w] = r
            /\ \A f \in File : release[w].files[f] = r
            /\ r \in Run
        BY <2>1 DEF ReportedReleaseIsWhole, ReportsARun
      <3>2. w \in Version /\ artifact'[r].version = w /\ r # NoRun
        BY <1>1, <3>1 DEF ReleaseTypeOK, Artifact, KeptWhole, Run, NoRun
      <3> QED
        BY <1>1, <1>2, <3>1, <3>2 DEF ReportedReleaseIsWhole, KeptWhole, ReportsARun
    <2>2. CASE outcome.status \notin {"created", "no-op"}
      BY <1>2, <2>2 DEF ReportedReleaseIsWhole, ReportsARun
    <2> QED
      BY <2>1, <2>2
  <1>3. CASE ExamineRun /\ Report("waiting")
    BY <1>3 DEF Report, ReportedReleaseIsWhole, ReportsARun
  <1>4. ASSUME job.pc \in Working, UNCHANGED <<artifact, npm, release, tag>>,
               release[v].state = "public", tag[v] = job.run, \A f \in File : IsOurs(f),
               Report("created") \/ Report("no-op")
        PROVE  ReportsARun' /\ ReportedReleaseIsWhole'
    <2>1. job.run \in Run /\ npm[v] = job.run /\ outcome'.run = job.run
      BY <1>4, CandidateType DEF Report
    <2> QED
      BY <1>4, <2>1 DEF ReportsARun, ReportedReleaseIsWhole, v, IsOurs
  <1>5. CASE VerifyAll /\ Report("no-op") /\ outcome' # outcome
    <2>1. job.found = "public" /\ (\A f \in File : IsOurs(f)) /\ job.pc = "files"
      BY <1>5 DEF VerifyAll, Throw, At
    <2> QED
      BY <1>4, <1>5, <2>1 DEF VerifyAll, Reads, ReleaseInv, Working, Checking, At
  <1>6. CASE VerifyTag /\ Report("created") /\ outcome' # outcome
    BY <1>4, <1>6 DEF VerifyTag, TagIsOurs, Reads, ReleaseInv, Working, Checking, At, Throw
  <1> QED
    BY <1>2, <1>3, <1>5, <1>6
       DEF ReleaseNext, Finalize, PublishExtension, StartJob, ExamineRun, ListReleases, ResolveTag, CreateDraft,
           AssertAssetSet, VerifyOrUpload, VerifyAll, PublishDraft, VerifyTag, FetchStatus, Upload, Poll,
           Submit, Decide, JobFails, Throw, Approve, UploadEnds, Review, Interfere, releaseVars

(* A release becomes public after its extension is in the store, and that     *)
(* stays so too.                                                            *)
LEMMA PublicNext ==
  ASSUME ReleaseTypeOK, StoreInv, SubmitInv, ReleaseInv, PublicIsInStore, [ReleaseNext]_releaseVars
  PROVE  PublicIsInStore'
  <1>1. ReleaseTypeOK' /\ KeptWhole /\ \A w \in Version : npm[w] \in Runs
    BY ReleaseTypeNext, NextKeeps DEF ReleaseTypeOK
  <1>2. store.published \in Nat /\ store'.published \in Nat
    BY <1>1, ItemType DEF ReleaseTypeOK, Item, Versions, Version, NoVersion
  <1>3. ASSUME NEW w \in Version, npm[w] # NoRun,
               artifact[npm[w]].extension \in accepted \/ artifact[npm[w]].extension <= store.published
        PROVE  /\ npm'[w] # NoRun
               /\ \/ artifact'[npm'[w]].extension \in accepted'
                  \/ artifact'[npm'[w]].extension <= store'.published
    <2>1. npm'[w] = npm[w] /\ npm[w] \in Run
      BY <1>1, <1>3 DEF KeptWhole, Runs
    <2>2. artifact'[npm[w]].extension = artifact[npm[w]].extension /\ artifact[npm[w]].extension \in Nat
      BY <1>1, <2>1 DEF KeptWhole, ReleaseTypeOK, Artifact, Version
    <2> QED
      BY <1>1, <1>2, <1>3, <2>1, <2>2 DEF KeptWhole
  <1>4. CASE PublishDraft
    <2>1. /\ job.pc \in Working /\ (target \in accepted \/ target <= store.published)
          /\ \A w \in Version : w # v => release'[w].state = release[w].state
      BY <1>4 DEF PublishDraft, SubmitInv, At, Working, ReleaseTypeOK, GitHubRelease
    <2>2. npm[v] = job.run /\ job.run # NoRun /\ v \in Version
      BY <1>4, CandidateType DEF PublishDraft, At, Working
    <2> QED
      BY <1>3, <2>1, <2>2 DEF PublicIsInStore, target
  <1>5. CASE CreateDraft \/ VerifyOrUpload
    <2>1. job.pc \in Working
      BY <1>5 DEF CreateDraft, VerifyOrUpload, At, Working, Checking
    <2>2. v \in Version /\ release \in [Version -> GitHubRelease]
      BY <2>1, CandidateType DEF ReleaseTypeOK
    <2>3. \A w \in Version : release'[w].state = "public" => release[w].state = "public"
      <3>1. CASE CreateDraft
        BY <2>2, <3>1 DEF CreateDraft, GitHubRelease
      <3>2. CASE VerifyOrUpload
        <4>1. PICK f \in job.files : \/ release' = [release EXCEPT ![v].files[f] = job.run]
                                     \/ release' = release
          BY <3>2 DEF VerifyOrUpload
        <4> QED
          BY <2>2, <4>1 DEF GitHubRelease
      <3> QED
        BY <1>5, <3>1, <3>2
    <2> QED
      BY <1>3, <2>3 DEF PublicIsInStore
  <1> QED
    BY <1>3, <1>4, <1>5, OnlyJobReleases DEF PublicIsInStore

-----------------------------------------------------------------------------
ReleasesInv ==
  /\ ReleaseTypeOK /\ StoreInv /\ SubmitInv /\ ReleaseInv
  /\ ReportsARun /\ ReportedReleaseIsWhole /\ PublicIsInStore

LEMMA ReleasesInvInit == ReleaseInit => ReleasesInv
  <1> SUFFICES ASSUME ReleaseInit PROVE ReleasesInv
    OBVIOUS
  <1>1. ReleaseTypeOK
    BY TypeInit
  <1>2. StoreInv
    BY <1>1, ItemType DEF ReleaseInit, StoreInv, NoSubmission, NoVersion
  <1>3. SubmitInv /\ ReleaseInv
    BY DEF ReleaseInit, SubmitInv, ReleaseInv, Idle, At, Working, Checking, Submitting
  <1>4. ReportsARun /\ ReportedReleaseIsWhole /\ PublicIsInStore
    BY DEF ReleaseInit, ReportsARun, ReportedReleaseIsWhole, PublicIsInStore, NoRelease
  <1> QED
    BY <1>1, <1>2, <1>3, <1>4 DEF ReleasesInv

LEMMA ReleasesInvNext == ReleasesInv /\ [ReleaseNext]_releaseVars => ReleasesInv'
  BY ReleaseTypeNext, StoreInvNext, SubmitInvNext, ReleaseInvNext, ReportedNext, PublicNext DEF ReleasesInv

(* Whatever is lost, repeated or done by a maintainer between a job's         *)
(* requests: a release it reported is public, tagged and filled with the     *)
(* files of the candidate that npm serves, and stays so.                    *)
THEOREM ReportsAreTrue == ReleaseSpec => []ReportedReleaseIsWhole
  <1>1. ReleasesInv => ReportedReleaseIsWhole
    BY DEF ReleasesInv
  <1> QED
    BY <1>1, ReleasesInvInit, ReleasesInvNext, PTL DEF ReleaseSpec

(* No release is public before the store has its extension, or was asked to    *)
(* review it: the draft is published last.                                  *)
THEOREM StoreComesFirst == ReleaseSpec => []PublicIsInStore
  <1>1. ReleasesInv => PublicIsInStore
    BY DEF ReleasesInv
  <1> QED
    BY <1>1, ReleasesInvInit, ReleasesInvNext, PTL DEF ReleaseSpec

(* No job submits a version twice, nor an older one after a newer: the state   *)
(* read before the upload still holds at the submission.                    *)
THEOREM NothingIsSubmittedTwice == ReleaseSpec => SubmissionsAdvance
  <1>1. ASSUME ReleasesInv, [ReleaseNext]_releaseVars, store'.submitted.state = "PENDING_REVIEW",
               store'.submitted # store.submitted,
               NEW e \in accepted \cup {store.published}
        PROVE  store'.submitted.version > e
    <2>1. /\ store'.submitted = [state |-> "PENDING_REVIEW", version |-> target]
          /\ target \in Version /\ store.published < target /\ store.submitted.version < target
      BY <1>1, StoreSteps DEF ReleasesInv, NoSubmission
    <2>2. store.published \in Nat /\ store.submitted.version \in Nat /\ target \in Nat
          /\ \A k \in accepted : k \in Nat
      BY <1>1, <2>1, ItemType DEF ReleasesInv, ReleaseTypeOK, Version
    <2> QED
      BY <1>1, <2>1, <2>2 DEF ReleasesInv, StoreInv
  <1>2. ReleasesInv /\ [ReleaseNext]_releaseVars =>
          [store'.submitted.state = "PENDING_REVIEW" /\ store'.submitted # store.submitted =>
             \A e \in accepted \cup {store.published} : store'.submitted.version > e]_releaseVars
    BY <1>1
  <1> QED
    BY <1>2, ReleasesInvInit, ReleasesInvNext, PTL DEF ReleaseSpec, SubmissionsAdvance

-----------------------------------------------------------------------------
(***************************************************************************)
(* Hand-over, for every set of clients and builds and every number of      *)
(* relays: who may stop a relay, what a relay has finished when it closes, *)
(* and that a reported session survives.                                   *)
(***************************************************************************)
(* The relays that have taken the port; there is never more than one.        *)
Holding == {"listening", "draining", "flushing", "settling", "closing"}
RelayRecord ==
  [phase : Holding \cup {"none", "spawned"}, build : Build \cup {None}, managed : BOOLEAN,
   ready : BOOLEAN, session : BOOLEAN \cup {None}, dirty : BOOLEAN, background : BOOLEAN,
   cdp : BOOLEAN, askedBy : Client \cup {None}]

Want == {"new", "execute", "delete"}
ClientRecord ==
  [want : Want,
   pc : {"probe", "confirm", "shutdown", "waitExit", "start", "waitReady", "extension", "request",
         "accepted", "saving", "running", "done"},
   seen : Relay \cup {None}, started : BOOLEAN,
   outcome : {"none", "stale", "failed", "refused", "unchanged", "ok", "left", "unknown"}]

TypeOK ==
  /\ port \in Relay \cup {None}
  /\ relay \in [Relay -> RelayRecord]
  /\ catalog \in BOOLEAN
  /\ client \in [Client -> ClientRecord]
  /\ extension \in Relay \cup {None}
  /\ crashes \in Nat

-----------------------------------------------------------------------------
(* One relay has the port, from its listen to its end; before, it has done    *)
(* nothing.                                                                 *)
Fresh(q) ==
  /\ q.session = None /\ q.askedBy = None
  /\ ~ q.ready /\ ~ q.dirty /\ ~ q.background /\ ~ q.cdp
  /\ q.phase = "none" => ~ q.managed

PortInv ==
  \A r \in Relay : /\ relay[r].phase \in Holding <=> port = r
                   /\ relay[r].phase \notin Holding => Fresh(relay[r])

(* A relay is stopped by a client that has confirmed it, or the relay it      *)
(* confirmed is gone: no other takes its number while the client knows it.   *)
ClientInv ==
  \A c \in Client :
    /\ client[c].outcome # "none" => client[c].pc = "done"
    /\ Here(c) \/ client[c].pc \in {"confirm", "shutdown"} => client[c].seen \in Relay
    /\ client[c].pc = "shutdown" /\ relay[client[c].seen].managed => MayRestart(c, client[c].seen)

(* What a relay still has to do, by its phase.                               *)
WorkInv ==
  \A r \in Relay :
    /\ Accepted(r) # {} => relay[r].phase \in {"listening", "draining"} /\ relay[r].ready
    /\ relay[r].phase \in {"settling", "closing"} => ~ relay[r].background /\ ~ relay[r].dirty
    /\ relay[r].phase = "closing" => ~ relay[r].cdp

-----------------------------------------------------------------------------
Wanted(c) == client[c].want # "delete"

(* A request of the other kind that has changed the session, or may have.    *)
HadEffect(d) == client[d].outcome \in {"ok", "left", "unknown"} \/ client[d].pc \in {"saving", "running"}
Opposed(c) == \E d \in Client \ {c} : HadEffect(d) /\ Wanted(d) # Wanted(c)

(* The relay's session is the catalog's, unless it is still to be written or   *)
(* the last write has failed.                                               *)
CatalogInv ==
  \A r \in Relay :
    /\ relay[r].dirty \/ relay[r].ready => relay[r].session # None
    /\ relay[r].session # None /\ ~ relay[r].dirty /\ relay[r].phase \notin {"settling", "closing"}
         => relay[r].session = catalog

(* A request that changed the session and is not opposed is what the session  *)
(* is, in the relay until it is answered and on disk afterwards.             *)
SessionInv ==
  \A c \in Client : ~ Opposed(c) =>
    /\ client[c].pc \in {"saving", "running"} => relay[client[c].seen].session = Wanted(c)
    /\ ToldOf(c) => /\ catalog = Wanted(c)
                    /\ \A r \in Relay : relay[r].session \in {None, Wanted(c)}

RelayInv == TypeOK /\ PortInv /\ ClientInv /\ OnlyOlderRelaysStop /\ WorkInv /\ CatalogInv /\ SessionInv

-----------------------------------------------------------------------------
(* How a client's record changes.                                            *)
Moved(c) ==
  /\ client' = [client EXCEPT ![c] = client'[c]]
  /\ client'[c] \in ClientRecord /\ client'[c].want = client[c].want

LEMMA BecomesMoves ==
  ASSUME TypeOK, NEW c \in Client, NEW pc, Becomes(c, pc),
         pc \in {"waitExit", "waitReady", "extension", "request", "shutdown", "saving", "running"}
  PROVE  /\ Moved(c) /\ client'[c].pc = pc
         /\ client'[c].seen = client[c].seen /\ client'[c].outcome = client[c].outcome
  <1> DEFINE n == [client[c] EXCEPT !.pc = pc]
  <1>1. n \in ClientRecord /\ n.want = client[c].want /\ n.pc = pc
        /\ n.seen = client[c].seen /\ n.outcome = client[c].outcome
    BY DEF TypeOK, ClientRecord
  <1>2. client' = [client EXCEPT ![c] = n]
    BY DEF Becomes
  <1> HIDE DEF n
  <1> QED
    BY <1>1, <1>2 DEF Moved, TypeOK

LEMMA StartsMoves ==
  ASSUME TypeOK, NEW c \in Client, Starts(c)
  PROVE  Moved(c) /\ client'[c].pc = "start" /\ client'[c].outcome = client[c].outcome
  <1> DEFINE n == [client[c] EXCEPT !.pc = "start", !.seen = None]
  <1>1. n \in ClientRecord /\ n.want = client[c].want /\ n.pc = "start" /\ n.outcome = client[c].outcome
    BY DEF TypeOK, ClientRecord
  <1>2. client' = [client EXCEPT ![c] = n]
    BY DEF Starts
  <1> HIDE DEF n
  <1> QED
    BY <1>1, <1>2 DEF Moved, TypeOK

LEMMA EndedType ==
  ASSUME NEW want \in Want,
         NEW result \in {"stale", "failed", "refused", "unchanged", "ok", "left", "unknown"}
  PROVE  /\ Ended(want, result) \in ClientRecord /\ Ended(want, result).want = want
         /\ Ended(want, result).pc = "done" /\ Ended(want, result).outcome = result
  BY DEF Ended, NewClient, ClientRecord

LEMMA EndsMoves ==
  ASSUME TypeOK, NEW c \in Client, NEW result, Ends(c, result),
         result \in {"stale", "failed", "refused", "unchanged", "ok", "left"}
  PROVE  Moved(c) /\ client'[c].pc = "done" /\ client'[c].outcome = result
  <1>1. client[c].want \in Want
    BY DEF TypeOK, ClientRecord
  <1>2. client' = [client EXCEPT ![c] = Ended(client[c].want, result)]
    BY DEF Ends
  <1> QED
    BY <1>1, <1>2, EndedType DEF Moved, TypeOK

(* A step of a client outside its request: it leads to no request, and to a   *)
(* shutdown only after a confirmation.                                      *)
Outside(c) ==
  /\ Moved(c) /\ ~ Here(c) /\ client[c].pc # "done"
  /\ client'[c].pc \notin {"accepted", "saving", "running"}
  /\ client'[c].outcome \in {"none", "stale", "failed", "refused"}
  /\ client'[c].outcome # "none" => client'[c].pc = "done"
  /\ client'[c].pc = "confirm" => client'[c].seen \in Relay
  /\ client'[c].pc = "shutdown" => /\ client'[c].seen \in Relay /\ MayRestart(c, client'[c].seen)
                                   /\ UNCHANGED relay

LEMMA BecomesOutside ==
  ASSUME TypeOK, ClientInv, NEW c \in Client, ~ Here(c), client[c].pc # "done",
         \/ \E pc \in {"waitExit", "waitReady", "extension", "request"} : Becomes(c, pc)
         \/ Starts(c)
         \/ \E result \in {"stale", "failed", "refused"} : Ends(c, result)
  PROVE  Outside(c)
  <1>1. client[c].outcome = "none"
    BY DEF ClientInv
  <1>2. CASE \E pc \in {"waitExit", "waitReady", "extension", "request"} : Becomes(c, pc)
    BY <1>1, <1>2, BecomesMoves DEF Outside
  <1>3. CASE Starts(c)
    BY <1>1, <1>3, StartsMoves DEF Outside
  <1>4. CASE \E result \in {"stale", "failed", "refused"} : Ends(c, result)
    BY <1>4, EndsMoves DEF Outside
  <1> QED
    BY <1>2, <1>3, <1>4

LEMMA EnsuredOutside ==
  ASSUME TypeOK, ClientInv, NEW c \in Client, ~ Here(c), client[c].pc # "done", NEW r, Ensured(c, r)
  PROVE  Outside(c)
  <1>1. CASE client[c].want = "execute"
    BY <1>1, BecomesOutside DEF Ensured
  <1>2. CASE client[c].want # "execute"
    BY <1>2, BecomesOutside DEF Ensured
  <1> QED
    BY <1>1, <1>2

LEMMA OutsideSteps ==
  ASSUME TypeOK, ClientInv, NEW c \in Client,
         \/ Probe(c) \/ Confirm(c) \/ Shutdown(c) \/ WaitForExit(c) \/ Start(c)
         \/ WaitForReady(c) \/ CheckExtension(c) \/ GivesUp(c)
         \/ Request(c) /\ client'[c].pc # "accepted"
  PROVE  Outside(c)
  <1> USE DEF Here
  <1>1. CASE Probe(c)
    <2>1. ASSUME client' = [client EXCEPT ![c].pc = "confirm", ![c].seen = port], Reached = "served"
          PROVE  Outside(c)
      <3> DEFINE n == [client[c] EXCEPT !.pc = "confirm", !.seen = port]
      <3>1. port \in Relay
        BY <2>1 DEF Reached, TypeOK
      <3>2. n \in ClientRecord /\ n.want = client[c].want /\ n.pc = "confirm" /\ n.seen = port
            /\ n.outcome = client[c].outcome
        BY <3>1 DEF TypeOK, ClientRecord
      <3>3. client' = [client EXCEPT ![c] = n]
        BY <2>1
      <3>4. client[c].outcome = "none"
        BY <1>1 DEF Probe, ClientInv
      <3> HIDE DEF n
      <3> QED
        BY <1>1, <3>1, <3>2, <3>3, <3>4 DEF Probe, Outside, Moved, TypeOK
    <2> QED
      BY <1>1, <2>1, BecomesOutside, EnsuredOutside DEF Probe
  <1>2. CASE Confirm(c)
    <2>1. CASE Becomes(c, "shutdown") /\ MayRestart(c, port) /\ port = client[c].seen
      <3>1. Moved(c) /\ client'[c].pc = "shutdown" /\ client'[c].seen = port /\ client'[c].outcome = client[c].outcome
        BY <2>1, BecomesMoves
      <3>2. client[c].outcome = "none" /\ port \in Relay
        BY <1>2, <2>1 DEF Confirm, ClientInv
      <3> QED
        BY <1>2, <2>1, <3>1, <3>2 DEF Confirm, Outside
    <2> QED
      BY <1>2, <2>1, BecomesOutside, EnsuredOutside DEF Confirm
  <1>3. CASE Shutdown(c) \/ WaitForExit(c) \/ WaitForReady(c) \/ CheckExtension(c) \/ GivesUp(c)
    BY <1>3, BecomesOutside, EnsuredOutside DEF Shutdown, WaitForExit, WaitForReady, CheckExtension, GivesUp
  <1>4. CASE Start(c)
    <2> DEFINE n == [client[c] EXCEPT !.pc = "waitReady", !.started = TRUE]
    <2>1. n \in ClientRecord /\ n.want = client[c].want /\ n.pc = "waitReady"
          /\ n.outcome = client[c].outcome
      BY DEF TypeOK, ClientRecord
    <2>2. client' = [client EXCEPT ![c] = n]
      BY <1>4 DEF Start
    <2>3. client[c].outcome = "none"
      BY <1>4 DEF Start, ClientInv
    <2> HIDE DEF n
    <2> QED
      BY <1>4, <2>1, <2>2, <2>3 DEF Start, Outside, Moved, TypeOK
  <1>5. CASE Request(c) /\ client'[c].pc # "accepted"
    <2>1. client[c] \in ClientRecord
      BY DEF TypeOK
    <2>2. client' # [client EXCEPT ![c].pc = "accepted", ![c].seen = port]
      BY <1>5, <2>1 DEF TypeOK, ClientRecord
    <2> QED
      BY <1>5, <2>2, BecomesOutside DEF Request
  <1> QED
    BY <1>1, <1>2, <1>3, <1>4, <1>5

-----------------------------------------------------------------------------
(* How a relay's record changes: in one field, or as a whole.                *)
Replaced(r, q) == relay' = [relay EXCEPT ![r] = q]

LEMMA FieldsType ==
  ASSUME NEW q \in RelayRecord
  PROVE  /\ \A x \in Holding \cup {"none", "spawned"} : [q EXCEPT !.phase = x] \in RelayRecord
         /\ \A x \in BOOLEAN \cup {None} : [q EXCEPT !.session = x] \in RelayRecord
         /\ \A x \in BOOLEAN : /\ [q EXCEPT !.ready = x] \in RelayRecord
                               /\ [q EXCEPT !.dirty = x] \in RelayRecord
                               /\ [q EXCEPT !.background = x] \in RelayRecord
                               /\ [q EXCEPT !.cdp = x] \in RelayRecord
         /\ \A x \in Client : [q EXCEPT !.askedBy = x] \in RelayRecord
         /\ NotStarted \in RelayRecord
  BY DEF RelayRecord, NotStarted, Holding

LEMMA ReplacedType ==
  ASSUME TypeOK, NEW r \in Relay, NEW q \in RelayRecord, Replaced(r, q)
  PROVE  /\ relay' \in [Relay -> RelayRecord] /\ relay'[r] = q
         /\ \A k \in Relay \ {r} : relay'[k] = relay[k]
  BY DEF TypeOK, Replaced

LEMMA SpawnReplaces ==
  ASSUME TypeOK, NEW b \in Build, NEW managed \in BOOLEAN, NEW r \in Relay, Spawn(b, managed, r)
  PROVE  /\ relay[r].phase = "none" /\ \A c \in Client : client[c].seen # r
         /\ \E q \in RelayRecord :
              /\ Replaced(r, q)
              /\ q.phase = "spawned" /\ q.build = b /\ q.managed = managed
              /\ q.ready = relay[r].ready /\ q.session = relay[r].session /\ q.dirty = relay[r].dirty
              /\ q.background = relay[r].background /\ q.cdp = relay[r].cdp /\ q.askedBy = relay[r].askedBy
  <1> DEFINE q == [relay[r] EXCEPT !.phase = "spawned", !.build = b, !.managed = managed]
  <1>1. relay[r] \in RelayRecord
    BY DEF TypeOK
  <1>2. /\ q \in RelayRecord
        /\ q.phase = "spawned" /\ q.build = b /\ q.managed = managed
        /\ q.ready = relay[r].ready /\ q.session = relay[r].session /\ q.dirty = relay[r].dirty
        /\ q.background = relay[r].background /\ q.cdp = relay[r].cdp /\ q.askedBy = relay[r].askedBy
    BY <1>1 DEF RelayRecord, Holding
  <1>3. Replaced(r, q)
    BY DEF Spawn, Replaced
  <1> HIDE DEF q
  <1> QED
    BY <1>2, <1>3 DEF Spawn, Unused

(* The steps on one relay, and what each does to its record.                 *)
Asks(r, c) == relay[r].managed /\ MayRestart(c, r) /\ Replaced(r, [relay[r] EXCEPT !.askedBy = c])

LEMMA ShutdownReplaces ==
  ASSUME TypeOK, ClientInv, NEW c \in Client, Shutdown(c)
  PROVE  UNCHANGED relay \/ \E r \in Relay : Asks(r, c) /\ port = r
  <1>1. CASE Reached = "served" /\ ShutdownMatches(port, client[c].seen) /\ relay[port].askedBy = None
             /\ Reached # "starting"
    <2>1. port \in Relay /\ port = client[c].seen /\ relay[port].managed
      BY <1>1 DEF Reached, TypeOK, ShutdownMatches
    <2>2. relay' = [relay EXCEPT ![port].askedBy = c]
      BY <1>1 DEF Shutdown
    <2> QED
      BY <2>1, <2>2 DEF Asks, Replaced, ClientInv, Shutdown
  <1> QED
    BY <1>1 DEF Shutdown

(* A handler changes the session, or finds it as it is wanted.               *)
LEMMA HandleReplaces ==
  ASSUME TypeOK, ClientInv, NEW c \in Client, Handle(c)
  PROVE  LET r == client[c].seen
         IN  /\ r \in Relay
             /\ \/ UNCHANGED relay /\ Ends(c, "unchanged")
                \/ \E q \in RelayRecord :
                     /\ Replaced(r, q) /\ \E pc \in {"running", "saving"} : Becomes(c, pc)
                     /\ q.session = Wanted(c)
                     /\ q.dirty <=> relay[r].dirty \/ relay[r].session # Wanted(c)
                     /\ q.phase = relay[r].phase /\ q.build = relay[r].build /\ q.managed = relay[r].managed
                     /\ q.ready = relay[r].ready /\ q.background = relay[r].background
                     /\ q.cdp = relay[r].cdp /\ q.askedBy = relay[r].askedBy
  <1> DEFINE r == client[c].seen
             d == relay[r].dirty \/ relay[r].session # Wanted(c)
             q == [relay[r] EXCEPT !.session = Wanted(c), !.dirty = d]
  <1>1. r \in Relay /\ relay[r] \in RelayRecord
    BY DEF Handle, ClientInv, Here, TypeOK
  <1>4. d \in BOOLEAN /\ Wanted(c) \in BOOLEAN
    BY DEF Wanted
  <1>2. /\ q \in RelayRecord /\ q.session = Wanted(c)
        /\ q.dirty = d
        /\ q.phase = relay[r].phase /\ q.build = relay[r].build /\ q.managed = relay[r].managed
        /\ q.ready = relay[r].ready /\ q.background = relay[r].background
        /\ q.cdp = relay[r].cdp /\ q.askedBy = relay[r].askedBy
    <2> HIDE DEF d
    <2> QED
      BY <1>1, <1>4 DEF RelayRecord
  <1>3. \/ UNCHANGED relay /\ Ends(c, "unchanged")
        \/ Replaced(r, q) /\ \E pc \in {"running", "saving"} : Becomes(c, pc)
    BY DEF Handle, Replaced, Wanted
  <1> HIDE DEF q
  <1> QED
    BY <1>1, <1>2, <1>3

LEMMA TypeNext ==
  ASSUME TypeOK, PortInv, ClientInv, CatalogInv, [Next]_vars
  PROVE  TypeOK'
  <1> USE DEF Holding
  <1>1. ASSUME NEW c \in Client, Moved(c) PROVE client' \in [Client -> ClientRecord]
    BY <1>1 DEF Moved, TypeOK
  <1>2. ASSUME NEW c \in Client, ClientStep(c) PROVE TypeOK'
    <2>1. CASE Shutdown(c)
      <3>1. relay' \in [Relay -> RelayRecord]
        BY <2>1, ShutdownReplaces, FieldsType, ReplacedType DEF Asks, TypeOK
      <3>2. client' \in [Client -> ClientRecord]
        BY <1>1, <2>1, OutsideSteps DEF Outside
      <3> QED
        BY <2>1, <3>1, <3>2 DEF Shutdown, TypeOK
    <2>2. CASE Start(c)
      <3>1. BuildOf[c] \in Build
        BY RelayProcessAssumption
      <3>2. PICK r \in Relay : Spawn(BuildOf[c], TRUE, r)
        BY <2>2 DEF Start
      <3>3. \E q \in RelayRecord : Replaced(r, q)
        BY <3>1, <3>2, SpawnReplaces
      <3>4. relay' \in [Relay -> RelayRecord]
        BY <3>3, ReplacedType
      <3>5. client' \in [Client -> ClientRecord]
        BY <1>1, <2>2, OutsideSteps DEF Outside
      <3> QED
        BY <2>2, <3>4, <3>5 DEF Start, TypeOK
    <2>3. CASE Request(c) /\ client'[c].pc = "accepted"
      <3>1. CASE client' = [client EXCEPT ![c].pc = "accepted", ![c].seen = port]
        <4>1. client[c] \in ClientRecord /\ port \in Relay \cup {None}
          BY DEF TypeOK
        <4>2. client' \in [Client -> ClientRecord]
          BY <3>1, <4>1 DEF TypeOK, ClientRecord
        <4> QED
          BY <2>3, <4>2 DEF Request, TypeOK
      <3> QED
        BY <1>1, <2>3, <3>1, EndsMoves DEF Request, TypeOK
    <2>4. CASE Leaves(c)
      <3>1. client[c].seen \in Relay
        BY <2>4 DEF Leaves, ClientInv, Here
      <3>2. relay' \in [Relay -> RelayRecord]
        BY <2>4, <3>1, FieldsType DEF Leaves, TypeOK
      <3> QED
        BY <1>1, <2>4, <3>2, EndsMoves DEF Leaves, TypeOK
    <2>5. CASE \/ Probe(c) \/ Confirm(c) \/ WaitForExit(c) \/ WaitForReady(c) \/ CheckExtension(c)
               \/ GivesUp(c)
               \/ Request(c) /\ client'[c].pc # "accepted"
      <3>1. Outside(c)
        BY <2>5, OutsideSteps
      <3> QED
        BY <1>1, <2>5, <3>1 DEF Outside, Probe, Confirm, WaitForExit, WaitForReady, CheckExtension, GivesUp,
           Request, TypeOK
    <2> QED
      BY <1>2, <2>1, <2>2, <2>3, <2>4, <2>5 DEF ClientStep
  <1>3. ASSUME NEW c \in Client, Work(c) PROVE TypeOK'
    <2>1. client[c].seen \in Relay
      BY <1>3 DEF Work, Handle, Saved, Finish, ClientInv, Here
    <2>2. Moved(c)
      BY <1>3, BecomesMoves, EndsMoves DEF Work, Handle, Saved, Finish
    <2>3. relay' \in [Relay -> RelayRecord]
      <3>1. Handle(c) => relay' = relay \/ \E q \in RelayRecord : Replaced(client[c].seen, q)
        BY HandleReplaces
      <3> QED
        BY <1>3, <2>1, <3>1, ReplacedType DEF Work, Saved, Finish, TypeOK
    <2> QED
      BY <1>1, <1>3, <2>2, <2>3 DEF Work, Handle, Saved, Finish, TypeOK
  <1>4. ASSUME NEW r \in Relay, UNCHANGED client,
               \/ Process(r) \/ Save(r) \/ BackgroundEnds(r) \/ CdpAnswer(r) \/ StopAdmission(r)
               \/ CdpMessage(r) \/ LoadFails(r) \/ DrainFails(r)
        PROVE  TypeOK'
    <2>1. relay[r] \in RelayRecord /\ relay \in [Relay -> RelayRecord]
      BY DEF TypeOK
    <2>2. \E q \in RelayRecord : Replaced(r, q)
      <3>1. CASE Save(r) \/ BackgroundEnds(r) \/ CdpAnswer(r) \/ CdpMessage(r)
        BY <2>1, <3>1, FieldsType DEF Save, BackgroundEnds, CdpAnswer, CdpMessage, Replaced
      <3>2. CASE StopAdmission(r) \/ LoadFails(r) \/ DrainFails(r)
        BY <2>1, <3>2, FieldsType DEF StopAdmission, LoadFails, DrainFails, Phase, FailedGoes, Replaced
      <3>3. CASE Process(r)
        BY <2>1, <3>3, FieldsType DEF Process, Listen, Load, BecomeReady, BeginDrain, Drained, Close, FreePort,
           Phase, Replaced, TypeOK
      <3> QED
        BY <1>4, <3>1, <3>2, <3>3
    <2>3. relay' \in [Relay -> RelayRecord]
      BY <2>2, ReplacedType
    <2>4. port' \in Relay \cup {None} /\ catalog' \in BOOLEAN /\ extension' \in Relay \cup {None} /\ crashes' \in Nat
      <3>1. Save(r) => catalog' \in BOOLEAN
        BY <2>1 DEF Save, CatalogInv, RelayRecord
      <3> QED
        BY <1>4, <3>1 DEF Process, Listen, Load, BecomeReady, BeginDrain, Drained, Close, FreePort, Save,
           BackgroundEnds, CdpAnswer, CdpMessage, StopAdmission, LoadFails, DrainFails, TypeOK
    <2> QED
      BY <1>4, <2>3, <2>4 DEF TypeOK
  <1>5. ASSUME NEW r \in Relay, Crash(r) PROVE TypeOK'
    <2>1. relay' \in [Relay -> RelayRecord]
      BY <1>5, FieldsType DEF Crash, TypeOK
    <2>2. client' \in [Client -> ClientRecord]
      <3>1. \A c \in Client : client[c] \in ClientRecord /\ Ended(client[c].want, "unknown") \in ClientRecord
        BY EndedType DEF TypeOK, ClientRecord
      <3> QED
        BY <1>5, <3>1 DEF Crash
    <2> QED
      BY <1>5, <2>1, <2>2 DEF Crash, TypeOK
  <1>6. CASE Serve
    <2>1. PICK b \in Foreground, r \in Relay : Spawn(b, FALSE, r)
      BY <1>6 DEF Serve
    <2>2. \E q \in RelayRecord : Replaced(r, q)
      BY <2>1, SpawnReplaces, RelayProcessAssumption
    <2>3. relay' \in [Relay -> RelayRecord]
      BY <2>2, ReplacedType
    <2> QED
      BY <1>6, <2>3 DEF Serve, TypeOK
  <1>7. CASE ExtensionConnects \/ Over \/ UNCHANGED vars
    BY <1>7 DEF ExtensionConnects, Over, vars, TypeOK
  <1> QED
    BY <1>2, <1>3, <1>4, <1>5, <1>6, <1>7 DEF Next, Process, Listen, Load, BecomeReady, BeginDrain, Drained,
       Close, FreePort, Save, BackgroundEnds, CdpAnswer, StopAdmission, CdpMessage, LoadFails, DrainFails

-----------------------------------------------------------------------------
LEMMA PortInvNext ==
  ASSUME TypeOK, PortInv, ClientInv, CatalogInv, WorkInv, [Next]_vars
  PROVE  PortInv'
  <1> USE DEF Holding
  <1>1. relay \in [Relay -> RelayRecord] /\ \A r \in Relay : relay[r] \in RelayRecord /\ r # None
    BY RelayProcessAssumption DEF TypeOK, Relay
  (* A record that keeps its phase, and is fresh when it was.                *)
  <1>2. ASSUME UNCHANGED port, NEW r \in Relay, NEW q, Replaced(r, q), q.phase = relay[r].phase,
               q.phase \notin Holding => Fresh(q)
        PROVE  PortInv'
    BY <1>1, <1>2 DEF PortInv, Replaced
  <1>3. CASE UNCHANGED <<port, relay>>
    BY <1>3 DEF PortInv
  <1>4. ASSUME NEW c \in Client, Shutdown(c) PROVE PortInv'
    <2>1. CASE \E r \in Relay : Asks(r, c) /\ port = r
      BY <1>1, <1>4, <2>1 DEF Asks, Replaced, Shutdown, PortInv, RelayRecord
    <2> QED
      BY <1>3, <1>4, <2>1, ShutdownReplaces DEF Shutdown
  <1>5. ASSUME NEW b \in Build, NEW managed \in BOOLEAN, NEW r \in Relay, Spawn(b, managed, r), UNCHANGED port
        PROVE  PortInv'
    <2>1. PICK q \in RelayRecord : Replaced(r, q) /\ q.phase = "spawned" /\ relay[r].phase = "none"
              /\ q.ready = relay[r].ready /\ q.session = relay[r].session /\ q.dirty = relay[r].dirty
              /\ q.background = relay[r].background /\ q.cdp = relay[r].cdp /\ q.askedBy = relay[r].askedBy
      BY <1>5, SpawnReplaces
    <2> QED
      BY <1>1, <1>5, <2>1 DEF PortInv, Fresh, Replaced
  <1>6. ASSUME NEW c \in Client, Handle(c) PROVE PortInv'
    <2> DEFINE r == client[c].seen
    <2>1. r \in Relay /\ c \in Accepted(r)
      BY <1>6 DEF Handle, ClientInv, Here, Accepted
    <2>2. relay[r].phase \in Holding
      BY <2>1 DEF WorkInv
    <2>3. UNCHANGED relay \/ \E q \in RelayRecord : Replaced(r, q) /\ q.phase = relay[r].phase
      BY <1>6, HandleReplaces
    <2> QED
      BY <1>2, <1>3, <1>6, <2>1, <2>2, <2>3 DEF Handle
  <1>7. ASSUME NEW c \in Client, Leaves(c) PROVE PortInv'
    <2>1. client[c].seen \in Relay /\ c \in Accepted(client[c].seen)
      BY <1>7 DEF Leaves, ClientInv, Here, Accepted
    <2> QED
      BY <1>1, <1>7, <2>1 DEF Leaves, WorkInv, PortInv, RelayRecord
  <1>8. ASSUME NEW r \in Relay, Save(r) \/ BackgroundEnds(r) \/ CdpAnswer(r) \/ CdpMessage(r) PROVE PortInv'
    BY <1>1, <1>8 DEF Save, BackgroundEnds, CdpAnswer, CdpMessage, PortInv, Fresh, RelayRecord
  <1>9. ASSUME NEW r \in Relay, StopAdmission(r) \/ LoadFails(r) \/ BeginDrain(r) \/ Drained(r) \/ Close(r)
        PROVE  PortInv'
    <2>1. \E x \in Holding : Phase(r, x) /\ relay[r].phase \in Holding /\ UNCHANGED port
      BY <1>9 DEF StopAdmission, LoadFails, FailedGoes, BeginDrain, Drained, Close, Phase
    <2> QED
      BY <1>1, <2>1 DEF Phase, PortInv, RelayRecord
  <1>10. ASSUME NEW r \in Relay, Load(r) \/ BecomeReady(r) PROVE PortInv'
    BY <1>1, <1>10 DEF Load, MayLoad, BecomeReady, PortInv, Fresh, RelayRecord
  <1>11. ASSUME NEW r \in Relay, Listen(r) \/ FreePort(r) \/ Crash(r) PROVE PortInv'
    <2>1. Fresh(NotStarted) /\ NotStarted.phase = "none"
      BY DEF Fresh, NotStarted
    <2>2. CASE Listen(r)
      BY <1>1, <2>1, <2>2 DEF Listen, PortInv, Phase, RelayRecord
    <2>3. CASE FreePort(r) \/ Crash(r)
      BY <1>1, <2>1, <2>3 DEF FreePort, Crash, PortInv
    <2> QED
      BY <1>11, <2>2, <2>3
  <1>12. ASSUME NEW r \in Relay, DrainFails(r) PROVE PortInv'
    BY <1>1, <1>12 DEF DrainFails, PortInv, Fresh, RelayRecord
  <1> QED
    <2>1. ASSUME NEW c \in Client, ClientStep(c) \/ Work(c) PROVE PortInv'
      <3>1. CASE Start(c)
        BY <1>5, <3>1, RelayProcessAssumption DEF Start
      <3> QED
        BY <1>3, <1>4, <1>6, <1>7, <2>1, <3>1 DEF ClientStep, Work, Probe, Confirm, WaitForExit, WaitForReady,
           CheckExtension, GivesUp, Request, Saved, Finish
    <2>2. ASSUME NEW r \in Relay,
                 \/ Process(r) \/ Save(r) \/ BackgroundEnds(r) \/ CdpAnswer(r) \/ StopAdmission(r)
                 \/ CdpMessage(r) \/ LoadFails(r) \/ DrainFails(r) \/ Crash(r)
          PROVE  PortInv'
      BY <1>8, <1>9, <1>10, <1>11, <1>12, <2>2 DEF Process
    <2>3. CASE Serve
      BY <1>5, <2>3, RelayProcessAssumption DEF Serve
    <2> QED
      BY <1>3, <2>1, <2>2, <2>3 DEF Next, ExtensionConnects, Over, vars

-----------------------------------------------------------------------------
(* What a step makes of a client: nothing, a step before its request, the     *)
(* admission of the request, work on it, or its end.                        *)
Admitted(c) ==
  /\ client[c].pc = "request" /\ client'[c].pc = "accepted" /\ client'[c].outcome = "none"
  /\ port \in Relay /\ client'[c].seen = port /\ relay[port].phase = "listening" /\ relay[port].ready
  /\ UNCHANGED <<relay, catalog>>
Served(c) ==
  /\ Here(c) /\ client'[c].pc \in {"saving", "running"}
  /\ client'[c].seen = client[c].seen /\ client'[c].outcome = "none"
  /\ client[c].pc = "accepted" => relay'[client[c].seen].session = Wanted(c)
Done(c) ==
  /\ Here(c) /\ client'[c].pc = "done" /\ client'[c].outcome \in {"unchanged", "ok", "left", "unknown"}
  /\ client'[c].outcome = "unchanged" => client[c].pc = "accepted"
  /\ client'[c].outcome = "ok" => /\ client[c].pc = "saving" /\ ~ relay[client[c].seen].dirty
                                 /\ UNCHANGED <<relay, catalog>>

LEMMA ClientSteps ==
  ASSUME TypeOK, ClientInv, [Next]_vars, NEW c \in Client
  PROVE  /\ client'[c].want = client[c].want
         /\ client'[c] = client[c] \/ Outside(c) \/ Admitted(c) \/ Served(c) \/ Done(c)
  <1> USE DEF Here
  <1>1. ASSUME NEW d \in Client, Moved(d), d # c PROVE client'[c] = client[c]
    BY <1>1 DEF Moved, TypeOK
  <1>2. CASE ClientStep(c)
    <2>1. CASE Request(c) /\ client'[c].pc = "accepted"
      <3>1. client[c].outcome = "none"
        BY <2>1 DEF Request, ClientInv
      <3>2. client' = [client EXCEPT ![c].pc = "accepted", ![c].seen = port]
        BY <2>1, EndsMoves DEF Request
      <3>3. port \in Relay /\ relay[port].phase = "listening" /\ relay[port].ready
        BY <2>1, <3>2, EndsMoves DEF Request, Reached, Serving, IsAccepting, TypeOK
      <3> QED
        BY <2>1, <3>1, <3>2, <3>3 DEF Request, Admitted, TypeOK, ClientRecord
    <2>2. CASE Leaves(c)
      BY <2>2, EndsMoves DEF Leaves, Done, Moved
    <2>3. CASE ~ Leaves(c) /\ ~ (Request(c) /\ client'[c].pc = "accepted")
      BY <1>2, <2>3, OutsideSteps DEF ClientStep, Outside, Moved
    <2> QED
      BY <2>1, <2>2, <2>3
  <1>3. CASE Work(c)
    <2>1. client[c].outcome = "none"
      BY <1>3 DEF Work, Handle, Saved, Finish, ClientInv
    <2>2. CASE Handle(c)
      <3>1. \/ Ends(c, "unchanged")
            \/ /\ \E pc \in {"running", "saving"} : Becomes(c, pc)
               /\ relay'[client[c].seen].session = Wanted(c)
        BY <2>2, HandleReplaces, ReplacedType
      <3> QED
        BY <2>1, <2>2, <3>1, BecomesMoves, EndsMoves DEF Handle, Served, Done, Moved
    <2>4. CASE Finish(c)
      BY <2>1, <2>4, BecomesMoves DEF Finish, Served, Moved
    <2>3. CASE Saved(c)
      BY <2>3, EndsMoves DEF Saved, Done, Moved
    <2> QED
      BY <1>3, <2>2, <2>3, <2>4 DEF Work
  <1>4. ASSUME NEW d \in Client, d # c, ClientStep(d) \/ Work(d) PROVE client'[c] = client[c]
    <2>1. CASE Request(d) /\ client'[d].pc = "accepted"
      BY <1>4, <2>1 DEF Request, Ends, TypeOK
    <2>2. CASE Leaves(d) \/ Work(d)
      BY <1>4, <2>2 DEF Leaves, Work, Handle, Saved, Finish, Ends, Becomes, TypeOK
    <2> QED
      BY <1>1, <1>4, <2>1, <2>2, OutsideSteps DEF ClientStep, Outside
  <1>5. ASSUME NEW r \in Relay, Crash(r)
        PROVE  client'[c].want = client[c].want /\ (client'[c] = client[c] \/ Done(c))
    BY <1>5, EndedType DEF Crash, Accepted, Done, TypeOK, ClientRecord
  <1>6. CASE UNCHANGED client
    BY <1>6
  <1> QED
    <2>1. \/ \E d \in Client : ClientStep(d) \/ Work(d)
          \/ \E r \in Relay : Crash(r)
          \/ UNCHANGED client
      BY DEF Next, Process, Listen, Load, BecomeReady, BeginDrain, Drained, Close, FreePort, Save, BackgroundEnds,
         CdpAnswer, StopAdmission, CdpMessage, LoadFails, DrainFails, Serve, ExtensionConnects, Over, vars
    <2> QED
      BY <1>2, <1>3, <1>4, <1>5, <1>6, <2>1

(* What a step makes of the relay that a client may have stopped.             *)
LEMMA AskedSteps ==
  ASSUME TypeOK, PortInv, ClientInv, [Next]_vars, NEW r \in Relay
  PROVE  \/ /\ relay'[r].managed = relay[r].managed /\ relay'[r].build = relay[r].build
            /\ \/ relay'[r].askedBy = relay[r].askedBy
               \/ relay[r].managed /\ relay'[r].askedBy \in Client /\ MayRestart(relay'[r].askedBy, r)
         \/ ~ relay'[r].managed /\ relay'[r].askedBy = None
         \/ relay'[r].askedBy = None /\ \A c \in Client : client[c].seen # r
  <1>1. relay \in [Relay -> RelayRecord] /\ relay[r] \in RelayRecord
    BY DEF TypeOK
  <1>2. CASE UNCHANGED relay
    BY <1>2
  <1>3. ASSUME NEW c \in Client, ClientStep(c)
        PROVE  \/ UNCHANGED relay \/ Leaves(c) \/ Shutdown(c) \/ Start(c)
    BY <1>3 DEF ClientStep, Probe, Confirm, WaitForExit, WaitForReady, CheckExtension, GivesUp, Request
  <1> DEFINE Kept == /\ relay'[r].managed = relay[r].managed /\ relay'[r].build = relay[r].build
                     /\ relay'[r].askedBy = relay[r].askedBy
  <1>4. ASSUME NEW c \in Client, Leaves(c) PROVE Kept
    BY <1>1, <1>4 DEF Leaves, RelayRecord
  <1>5. ASSUME NEW c \in Client, Shutdown(c)
        PROVE  /\ relay'[r].managed = relay[r].managed /\ relay'[r].build = relay[r].build
               /\ \/ relay'[r].askedBy = relay[r].askedBy
                  \/ relay[r].managed /\ relay'[r].askedBy \in Client /\ MayRestart(relay'[r].askedBy, r)
    <2>1. CASE \E k \in Relay : Asks(k, c)
      BY <1>1, <2>1 DEF Asks, Replaced, RelayRecord
    <2> QED
      BY <1>5, <2>1, ShutdownReplaces
  <1>6. ASSUME NEW b \in Build, NEW managed \in BOOLEAN, NEW k \in Relay, Spawn(b, managed, k)
        PROVE  Kept \/ (relay'[r].askedBy = None /\ \A c \in Client : client[c].seen # r)
    <2>1. relay[k].askedBy = None
      BY <1>6, SpawnReplaces DEF PortInv, Fresh, Holding
    <2> QED
      BY <1>1, <1>6, <2>1, SpawnReplaces DEF Replaced
  <1>7. ASSUME NEW c \in Client, Work(c) PROVE Kept
    <2>1. Handle(c) => UNCHANGED relay \/ \E k \in Relay, q \in RelayRecord :
                         /\ Replaced(k, q) /\ q.build = relay[k].build /\ q.managed = relay[k].managed
                         /\ q.askedBy = relay[k].askedBy
      BY HandleReplaces
    <2> QED
      BY <1>1, <1>7, <2>1 DEF Work, Saved, Finish, Replaced
  <1>8. ASSUME NEW k \in Relay,
               \/ Process(k) \/ Save(k) \/ BackgroundEnds(k) \/ CdpAnswer(k) \/ StopAdmission(k)
               \/ CdpMessage(k) \/ LoadFails(k) \/ DrainFails(k) \/ Crash(k)
        PROVE  Kept \/ (~ relay'[r].managed /\ relay'[r].askedBy = None)
    <2>1. CASE Listen(k) \/ FreePort(k) \/ Crash(k)
      BY <1>1, <2>1 DEF Listen, FreePort, Crash, Phase, NotStarted, RelayRecord
    <2>2. CASE \/ Load(k) \/ BecomeReady(k) \/ BeginDrain(k) \/ Drained(k) \/ Close(k)
               \/ StopAdmission(k) \/ LoadFails(k) \/ DrainFails(k)
      BY <1>1, <2>2 DEF Load, BecomeReady, BeginDrain, Drained, Close, StopAdmission, LoadFails, DrainFails, Phase,
         RelayRecord
    <2>3. CASE Save(k) \/ BackgroundEnds(k) \/ CdpAnswer(k) \/ CdpMessage(k)
      BY <1>1, <2>3 DEF Save, BackgroundEnds, CdpAnswer, CdpMessage, RelayRecord
    <2> QED
      BY <1>8, <2>1, <2>2, <2>3 DEF Process
  <1> QED
    <2>1. CASE \E c \in Client : ClientStep(c) \/ Work(c)
      BY <1>2, <1>3, <1>4, <1>5, <1>6, <1>7, <2>1, RelayProcessAssumption DEF Start
    <2>2. CASE Serve
      BY <1>6, <2>2, RelayProcessAssumption DEF Serve
    <2> QED
      BY <1>2, <1>8, <2>1, <2>2 DEF Next, ExtensionConnects, Over, vars

LEMMA ClientInvNext ==
  ASSUME TypeOK, PortInv, ClientInv, [Next]_vars
  PROVE  ClientInv'
  <1> SUFFICES ASSUME NEW c \in Client
               PROVE  /\ client'[c].outcome # "none" => client'[c].pc = "done"
                      /\ client'[c].pc \in {"accepted", "saving", "running", "confirm", "shutdown"}
                           => client'[c].seen \in Relay
                      /\ client'[c].pc = "shutdown" /\ relay'[client'[c].seen].managed
                           => Newer(BuildOf[c], relay'[client'[c].seen].build)
    BY DEF ClientInv, Here, MayRestart
  <1>1. CASE client'[c] = client[c]
    <2>1. CASE client[c].pc = "shutdown"
      <3>1. client[c].seen \in Relay
        BY <2>1 DEF ClientInv
      <3> QED
        BY <1>1, <2>1, <3>1, AskedSteps DEF ClientInv, MayRestart
    <2> QED
      BY <1>1, <2>1 DEF ClientInv, Here
  <1>2. CASE Outside(c)
    BY <1>2 DEF Outside, MayRestart
  <1>3. CASE Admitted(c) \/ Served(c) \/ Done(c)
    BY <1>3 DEF Admitted, Served, Done, ClientInv, Here
  <1> QED
    BY <1>1, <1>2, <1>3, ClientSteps

LEMMA OnlyOlderNext ==
  ASSUME TypeOK, PortInv, ClientInv, OnlyOlderRelaysStop, [Next]_vars
  PROVE  OnlyOlderRelaysStop'
  BY AskedSteps DEF OnlyOlderRelaysStop, MayRestart

-----------------------------------------------------------------------------
(* What a step makes of a relay.                                             *)
Stays(r) == relay'[r].phase = relay[r].phase /\ relay'[r].ready = relay[r].ready
Keeps(r) == relay'[r].session = relay[r].session /\ relay'[r].dirty = relay[r].dirty
Idles(r) == (relay'[r].background => relay[r].background) /\ (relay'[r].cdp => relay[r].cdp)

Handled(r, c) ==
  /\ client[c].pc = "accepted" /\ client[c].seen = r /\ client'[c].pc \in {"saving", "running"}
  /\ relay'[r].session = Wanted(c)
  /\ relay'[r].dirty <=> relay[r].dirty \/ relay[r].session # Wanted(c)
Advances(r) ==
  \/ relay[r].phase = "spawned" /\ relay'[r].phase = "listening"
  \/ relay[r].phase = "listening" /\ relay'[r].phase = "draining"
  \/ relay[r].phase = "draining" /\ relay'[r].phase = "flushing" /\ Accepted(r) = {}
  \/ relay[r].phase = "flushing" /\ relay'[r].phase = "settling" /\ ~ relay[r].background /\ ~ relay[r].dirty
  \/ relay[r].phase = "settling" /\ relay'[r].phase = "closing" /\ Accepted(r) = {} /\ ~ relay[r].cdp

RelayChange(r) ==
  \/ Stays(r) /\ Keeps(r) /\ Idles(r)
  \/ Fresh(relay'[r]) /\ relay'[r].phase \in {"none", "spawned"} /\ \A c \in Accepted(r) : client'[c].pc = "done"
  \/ Stays(r) /\ Idles(r) /\ \E c \in Client : Handled(r, c)
  \/ Stays(r) /\ Keeps(r) /\ (relay'[r].cdp => relay[r].cdp) /\ Accepted(r) # {}
  \/ Stays(r) /\ Keeps(r) /\ (relay'[r].background => relay[r].background) /\ relay[r].phase # "closing"
  \/ Stays(r) /\ Idles(r) /\ ~ relay'[r].dirty /\ relay'[r].session = relay[r].session /\ catalog' = relay[r].session
  \/ relay'[r].ready = relay[r].ready /\ Keeps(r) /\ Idles(r) /\ Advances(r)
  \/ /\ relay'[r].ready = relay[r].ready /\ Idles(r) /\ UNCHANGED catalog
     /\ relay'[r].session = relay[r].session /\ relay[r].dirty /\ ~ relay'[r].dirty
     /\ relay[r].phase = "flushing" /\ relay'[r].phase = "settling" /\ ~ relay[r].background
  \/ /\ Stays(r) /\ Idles(r) /\ relay'[r].dirty = relay[r].dirty
     /\ relay[r].session = None /\ relay'[r].session = catalog /\ UNCHANGED catalog
  \/ relay'[r].phase = relay[r].phase /\ relay'[r].ready /\ Keeps(r) /\ Idles(r) /\ relay[r].session # None

LEMMA RelaySteps ==
  ASSUME TypeOK, PortInv, ClientInv, WorkInv, [Next]_vars, NEW r \in Relay
  PROVE  RelayChange(r)
  <1>1. relay \in [Relay -> RelayRecord] /\ relay[r] \in RelayRecord
    BY DEF TypeOK
  <1> USE DEF Stays, Keeps, Idles
  <1>2. CASE relay'[r] = relay[r]
    BY <1>2 DEF RelayChange
  <1>3. ASSUME NEW c \in Client, Shutdown(c) PROVE RelayChange(r)
    <2>1. CASE \E k \in Relay : Asks(k, c)
      BY <1>1, <2>1 DEF Asks, Replaced, RelayRecord, RelayChange
    <2> QED
      BY <1>2, <1>3, <2>1, ShutdownReplaces
  <1>4. ASSUME NEW b \in Build, NEW managed \in BOOLEAN, NEW k \in Relay, Spawn(b, managed, k) PROVE RelayChange(r)
    <2>1. Fresh(relay[k]) /\ Accepted(k) = {}
      BY <1>4, SpawnReplaces DEF PortInv, WorkInv, Holding
    <2> QED
      BY <1>1, <1>2, <1>4, <2>1, SpawnReplaces DEF Replaced, RelayChange, Fresh
  <1>5. ASSUME NEW c \in Client, Handle(c) PROVE RelayChange(r)
    <2>1. CASE client[c].seen = r
      <3>1. \/ UNCHANGED relay
            \/ \E q \in RelayRecord :
                 /\ Replaced(r, q) /\ \E pc \in {"running", "saving"} : Becomes(c, pc)
                 /\ q.session = Wanted(c)
                 /\ q.dirty <=> relay[r].dirty \/ relay[r].session # Wanted(c)
                 /\ q.phase = relay[r].phase /\ q.ready = relay[r].ready /\ q.background = relay[r].background
                 /\ q.cdp = relay[r].cdp
        BY <1>5, <2>1, HandleReplaces
      <3>2. CASE ~ UNCHANGED relay
        <4>1. client'[c].pc \in {"saving", "running"}
          BY <3>1, <3>2, BecomesMoves
        <4> QED
          BY <1>1, <1>5, <2>1, <3>1, <3>2, <4>1 DEF Replaced, RelayChange, Handled, Handle
      <3> QED
        BY <1>2, <3>2
    <2>2. CASE client[c].seen # r
      BY <1>1, <1>2, <1>5, <2>2, HandleReplaces DEF Replaced
    <2> QED
      BY <2>1, <2>2
  <1>6. ASSUME NEW c \in Client, Leaves(c) PROVE RelayChange(r)
    BY <1>1, <1>2, <1>6 DEF Leaves, RelayRecord, RelayChange, Accepted, Here
  <1>7. ASSUME NEW k \in Relay, Save(k) \/ BackgroundEnds(k) \/ CdpAnswer(k) \/ CdpMessage(k) PROVE RelayChange(r)
    <2>1. CASE k = r
      BY <1>1, <1>7, <2>1 DEF Save, BackgroundEnds, CdpAnswer, CdpMessage, RelayRecord, RelayChange
    <2> QED
      BY <1>1, <1>2, <1>7, <2>1 DEF Save, BackgroundEnds, CdpAnswer, CdpMessage
  <1>8. ASSUME NEW k \in Relay, \/ StopAdmission(k) \/ LoadFails(k) \/ DrainFails(k) \/ BeginDrain(k)
                                \/ Drained(k) \/ Close(k) \/ Load(k) \/ BecomeReady(k)
        PROVE  RelayChange(r)
    <2>1. CASE k = r /\ (Load(k) \/ BecomeReady(k))
      BY <1>1, <2>1 DEF Load, MayLoad, BecomeReady, RelayRecord, RelayChange
    <2>2. CASE k = r /\ ~ (Load(k) \/ BecomeReady(k))
      BY <1>1, <1>8, <2>2 DEF StopAdmission, LoadFails, DrainFails, FailedGoes, BeginDrain, Drained, Close, Phase,
         TransportIsIdle, LastTransportIsIdle, RelayRecord, RelayChange, Advances
    <2> QED
      BY <1>1, <1>2, <1>8, <2>1, <2>2 DEF StopAdmission, LoadFails, DrainFails, BeginDrain, Drained, Close, Phase, Load,
         BecomeReady
  <1>9. ASSUME NEW k \in Relay, Listen(k) \/ FreePort(k) PROVE RelayChange(r)
    <2>1. Fresh(NotStarted) /\ NotStarted.phase = "none"
      BY DEF Fresh, NotStarted
    <2>2. CASE k = r
      <3>1. Accepted(r) = {}
        BY <1>9, <2>2 DEF Listen, FreePort, WorkInv
      <3> QED
        BY <1>1, <1>9, <2>1, <2>2, <3>1 DEF Listen, FreePort, Phase, RelayChange, RelayRecord, Advances
    <2> QED
      BY <1>1, <1>2, <1>9, <2>2 DEF Listen, FreePort, Phase
  <1>10. ASSUME NEW k \in Relay, Crash(k) PROVE RelayChange(r)
    <2>1. Fresh(NotStarted) /\ NotStarted.phase = "none"
      BY DEF Fresh, NotStarted
    <2>2. CASE k = r
      <3>1. \A c \in Accepted(r) : client'[c].pc = "done"
        BY <1>10, <2>2, EndedType DEF Crash, Accepted, TypeOK, ClientRecord
      <3> QED
        BY <1>1, <1>10, <2>1, <2>2, <3>1 DEF Crash, RelayChange
    <2> QED
      BY <1>1, <1>2, <1>10, <2>2 DEF Crash
  <1> QED
    <2>1. ASSUME NEW c \in Client, ClientStep(c) \/ Work(c) PROVE RelayChange(r)
      <3>1. CASE Start(c)
        BY <1>4, <3>1, RelayProcessAssumption DEF Start
      <3> QED
        BY <1>2, <1>3, <1>5, <1>6, <2>1, <3>1 DEF ClientStep, Work, Probe, Confirm, WaitForExit, WaitForReady,
           CheckExtension, GivesUp, Request, Saved, Finish
    <2>2. CASE Serve
      BY <1>4, <2>2, RelayProcessAssumption DEF Serve
    <2> QED
      BY <1>2, <1>7, <1>8, <1>9, <1>10, <2>1, <2>2 DEF Next, Process, ExtensionConnects, Over, vars

LEMMA CatalogSteps ==
  ASSUME [Next]_vars
  PROVE  UNCHANGED catalog \/ \E r \in Relay : Save(r)
  BY DEF Next, ClientStep, Probe, Confirm, Shutdown, WaitForExit, Start, WaitForReady, CheckExtension, GivesUp,
     Request, Leaves, Work, Handle, Saved, Finish, Process, Listen, Load, BecomeReady, BeginDrain, Drained, Close,
     FreePort, BackgroundEnds, CdpAnswer, StopAdmission, CdpMessage, LoadFails, DrainFails, Crash, Serve,
     ExtensionConnects, Over, vars

(* A relay that works or settles has nothing left that its phase rules out:   *)
(* no request reaches it after the first wait, no script after the second.   *)
LEMMA WorkInvNext ==
  ASSUME TypeOK, PortInv, ClientInv, WorkInv, [Next]_vars
  PROVE  WorkInv'
  <1> SUFFICES ASSUME NEW r \in Relay
               PROVE  /\ Accepted(r)' # {} => relay'[r].phase \in {"listening", "draining"} /\ relay'[r].ready
                      /\ relay'[r].phase \in {"settling", "closing"} => ~ relay'[r].background /\ ~ relay'[r].dirty
                      /\ relay'[r].phase = "closing" => ~ relay'[r].cdp
    BY DEF WorkInv
  <1>1. RelayChange(r)
    BY RelaySteps
  <1> USE DEF RelayChange, Stays, Keeps, Idles
  <1>2. ASSUME NEW c \in Accepted(r)'
        PROVE  \/ UNCHANGED relay /\ relay[r].phase = "listening" /\ relay[r].ready
               \/ c \in Accepted(r) /\ client'[c].pc # "done"
    BY <1>2, ClientSteps DEF Accepted, Here, Outside, Admitted, Served, Done
  <1>3. Accepted(r)' # {} => relay'[r].phase \in {"listening", "draining"} /\ relay'[r].ready
    BY <1>1, <1>2 DEF WorkInv, Advances
  <1>4. (\E c \in Client : Handled(r, c)) => Accepted(r) # {}
    BY DEF Handled, Accepted, Here
  <1>5. relay'[r].phase \in {"settling", "closing"} => ~ relay'[r].background /\ ~ relay'[r].dirty
    BY <1>1, <1>4 DEF WorkInv, Advances, Fresh
  <1>6. relay'[r].phase = "closing" => ~ relay'[r].cdp
    BY <1>1 DEF WorkInv, Advances, Fresh
  <1> QED
    BY <1>3, <1>5, <1>6

-----------------------------------------------------------------------------
(* Only the relay with the port has sessions.                                *)
LEMMA OneHasSessions ==
  ASSUME TypeOK, PortInv, NEW r \in Relay, NEW k \in Relay, k # r, relay[k].session # None
  PROVE  relay[r].session = None
  BY DEF PortInv, Fresh

LEMMA SaveSteps ==
  ASSUME TypeOK, PortInv, CatalogInv, NEW k \in Relay, Save(k)
  PROVE  /\ \A r \in Relay : /\ relay'[r].session = relay[r].session
                             /\ r # k => relay'[r].session = None
                             /\ relay'[r].dirty \/ relay'[r].ready => relay[r].dirty \/ relay[r].ready
         /\ catalog' = relay[k].session /\ relay[k].session # None /\ UNCHANGED client
  <1>1. relay \in [Relay -> RelayRecord] /\ relay[k] \in RelayRecord
    BY DEF TypeOK
  <1>2. relay[k].session # None
    BY DEF Save, CatalogInv
  <1> QED
    BY <1>1, <1>2, OneHasSessions DEF Save, RelayRecord

LEMMA CatalogInvNext ==
  ASSUME TypeOK, PortInv, ClientInv, WorkInv, CatalogInv, [Next]_vars
  PROVE  CatalogInv'
  <1> SUFFICES ASSUME NEW r \in Relay
               PROVE  /\ relay'[r].dirty \/ relay'[r].ready => relay'[r].session # None
                      /\ relay'[r].session # None /\ ~ relay'[r].dirty
                           /\ relay'[r].phase \notin {"settling", "closing"} => relay'[r].session = catalog'
    BY DEF CatalogInv
  <1>1. CASE \E k \in Relay : Save(k)
    BY <1>1, SaveSteps DEF CatalogInv
  <1>2. CASE UNCHANGED catalog
    <2>1. RelayChange(r)
      BY RelaySteps
    <2>2. catalog # None /\ \A c \in Client : Wanted(c) # None
      BY RelayProcessAssumption DEF TypeOK, Wanted
    <2> QED
      BY <1>2, <2>1, <2>2 DEF RelayChange, Stays, Keeps, Handled, Fresh, Advances, CatalogInv
  <1> QED
    BY <1>1, <1>2, CatalogSteps

-----------------------------------------------------------------------------
(* What had an effect stays so: only new requests oppose a reported one.      *)
LEMMA EffectsStay ==
  ASSUME TypeOK, ClientInv, [Next]_vars, NEW d \in Client, HadEffect(d)
  PROVE  HadEffect(d)' /\ Wanted(d)' = Wanted(d)
  BY ClientSteps DEF HadEffect, Wanted, Outside, Admitted, Served, Done, ClientInv, Here

LEMMA OpposedStays ==
  ASSUME TypeOK, ClientInv, [Next]_vars, NEW c \in Client, ~ Opposed(c)'
  PROVE  /\ ~ Opposed(c)
         /\ \A d \in Client, r \in Relay : Handled(r, d) => Wanted(d) = Wanted(c)
  <1>1. \A d \in Client : Wanted(d)' = Wanted(d)
    BY ClientSteps DEF Wanted
  <1>2. \A d \in Client, r \in Relay : Handled(r, d) => HadEffect(d)'
    BY DEF Handled, HadEffect
  <1> QED
    BY <1>1, <1>2, EffectsStay DEF Opposed

LEMMA SessionInvNext ==
  ASSUME TypeOK, PortInv, ClientInv, WorkInv, CatalogInv, SessionInv, [Next]_vars
  PROVE  SessionInv'
  <1>0. \A c \in Client : Wanted(c)' = Wanted(c)
    BY ClientSteps DEF Wanted
  <1> SUFFICES ASSUME NEW c \in Client, ~ Opposed(c)'
               PROVE  /\ client'[c].pc \in {"saving", "running"} => relay'[client'[c].seen].session = Wanted(c)
                      /\ client'[c].outcome = "ok" =>
                           /\ catalog' = Wanted(c)
                           /\ \A r \in Relay : relay'[r].session \in {None, Wanted(c)}
    BY <1>0 DEF SessionInv, ToldOf
  <1>1. ~ Opposed(c) /\ \A d \in Client, r \in Relay : Handled(r, d) => Wanted(d) = Wanted(c)
    BY OpposedStays
  <1>2. Wanted(c) \in BOOLEAN /\ None \notin BOOLEAN /\ catalog \in BOOLEAN
    BY RelayProcessAssumption DEF Wanted, TypeOK
  <1>3. ASSUME client'[c].pc \in {"saving", "running"}
        PROVE  relay'[client'[c].seen].session = Wanted(c)
    <2> DEFINE r == client[c].seen
    <2>1. Here(c) /\ client'[c].seen = r /\ r \in Relay /\ c \in Accepted(r) /\ client'[c].pc # "done"
          /\ (client[c].pc = "accepted" => relay'[r].session = Wanted(c))
      BY <1>3, ClientSteps DEF Outside, Admitted, Served, Done, Here, ClientInv, Accepted
    <2>2. relay[r].session # None
      BY <2>1 DEF WorkInv, CatalogInv
    <2>3. RelayChange(r)
      BY <2>1, RelaySteps
    <2>4. CASE client[c].pc \in {"saving", "running"}
      BY <1>1, <2>1, <2>2, <2>3, <2>4 DEF SessionInv, RelayChange, Stays, Keeps, Handled
    <2> QED
      BY <2>1, <2>4 DEF Here
  <1>4. ASSUME client'[c].outcome = "ok", client'[c] = client[c]
        PROVE  catalog' = Wanted(c) /\ \A r \in Relay : relay'[r].session \in {None, Wanted(c)}
    <2>1. catalog = Wanted(c) /\ \A r \in Relay : relay[r].session \in {None, Wanted(c)}
      BY <1>1, <1>4 DEF SessionInv, ToldOf
    <2>2. CASE \E k \in Relay : Save(k)
      BY <2>1, <2>2, SaveSteps
    <2>3. CASE UNCHANGED catalog
      <3>1. ASSUME NEW r \in Relay PROVE relay'[r].session \in {None, Wanted(c)}
        BY <1>1, <2>1, <2>3, RelaySteps DEF RelayChange, Keeps, Fresh, Handled
      <3> QED
        BY <2>1, <2>3, <3>1
    <2> QED
      BY <2>2, <2>3, CatalogSteps
  <1>5. ASSUME client'[c].outcome = "ok", client'[c] # client[c]
        PROVE  catalog' = Wanted(c) /\ \A r \in Relay : relay'[r].session \in {None, Wanted(c)}
    <2> DEFINE k == client[c].seen
    <2>1. client[c].pc = "saving" /\ ~ relay[k].dirty /\ UNCHANGED <<relay, catalog>> /\ Here(c)
      BY <1>5, ClientSteps DEF Outside, Admitted, Served, Done
    <2>2. k \in Relay /\ relay[k].session = Wanted(c)
      BY <1>1, <2>1 DEF SessionInv, ClientInv
    <2>3. catalog = Wanted(c)
      <3>1. relay[k].phase \in {"listening", "draining"}
        BY <2>1, <2>2 DEF WorkInv, Accepted
      <3> QED
        BY <1>2, <2>1, <2>2, <3>1 DEF CatalogInv
    <2> QED
      BY <1>2, <2>1, <2>2, <2>3, OneHasSessions
  <1> QED
    BY <1>3, <1>4, <1>5

-----------------------------------------------------------------------------
LEMMA RelayInvInit == Init => RelayInv
  <1> SUFFICES ASSUME Init PROVE RelayInv
    OBVIOUS
  <1> USE DEF Init, Holding
  <1>1. \A c \in Client : /\ client[c] \in ClientRecord
                          /\ client[c].pc = "probe" /\ client[c].seen = None /\ client[c].outcome = "none"
    BY DEF NewClient, ClientRecord, Want
  <1>2. NotStarted \in RelayRecord /\ Fresh(NotStarted) /\ NotStarted.phase = "none"
    BY DEF NotStarted, RelayRecord, Fresh
  <1>3. ASSUME NEW b \in Earlier
        PROVE  /\ Running(b) \in RelayRecord /\ Running(b).phase = "listening" /\ Running(b).askedBy = None
               /\ Running(b).session = catalog /\ ~ Running(b).dirty
    BY RelayProcessAssumption DEF Running, NotStarted, RelayRecord
  <1>4. 1 \in Relay /\ catalog # None /\ None \notin Relay
    BY RelayProcessAssumption DEF Relay
  <1> DEFINE Relays == /\ relay \in [Relay -> RelayRecord] /\ port \in Relay \cup {None}
                       /\ \A r \in Relay :
                            /\ relay[r].phase \in Holding <=> port = r
                            /\ relay[r].phase \notin Holding => Fresh(relay[r])
                            /\ relay[r].phase \in {"none", "listening"} /\ relay[r].askedBy = None
                            /\ ~ relay[r].dirty /\ (relay[r].session # None => relay[r].session = catalog)
                            /\ relay[r].ready => relay[r].session # None
  <1>5. Relays
    <2>1. CASE relay = [r \in Relay |-> NotStarted] /\ port = None
      BY <1>2, <1>4, <2>1 DEF Fresh
    <2>2. ASSUME NEW b \in Earlier, port = 1, relay = [r \in Relay |-> IF r = 1 THEN Running(b) ELSE NotStarted]
          PROVE  Relays
      BY <1>2, <1>3, <1>4, <2>2 DEF Fresh
    <2> HIDE DEF Relays
    <2> QED
      BY <2>1, <2>2
  <1>6. \A r \in Relay : Accepted(r) = {}
    BY <1>1 DEF Accepted, Here
  <1>7. TypeOK /\ PortInv /\ OnlyOlderRelaysStop
    BY <1>1, <1>5 DEF TypeOK, PortInv, OnlyOlderRelaysStop
  <1>8. ClientInv
    BY <1>1 DEF ClientInv, Here
  <1>9. WorkInv /\ CatalogInv
    BY <1>5, <1>6 DEF WorkInv, CatalogInv
  <1>10. SessionInv
    BY <1>1 DEF SessionInv, ToldOf
  <1> QED
    BY <1>7, <1>8, <1>9, <1>10 DEF RelayInv

LEMMA RelayInvNext == RelayInv /\ [Next]_vars => RelayInv'
  BY TypeNext, PortInvNext, ClientInvNext, OnlyOlderNext, WorkInvNext, CatalogInvNext, SessionInvNext DEF RelayInv

LEMMA RelayInvHolds == Spec => []RelayInv
  BY RelayInvInit, RelayInvNext, PTL DEF Spec

(* Whatever the clients and relays do, a client asks only a managed relay of  *)
(* an older build than its own to stop (http-api.ts, relay-lifecycle.ts).    *)
THEOREM NewerBuildsReplaceOlder == Spec => []OnlyOlderRelaysStop
  <1>1. RelayInv => OnlyOlderRelaysStop
    BY DEF RelayInv
  <1> QED
    BY <1>1, RelayInvHolds, PTL

(* A relay that closes has no request, script, command of the browser or      *)
(* unsaved session left, although work arrives while it drains               *)
(* (cleanup in relay.ts, relay-work.ts).                                    *)
THEOREM DrainsBeforeItCloses == Spec => []AcceptedWorkIsFinished
  <1>1. RelayInv => AcceptedWorkIsFinished
    BY DEF RelayInv, WorkInv, AcceptedWorkIsFinished
  <1> QED
    BY <1>1, RelayInvHolds, PTL

(* A session that was reported, and not asked away since, is on disk and in   *)
(* every relay that serves (http-api.ts, session-manager.ts).                *)
THEOREM SessionsSurvive == Spec => []ReportedSessionsSurvive
  <1>1. RelayInv => ReportedSessionsSurvive
    <2> SUFFICES ASSUME RelayInv, NEW c \in Client, ToldOf(c), ~ Undone(c)
                 PROVE  /\ catalog = Wanted(c)
                        /\ port # None => (Serving(port) => relay[port].session = catalog)
      BY DEF ReportedSessionsSurvive, Wanted
    <2>1. ~ Opposed(c)
      BY DEF Opposed, HadEffect, Undone, Here, Wanted
    <2>2. catalog = Wanted(c) /\ \A r \in Relay : relay[r].session \in {None, Wanted(c)}
      BY <2>1 DEF RelayInv, SessionInv
    <2>3. \A r \in Relay : Serving(r) => relay[r].session # None
      BY DEF RelayInv, CatalogInv, Serving
    <2> QED
      BY <2>2, <2>3 DEF RelayInv, TypeOK
  <1> QED
    BY <1>1, RelayInvHolds, PTL
=============================================================================
