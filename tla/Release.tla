------------------------------ MODULE Release ------------------------------
(***************************************************************************)
(* Publication of a release candidate (scripts/finalize-github-release.ts  *)
(* and scripts/publish-chrome-web-store.ts).  A job, started again every   *)
(* few minutes and never twice at once, looks for the newest candidate     *)
(* whose version npm has made public, prepares a draft of its GitHub       *)
(* release, submits its extension to the Chrome Web Store and publishes    *)
(* the draft.  It may end between any two requests: it crashed, a request  *)
(* or its answer was lost, an upload failed.  It keeps nothing: the next   *)
(* job reads what it must know from npm, GitHub and the store, where a     *)
(* maintainer, npm's approval and the store's review act at the same time. *)
(* A candidate is named by its workflow run; bytes and commits are the run *)
(* they come from.                                                         *)
(***************************************************************************)
EXTENDS Naturals, FiniteSets, FiniteSetsExt

CONSTANTS MaxRun,           \* bound: completed runs of the release workflow
          MaxVersion,       \* bound: versions of the package and of the extension
          Origin,           \* what runs have retained: kind, merged (by a pull request), whole (the archive)
          File,             \* the files of a candidate
          MaxFailures,      \* bound: jobs that end early
          MaxInterference   \* bound: steps of a maintainer

ASSUME ReleaseAssumption ==
  /\ MaxRun \in Nat \ {0} /\ MaxVersion \in Nat \ {0}
  /\ MaxFailures \in Nat /\ MaxInterference \in Nat
  /\ Origin \subseteq [kind : {"staged", "legacy", "buildOnly"}, merged : BOOLEAN, whole : BOOLEAN]
  /\ IsFiniteSet(File) /\ File # {}

VARIABLES
  artifact,   \* what each run retained: its origin, versions, whether it has expired
  npm,        \* the run whose tarball npm serves as a version
  release,    \* the GitHub release of a version
  tag,        \* the commit of a version's tag
  store,      \* the item in the Chrome Web Store
  job,        \* the running job
  outcome,    \* what the last job that came to its end reported
  accepted,   \* the extension versions a job has submitted
  failures, interference

releaseVars == <<artifact, npm, release, tag, store, job, outcome, accepted, failures, interference>>

Run == 1..MaxRun
Version == 1..MaxVersion
NoRun == 0
Foreign == MaxRun + 1   \* bytes or a commit of no candidate
NoVersion == 0

NoRelease == [state |-> "none", files |-> [f \in File |-> NoRun], target |-> NoRun, conflict |-> "none"]
NoSubmission == [state |-> "none", version |-> NoVersion]
Idle == [pc |-> "idle", run |-> NoRun, left |-> {}, found |-> "none", files |-> {}]

(***************************************************************************)
(* The candidate of a job and the checks of finalizeCandidateRelease.      *)
(***************************************************************************)
IsCandidate(r) ==
  /\ ~ artifact[r].expired
  /\ \/ artifact[r].origin.kind = "staged"
     \/ artifact[r].origin.kind = "legacy" /\ artifact[r].origin.merged

v == artifact[job.run].version
target == artifact[job.run].extension
IsOurs(f) == release[v].files[f] = job.run

\* The tag must be this candidate's, be missing while there is a draft of this candidate, or be for the draft to make.
TagConflicts ==
  \/ tag[v] \notin {NoRun, job.run}
  \/ tag[v] = NoRun /\ (job.found = "public" \/ (job.found = "draft" /\ release[v].target # job.run))

At(pc) == job.pc = pc
Go(pc) == job' = [job EXCEPT !.pc = pc]
\* The job ends: with a report, or by an error that the next job knows nothing of.
Report(status) == job' = Idle /\ outcome' = [status |-> status, run |-> job.run]
Throw == job' = Idle /\ UNCHANGED outcome
Reads == UNCHANGED <<artifact, npm, release, tag, store, accepted, failures, interference>>

(***************************************************************************)
(* finalizeGitHubRelease: the newest candidate that npm has published.     *)
(***************************************************************************)
StartJob ==
  /\ At("idle") /\ job' = [Idle EXCEPT !.pc = "runs", !.left = Run] /\ Reads /\ UNCHANGED outcome

\* readReleaseCandidateArchive, the name of the artifact
IsReadable(r) == artifact[r].origin.whole
\* verifyPublishedNpmArtifact: the tarball of the version is this candidate's, another's, or there is none.
Published(r) ==
  LET served == npm[artifact[r].version]
  IN IF served = NoRun THEN "not-published" ELSE IF served = r THEN "published" ELSE "conflict"

ExamineRun ==
  /\ At("runs") /\ Reads
  /\ IF job.left = {} THEN Report("waiting")
     ELSE LET r == Max(job.left)
              next == [job EXCEPT !.left = @ \ {r}]
          IN IF ~ IsCandidate(r) \/ (IsReadable(r) /\ Published(r) = "not-published") THEN
               job' = next /\ UNCHANGED outcome
             ELSE IF ~ IsReadable(r) \/ Published(r) = "conflict" THEN Throw
             ELSE job' = [next EXCEPT !.pc = "releases", !.run = r] /\ UNCHANGED outcome

\* An edited or a second release of the tag is refused.
ListReleases ==
  /\ At("releases") /\ Reads
  /\ IF release[v].conflict = "release" THEN Throw
     ELSE job' = [job EXCEPT !.pc = "tag", !.found = release[v].state] /\ UNCHANGED outcome

ResolveTag ==
  /\ At("tag") /\ Reads
  /\ IF TagConflicts THEN Throw
     ELSE Go(IF job.found = "none" THEN "create" ELSE "assets") /\ UNCHANGED outcome

CreateDraft ==
  /\ At("create") /\ Go("assets")
  /\ release' = [release EXCEPT ![v].state = "draft", ![v].target = job.run]
  /\ UNCHANGED <<artifact, npm, tag, store, accepted, failures, interference, outcome>>

\* assertAssetSet: a file of another name is refused.
AssertAssetSet ==
  /\ At("assets") /\ Reads
  /\ IF release[v].conflict = "asset" THEN Throw
     ELSE job' = [job EXCEPT !.pc = "files", !.files = File] /\ UNCHANGED outcome

\* A file that an earlier job has uploaded is kept.
StartsAgain(f) == FALSE   \* variant
Resumes(f) == IsOurs(f)

\* One file after the other is verified, or uploaded and verified.
VerifyOrUpload ==
  /\ At("files") /\ job.files # {}
  /\ UNCHANGED <<artifact, npm, tag, store, accepted, failures, interference>>
  /\ \E f \in job.files :
       LET present == release[v].files[f] # NoRun
           uploads == ~ present /\ job.found # "public"
       IN /\ release' = IF uploads THEN [release EXCEPT ![v].files[f] = job.run] ELSE release
          /\ IF Resumes(f) \/ uploads THEN job' = [job EXCEPT !.files = @ \ {f}] /\ UNCHANGED outcome
             ELSE Throw

\* The whole set again; a release that is public already is left as it is.
VerifyAll ==
  /\ At("files") /\ job.files = {} /\ Reads
  /\ IF release[v].conflict = "asset" \/ (\E f \in File : ~ IsOurs(f)) THEN Throw
     ELSE IF job.found = "public" THEN Report("no-op")
     ELSE Go("status") /\ UNCHANGED outcome

PublishDraft ==
  /\ At("publish") /\ Go("verify")
  /\ release' = [release EXCEPT ![v].state = "public"]
  /\ tag' = [tag EXCEPT ![v] = IF @ = NoRun THEN release[v].target ELSE @]   \* done by GitHub
  /\ UNCHANGED <<artifact, npm, store, accepted, failures, interference, outcome>>

TagIsThere == tag[v] # NoRun   \* variant
TagIsOurs == tag[v] = job.run

VerifyTag ==
  /\ At("verify") /\ Reads
  /\ IF TagIsOurs THEN Report("created") ELSE Throw

(***************************************************************************)
(* publishChromeWebStore.                                                  *)
(***************************************************************************)
\* releaseDisposition, for an extension version e.
SubmissionRefuses(e) ==
  LET s == store.submitted
  IN IF s.version = e THEN s.state \in {"STAGED", "REJECTED", "CANCELLED"}
     ELSE s.state \in {"PENDING_REVIEW", "STAGED"} \/ s.version > e

CompletedByUpload(e) == store.package = e   \* variant
Completed(e) ==
  /\ ~ store.warned
  /\ IF store.submitted.version = e THEN store.submitted.state \in {"PENDING_REVIEW", "PUBLISHED"}
     ELSE ~ SubmissionRefuses(e) /\ store.published = e
Refused(e) == ~ Completed(e) /\ (store.warned \/ SubmissionRefuses(e) \/ store.published >= e)

\* The state of the item decides before the upload and again at each poll.
Decide(otherwise) ==
  IF Refused(target) THEN Throw
  ELSE IF Completed(target) THEN Go("publish") /\ UNCHANGED outcome
  ELSE otherwise

FetchStatus == At("status") /\ Reads /\ Decide(Go("upload") /\ UNCHANGED outcome)

Upload ==
  /\ At("upload") /\ UNCHANGED <<artifact, npm, release, tag, accepted, failures, interference, outcome>>
  /\ \/ store' = [store EXCEPT !.package = target, !.upload = "SUCCEEDED"] /\ Go("submit")
     \/ store' = [store EXCEPT !.upload = "IN_PROGRESS", !.uploading = target] /\ Go("poll")

\* A poll that finds the upload still going is no step.
Poll ==
  /\ At("poll") /\ Reads /\ (store.upload = "IN_PROGRESS" => Completed(target) \/ Refused(target))
  /\ Decide(IF store.upload = "SUCCEEDED" THEN Go("submit") /\ UNCHANGED outcome ELSE Throw)

\* DEFAULT_PUBLISH; the store refuses it while a review is pending.
Submit ==
  /\ At("submit")
  /\ IF store.submitted.state = "PENDING_REVIEW" \/ store.warned THEN Throw /\ UNCHANGED <<store, accepted>>
     ELSE /\ store' = [store EXCEPT !.submitted = [state |-> "PENDING_REVIEW", version |-> store.package]]
          /\ accepted' = accepted \cup {store.package}
          /\ Go("publish") /\ UNCHANGED outcome
  /\ UNCHANGED <<artifact, npm, release, tag, failures, interference>>

\* The job stops here: a crash, a lost request, a lost answer of a request that had its effect.
JobFails ==
  /\ ~ At("idle") /\ failures < MaxFailures
  /\ failures' = failures + 1 /\ Throw
  /\ UNCHANGED <<artifact, npm, release, tag, store, accepted, interference>>

(***************************************************************************)
(* npm, GitHub, the store and the maintainer.                              *)
(***************************************************************************)
\* A maintainer approves the staged tarball of a run; a version is public once and for all.
Approve(r) ==
  /\ artifact[r].origin.kind = "staged" \/ (artifact[r].origin.kind = "legacy" /\ artifact[r].origin.merged)
  /\ npm[artifact[r].version] = NoRun /\ npm' = [npm EXCEPT ![artifact[r].version] = r]
  /\ UNCHANGED <<artifact, release, tag, store, job, outcome, accepted, failures, interference>>

UploadEnds ==
  /\ store.upload = "IN_PROGRESS"
  /\ \/ store' = [store EXCEPT !.package = store.uploading, !.upload = "SUCCEEDED"] /\ UNCHANGED failures
     \/ /\ failures < MaxFailures /\ failures' = failures + 1
        /\ store' = [store EXCEPT !.upload = "FAILED"]
  /\ UNCHANGED <<artifact, npm, release, tag, job, outcome, accepted, interference>>

\* The published revision replaces the submitted one, which the status may or may not go on to show.
Review ==
  /\ store.submitted.state = "PENDING_REVIEW"
  /\ \/ \E s \in {NoSubmission, [store.submitted EXCEPT !.state = "PUBLISHED"]} :
          store' = [store EXCEPT !.submitted = s, !.published = store.submitted.version]
     \/ store' = [store EXCEPT !.submitted.state = "REJECTED"]
  /\ UNCHANGED <<artifact, npm, release, tag, job, outcome, accepted, failures, interference>>

Interfere ==
  /\ interference < MaxInterference /\ interference' = interference + 1
  /\ \/ \E w \in Version : tag[w] = NoRun /\ tag' = [tag EXCEPT ![w] = Foreign]
        /\ UNCHANGED <<artifact, release, store>>
     \/ /\ \E w \in Version :
             /\ release[w].state # "none"
             /\ \/ \E c \in {"release", "asset"} : release' = [release EXCEPT ![w].conflict = c]
                \/ \E f \in File : /\ release[w].files[f] = NoRun
                                   /\ release' = [release EXCEPT ![w].files[f] = Foreign]
        /\ UNCHANGED <<artifact, tag, store>>
     \/ \E s \in {"STAGED", "CANCELLED"} :
          /\ store.submitted.state = "PENDING_REVIEW" /\ store' = [store EXCEPT !.submitted.state = s]
          /\ UNCHANGED <<artifact, release, tag>>
     \/ store' = [store EXCEPT !.warned = TRUE] /\ UNCHANGED <<artifact, release, tag>>
     \/ \E r \in Run : artifact' = [artifact EXCEPT ![r].expired = TRUE] /\ UNCHANGED <<release, tag, store>>
  /\ UNCHANGED <<npm, job, outcome, accepted, failures>>

\* Later runs build later versions, or the same again.
ReleaseInit ==
  /\ artifact \in [Run -> [origin : Origin, version : Version, extension : Version, expired : {FALSE}]]
  /\ \A r, s \in Run : r < s => /\ artifact[r].version <= artifact[s].version
                               /\ artifact[r].extension <= artifact[s].extension
  /\ npm = [w \in Version |-> NoRun] /\ release = [w \in Version |-> NoRelease]
  /\ tag = [w \in Version |-> NoRun]
  /\ \E p \in {NoVersion, 1} :
       store = [submitted |-> NoSubmission, published |-> p, package |-> p, uploading |-> NoVersion,
                upload |-> "none", warned |-> FALSE]
  /\ job = Idle /\ outcome = [status |-> "none", run |-> NoRun]
  /\ accepted = {} /\ failures = 0 /\ interference = 0

Finalize == ExamineRun \/ ListReleases \/ ResolveTag \/ CreateDraft \/ AssertAssetSet \/ VerifyOrUpload
            \/ VerifyAll \/ PublishDraft \/ VerifyTag
PublishExtension == FetchStatus \/ Upload \/ Poll \/ Submit

ReleaseNext ==
  \/ StartJob \/ Finalize \/ PublishExtension \/ JobFails
  \/ (\E r \in Run : Approve(r)) \/ UploadEnds \/ Review \/ Interfere

ReleaseSpec == ReleaseInit /\ [][ReleaseNext]_releaseVars
\* The schedule starts a job again and again, requests are answered, an upload ends.
FairReleaseSpec ==
  /\ ReleaseSpec
  /\ WF_releaseVars(StartJob) /\ WF_releaseVars(Finalize)
  /\ WF_releaseVars(PublishExtension) /\ WF_releaseVars(UploadEnds)

(***************************************************************************)
(* Properties.                                                             *)
(***************************************************************************)
\* A job that reports a release as created or complete leaves it public, with the files that npm's
\* candidate has, under a tag of that candidate's commit - whatever was tagged or uploaded meanwhile.
ReportedReleaseIsWhole ==
  outcome.status \in {"created", "no-op"} =>
    LET r == outcome.run
        w == artifact[r].version
    IN /\ npm[w] = r /\ release[w].state = "public" /\ tag[w] = r
       /\ \A f \in File : release[w].files[f] = r

\* A release becomes public only when the store has its extension: submitted by a job, or public.
PublicIsInStore ==
  \A w \in Version : release[w].state = "public" =>
    /\ npm[w] # NoRun
    /\ artifact[npm[w]].extension \in accepted \/ artifact[npm[w]].extension <= store.published

\* However often jobs are lost and repeated, and whatever the review says: a submission is of a
\* later version than all submitted or published before, so no version is submitted again.
SubmissionsAdvance ==
  [][store'.submitted.state = "PENDING_REVIEW" /\ store'.submitted # store.submitted =>
       \A e \in accepted \cup {store.published} : store'.submitted.version > e]_releaseVars

\* The newest candidate that npm has is released in the end, after any lost jobs and failed uploads,
\* unless a maintainer interferes or the store refuses its extension for good.
IsNewest(r) ==
  /\ IsCandidate(r) /\ IsReadable(r) /\ Published(r) = "published"
  /\ \A s \in r + 1 .. MaxRun : IsCandidate(s) => IsReadable(s) /\ Published(s) = "not-published"
NewestIsReleased ==
  \A r \in Run :
    <>[](IsNewest(r) /\ interference = 0 /\ ~ Refused(artifact[r].extension))
      => <>(release[artifact[r].version].state = "public")

\* Releases go forward only, and do go forward.
ReleasesAdvance == SubmissionsAdvance /\ NewestIsReleased
=============================================================================
