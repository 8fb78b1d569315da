------------------------- MODULE ReleaseTransaction -------------------------
(***************************************************************************)
(* The resumable release transaction of one tag.  A workflow run creates a *)
(* draft, signs its envelope once, uploads the proofs and a receipt, and   *)
(* publishes the draft as an immutable release; a second workflow puts the *)
(* proof on the public site and verifies it in a browser.  A run may stop  *)
(* anywhere; the next one resumes from what the provider kept.             *)
(*                                                                         *)
(* The concurrency group of the tag lets one run at a time through.  The   *)
(* hash chain of a receipt is abstracted to its last state.                *)
(***************************************************************************)
EXTENDS Naturals, FiniteSets

CONSTANTS
  MaxMain,                \* how often the main branch moves
  MaxCrashes,             \* runs that die, are cancelled or run into a time-out
  Lagging                 \* the attestations whose index lags behind

ASSUME ReleaseAssumption ==
  /\ MaxMain \in Nat
  /\ MaxCrashes \in Nat
  /\ Lagging \subseteq {"author", "platform"}

VARIABLES
  main,                   \* the commit main is at
  release,                \* the release of the tag, with its assets
  made,                   \* attestations made, by kind
  index,                  \* attestations its public index shows, by kind
  job,                    \* the run of release-envelope.yml
  pages,                  \* the run of pages.yml
  public,                 \* the receipt on the public site, and who deployed it
  crashes

vars == <<main, release, made, index, job, pages, public, crashes>>

Kinds == {"author", "platform"}
Receipts == {"none", "PREPARED", "AUTHOR_ATTESTED", "ASSETS_UPLOADED", "IMMUTABLE"}
Draft == {"partial", "draft"}
Published == {"published", "immutable"}

JobPhases == {"idle", "create", "upload", "recover", "prepare", "author", "sign", "bundle",
              "drop_bundle", "put_bundle", "drop_receipt", "put_receipt", "publish",
              "await", "dispatch", "conclude"}

NewJob == [phase |-> "idle", mode |-> "new", sha |-> 0, receipt |-> "none"]

Init ==
  /\ main = 0
  /\ release = [state |-> "absent", target |-> 0, receipt |-> "none", bundle |-> FALSE]
  /\ made = [k \in Kinds |-> 0]
  /\ index = [k \in Kinds |-> 0]
  /\ job = NewJob
  /\ pages = [phase |-> "idle", sha |-> 0, coordinator |-> "running"]
  /\ public = [state |-> "none", sha |-> 0]
  /\ crashes = 0

Goes(phase) == job' = [job EXCEPT !.phase = phase]
Stops == job' = NewJob

\* One more attestation of a kind; a prompt index shows it at once.
Attests(k) ==
  /\ made' = [made EXCEPT ![k] = @ + 1]
  /\ index' = IF k \in Lagging THEN index ELSE [index EXCEPT ![k] = made[k] + 1]

-----------------------------------------------------------------------------
(* release-envelope.yml *)

\* Mutant: a published release is resumed like a draft.
ModeByPresence == IF release.state = "absent" THEN "new" ELSE "draft"

\* Inspect or resume: a new transaction targets the commit of its own run.
Mode == IF release.state = "absent" THEN "new"
        ELSE IF release.state = "immutable" THEN "immutable" ELSE "draft"

Start ==
  /\ job.phase = "idle"
  /\ release.state # "published"
  /\ job' = [phase |-> IF release.state = "absent" THEN "create" ELSE "recover",
             mode |-> Mode, sha |-> main, receipt |-> "none"]
  /\ UNCHANGED <<main, release, made, index, pages, public, crashes>>

\* gh release create makes the draft, then uploads its assets one by one.
CreateDraft ==
  /\ job.phase = "create"
  /\ release' = [release EXCEPT !.state = "partial", !.target = job.sha]
  /\ Goes("upload")
  /\ UNCHANGED <<main, made, index, pages, public, crashes>>

UploadDraft ==
  /\ job.phase = "upload"
  /\ release' = [release EXCEPT !.state = "draft"]
  /\ Goes("prepare")
  /\ UNCHANGED <<main, made, index, pages, public, crashes>>

RecoverAssets ==
  /\ job.phase = "recover"
  /\ job' = [job EXCEPT !.phase = "prepare", !.receipt = release.receipt]
  /\ UNCHANGED <<main, release, made, index, pages, public, crashes>>

\* Initialize or verify the receipt.  A new receipt needs the release to be a
\* draft with every asset.
Prepare ==
  /\ job.phase = "prepare"
  /\ \/ /\ job.receipt # "none"
        /\ Goes("author")
        /\ UNCHANGED release
     \/ /\ job.receipt = "none"
        /\ release.state = "draft"
        /\ release' = [release EXCEPT !.receipt = "PREPARED"]
        /\ job' = [job EXCEPT !.phase = "author", !.receipt = "PREPARED"]
  /\ UNCHANGED <<main, made, index, pages, public, crashes>>

\* Mutant: a prepared transaction is signed, whatever the index says.
ReconcileBlindly(state, author, platform) ==
  IF state = "PREPARED" THEN "SIGN_AUTHOR"
  ELSE IF release.state # "immutable" THEN "PUBLISH_IMMUTABLE"
  ELSE IF author = 1 /\ platform = 1 THEN "RECORD_IMMUTABLE" ELSE "AMBIGUOUS"

\* Mutant: a signature whose run died is not adopted.
ReconcileStrictly(state, author, platform) ==
  IF author > 1 \/ platform > 1 \/ (state = "PREPARED" /\ author = 1) THEN "AMBIGUOUS"
  ELSE IF state = "PREPARED" THEN "SIGN_AUTHOR"
  ELSE IF release.state # "immutable" THEN "PUBLISH_IMMUTABLE"
  ELSE IF author = 1 /\ platform = 1 THEN "RECORD_IMMUTABLE" ELSE "AMBIGUOUS"

\* reconcile_receipt, for the receipts that a release holds.
Reconcile(state, author, platform) ==
  IF author > 1 \/ platform > 1 THEN "AMBIGUOUS"
  ELSE IF state = "PREPARED"
  THEN IF author = 0 THEN "SIGN_AUTHOR" ELSE "RECORD_AUTHOR_ATTESTED"
  ELSE IF release.state # "immutable" THEN "PUBLISH_IMMUTABLE"
  ELSE IF author = 1 /\ platform = 1 THEN "RECORD_IMMUTABLE" ELSE "AMBIGUOUS"

Plan == Reconcile(job.receipt, index["author"],
                  IF release.state = "immutable" THEN index["platform"] ELSE 0)

\* Only the run of the target commit may sign.
Refused == \/ index["author"] > 1
           \/ Plan = "AMBIGUOUS"
           \/ Plan = "SIGN_AUTHOR" /\ release.target # job.sha

ReconcileAuthor ==
  /\ job.phase = "author"
  /\ ~Refused
  /\ Goes(IF job.mode = "immutable" THEN "await"
          ELSE IF Plan = "SIGN_AUTHOR" THEN "sign" ELSE "bundle")
  /\ UNCHANGED <<main, release, made, index, pages, public, crashes>>

Sign ==
  /\ job.phase = "sign"
  /\ Attests("author")
  /\ Goes("bundle")
  /\ UNCHANGED <<main, release, pages, public, crashes>>

\* Download and verify the one author attestation, once its index shows it.
DownloadBundle ==
  /\ job.phase = "bundle"
  /\ index["author"] = 1
  /\ job' = [job EXCEPT !.phase = "drop_bundle",
               !.receipt = IF @ = "PREPARED" THEN "AUTHOR_ATTESTED" ELSE @]
  /\ UNCHANGED <<main, release, made, index, pages, public, crashes>>

\* upload_draft_asset deletes the asset before it posts it again.
DropBundle ==
  /\ job.phase = "drop_bundle"
  /\ release' = [release EXCEPT !.bundle = FALSE]
  /\ Goes("put_bundle")
  /\ UNCHANGED <<main, made, index, pages, public, crashes>>

\* The digests observed on the draft are then the expected ones.
PutBundle ==
  /\ job.phase = "put_bundle"
  /\ release' = [release EXCEPT !.bundle = TRUE]
  /\ job' = [job EXCEPT !.phase = "drop_receipt", !.receipt = "ASSETS_UPLOADED"]
  /\ UNCHANGED <<main, made, index, pages, public, crashes>>

DropReceipt ==
  /\ job.phase = "drop_receipt"
  /\ release' = [release EXCEPT !.receipt = "none"]
  /\ Goes("put_receipt")
  /\ UNCHANGED <<main, made, index, pages, public, crashes>>

PutReceipt ==
  /\ job.phase = "put_receipt"
  /\ release' = [release EXCEPT !.receipt = job.receipt]
  /\ Goes("publish")
  /\ UNCHANGED <<main, made, index, pages, public, crashes>>

\* Mutant: the draft is published before its receipt is there.
PublishEarly ==
  /\ job.phase \in {"drop_receipt", "publish"}
  /\ release' = [release EXCEPT !.state = "published"]
  /\ Goes("await")
  /\ UNCHANGED <<main, made, index, pages, public, crashes>>

Publish ==
  /\ job.phase = "publish"
  /\ release' = [release EXCEPT !.state = "published"]
  /\ Goes("await")
  /\ UNCHANGED <<main, made, index, pages, public, crashes>>

\* Wait for the release to be immutable and for both attestations, then advance
\* the receipt; it leaves the run as an artifact.
Await ==
  /\ job.phase = "await"
  /\ release.state = "immutable"
  /\ index["author"] = 1
  /\ index["platform"] = 1
  /\ job.receipt = "ASSETS_UPLOADED"
  /\ job' = [job EXCEPT !.phase = "dispatch", !.receipt = "IMMUTABLE"]
  /\ UNCHANGED <<main, release, made, index, pages, public, crashes>>

\* pages.yml runs on main and cancels a run of itself that is in progress.
Dispatch ==
  /\ job.phase = "dispatch"
  /\ pages' = [phase |-> "ready", sha |-> main, coordinator |-> "running"]
  /\ Goes("conclude")
  /\ UNCHANGED <<main, release, made, index, public, crashes>>

Conclude ==
  /\ job.phase = "conclude"
  /\ pages' = [pages EXCEPT !.coordinator = "success"]
  /\ Stops
  /\ UNCHANGED <<main, release, made, index, public, crashes>>

\* A test of the workflow fails, and fails again next time.
Fail ==
  /\ \/ job.phase = "prepare" /\ job.receipt = "none" /\ release.state # "draft"
     \/ job.phase = "author" /\ Refused
     \/ job.phase \in {"bundle", "await"} /\ index["author"] > 1
     \/ job.phase = "await" /\ job.receipt # "ASSETS_UPLOADED"
  /\ Stops
  /\ UNCHANGED <<main, release, made, index, pages, public, crashes>>

\* The run dies, or gives up waiting for an index.
Crash ==
  /\ job.phase # "idle"
  /\ crashes < MaxCrashes
  /\ crashes' = crashes + 1
  /\ pages' = IF job.phase = "conclude"
              THEN [pages EXCEPT !.coordinator = "failure"] ELSE pages
  /\ Stops
  /\ UNCHANGED <<main, release, made, index, public>>

-----------------------------------------------------------------------------
(* pages.yml *)

\* The candidate: only for an immutable release whose coordinator succeeded,
\* with one author and one platform attestation.
MaterializePages ==
  /\ pages.phase = "ready"
  /\ pages.coordinator = "success"
  /\ release.state = "immutable"
  /\ release.receipt = "ASSETS_UPLOADED"
  /\ index["author"] = 1
  /\ index["platform"] = 1
  /\ public' = [state |-> "PAGES_MATERIALIZED", sha |-> pages.sha]
  /\ pages' = [pages EXCEPT !.phase = "gate"]
  /\ UNCHANGED <<main, release, made, index, job, crashes>>

\* Mutant: the receipt does not bind the verified source.
VerifyAnyBrowser ==
  /\ pages.phase = "gate"
  /\ public' = [state |-> "BROWSER_VERIFIED", sha |-> pages.sha]
  /\ pages' = [pages EXCEPT !.phase = "idle"]
  /\ UNCHANGED <<main, release, made, index, job, crashes>>

\* The browser gate passed on the release's own source: the final deployment.
VerifyBrowser ==
  /\ pages.phase = "gate"
  /\ pages.sha = release.target
  /\ public' = [state |-> "BROWSER_VERIFIED", sha |-> pages.sha]
  /\ pages' = [pages EXCEPT !.phase = "idle"]
  /\ UNCHANGED <<main, release, made, index, job, crashes>>

\* A test fails, or a wait is given up; the candidate stays on the site.
FailPages ==
  /\ pages.phase # "idle"
  /\ pages' = [pages EXCEPT !.phase = "idle"]
  /\ UNCHANGED <<main, release, made, index, job, public, crashes>>

-----------------------------------------------------------------------------
(* The provider and the authors *)

\* The published release becomes immutable and is countersigned.
Seal ==
  /\ release.state = "published"
  /\ release' = [release EXCEPT !.state = "immutable"]
  /\ Attests("platform")
  /\ UNCHANGED <<main, job, pages, public, crashes>>

Reveal(k) ==
  /\ index[k] < made[k]
  /\ index' = [index EXCEPT ![k] = @ + 1]
  /\ UNCHANGED <<main, release, made, job, pages, public, crashes>>

MoveMain ==
  /\ main < MaxMain
  /\ main' = main + 1
  /\ UNCHANGED <<release, made, index, job, pages, public, crashes>>

-----------------------------------------------------------------------------
JobStep ==
  \/ Start \/ CreateDraft \/ UploadDraft \/ RecoverAssets \/ Prepare
  \/ ReconcileAuthor \/ Sign \/ DownloadBundle \/ DropBundle \/ PutBundle
  \/ DropReceipt \/ PutReceipt \/ Publish \/ Await \/ Dispatch \/ Conclude \/ Fail

ProviderStep == Seal \/ \E k \in Kinds : Reveal(k)

Next == JobStep \/ ProviderStep \/ Crash \/ MaterializePages \/ VerifyBrowser
        \/ FailPages \/ MoveMain

Spec == Init /\ [][Next]_vars

\* The release is retried until it is through; the provider catches up.
LiveSpec == Spec /\ WF_vars(JobStep) /\ WF_vars(ProviderStep)

-----------------------------------------------------------------------------
(* Properties *)

TypeOK ==
  /\ main \in 0..MaxMain
  /\ release \in [state: {"absent"} \cup Draft \cup Published, target: 0..MaxMain,
                  receipt: {"none", "PREPARED", "ASSETS_UPLOADED"}, bundle: BOOLEAN]
  /\ made \in [Kinds -> Nat]
  /\ index \in [Kinds -> Nat]
  /\ job \in [phase: JobPhases, mode: {"new", "draft", "immutable"},
              sha: 0..MaxMain, receipt: Receipts]
  /\ pages \in [phase: {"idle", "ready", "gate"}, sha: 0..MaxMain,
                coordinator: {"running", "success", "failure"}]
  /\ public \in [state: {"none", "PAGES_MATERIALIZED", "BROWSER_VERIFIED"}, sha: 0..MaxMain]
  /\ crashes \in 0..MaxCrashes

\* The envelope of a transaction is signed by one author attestation, however
\* often and wherever its runs die ("A retry adopts ... any existing author
\* attestation instead of ... signing a second envelope", README.md:409).
SignedOnce == made["author"] <= 1

\* A release goes public only as a whole: signed, with its bundle and with a
\* receipt that vouches for it.  A run that died between two of its deletions
\* and uploads never makes the next one publish less.
PublishedIsWhole ==
  release.state \in Published =>
    release.receipt = "ASSETS_UPLOADED" /\ release.bundle /\ made["author"] >= 1

\* The site shows a receipt only of an immutable release with the 1 + 1
\* attestations, and calls it browser verified only if the source that ran the
\* browser is the one released, though main may move on at any time.
PublicIsBacked ==
  public.state # "none" =>
    /\ release.state = "immutable" /\ release.bundle
    /\ made["author"] = 1 /\ made["platform"] = 1
    /\ public.state = "BROWSER_VERIFIED" => public.sha = release.target

\* No run changes a published release, its assets or its receipt, nor gives a
\* tag another target.
PublishedStands ==
  [][/\ release.state \in Published =>
          release' = [release EXCEPT !.state = release'.state]
             /\ release'.state \in Published
     /\ release.state # "absent" => release'.target = release.target]_vars

\* As long as main stays where it was, a draft that got all its assets is
\* published in the end, wherever its runs die.
DraftIsPublished ==
  [](main = 0) => (release.state = "draft" ~> release.state = "immutable")
=============================================================================
