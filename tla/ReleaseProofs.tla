---------------------------- MODULE ReleaseProofs ----------------------------
(***************************************************************************)
(* Proofs about the release transaction, for any number of crashes and of  *)
(* moves of main: with an author index that shows a signature at once, the *)
(* envelope is signed once, and what is published is whole.                *)
(***************************************************************************)
EXTENDS ReleaseTransaction, TLAPS

\* The phases of a run that change the draft, from the signature on.
Uploading == {"drop_bundle", "put_bundle", "drop_receipt", "put_receipt", "publish"}

\* Where a run can be, given the release it works on: only the run that found
\* no release makes one, and the phases that sign or upload work on a draft.
RunMatchesRelease ==
  /\ job.phase = "create" => release.state = "absent" /\ job.mode = "new"
  /\ job.phase = "upload" => release.state = "partial" /\ job.mode = "new"
  /\ job.phase \in {"recover", "prepare", "author"} =>
       IF job.mode = "immutable" THEN release.state = "immutable"
                                 ELSE release.state \in Draft
  /\ job.phase \in {"sign", "bundle"} \cup Uploading => release.state \in Draft
  /\ job.phase \in {"await", "dispatch", "conclude"} => release.state \in Published

\* What a run has achieved when it reaches a phase.
RunHasDone ==
  /\ job.phase = "sign" => made["author"] = 0
  /\ job.phase \in Uploading => made["author"] = 1
  /\ job.phase \in {"drop_receipt", "put_receipt", "publish"} =>
       release.bundle /\ job.receipt = "ASSETS_UPLOADED"
  /\ job.phase = "publish" => release.receipt = "ASSETS_UPLOADED"
  /\ job.receipt = "AUTHOR_ATTESTED" => job.phase \in {"drop_bundle", "put_bundle"}
  /\ job.receipt = "IMMUTABLE" => job.phase \in {"dispatch", "conclude"}

\* The author index is up to date.
AuthorIsIndexed == index["author"] = made["author"]

IInv == TypeOK /\ RunMatchesRelease /\ RunHasDone /\ AuthorIsIndexed
          /\ SignedOnce /\ PublishedIsWhole

USE DEF Kinds, Draft, Published, JobPhases, Receipts, Uploading

ReleaseType ==
  [state: {"absent"} \cup Draft \cup Published, target: 0..MaxMain,
   receipt: {"none", "PREPARED", "ASSETS_UPLOADED"}, bundle: BOOLEAN]

JobType == [phase: JobPhases, mode: {"new", "draft", "immutable"},
            sha: 0..MaxMain, receipt: Receipts]

SiteTyped ==
  /\ pages \in [phase: {"idle", "ready", "gate"}, sha: 0..MaxMain,
                coordinator: {"running", "success", "failure"}]
  /\ public \in [state: {"none", "PAGES_MATERIALIZED", "BROWSER_VERIFIED"}, sha: 0..MaxMain]
  /\ crashes \in 0..MaxCrashes

\* The site and the crash counter keep their types.
LEMMA SiteStep ==
  ASSUME main \in 0..MaxMain, SiteTyped, [Next]_vars
  PROVE  SiteTyped'
<1>1. CASE UNCHANGED <<pages, public, crashes>>
  BY <1>1 DEF SiteTyped
<1>2. CASE Dispatch \/ Conclude
  BY <1>2 DEF Dispatch, Conclude, SiteTyped
<1>3. CASE Crash
  BY <1>3, ReleaseAssumption DEF Crash, SiteTyped
<1>4. CASE MaterializePages \/ VerifyBrowser \/ FailPages
  BY <1>4 DEF MaterializePages, VerifyBrowser, FailPages, SiteTyped
<1>5. CASE Start \/ CreateDraft \/ UploadDraft \/ RecoverAssets \/ Prepare
            \/ ReconcileAuthor \/ Sign \/ DownloadBundle \/ DropBundle \/ PutBundle
            \/ DropReceipt \/ PutReceipt \/ Publish \/ Await \/ Fail
  BY <1>1, <1>5, Zenon DEF Start, CreateDraft, UploadDraft, RecoverAssets, Prepare,
     ReconcileAuthor, Sign, DownloadBundle, DropBundle, PutBundle, DropReceipt,
     PutReceipt, Publish, Await, Fail
<1>6. CASE ProviderStep \/ MoveMain \/ UNCHANGED vars
  BY <1>1, <1>6, Zenon DEF ProviderStep, Seal, Reveal, MoveMain, vars
<1> QED
  BY <1>2, <1>3, <1>4, <1>5, <1>6, Zenon DEF Next, JobStep

\* A run that goes on to another phase keeps everything else.
LEMMA GoesOn ==
  ASSUME job \in JobType, NEW p \in JobPhases, Goes(p)
  PROVE  /\ job' \in JobType
         /\ job'.phase = p
         /\ job'.mode = job.mode
         /\ job'.sha = job.sha
         /\ job'.receipt = job.receipt
  BY DEF Goes, JobType

\* A run that stops leaves nothing behind.
LEMMA StopsClean ==
  ASSUME Stops
  PROVE  job' \in JobType /\ job'.phase = "idle" /\ job'.receipt = "none"
  BY ReleaseAssumption DEF Stops, NewJob, JobType

\* An attestation is counted; the author's is indexed at once.
LEMMA AttestsOne ==
  ASSUME "author" \notin Lagging, made \in [Kinds -> Nat], index \in [Kinds -> Nat],
         AuthorIsIndexed, NEW k \in Kinds, Attests(k)
  PROVE  /\ made' \in [Kinds -> Nat]
         /\ index' \in [Kinds -> Nat]
         /\ AuthorIsIndexed'
         /\ made'["author"] = IF k = "author" THEN made["author"] + 1 ELSE made["author"]
  BY DEF Attests, AuthorIsIndexed

\* The initial state satisfies the invariant: nothing is made or published.
LEMMA InitInv == Init => IInv
  BY ReleaseAssumption, SMTT(60)
  DEF Init, IInv, TypeOK, SiteTyped, RunMatchesRelease, RunHasDone, AuthorIsIndexed,
      SignedOnce, PublishedIsWhole, NewJob

\* Every step of the run, of the provider and of the site preserves it.
LEMMA StepInv ==
  ASSUME "author" \notin Lagging, IInv, [Next]_vars
  PROVE  IInv'
<1> USE ReleaseAssumption
<1>0. /\ release \in ReleaseType /\ job \in JobType
      /\ made \in [Kinds -> Nat] /\ index \in [Kinds -> Nat] /\ main \in 0..MaxMain
      /\ RunMatchesRelease /\ RunHasDone /\ AuthorIsIndexed
      /\ SignedOnce /\ PublishedIsWhole /\ SiteTyped
  BY DEF IInv, TypeOK, ReleaseType, JobType, SiteTyped
<1> DEFINE Good == RunMatchesRelease /\ RunHasDone /\ AuthorIsIndexed
                     /\ SignedOnce /\ PublishedIsWhole
           Typed == /\ release \in ReleaseType /\ job \in JobType /\ main \in 0..MaxMain
                    /\ made \in [Kinds -> Nat] /\ index \in [Kinds -> Nat]
<1>a. SUFFICES Typed' /\ Good'
  BY <1>0, SiteStep DEF IInv, TypeOK, ReleaseType, JobType, SiteTyped
<1>b. job.phase \in JobPhases /\ job.receipt \in Receipts
  BY <1>0 DEF JobType
<1>1. CASE Start
  <2>1. /\ job' \in JobType /\ job'.phase \in {"create", "recover"} /\ job'.receipt = "none"
        /\ job'.phase = "create" => release.state = "absent" /\ job'.mode = "new"
        /\ job'.phase = "recover" => IF job'.mode = "immutable" THEN release.state = "immutable"
                                     ELSE release.state \in Draft
    BY <1>0, <1>b, <1>1 DEF Start, Mode, JobType, ReleaseType
  <2>2. UNCHANGED <<release, made, index, main>>
    BY <1>0, <1>1 DEF Start
  <2> QED
    BY <1>0, <1>b, <2>1, <2>2 DEF RunMatchesRelease, RunHasDone, AuthorIsIndexed,
       SignedOnce, PublishedIsWhole
<1>2. CASE CreateDraft
  <2>1. /\ job' \in JobType /\ job'.phase = "upload" /\ job'.receipt = job.receipt
        /\ job'.mode = job.mode /\ job.phase = "create"
    BY <1>0, <1>b, <1>2, GoesOn DEF CreateDraft
  <2>2. /\ release' \in ReleaseType /\ release'.state = "partial"
        /\ UNCHANGED <<made, index, main>>
    BY <1>0, <1>2 DEF CreateDraft, ReleaseType, JobType
  <2> QED
    BY <1>0, <1>b, <2>1, <2>2 DEF RunMatchesRelease, RunHasDone, AuthorIsIndexed,
       SignedOnce, PublishedIsWhole
<1>3. CASE UploadDraft
  <2>1. /\ job' \in JobType /\ job'.phase = "prepare" /\ job'.receipt = job.receipt
        /\ job'.mode = job.mode /\ job.phase = "upload"
    BY <1>0, <1>b, <1>3, GoesOn DEF UploadDraft
  <2>2. /\ release' \in ReleaseType /\ release'.state = "draft"
        /\ UNCHANGED <<made, index, main>>
    BY <1>0, <1>3 DEF UploadDraft, ReleaseType
  <2> QED
    BY <1>0, <1>b, <2>1, <2>2 DEF RunMatchesRelease, RunHasDone, AuthorIsIndexed,
       SignedOnce, PublishedIsWhole
<1>4. CASE RecoverAssets
  <2>1. /\ job' \in JobType /\ job'.phase = "prepare" /\ job'.receipt \in {"none", "PREPARED", "ASSETS_UPLOADED"}
        /\ job'.mode = job.mode /\ job.phase = "recover"
    BY <1>0, <1>b, <1>4 DEF RecoverAssets, JobType, ReleaseType
  <2>2. UNCHANGED <<release, made, index, main>>
    BY <1>0, <1>4 DEF RecoverAssets
  <2> QED
    BY <1>0, <1>b, <2>1, <2>2 DEF RunMatchesRelease, RunHasDone, AuthorIsIndexed,
       SignedOnce, PublishedIsWhole
<1>5. CASE Prepare
  <2>1. /\ job' \in JobType /\ job'.phase = "author" /\ job'.receipt \in {job.receipt, "PREPARED"}
        /\ job'.mode = job.mode /\ job.phase = "prepare"
    BY <1>0, <1>b, <1>5, GoesOn DEF Prepare, JobType
  <2>2. /\ release' \in ReleaseType /\ release'.bundle = release.bundle
        /\ release'.state = release.state
        /\ release' # release => release.state = "draft"
        /\ UNCHANGED <<made, index, main>>
    BY <1>0, <1>5 DEF Prepare, ReleaseType, JobType
  <2> QED
    BY <1>0, <1>b, <2>1, <2>2 DEF RunMatchesRelease, RunHasDone, AuthorIsIndexed,
       SignedOnce, PublishedIsWhole
<1>6. CASE ReconcileAuthor
  <2>1. job.phase = "author" /\ ~Refused /\ UNCHANGED <<release, made, index, main>>
    BY <1>6 DEF ReconcileAuthor
  <2>2. Plan = "SIGN_AUTHOR" => index["author"] = 0
    BY <1>0, <1>b DEF Plan, Reconcile
  <2>3. PICK p \in {"await", "sign", "bundle"} :
          /\ Goes(p)
          /\ IF job.mode = "immutable" THEN p = "await" ELSE p # "await"
          /\ p = "sign" => Plan = "SIGN_AUTHOR"
    BY <1>6, Zenon DEF ReconcileAuthor
  <2>4. /\ job' \in JobType /\ job'.phase = p
        /\ job'.mode = job.mode /\ job'.receipt = job.receipt
    BY <1>0, <2>3, GoesOn
  <2> QED
    BY <1>0, <1>b, <2>1, <2>2, <2>3, <2>4 DEF RunMatchesRelease, RunHasDone,
       AuthorIsIndexed, SignedOnce, PublishedIsWhole
<1>7. CASE Sign
  <2>1. /\ job' \in JobType /\ job'.phase = "bundle" /\ job'.receipt = job.receipt
        /\ job.phase = "sign"
    BY <1>0, <1>7, GoesOn DEF Sign
  <2>2. /\ made' \in [Kinds -> Nat] /\ index' \in [Kinds -> Nat]
        /\ AuthorIsIndexed' /\ made'["author"] = made["author"] + 1
        /\ UNCHANGED <<release, main>>
    BY <1>0, <1>7, AttestsOne DEF Sign
  <2> QED
    BY <1>0, <1>b, <2>1, <2>2 DEF RunMatchesRelease, RunHasDone, SignedOnce,
       PublishedIsWhole
<1>8. CASE DownloadBundle
  <2>1. /\ job' \in JobType /\ job'.phase = "drop_bundle" /\ job'.receipt # "IMMUTABLE"
        /\ job.phase = "bundle" /\ index["author"] = 1
    BY <1>0, <1>b, <1>8 DEF DownloadBundle, JobType, RunHasDone
  <2>2. UNCHANGED <<release, made, index, main>>
    BY <1>0, <1>8 DEF DownloadBundle
  <2> QED
    BY <1>0, <1>b, <2>1, <2>2 DEF RunMatchesRelease, RunHasDone, AuthorIsIndexed,
       SignedOnce, PublishedIsWhole
<1>9. CASE DropBundle
  <2>1. /\ job' \in JobType /\ job'.phase = "put_bundle" /\ job'.receipt = job.receipt
        /\ job'.mode = job.mode /\ job.phase = "drop_bundle"
    BY <1>0, <1>b, <1>9, GoesOn DEF DropBundle
  <2>2. /\ release' \in ReleaseType /\ release'.state = release.state
        /\ UNCHANGED <<made, index, main>>
    BY <1>0, <1>9 DEF DropBundle, ReleaseType
  <2> QED
    BY <1>0, <1>b, <2>1, <2>2 DEF RunMatchesRelease, RunHasDone, AuthorIsIndexed,
       SignedOnce, PublishedIsWhole
<1>10. CASE PutBundle
  <2>1. /\ job' \in JobType /\ job'.phase = "drop_receipt" /\ job'.receipt = "ASSETS_UPLOADED"
        /\ job.phase = "put_bundle"
    BY <1>0, <1>b, <1>10 DEF PutBundle, JobType
  <2>2. /\ release' \in ReleaseType /\ release'.state = release.state /\ release'.bundle
        /\ UNCHANGED <<made, index, main>>
    BY <1>0, <1>10 DEF PutBundle, ReleaseType
  <2> QED
    BY <1>0, <1>b, <2>1, <2>2 DEF RunMatchesRelease, RunHasDone, AuthorIsIndexed,
       SignedOnce, PublishedIsWhole
<1>11. CASE DropReceipt
  <2>1. /\ job' \in JobType /\ job'.phase = "put_receipt" /\ job'.receipt = job.receipt
        /\ job'.mode = job.mode /\ job.phase = "drop_receipt"
    BY <1>0, <1>b, <1>11, GoesOn DEF DropReceipt
  <2>2. /\ release' \in ReleaseType /\ release'.state = release.state
        /\ release'.bundle = release.bundle
        /\ UNCHANGED <<made, index, main>>
    BY <1>0, <1>11 DEF DropReceipt, ReleaseType
  <2> QED
    BY <1>0, <1>b, <2>1, <2>2 DEF RunMatchesRelease, RunHasDone, AuthorIsIndexed,
       SignedOnce, PublishedIsWhole
<1>12. CASE PutReceipt
  <2>1. /\ job' \in JobType /\ job'.phase = "publish" /\ job'.receipt = job.receipt
        /\ job.phase = "put_receipt"
    BY <1>0, <1>b, <1>12, GoesOn DEF PutReceipt
  <2>2. /\ release' \in ReleaseType /\ release'.state = release.state
        /\ release'.bundle = release.bundle /\ release'.receipt = "ASSETS_UPLOADED"
        /\ UNCHANGED <<made, index, main>>
    BY <1>0, <1>12 DEF PutReceipt, ReleaseType, RunHasDone
  <2> QED
    BY <1>0, <1>b, <2>1, <2>2 DEF RunMatchesRelease, RunHasDone, AuthorIsIndexed,
       SignedOnce, PublishedIsWhole
<1>13. CASE Publish
  <2>1. /\ job' \in JobType /\ job'.phase = "await" /\ job'.receipt = job.receipt
        /\ job'.mode = job.mode /\ job.phase = "publish"
    BY <1>0, <1>b, <1>13, GoesOn DEF Publish
  <2>2. /\ release' \in ReleaseType /\ release'.state = "published"
        /\ release'.bundle = release.bundle /\ release'.receipt = release.receipt
        /\ UNCHANGED <<made, index, main>>
    BY <1>0, <1>13 DEF Publish, ReleaseType
  <2> QED
    BY <1>0, <1>b, <2>1, <2>2 DEF RunMatchesRelease, RunHasDone, AuthorIsIndexed,
       SignedOnce, PublishedIsWhole
<1>14. CASE Await
  <2>1. /\ job' \in JobType /\ job'.phase = "dispatch" /\ job'.receipt = "IMMUTABLE"
        /\ job.phase = "await"
    BY <1>0, <1>b, <1>14 DEF Await, JobType
  <2>2. UNCHANGED <<release, made, index, main>>
    BY <1>0, <1>14 DEF Await
  <2> QED
    BY <1>0, <1>b, <2>1, <2>2 DEF RunMatchesRelease, RunHasDone, AuthorIsIndexed,
       SignedOnce, PublishedIsWhole
<1>15. CASE Dispatch
  <2>1. /\ job' \in JobType /\ job'.phase = "conclude" /\ job'.receipt = job.receipt
        /\ job'.mode = job.mode /\ job.phase = "dispatch"
    BY <1>0, <1>b, <1>15, GoesOn DEF Dispatch
  <2>2. UNCHANGED release
        /\ UNCHANGED <<made, index, main>>
    BY <1>0, <1>15 DEF Dispatch, ReleaseType
  <2> QED
    BY <1>0, <1>b, <2>1, <2>2 DEF RunMatchesRelease, RunHasDone, AuthorIsIndexed,
       SignedOnce, PublishedIsWhole
<1>16. CASE Conclude
  <2>1. /\ job' \in JobType /\ job'.phase = "idle" /\ job'.receipt = "none"
    BY <1>0, <1>b, <1>16, StopsClean DEF Conclude
  <2>2. UNCHANGED <<release, made, index, main>>
    BY <1>0, <1>16 DEF Conclude
  <2> QED
    BY <1>0, <1>b, <2>1, <2>2 DEF RunMatchesRelease, RunHasDone, AuthorIsIndexed,
       SignedOnce, PublishedIsWhole
<1>17. CASE Fail
  <2>1. /\ job' \in JobType /\ job'.phase = "idle" /\ job'.receipt = "none"
    BY <1>0, <1>b, <1>17, StopsClean DEF Fail
  <2>2. UNCHANGED <<release, made, index, main>>
    BY <1>0, <1>17 DEF Fail
  <2> QED
    BY <1>0, <1>b, <2>1, <2>2 DEF RunMatchesRelease, RunHasDone, AuthorIsIndexed,
       SignedOnce, PublishedIsWhole
<1>18. CASE Crash
  <2>1. /\ job' \in JobType /\ job'.phase = "idle" /\ job'.receipt = "none"
    BY <1>0, <1>b, <1>18, StopsClean DEF Crash
  <2>2. UNCHANGED <<release, made, index, main>>
    BY <1>0, <1>18 DEF Crash
  <2> QED
    BY <1>0, <1>b, <2>1, <2>2 DEF RunMatchesRelease, RunHasDone, AuthorIsIndexed,
       SignedOnce, PublishedIsWhole
<1>19. CASE Seal
  <2>1. /\ release' \in ReleaseType /\ release.state = "published"
        /\ release'.state = "immutable"
        /\ release'.receipt = release.receipt /\ release'.bundle = release.bundle
        /\ UNCHANGED <<job, main>>
    BY <1>0, <1>19 DEF Seal, ReleaseType
  <2>2. /\ made' \in [Kinds -> Nat] /\ index' \in [Kinds -> Nat]
        /\ AuthorIsIndexed' /\ made'["author"] = made["author"]
    BY <1>0, <1>19, AttestsOne DEF Seal
  <2> QED
    BY <1>0, <1>b, <2>1, <2>2 DEF RunMatchesRelease, RunHasDone, SignedOnce,
       PublishedIsWhole
<1>20. ASSUME NEW k \in Kinds, Reveal(k) PROVE Typed' /\ Good'
  <2>1. k # "author"
    BY <1>0, <1>20 DEF Reveal, AuthorIsIndexed
  <2>2. /\ index' \in [Kinds -> Nat] /\ index'["author"] = index["author"]
        /\ UNCHANGED <<release, job, made, main>>
    BY <1>0, <1>20, <2>1 DEF Reveal
  <2> QED
    BY <1>0, <2>2 DEF RunMatchesRelease, RunHasDone, AuthorIsIndexed, SignedOnce,
       PublishedIsWhole
<1>21. CASE MaterializePages \/ VerifyBrowser \/ FailPages
  <2>1. UNCHANGED <<release, job, made, index, main>>
    BY <1>21 DEF MaterializePages, VerifyBrowser, FailPages
  <2> QED
    BY <1>0, <2>1 DEF RunMatchesRelease, RunHasDone, AuthorIsIndexed, SignedOnce,
       PublishedIsWhole
<1>22. CASE MoveMain
  <2>1. main' \in 0..MaxMain /\ UNCHANGED <<release, job, made, index>>
    BY <1>0, <1>22 DEF MoveMain
  <2> QED
    BY <1>0, <2>1 DEF RunMatchesRelease, RunHasDone, AuthorIsIndexed, SignedOnce,
       PublishedIsWhole
<1>23. CASE UNCHANGED vars
  BY <1>0, <1>23 DEF vars, RunMatchesRelease, RunHasDone, AuthorIsIndexed,
     SignedOnce, PublishedIsWhole
<1> QED
  BY <1>a, <1>1, <1>2, <1>3, <1>4, <1>5, <1>6, <1>7, <1>8, <1>9, <1>10, <1>11,
     <1>12, <1>13, <1>14, <1>15, <1>16, <1>17, <1>18, <1>19, <1>20, <1>21, <1>22,
     <1>23, Zenon
  DEF Next, JobStep, ProviderStep

\* The strengthened invariant holds throughout.
THEOREM Invariance ==
  ASSUME "author" \notin Lagging PROVE Spec => []IInv
<1>1. IInv /\ [Next]_vars => IInv'
  BY StepInv
<1> QED
  BY InitInv, <1>1, PTL DEF Spec

\* With a prompt author index the envelope is signed at most once, however many
\* runs of release-envelope.yml die and wherever they do.
THEOREM EnvelopeSignedOnce ==
  ASSUME "author" \notin Lagging PROVE Spec => []SignedOnce
<1>1. IInv => SignedOnce
  BY DEF IInv
<1> QED
  BY Invariance, <1>1, PTL

\* What release-envelope.yml publishes is signed, with its bundle and with the
\* receipt that vouches for it.
THEOREM ReleaseIsWhole ==
  ASSUME "author" \notin Lagging PROVE Spec => []PublishedIsWhole
<1>1. IInv => PublishedIsWhole
  BY DEF IInv
<1> QED
  BY Invariance, <1>1, PTL

-----------------------------------------------------------------------------
(* What the steps after publication may change *)

\* The provider's countersignature comes with immutability.
SealedOnce == made["platform"] = IF release.state = "immutable" THEN 1 ELSE 0

\* How a step may change a release and its attestations.
ReleaseMoves ==
  /\ release.state # "absent" => release'.target = release.target
  /\ release.state = "published" => release' \in {release, [release EXCEPT !.state = "immutable"]}
  /\ release.state = "immutable" => release' = release /\ made' = made
  /\ SealedOnce'

\* No step takes back what is published: the phases that write find a draft.
LEMMA ReleaseStep ==
  ASSUME IInv, SealedOnce, [Next]_vars
  PROVE  ReleaseMoves
<1>0. /\ release \in ReleaseType /\ job \in JobType
      /\ made \in [Kinds -> Nat] /\ index \in [Kinds -> Nat]
      /\ RunMatchesRelease
  BY DEF IInv, TypeOK, ReleaseType, JobType
<1>1. CASE UNCHANGED <<release, made>>
  BY <1>0, <1>1 DEF ReleaseMoves, SealedOnce, ReleaseType
<1>2. ASSUME CreateDraft \/ UploadDraft \/ DropBundle \/ PutBundle \/ DropReceipt
               \/ PutReceipt \/ Publish
      PROVE  ReleaseMoves
  <2> DEFINE Rewrites == /\ release.state \in {"absent"} \cup Draft
                         /\ release.state # "absent" => release'.target = release.target
                         /\ release'.state \in Draft \cup {"published"}
                         /\ made' = made
  <2>a. SUFFICES Rewrites
    BY <2>a DEF ReleaseMoves, SealedOnce
  <2>1. CASE CreateDraft
    BY <1>0, <2>1 DEF CreateDraft, RunMatchesRelease, ReleaseType
  <2>2. CASE UploadDraft
    BY <1>0, <2>2 DEF UploadDraft, RunMatchesRelease, ReleaseType
  <2>3. CASE DropBundle \/ PutBundle
    BY <1>0, <2>3 DEF DropBundle, PutBundle, RunMatchesRelease, ReleaseType
  <2>4. CASE DropReceipt \/ PutReceipt
    BY <1>0, <2>4 DEF DropReceipt, PutReceipt, RunMatchesRelease, ReleaseType
  <2>5. CASE Publish
    BY <1>0, <2>5 DEF Publish, RunMatchesRelease, ReleaseType
  <2> QED
    BY <1>2, <2>1, <2>2, <2>3, <2>4, <2>5
<1>3. CASE Prepare
  <2>1. CASE release' = release
    BY <1>1, <1>3, <2>1 DEF Prepare
  <2>2. CASE release.state = "draft" /\ release' = [release EXCEPT !.receipt = "PREPARED"]
    <3>1. release'.state = "draft" /\ release'.target = release.target /\ made' = made
      BY <1>0, <1>3, <2>2 DEF Prepare, ReleaseType
    <3> QED
      BY <2>2, <3>1 DEF ReleaseMoves, SealedOnce
  <2> QED
    BY <1>3, <2>1, <2>2 DEF Prepare
<1>4. CASE Sign
  <2>1. release.state \in Draft /\ release' = release
    BY <1>0, <1>4 DEF Sign, RunMatchesRelease
  <2>2. made'["platform"] = made["platform"]
    BY <1>0, <1>4 DEF Sign, Attests
  <2> QED
    BY <2>1, <2>2 DEF ReleaseMoves, SealedOnce
<1>5. CASE Seal
  <2>1. /\ release.state = "published"
        /\ release' = [release EXCEPT !.state = "immutable"]
        /\ release'.state = "immutable" /\ release'.target = release.target
    BY <1>0, <1>5 DEF Seal, ReleaseType
  <2>2. made'["platform"] = made["platform"] + 1
    BY <1>0, <1>5 DEF Seal, Attests
  <2> QED
    BY <2>1, <2>2 DEF ReleaseMoves, SealedOnce
<1>6. CASE Start \/ RecoverAssets \/ ReconcileAuthor \/ DownloadBundle \/ Await
            \/ Dispatch \/ Conclude \/ Fail \/ Crash
  BY <1>1, <1>6, Zenon DEF Start, RecoverAssets, ReconcileAuthor, DownloadBundle, Await,
     Dispatch, Conclude, Fail, Crash
<1>7. CASE MaterializePages \/ VerifyBrowser \/ FailPages \/ MoveMain
            \/ \E k \in Kinds : Reveal(k)
  BY <1>1, <1>7, Zenon DEF MaterializePages, VerifyBrowser, FailPages, MoveMain, Reveal
<1>8. CASE UNCHANGED vars
  BY <1>1, <1>8 DEF vars
<1> QED
  BY <1>2, <1>3, <1>4, <1>5, <1>6, <1>7, <1>8, Zenon DEF Next, JobStep, ProviderStep

\* No run of release-envelope.yml changes a published release, its assets or
\* its receipt, nor gives a tag another target.
THEOREM ReleaseStands ==
  ASSUME "author" \notin Lagging PROVE Spec => PublishedStands
<1> DEFINE Both == IInv /\ SealedOnce
           Stands == /\ release.state \in Published =>
                          release' = [release EXCEPT !.state = release'.state]
                             /\ release'.state \in Published
                     /\ release.state # "absent" => release'.target = release.target
<1>1. Init => Both
  BY InitInv DEF Init, SealedOnce
<1>2. Both /\ [Next]_vars => Both'
  BY StepInv, ReleaseStep DEF ReleaseMoves
<1>3. Both /\ [Next]_vars => [Stands]_vars
  <2> SUFFICES ASSUME Both, [Next]_vars PROVE Stands
    OBVIOUS
  <2>1. ReleaseMoves
    BY ReleaseStep
  <2>2. release \in ReleaseType
    BY DEF IInv, TypeOK, ReleaseType
  <2> QED
    BY <2>1, <2>2 DEF ReleaseMoves, ReleaseType
<1> QED
  BY <1>1, <1>2, <1>3, PTL DEF Spec, PublishedStands

\* The gate of pages.yml is open for an immutable release only.
GateIsBacked == pages.phase = "gate" => release.state = "immutable"

\* What the site shows follows an immutable release that nothing changes.
THEOREM SiteIsBacked ==
  ASSUME "author" \notin Lagging PROVE Spec => []PublicIsBacked
<1> DEFINE All == IInv /\ SealedOnce /\ GateIsBacked /\ PublicIsBacked
<1>1. Init => All
  BY InitInv DEF Init, SealedOnce, GateIsBacked, PublicIsBacked
<1>2. ASSUME All, [Next]_vars PROVE All'
  <2>1. IInv' /\ ReleaseMoves
    BY <1>2, StepInv, ReleaseStep
  <2>2. /\ release \in ReleaseType /\ made \in [Kinds -> Nat] /\ SiteTyped
        /\ SignedOnce /\ PublishedIsWhole
    BY <1>2 DEF IInv, TypeOK, ReleaseType, SiteTyped
  <2>3. release.state = "immutable" =>
          /\ release' = release /\ made' = made
          /\ release.bundle /\ made["author"] = 1 /\ made["platform"] = 1
    BY <1>2, <2>1, <2>2 DEF ReleaseMoves, SealedOnce, SignedOnce, PublishedIsWhole
  <2>4. CASE UNCHANGED public /\ (pages'.phase = "gate" => pages.phase = "gate")
    BY <1>2, <2>1, <2>3, <2>4 DEF ReleaseMoves, GateIsBacked, PublicIsBacked
  <2>5. CASE MaterializePages
    <3>1. /\ release.state = "immutable" /\ public'.state = "PAGES_MATERIALIZED"
      BY <2>5 DEF MaterializePages
    <3> QED
      BY <2>1, <2>3, <3>1 DEF ReleaseMoves, GateIsBacked, PublicIsBacked
  <2>6. CASE VerifyBrowser
    <3>1. /\ pages.phase = "gate" /\ public'.sha = release.target
      BY <2>6 DEF VerifyBrowser
    <3> QED
      BY <1>2, <2>1, <2>3, <3>1 DEF ReleaseMoves, GateIsBacked, PublicIsBacked
  <2>7. CASE Dispatch \/ Conclude \/ Crash \/ FailPages
    <3>1. UNCHANGED public
      BY <2>7, Zenon DEF Dispatch, Conclude, Crash, FailPages
    <3>2. pages'.phase = "gate" => pages.phase = "gate"
      BY <2>2, <2>7 DEF Dispatch, Conclude, Crash, FailPages, SiteTyped
    <3> QED
      BY <2>4, <3>1, <3>2
  <2>8. CASE Start \/ CreateDraft \/ UploadDraft \/ RecoverAssets \/ Prepare
              \/ ReconcileAuthor \/ Sign \/ DownloadBundle \/ DropBundle \/ PutBundle
              \/ DropReceipt \/ PutReceipt \/ Publish \/ Await \/ Fail
    BY <2>4, <2>8, Zenon DEF Start, CreateDraft, UploadDraft, RecoverAssets, Prepare,
       ReconcileAuthor, Sign, DownloadBundle, DropBundle, PutBundle, DropReceipt,
       PutReceipt, Publish, Await, Fail
  <2>9. CASE ProviderStep \/ MoveMain \/ UNCHANGED vars
    BY <2>4, <2>9, Zenon DEF ProviderStep, Seal, Reveal, MoveMain, vars
  <2> QED
    BY <1>2, <2>5, <2>6, <2>7, <2>8, <2>9, Zenon DEF Next, JobStep
<1>3. All => PublicIsBacked
  OBVIOUS
<1> QED
  BY <1>1, <1>2, <1>3, PTL DEF Spec
=============================================================================
