---------------------------- MODULE KmsAuthority ----------------------------
(***************************************************************************)
(* The proof run of the KMS outcome authority: a workflow run grants a     *)
(* host access to one prefix, has it prepare three approved proposals,     *)
(* signs their outcomes in another job role across two rotations of the    *)
(* key, has the host verify and promote them off line, and at last takes   *)
(* the grant and every private object back (kms_outcome_authority.py,      *)
(* run_kms_authority_lifecycle_proof.py, kms_authority_proof.py and the    *)
(* steps of aws-kms-outcome-authority-proof.yml).                          *)
(*                                                                         *)
(* The runner and the host are two processes: a runner that was cancelled  *)
(* or that stopped polling cleans up while the host's command goes on, and *)
(* the grant it takes back is honoured for a while yet.                    *)
(***************************************************************************)
EXTENDS Integers, FiniteSets

CONSTANTS
    HandleTTL,  \* how long a handle lives (DEFAULT_ATTESTATION_TTL)
    Overlap,    \* how long a retired epoch may be verified after issuance
    Backdate,   \* the age of the handle that is issued expired
    MaxNow      \* bound: the last instant of the clock

ASSUME WindowAssumption ==
    /\ HandleTTL \in Nat \ {0} /\ Overlap \in Nat /\ Backdate \in Nat /\ MaxNow \in Nat
    /\ HandleTTL <= Overlap /\ HandleTTL < Backdate

Epochs == 1..3                              \* authority epochs: A, B, A again
Slot(e) == IF e = 2 THEN "B" ELSE "A"
Request == [kind |-> "request", epoch |-> 0]
Issuance == [kind |-> "issuance", epoch |-> 0]
ProviderObject(e) == [kind |-> "provider", epoch |-> e]
Never == -1

VARIABLES
    now,        \* the clock
    runner,     \* the runner's step and the epoch it is at
    host,       \* the same for the command on the host
    granted,    \* does IAM honour the one-command policy of the host's role?
    objects,    \* the private objects of the prefix
    row,        \* row[e]: the proposal of epoch e: none, approved, succeeded
    handle,     \* handle[e]: what was issued for it; handle[0]: issued expired
    turned,     \* turned[e]: when epoch e took over (activation, rotation, rollback)
    ring,       \* the last public keyring, with one entry per epoch
    calls,      \* lookups and signatures of the run
    refused,    \* the codes that the negative paths met
    report,     \* the public report: none, written, validated
    stuck       \* private objects whose deletion failed unnoticed

kvars == <<now, runner, host, granted, objects, row, handle, turned, ring,
           calls, refused, report, stuck>>

NoHandle == [epoch |-> 0, slot |-> "A", issued |-> Never, genuine |-> FALSE]

KmsInit ==
    /\ now = 0
    /\ runner = [at |-> "grant", epoch |-> 1]
    /\ host = [at |-> "idle", epoch |-> 1]
    /\ granted = FALSE
    /\ objects = {}
    /\ row = [e \in Epochs |-> "none"]
    /\ handle = [e \in 0..3 |-> NoHandle]
    /\ turned = [e \in Epochs |-> Never]
    /\ ring = <<>>
    /\ calls = [lookup |-> 0, sign |-> 0]
    /\ refused = {}
    /\ report = "none"
    /\ stuck = {}

IsAt(process, step) == process.at = step
Goto(step) == [at |-> step, epoch |-> 1]
NextEpoch(process, step) ==
    IF process.epoch < 3 THEN [process EXCEPT !.epoch = @ + 1] ELSE Goto(step)

-----------------------------------------------------------------------------
(* Keys and handles.                                                       *)

Expires(h) == h.issued + HandleTTL

\* As a defect: verification of a retired epoch would end when it retires.
KeyringEntryAtTurn(e, version, end) ==
    [slot |-> Slot(e), active |-> e = version, from |-> turned[e],
     until |-> IF e = version THEN Never ELSE turned[e + 1],
     verify |-> IF e = version THEN Never ELSE turned[e + 1]]

\* An entry of the PublicVerificationKeyring of the given version: the newest
\* epoch is active, every older one retires at its successor's turn.
KeyringEntry(e, version, end) ==
    [slot |-> Slot(e), active |-> e = version, from |-> turned[e],
     until |-> IF e = version THEN Never ELSE turned[e + 1],
     verify |-> IF e = version THEN Never ELSE end]

\* PinnedVerificationKey refuses windows that end before they begin, and
\* from_manifest another number of active epochs than one.
KeyIsSound(k) == ~k.active => k.from <= k.until /\ k.until <= k.verify

KeyringIsSound(r) ==
    /\ Cardinality({e \in DOMAIN r : r[e].active}) = 1
    /\ \A e \in DOMAIN r : KeyIsSound(r[e])

\* PinnedPublicKeyringVerifier.verify: the tests in their order, so that each
\* refusal has the code of the first one that fails.
Verdict(r, h, t) ==
    IF \/ h.epoch \notin DOMAIN r
       \/ r[h.epoch].slot # h.slot
       \/ ~h.genuine
       \/ h.issued > t
      THEN "INVALID"
    ELSE IF Expires(h) < t
      THEN "EXPIRED"
    ELSE IF \/ h.issued < r[h.epoch].from
            \/ /\ ~r[h.epoch].active
               /\ h.issued > r[h.epoch].until \/ t > r[h.epoch].verify
      THEN "INVALID"
    ELSE "OK"

\* KmsProviderOutcomeAttestationSigner.issue of the signer of epoch e.
Signed(e, at) == [epoch |-> e, slot |-> Slot(e), issued |-> at, genuine |-> TRUE]

-----------------------------------------------------------------------------
(* The host: prepare.                                                      *)

\* The database credentials are read with the policy, once; the connection stays.
OpensDatabase == host.epoch = 1 => granted

\* _approved_proposal: run, proposal, approval and outbox row of one epoch.
HostPropose ==
    /\ IsAt(host, "propose")
    /\ OpensDatabase
    /\ row' = [row EXCEPT ![host.epoch] = "approved"]
    /\ host' = [host EXCEPT !.at = "put"]
    /\ UNCHANGED <<now, runner, granted, objects, handle, turned, ring, calls,
                   refused, report, stuck>>

\* _put_provider_object.
HostPutObject ==
    /\ IsAt(host, "put")
    /\ granted
    /\ objects' = objects \cup {ProviderObject(host.epoch)}
    /\ host' = IF host.epoch < 3 THEN [at |-> "propose", epoch |-> host.epoch + 1]
                                 ELSE Goto("upload")
    /\ UNCHANGED <<now, runner, granted, row, handle, turned, ring, calls,
                   refused, report, stuck>>

\* The refused kms:Sign, the private request and its upload.
HostUploadRequest ==
    /\ IsAt(host, "upload")
    /\ granted
    /\ objects' = objects \cup {Request}
    /\ refused' = refused \cup {<<"worker_kms_sign", "AccessDenied">>}
    /\ host' = Goto("prepared")
    /\ UNCHANGED <<now, runner, granted, row, handle, turned, ring, calls,
                   report, stuck>>

-----------------------------------------------------------------------------
(* The runner: issue.                                                      *)

\* S3ReceiptLookupProvider.lookup.
LookedUp(e) == ProviderObject(e) \in objects

\* verify_and_issue: the receipt is looked up before anything is signed.
VerifyAndIssue(h, e, at) ==
    /\ LookedUp(e)
    /\ handle' = [handle EXCEPT ![h] = Signed(e, at)]
    /\ calls' = [lookup |-> calls.lookup + 1, sign |-> calls.sign + 1]

\* For the second and the third epoch the turn of the keys is noted first.
RunnerTurn ==
    /\ IsAt(runner, "turn")
    /\ Request \in objects
    /\ turned' = [turned EXCEPT ![runner.epoch] =
                     IF runner.epoch = 1 THEN Never ELSE now]
    /\ runner' = [runner EXCEPT !.at = "sign"]
    /\ UNCHANGED <<now, host, granted, objects, row, handle, ring, calls,
                   refused, report, stuck>>

RunnerSign ==
    /\ IsAt(runner, "sign")
    /\ VerifyAndIssue(runner.epoch, runner.epoch, now)
    /\ runner' = IF runner.epoch < 3 THEN [at |-> "turn", epoch |-> runner.epoch + 1]
                                     ELSE Goto("expired")
    /\ UNCHANGED <<now, host, granted, objects, row, turned, ring, refused,
                   report, stuck>>

\* The fourth signature: a handle of the first proposal, out of date when made.
RunnerSignExpired ==
    /\ IsAt(runner, "expired")
    /\ VerifyAndIssue(0, 1, now - Backdate)
    /\ runner' = Goto("rings")
    /\ UNCHANGED <<now, host, granted, objects, row, turned, ring, refused,
                   report, stuck>>

\* The three keyrings; the first epoch is active from just before its handle.
RunnerBuildRings ==
    /\ IsAt(runner, "rings")
    /\ turned' = [turned EXCEPT ![1] = handle[1].issued - 1]
    /\ ring' = [e \in Epochs |->
                  [KeyringEntry(e, 3, now + Overlap) EXCEPT !.from = turned'[e]]]
    /\ KeyringIsSound(ring')
    /\ calls.lookup = 4 /\ calls.sign = 4
    /\ runner' = Goto("handoff")
    /\ UNCHANGED <<now, host, granted, objects, row, handle, calls, refused,
                   report, stuck>>

RunnerHandOff ==
    /\ IsAt(runner, "handoff")
    /\ objects' = objects \cup {Issuance}
    /\ runner' = Goto("consume")
    /\ UNCHANGED <<now, host, granted, row, handle, turned, ring, calls,
                   refused, report, stuck>>

-----------------------------------------------------------------------------
(* The host: consume.                                                      *)

\* Reads both private objects, checks the chain of keyrings and verifies every
\* handle under the last one.
HostLoad ==
    /\ IsAt(host, "load")
    /\ granted
    /\ {Request, Issuance} \subseteq objects
    /\ \A e \in Epochs : Verdict(ring, handle[e], now) = "OK"
    /\ host' = Goto("promote")
    /\ UNCHANGED <<now, runner, granted, objects, row, handle, turned, ring,
                   calls, refused, report, stuck>>

\* record_outcome_and_promote with the pinned verifier, one epoch after another.
HostPromote ==
    /\ IsAt(host, "promote")
    /\ OpensDatabase
    /\ Verdict(ring, handle[host.epoch], now) = "OK"
    /\ row' = [row EXCEPT ![host.epoch] = "succeeded"]
    /\ host' = NextEpoch(host, "replay")
    /\ UNCHANGED <<now, runner, granted, objects, handle, turned, ring, calls,
                   refused, report, stuck>>

\* A restarted verifier replays the first handle and meets the negative paths:
\* the expired one, one with another signature, one of an unknown epoch.
HostReplay ==
    /\ IsAt(host, "replay")
    /\ Verdict(ring, handle[1], now) = "OK"
    /\ refused' = refused \cup
          {<<"expired", Verdict(ring, handle[0], now)>>,
           <<"forged", Verdict(ring, [handle[1] EXCEPT !.genuine = FALSE], now)>>,
           <<"unknown", Verdict(ring, [handle[1] EXCEPT !.epoch = 999], now)>>}
    /\ host' = Goto("delete")
    /\ UNCHANGED <<now, runner, granted, objects, row, handle, turned, ring,
                   calls, report, stuck>>

\* _delete_handoff_objects, one acknowledged deletion after another.
HostDelete ==
    /\ IsAt(host, "delete")
    /\ IF objects = {}
         THEN host' = Goto("gate") /\ UNCHANGED objects
         ELSE /\ granted
              /\ \E o \in objects : objects' = objects \ {o}
              /\ UNCHANGED host
    /\ UNCHANGED <<now, runner, granted, row, handle, turned, ring, calls,
                   refused, report, stuck>>

Negatives == {<<"worker_kms_sign", "AccessDenied">>, <<"expired", "EXPIRED">>,
              <<"forged", "INVALID">>, <<"unknown", "INVALID">>}

\* The eighteen checks, the sealed report and its upload. The two retired
\* handles are verified once more (dual_key_overlap).
HostGate ==
    /\ IsAt(host, "gate")
    /\ granted
    /\ \A e \in Epochs : row[e] = "succeeded"
    /\ calls.sign = 4 /\ calls.lookup = 4
    /\ \A e \in {1, 2} : Verdict(ring, handle[e], now) = "OK"
    /\ refused = Negatives
    /\ report' = "written"
    /\ host' = Goto("consumed")
    /\ UNCHANGED <<now, runner, granted, objects, row, handle, turned, ring,
                   calls, refused, stuck>>

\* Any step may fail, and the ones whose guard does not hold do: the command
\* ends, with what it has done left as it is.
HostFail ==
    /\ host.at \notin {"idle", "prepared", "consumed", "failed"}
    /\ host' = Goto("failed")
    /\ UNCHANGED <<now, runner, granted, objects, row, handle, turned, ring,
                   calls, refused, report, stuck>>

-----------------------------------------------------------------------------
(* The runner: the workflow's steps.                                       *)

\* put-role-policy; then the command that prepares is sent.
RunnerGrant ==
    /\ IsAt(runner, "grant")
    /\ granted' = TRUE
    /\ runner' = Goto("send")
    /\ UNCHANGED <<now, host, objects, row, handle, turned, ring, calls,
                   refused, report, stuck>>

\* ssm send-command, and get-command-invocation until the status is Success.
RunnerSend ==
    /\ \/ IsAt(runner, "send") /\ host' = Goto("propose") /\ runner' = Goto("prepare")
       \/ IsAt(runner, "consume") /\ IsAt(host, "prepared")
          /\ host' = Goto("load") /\ runner' = Goto("collect")
    /\ UNCHANGED <<now, granted, objects, row, handle, turned, ring, calls,
                   refused, report, stuck>>

RunnerPolled ==
    /\ \/ IsAt(runner, "prepare") /\ IsAt(host, "prepared") /\ runner' = Goto("turn")
       \/ IsAt(runner, "collect") /\ IsAt(host, "consumed") /\ runner' = Goto("confirm")
    /\ UNCHANGED <<now, host, granted, objects, row, handle, turned, ring,
                   calls, refused, report, stuck>>

\* "Independently confirm private handoff absence", then
\* validate_kms_authority_proof on the downloaded report.
RunnerConfirm ==
    /\ IsAt(runner, "confirm")
    /\ {Request, Issuance} \cap objects = {}
    /\ report = "written"
    /\ report' = "validated"
    /\ runner' = Goto("revoke")
    /\ UNCHANGED <<now, host, granted, objects, row, handle, turned, ring,
                   calls, refused, stuck>>

\* A step fails, the polling ends without a status, or the run is cancelled:
\* whatever the host is doing, the always() step comes next.
RunnerFail ==
    /\ runner.at \notin {"grant", "revoke", "scrub", "ended"}
    /\ runner' = Goto("revoke")
    /\ UNCHANGED <<now, host, granted, objects, row, handle, turned, ring,
                   calls, refused, report, stuck>>

\* delete-role-policy; the step goes no further when get-role-policy still finds
\* the policy, but it waits for nothing else: the host's credentials may still
\* be honoured when the scrub begins. (That question is assumed to be answered:
\* if it fails as well as the deletion, its failure passes for the absence of
\* the policy.)
RunnerRevoke ==
    /\ IsAt(runner, "revoke")
    /\ runner' = Goto("scrub")
    /\ UNCHANGED <<now, host, granted, objects, row, handle, turned, ring, calls,
                   refused, report, stuck>>

\* IAM no longer honours the deleted policy, sooner or later.
RevocationArrives ==
    /\ runner.at \in {"scrub", "ended"}
    /\ granted
    /\ granted' = FALSE
    /\ UNCHANGED <<now, runner, host, objects, row, handle, turned, ring, calls,
                   refused, report, stuck>>

\* As a defect: the issuance would be left out of the sweep.
RunnerScrubForgets ==
    /\ IsAt(runner, "scrub")
    /\ \E left \in SUBSET objects :
          /\ Cardinality(left) <= 1
          /\ stuck' = left
          /\ objects' = left \cup (objects \cap {Issuance})
    /\ runner' = Goto("ended")
    /\ UNCHANGED <<now, host, granted, row, handle, turned, ring, calls,
                   refused, report>>

\* s3 rm of the request, of the issuance and of the provider's prefix, each
\* with "|| true": a deletion that fails is not heard of.
RunnerScrub ==
    /\ IsAt(runner, "scrub")
    /\ \E left \in SUBSET objects :
          /\ Cardinality(left) <= 1
          /\ stuck' = left
          /\ objects' = left
    /\ runner' = Goto("ended")
    /\ UNCHANGED <<now, host, granted, row, handle, turned, ring, calls,
                   refused, report>>

-----------------------------------------------------------------------------
KmsTick ==
    /\ now < MaxNow
    /\ now' = now + 1
    /\ UNCHANGED <<runner, host, granted, objects, row, handle, turned, ring,
                   calls, refused, report, stuck>>

HostNext ==
    \/ HostPropose \/ HostPutObject \/ HostUploadRequest
    \/ HostLoad \/ HostPromote \/ HostReplay \/ HostDelete \/ HostGate
    \/ HostFail

RunnerNext ==
    \/ RunnerGrant \/ RunnerSend \/ RunnerPolled
    \/ RunnerTurn \/ RunnerSign \/ RunnerSignExpired \/ RunnerBuildRings
    \/ RunnerHandOff \/ RunnerConfirm \/ RunnerFail \/ RunnerRevoke \/ RunnerScrub

KmsNext == HostNext \/ RunnerNext \/ RevocationArrives \/ KmsTick

KmsSpec == KmsInit /\ [][KmsNext]_kvars

-----------------------------------------------------------------------------
(* Properties.                                                             *)

\* The "Revoke temporary worker authority and scrub handoff" step does not wait
\* for the revocation to be honoured, so a command that outlives it may still
\* write. What it writes is never a handle, nor anything in a run that signed
\* one: from the first signature on, the prefix of a run that ended holds no
\* private object but one whose own deletion failed. Without a signature, the
\* approved request and the provider's receipts of a late "prepare" may stay.
SignedRunIsScrubbed ==
    IsAt(runner, "ended") => \/ objects \subseteq stuck
                             \/ calls.sign = 0 /\ Issuance \notin objects

\* The two rotations strand nobody: from the moment the keyrings are built, a
\* handle that has not run out is verified under the last of them, and one
\* that has run out is refused as expired (the windows computed in issue).
RotationStrandsNoHandle ==
    ring # <<>> => \A e \in Epochs : Verdict(ring, handle[e], now)
                                       = IF now <= Expires(handle[e]) THEN "OK" ELSE "EXPIRED"
=============================================================================
