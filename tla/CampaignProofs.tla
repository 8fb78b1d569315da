--------------------------- MODULE CampaignProofs ---------------------------
(***************************************************************************)
(* Theorems about the campaigns that make evidence and the parts they act  *)
(* through: the KMS outcome authority, the sequential blind campaign, the  *)
(* sandbox providers, the diagnosis agent, the child-workflow benchmarks   *)
(* and the online memory lineage.  The six share no variable, and each has *)
(* a section of its own: its inductive invariant, a lemma for each kind of *)
(* step, and the theorems.                                                 *)
(***************************************************************************)
EXTENDS KmsAuthority, SequentialBlind, SandboxProviders, AdaptiveDiagnosis,
        ChildWorkflows, OnlineLineage, FiniteSetTheorems, SequenceTheorems, TLAPS

-----------------------------------------------------------------------------
(* The KMS outcome authority *)

HandleRow == [epoch : 0..3, slot : {"A", "B"}, issued : Int, genuine : BOOLEAN]

\* The handles of the first n epochs are signed, each after its turn and before
\* the next one.
SignedUpTo(n) ==
  \A e \in 1..n :
    /\ handle[e].issued \in 0..now
    /\ handle[e] = Signed(e, handle[e].issued)
    /\ e > 1 => turned[e] \in handle[e - 1].issued..handle[e].issued

\* The keyring that is built at the instant b.
RingOf(b) ==
  [e \in Epochs |-> [slot |-> Slot(e), active |-> e = 3, from |-> turned[e],
                     until |-> IF e = 3 THEN Never ELSE turned[e + 1],
                     verify |-> IF e = 3 THEN Never ELSE b + Overlap]]

BeforeRing == {"grant", "send", "prepare", "turn", "sign", "expired", "rings"}

Rotation ==
  /\ runner.at \in BeforeRing => ring = <<>>
  /\ runner.at \in {"turn", "sign"} => SignedUpTo(runner.epoch - 1)
  /\ runner.at = "sign" /\ runner.epoch > 1 =>
       turned[runner.epoch] \in handle[runner.epoch - 1].issued..now
  /\ runner.at \in {"expired", "rings"} => SignedUpTo(3)
  /\ ring # <<>> => /\ SignedUpTo(3)
                    /\ turned[1] = handle[1].issued - 1
                    /\ \E b \in 0..now : ring = RingOf(b) /\ handle[3].issued <= b

KeysOK ==
  /\ now \in Nat
  /\ runner.epoch \in Epochs
  /\ handle \in [0..3 -> HandleRow]
  /\ turned \in [Epochs -> Int]

\* The command that puts private objects, and the steps of the runner that come
\* before and after it was heard to have succeeded.
HostPrepares == {"propose", "put", "upload"}
RunnerBefore == {"grant", "send", "prepare"}
RunnerAfter == {"turn", "sign", "expired", "rings", "handoff", "consume", "collect", "confirm"}

\* Where the two processes can be.
RunnerRow ==
  [at : RunnerBefore \cup RunnerAfter \cup {"revoke", "scrub", "ended"}, epoch : Int]
HostRow ==
  [at : HostPrepares \cup {"idle", "prepared", "load", "promote", "replay", "delete", "gate",
                           "consumed", "failed"},
   epoch : Int]

\* Nothing is signed while a "prepare" may still put objects, and the issuance
\* comes after a signature.
PreparedFirst ==
  /\ calls.sign \in Nat
  /\ runner \in RunnerRow /\ host \in HostRow
  /\ runner.at \in RunnerBefore \/ host.at \in HostPrepares => calls.sign = 0
  /\ runner.at \in RunnerAfter => host.at \notin HostPrepares
  /\ runner.at = "handoff" => calls.sign > 0
  /\ Issuance \in objects => calls.sign > 0

KmsInv ==
  /\ KeysOK /\ Rotation
  /\ PreparedFirst
  /\ SignedRunIsScrubbed

LEMMA InitKms == KmsInit => KmsInv
BY DEF KmsInit, KmsInv, KeysOK, Rotation, BeforeRing, Epochs, NoHandle, HandleRow, Never,
       PreparedFirst, HostPrepares, RunnerBefore, RunnerAfter, RunnerRow, HostRow, SignedRunIsScrubbed,
       IsAt

LEMMA SignedKept ==
  ASSUME KeysOK, NEW n \in 0..3, SignedUpTo(n), now' \in Nat, now <= now',
         \A e \in 1..n : handle'[e] = handle[e] /\ (e > 1 => turned'[e] = turned[e])
  PROVE  SignedUpTo(n)'
<1> SUFFICES ASSUME NEW e \in 1..n
             PROVE  /\ handle'[e].issued \in 0..now'
                    /\ handle'[e] = Signed(e, handle'[e].issued)
                    /\ e > 1 => turned'[e] \in handle'[e - 1].issued..handle'[e].issued
  BY DEF SignedUpTo, Signed, Slot
<1>1. /\ handle[e].issued \in 0..now
      /\ handle[e] = Signed(e, handle[e].issued)
      /\ e > 1 => turned[e] \in handle[e - 1].issued..handle[e].issued
  BY DEF SignedUpTo
<1>2. now \in Nat /\ (e > 1 => e - 1 \in 1..n)
  BY DEF KeysOK
<1> QED BY <1>1, <1>2

\* A step that signs nothing and builds no keyring.
LEMMA KeysKept ==
  ASSUME KmsInv, UNCHANGED <<handle, turned, ring>>, now' \in Nat, now <= now',
         runner'.epoch \in Epochs,
         \/ runner' = runner
         \/ runner'.at \notin BeforeRing
         \/ runner.at \in BeforeRing /\ runner'.at \in {"send", "prepare"}
         \/ runner.at \in BeforeRing /\ runner' = Goto("turn")
  PROVE  KeysOK' /\ Rotation'
<1>1. \A n \in 0..3 : SignedUpTo(n) => SignedUpTo(n)'
  BY SignedKept DEF KmsInv
<1>2. KeysOK'
  BY DEF KmsInv, KeysOK
<1>3. runner.epoch - 1 \in 0..3 /\ SignedUpTo(0)'
  BY DEF KmsInv, KeysOK, Epochs, SignedUpTo
<1>4. ring' # <<>> => /\ SignedUpTo(3)'
                      /\ turned'[1] = handle'[1].issued - 1
                      /\ \E b \in 0..now' : ring' = RingOf(b)' /\ handle'[3].issued <= b
  <2> SUFFICES ASSUME ring' # <<>>
               PROVE  /\ SignedUpTo(3)' /\ turned'[1] = handle'[1].issued - 1
                      /\ \E b \in 0..now' : ring' = RingOf(b)' /\ handle'[3].issued <= b
    OBVIOUS
  <2>1. SignedUpTo(3) /\ turned[1] = handle[1].issued - 1
    BY DEF KmsInv, Rotation
  <2>2. PICK b \in 0..now : ring = RingOf(b) /\ handle[3].issued <= b
    BY DEF KmsInv, Rotation
  <2>3. b \in 0..now' /\ ring' = RingOf(b)'
    BY <2>2 DEF RingOf, KmsInv, KeysOK
  <2> QED BY <1>1, <2>1, <2>2, <2>3
<1>5. runner'.at \in BeforeRing => ring' = <<>>
  BY DEF KmsInv, Rotation
<1>6. CASE runner' = runner
  <2>1. PICK n \in 0..3 : n = runner.epoch - 1 /\ n = runner'.epoch - 1
    BY <1>3, <1>6
  <2>2. runner'.at \in {"turn", "sign"} => SignedUpTo(n)'
    BY <1>1, <1>6, <2>1 DEF KmsInv, Rotation
  <2>3. runner'.at \in {"turn", "sign"} => SignedUpTo(runner.epoch - 1)'
    BY <2>1, <2>2 DEF SignedUpTo
  <2>4. runner'.at = "sign" /\ runner'.epoch > 1 =>
          turned'[runner'.epoch] \in handle'[runner'.epoch - 1].issued..now'
    <3>1. ASSUME runner.at = "sign", runner.epoch > 1
          PROVE  turned[runner.epoch] \in handle[runner.epoch - 1].issued..now'
      <4>1. turned[runner.epoch] \in handle[runner.epoch - 1].issued..now
        BY <3>1 DEF KmsInv, Rotation
      <4>2. handle[runner.epoch - 1].issued \in Int
        BY <1>3 DEF KmsInv, KeysOK, HandleRow
      <4> QED BY <4>1, <4>2 DEF KmsInv, KeysOK
    <3> QED BY <1>6, <3>1
  <2>5. runner'.at \in {"expired", "rings"} => SignedUpTo(3)'
    BY <1>1, <1>6 DEF KmsInv, Rotation
  <2> QED BY <1>2, <1>4, <1>5, <2>3, <2>4, <2>5 DEF Rotation
<1>7. CASE runner'.at \notin BeforeRing
  BY <1>2, <1>4, <1>7 DEF Rotation, BeforeRing
<1>8. CASE runner'.at \in {"send", "prepare"}
  BY <1>2, <1>4, <1>5, <1>8 DEF Rotation
<1>9. CASE runner' = Goto("turn")
  BY <1>2, <1>4, <1>5, <1>9 DEF Rotation, SignedUpTo, Goto
<1> QED BY <1>6, <1>7, <1>8, <1>9

LEMMA TurnStep ==
  ASSUME KmsInv, RunnerTurn
  PROVE  KeysOK' /\ Rotation'
<1>1. PICK k \in Epochs : k = runner.epoch /\ SignedUpTo(k - 1) /\ ring = <<>>
  BY DEF KmsInv, KeysOK, RunnerTurn, IsAt, Rotation, BeforeRing
<1>2. /\ turned' = [turned EXCEPT ![k] = IF k = 1 THEN Never ELSE now]
      /\ runner'.at = "sign" /\ runner'.epoch = k
      /\ UNCHANGED <<now, handle, ring>>
  BY <1>1 DEF RunnerTurn
<1>3. KeysOK'
  BY <1>2 DEF KmsInv, KeysOK, Never
<1>4. \A e \in 1..k - 1 : handle'[e] = handle[e] /\ turned'[e] = turned[e]
  BY <1>2 DEF KmsInv, KeysOK, Epochs
<1>5. SignedUpTo(k - 1)'
  BY <1>1, <1>2, <1>4, SignedKept DEF KmsInv, KeysOK, Epochs
<1>6. k > 1 => turned'[k] \in handle'[k - 1].issued..now'
  BY <1>1, <1>2 DEF KmsInv, KeysOK, Epochs, SignedUpTo
<1> QED BY <1>1, <1>2, <1>3, <1>5, <1>6 DEF Rotation, SignedUpTo

LEMMA SignStep ==
  ASSUME KmsInv, RunnerSign
  PROVE  KeysOK' /\ Rotation'
<1>1. PICK k \in Epochs :
        /\ k = runner.epoch /\ SignedUpTo(k - 1) /\ ring = <<>>
        /\ k > 1 => turned[k] \in handle[k - 1].issued..now
  BY DEF KmsInv, KeysOK, RunnerSign, IsAt, Rotation, BeforeRing
<1>2. /\ handle' = [handle EXCEPT ![k] = Signed(k, now)]
      /\ runner' = IF k < 3 THEN [at |-> "turn", epoch |-> k + 1] ELSE Goto("expired")
      /\ UNCHANGED <<now, turned, ring>>
  BY <1>1 DEF RunnerSign, VerifyAndIssue
<1>3. Signed(k, now) \in HandleRow /\ Signed(k, now).issued = now
  BY DEF Signed, Slot, HandleRow, Epochs, KmsInv, KeysOK
<1>4. KeysOK'
  BY <1>2, <1>3 DEF KmsInv, KeysOK, Epochs, Goto
<1>5. handle'[k] = Signed(k, now) /\ \A e \in 1..k - 1 : handle'[e] = handle[e] /\ turned'[e] = turned[e]
  BY <1>2 DEF KmsInv, KeysOK, Epochs
<1>6. SignedUpTo(k - 1)'
  BY <1>1, <1>2, <1>5, SignedKept DEF KmsInv, KeysOK, Epochs
<1>7. SignedUpTo(k)'
  <2>1. SUFFICES ASSUME NEW e \in 1..k
                 PROVE  /\ handle'[e].issued \in 0..now'
                        /\ handle'[e] = Signed(e, handle'[e].issued)
                        /\ e > 1 => turned'[e] \in handle'[e - 1].issued..handle'[e].issued
    BY DEF SignedUpTo, Signed, Slot
  <2>2. CASE e \in 1..k - 1
    BY <1>6, <2>2 DEF SignedUpTo, Signed, Slot
  <2>3. CASE e = k
    <3>1. k > 1 => k - 1 \in 1..k - 1
      BY DEF Epochs
    <3> QED BY <1>1, <1>2, <1>3, <1>5, <2>3, <3>1 DEF KmsInv, KeysOK
  <2> QED BY <2>2, <2>3 DEF Epochs
<1>8. CASE k < 3
  <2>1. runner'.at = "turn" /\ runner'.epoch - 1 = k
    BY <1>2, <1>8 DEF Epochs
  <2>2. SignedUpTo(runner.epoch - 1)'
    BY <1>7, <2>1 DEF SignedUpTo
  <2> QED BY <1>1, <1>2, <1>4, <2>1, <2>2 DEF Rotation
<1>9. CASE k = 3
  BY <1>1, <1>2, <1>4, <1>7, <1>9 DEF Rotation, SignedUpTo, Goto
<1> QED BY <1>8, <1>9 DEF Epochs

LEMMA ExpiredStep ==
  ASSUME KmsInv, RunnerSignExpired
  PROVE  KeysOK' /\ Rotation'
<1>1. /\ handle' = [handle EXCEPT ![0] = Signed(1, now - Backdate)]
      /\ runner' = Goto("rings") /\ UNCHANGED <<now, turned, ring>>
      /\ SignedUpTo(3) /\ ring = <<>>
  BY DEF RunnerSignExpired, VerifyAndIssue, KmsInv, Rotation, IsAt, BeforeRing
<1>2. Signed(1, now - Backdate) \in HandleRow
  BY WindowAssumption DEF Signed, Slot, HandleRow, KmsInv, KeysOK
<1>3. KeysOK'
  BY <1>1, <1>2 DEF KmsInv, KeysOK, Epochs, Goto
<1>4. \A e \in 1..3 : handle'[e] = handle[e]
  BY <1>1 DEF KmsInv, KeysOK
<1>5. SignedUpTo(3)'
  BY <1>1, <1>4, SignedKept DEF KmsInv, KeysOK
<1> QED BY <1>1, <1>3, <1>5 DEF Rotation, Goto

LEMMA RingsStep ==
  ASSUME KmsInv, RunnerBuildRings
  PROVE  KeysOK' /\ Rotation'
<1>1. /\ turned' = [turned EXCEPT ![1] = handle[1].issued - 1]
      /\ ring' = [e \in Epochs |-> [KeyringEntry(e, 3, now + Overlap) EXCEPT !.from = turned'[e]]]
      /\ runner' = Goto("handoff") /\ UNCHANGED <<now, handle>>
      /\ SignedUpTo(3)
  BY DEF RunnerBuildRings, KmsInv, Rotation, IsAt
<1>2. KeysOK'
  BY <1>1 DEF KmsInv, KeysOK, Epochs, Goto, HandleRow
<1>3. turned'[1] = handle'[1].issued - 1 /\ \A e \in {2, 3} : turned'[e] = turned[e]
  BY <1>1 DEF KmsInv, KeysOK, Epochs
<1>4. SignedUpTo(3)'
  BY <1>1, <1>3, SignedKept DEF KmsInv, KeysOK
<1>5. ring' = RingOf(now)'
  BY <1>1, <1>3 DEF RingOf, KeyringEntry, Epochs
<1>6. now \in 0..now' /\ handle'[3].issued <= now
  BY <1>1, <1>4 DEF SignedUpTo, KmsInv, KeysOK
<1>7. \E b \in 0..now' : ring' = RingOf(b)' /\ handle'[3].issued <= b
  <2>1. PICK b \in 0..now' : b = now
    BY <1>6
  <2>2. ring' = RingOf(b)'
    BY <1>1, <1>5, <2>1 DEF RingOf
  <2> QED BY <1>6, <2>1, <2>2
<1> QED BY <1>1, <1>2, <1>3, <1>4, <1>7 DEF Rotation, Goto, BeforeRing

\* The prefix: who may put an object into it, and when.
LEMMA PreparedStep ==
  ASSUME KmsInv, [KmsNext]_kvars
  PROVE  PreparedFirst' /\ SignedRunIsScrubbed'
<1> USE DEF IsAt, Goto, RunnerRow, HostRow, HostPrepares, RunnerBefore, RunnerAfter
<1>1. PreparedFirst /\ SignedRunIsScrubbed
  BY DEF KmsInv
<1>2. runner \in RunnerRow /\ host \in HostRow
  BY <1>1 DEF PreparedFirst
<1>3. CASE HostPropose \/ HostPutObject \/ HostUploadRequest
  <2>1. host.at \in HostPrepares /\ UNCHANGED <<runner, calls, stuck>>
    BY <1>3 DEF HostPropose, HostPutObject, HostUploadRequest
  <2>2. Issuance \in objects' => Issuance \in objects
    BY <1>3 DEF HostPropose, HostPutObject, HostUploadRequest, Issuance, Request, ProviderObject
  <2>3. host' \in HostRow
    <3>1. CASE HostPropose
      BY <1>2, <3>1 DEF HostPropose
    <3>2. CASE HostPutObject
      BY <1>2, <3>2 DEF HostPutObject
    <3>3. CASE HostUploadRequest
      BY <3>3 DEF HostUploadRequest
    <3> QED BY <1>3, <3>1, <3>2, <3>3
  <2> QED BY <1>1, <2>1, <2>2, <2>3 DEF PreparedFirst, SignedRunIsScrubbed
<1>4. CASE \/ HostLoad \/ HostPromote \/ HostReplay \/ HostDelete \/ HostGate \/ HostFail
           \/ RevocationArrives \/ KmsTick \/ UNCHANGED kvars
  <2>1. UNCHANGED <<runner, calls, stuck>> /\ objects' \subseteq objects
    BY <1>4 DEF HostLoad, HostPromote, HostReplay, HostDelete, HostGate, HostFail,
                RevocationArrives, KmsTick, kvars
  <2>2. host' \in HostRow /\ (host'.at \in HostPrepares => host.at \in HostPrepares)
    <3>1. CASE HostPromote
      BY <1>2, <3>1 DEF HostPromote, NextEpoch
    <3>2. CASE ~HostPromote
      BY <1>4, <1>2, <3>2 DEF HostLoad, HostReplay, HostDelete, HostGate, HostFail,
                              RevocationArrives, KmsTick, kvars
    <3> QED BY <3>1, <3>2
  <2> QED BY <1>1, <2>1, <2>2 DEF PreparedFirst, SignedRunIsScrubbed
<1>5. CASE RunnerSend
  <2>1. CASE host' = [at |-> "propose", epoch |-> 1] /\ runner' = [at |-> "prepare", epoch |-> 1]
    <3>1. runner.at = "send" /\ UNCHANGED <<objects, calls>>
      BY <1>5, <2>1 DEF RunnerSend
    <3> QED BY <1>1, <2>1, <3>1 DEF PreparedFirst, SignedRunIsScrubbed
  <2>2. CASE host' = [at |-> "load", epoch |-> 1] /\ runner' = [at |-> "collect", epoch |-> 1]
    <3>1. runner.at = "consume" /\ UNCHANGED <<objects, calls>>
      BY <1>5, <2>2 DEF RunnerSend
    <3> QED BY <1>1, <2>2, <3>1 DEF PreparedFirst, SignedRunIsScrubbed
  <2> QED BY <1>5, <2>1, <2>2 DEF RunnerSend
<1>6. CASE RunnerGrant \/ RunnerPolled \/ RunnerConfirm \/ RunnerFail \/ RunnerRevoke
  <2>1. UNCHANGED <<host, objects, calls, stuck>>
    BY <1>6 DEF RunnerGrant, RunnerPolled, RunnerConfirm, RunnerFail, RunnerRevoke
  <2>2. PICK to \in {"send", "turn", "confirm", "revoke", "scrub"} :
          /\ runner' = [at |-> to, epoch |-> 1]
          /\ to = "send" => runner.at = "grant"
          /\ to \in {"turn", "confirm"} => host.at \in {"prepared", "consumed"}
    BY <1>6 DEF RunnerGrant, RunnerPolled, RunnerConfirm, RunnerFail, RunnerRevoke
  <2> QED BY <1>1, <2>1, <2>2 DEF PreparedFirst, SignedRunIsScrubbed
<1>7. CASE RunnerTurn \/ RunnerSign \/ RunnerSignExpired \/ RunnerBuildRings \/ RunnerHandOff
  <2>1. runner.at \in RunnerAfter /\ UNCHANGED host
    BY <1>7 DEF RunnerTurn, RunnerSign, RunnerSignExpired, RunnerBuildRings, RunnerHandOff
  <2>2. runner' \in RunnerRow /\ runner'.at \in RunnerAfter
    <3>1. CASE RunnerTurn
      <4>1. runner' = [runner EXCEPT !.at = "sign"]
        BY <3>1 DEF RunnerTurn
      <4> QED BY <1>2, <4>1
    <3>2. CASE RunnerSign
      <4>1. runner' = [at |-> "turn", epoch |-> runner.epoch + 1]
            \/ runner' = [at |-> "expired", epoch |-> 1]
        BY <3>2 DEF RunnerSign
      <4> QED BY <1>2, <4>1
    <3>3. CASE RunnerSignExpired \/ RunnerBuildRings \/ RunnerHandOff
      <4>1. \E to \in {"rings", "handoff", "consume"} : runner' = [at |-> to, epoch |-> 1]
        BY <3>3 DEF RunnerSignExpired, RunnerBuildRings, RunnerHandOff
      <4> QED BY <4>1
    <3> QED BY <1>7, <3>1, <3>2, <3>3
  <2>3. /\ calls'.sign \in {calls.sign, calls.sign + 1}
        /\ runner'.at = "handoff" \/ objects' # objects => calls'.sign > 0
        /\ objects' \subseteq objects \cup {Issuance}
    <3>1. CASE RunnerTurn
      <4>1. runner' = [runner EXCEPT !.at = "sign"] /\ UNCHANGED <<objects, calls>>
        BY <3>1 DEF RunnerTurn
      <4> QED BY <1>2, <4>1
    <3>2. CASE RunnerSign \/ RunnerSignExpired
      BY <1>1, <3>2 DEF RunnerSign, RunnerSignExpired, VerifyAndIssue, PreparedFirst
    <3>3. CASE RunnerBuildRings
      BY <3>3 DEF RunnerBuildRings
    <3>4. CASE RunnerHandOff
      BY <1>1, <3>4 DEF RunnerHandOff, PreparedFirst
    <3> QED BY <1>7, <3>1, <3>2, <3>3, <3>4
  <2> QED BY <1>1, <2>1, <2>2, <2>3 DEF PreparedFirst, SignedRunIsScrubbed
<1>8. CASE RunnerScrub
  BY <1>1, <1>8 DEF RunnerScrub, PreparedFirst, SignedRunIsScrubbed
<1> QED BY <1>3, <1>4, <1>5, <1>6, <1>7, <1>8 DEF KmsNext, HostNext, RunnerNext

LEMMA KmsStepInv ==
  ASSUME KmsInv, [KmsNext]_kvars
  PROVE  KmsInv'
<1> USE DEF IsAt, Goto
<1>1. /\ KeysOK' /\ Rotation'
  <2>1. now \in Nat /\ runner.epoch \in Epochs /\ 1 \in Epochs
    BY DEF KmsInv, KeysOK, Epochs
  <2>2. ASSUME UNCHANGED <<handle, turned, ring>>, now' \in {now, now + 1}, UNCHANGED runner
        PROVE  KeysOK' /\ Rotation'
    BY <2>1, <2>2, KeysKept
  <2>3. ASSUME UNCHANGED <<handle, turned, ring, now>>, runner' = Goto(runner'.at),
               \/ runner'.at \notin BeforeRing
               \/ runner.at \in BeforeRing /\ runner'.at \in {"send", "prepare", "turn"}
        PROVE  KeysOK' /\ Rotation'
    BY <2>1, <2>3, KeysKept
  <2>4. CASE HostNext \/ RevocationArrives \/ KmsTick \/ UNCHANGED kvars
    BY <2>2, <2>4 DEF RevocationArrives, HostNext, HostPropose, HostPutObject, HostUploadRequest, HostLoad, HostPromote,
                      HostReplay, HostDelete, HostGate, HostFail, KmsTick, kvars
  <2>5. CASE \/ RunnerGrant \/ RunnerSend \/ RunnerPolled \/ RunnerHandOff \/ RunnerConfirm
             \/ RunnerFail \/ RunnerRevoke \/ RunnerScrub
    BY <2>3, <2>5 DEF RunnerGrant, RunnerSend, RunnerPolled, RunnerHandOff, RunnerConfirm,
                      RunnerFail, RunnerRevoke, RunnerScrub, BeforeRing
  <2> QED BY <2>4, <2>5, TurnStep, SignStep, ExpiredStep, RingsStep DEF KmsNext, RunnerNext
<1>2. PreparedFirst' /\ SignedRunIsScrubbed'
  BY PreparedStep
<1> QED BY <1>1, <1>2 DEF KmsInv

LEMMA KmsInvariance == KmsSpec => []KmsInv
BY InitKms, KmsStepInv, PTL DEF KmsSpec

\* Though the revocation may be honoured only after the scrub, a run that ended
\* leaves no handle behind, and nothing at all once it signed one, but an object
\* whose own deletion failed: the command that puts private objects is over
\* before the first signature, and the one after it only deletes.
THEOREM CleanupStands == KmsSpec => []SignedRunIsScrubbed
<1>1. KmsInv => SignedRunIsScrubbed
  BY DEF KmsInv
<1> QED BY <1>1, KmsInvariance, PTL

\* Under the last keyring every handle of the three epochs is verified as long
\* as it lives and refused as expired after: no rotation strands one, because a
\* retired key may be verified for Overlap, which no handle outlives.
THEOREM NoHandleIsStranded == KmsSpec => []RotationStrandsNoHandle
<1>1. KmsInv => RotationStrandsNoHandle
  <2> SUFFICES ASSUME KmsInv, ring # <<>>, NEW e \in Epochs
               PROVE  Verdict(ring, handle[e], now)
                        = IF now <= Expires(handle[e]) THEN "OK" ELSE "EXPIRED"
    BY DEF RotationStrandsNoHandle
  <2>1. PICK b \in 0..now : ring = RingOf(b) /\ handle[3].issued <= b
    BY DEF KmsInv, Rotation
  <2>2. SignedUpTo(3) /\ turned[1] = handle[1].issued - 1
    BY DEF KmsInv, Rotation
  <2>3. PICK i \in 0..now : i = handle[e].issued /\ handle[e] = Signed(e, i)
    BY <2>2 DEF SignedUpTo, Epochs
  <2>4. /\ DOMAIN ring = Epochs /\ ring[e].slot = Slot(e) /\ ring[e].from = turned[e]
        /\ ring[e].active <=> e = 3
        /\ e # 3 => ring[e].until = turned[e + 1] /\ ring[e].verify = b + Overlap
    BY <2>1 DEF RingOf, Epochs
  <2>5. /\ handle[e].epoch = e /\ handle[e].slot = Slot(e) /\ handle[e].genuine
        /\ Expires(handle[e]) = i + HandleTTL
    BY <2>3 DEF Signed, Expires
  <2>6. now \in Nat /\ HandleTTL \in Nat /\ Overlap \in Nat /\ HandleTTL <= Overlap
    BY WindowAssumption DEF KmsInv, KeysOK
  <2>7. /\ handle[1].issued \in 0..now /\ handle[2].issued \in 0..now /\ handle[3].issued \in 0..now
        /\ turned[1] \in Int /\ turned[2] \in Int /\ turned[3] \in Int
    BY <2>2 DEF SignedUpTo, KmsInv, KeysOK, Epochs
  <2>8. /\ turned[2] \in handle[1].issued..handle[2].issued
        /\ turned[3] \in handle[2].issued..handle[3].issued
    BY <2>2 DEF SignedUpTo
  <2>9. turned[e] <= i /\ (e # 3 => i <= turned[e + 1] /\ i <= b)
    <3> DEFINE i1 == handle[1].issued
               i2 == handle[2].issued
               i3 == handle[3].issued
    <3>1. /\ i1 \in Int /\ i2 \in Int /\ i3 \in Int /\ i \in Int /\ b \in Int
          /\ turned[1] = i1 - 1
          /\ i1 <= turned[2] /\ turned[2] <= i2 /\ i2 <= turned[3] /\ turned[3] <= i3 /\ i3 <= b
          /\ turned[2] \in Int /\ turned[3] \in Int
      BY <2>1, <2>2, <2>6, <2>7, <2>8
    <3> HIDE DEF i1, i2, i3
    <3>2. CASE e = 1
      <4>1. i = i1 /\ turned[e] = turned[1]
        BY <2>3, <3>2 DEF i1
      <4>2. e + 1 = 2
        BY <3>2
      <4> QED BY <3>1, <4>1, <4>2
    <3>3. CASE e = 2
      <4>1. i = i2 /\ turned[e] = turned[2]
        BY <2>3, <3>3 DEF i2
      <4>2. e + 1 = 3
        BY <3>3
      <4> QED BY <3>1, <4>1, <4>2
    <3>4. CASE e = 3
      <4>1. i = i3 /\ turned[e] = turned[3]
        BY <2>3, <3>4 DEF i3
      <4> QED BY <3>1, <3>4, <4>1
    <3> QED BY <3>2, <3>3, <3>4 DEF Epochs
  <2>10. turned[e] \in Int /\ (e # 3 => turned[e + 1] \in Int)
    BY DEF Epochs, KmsInv, KeysOK
  <2>11. CASE now <= i + HandleTTL
    <3>1. ~(ring[e].active) => ~(i > ring[e].until \/ now > ring[e].verify)
      BY <2>4, <2>6, <2>9, <2>10, <2>11
    <3>2. ~(i < ring[e].from) /\ ~(i > now) /\ ~(i + HandleTTL < now)
      BY <2>4, <2>6, <2>9, <2>10, <2>11
    <3> QED BY <2>3, <2>4, <2>5, <2>11, <3>1, <3>2 DEF Verdict
  <2>12. CASE ~(now <= i + HandleTTL)
    <3>1. ~(i > now) /\ i + HandleTTL < now
      BY <2>6, <2>12
    <3> QED BY <2>3, <2>4, <2>5, <2>12, <3>1 DEF Verdict
  <2> QED BY <2>11, <2>12
<1> QED BY <1>1, KmsInvariance, PTL

-----------------------------------------------------------------------------
(* The sequential blind campaign *)

Began == worker.at \in Arms \cup {"observed"}
Candidates == Began \/ worker.at \in {"wait", "finished"}

BlindOK ==
  /\ instant \in Nat
  /\ worker.batch \in Batch
  /\ sealed \in [Batch -> Int] /\ begun \in [Batch -> Int] /\ ended \in [Batch -> Int]
  /\ registered \in Int /\ opened \in Int

\* All seals are older than the first candidate.
SealsFirst ==
  /\ \A b \in Batch : sealed[b] <= instant
  /\ Candidates \/ worker.at = "registered" => \A b \in Batch : sealed[b] <= registered
  /\ Began \/ worker.at = "finished" \/ (worker.at = "wait" /\ worker.batch > 1) =>
       \A b \in Batch : sealed[b] < begun[1]

\* The labels are opened when the last candidate is through.
EndsFirst ==
  /\ Began \/ worker.at = "wait" => \A b \in 1..worker.batch - 1 : ended[b] \in 0..instant
  /\ worker.at = "finished" => \A b \in Batch : ended[b] \in 0..instant
  /\ opened # Unset => worker.at = "finished" /\ \A b \in Batch : ended[b] <= opened

\* What each stage of the run may count on.
Stages ==
  /\ stage = "stage" => worker.at = "idle"
  /\ Candidates => capability # "prefix" /\ stage \notin {"stage", "seal"}
  /\ opened # Unset => stage \notin {"stage", "seal", "candidates"}
  /\ Evaluating \/ stage = "rescored" \/ campaign = "PASS" => opened # Unset

\* What the clean-up of the run leaves.
Emptied ==
  /\ stage \in {"ended", "rescore", "rescored"} /\ swept => capability = "none"
  /\ stage \in {"revoke", "ended", "rescore", "rescored"} /\ swept /\ opened # Unset =>
       "s3" \notin fixtures
  /\ stage \in {"rescore", "rescored"} => swept
  /\ conclusion = "success" => swept /\ stage = "ended"
  /\ site # "nothing" => opened # Unset /\ capability = "none" /\ "s3" \notin fixtures

BlindInv == BlindOK /\ SealsFirst /\ EndsFirst /\ Stages /\ Emptied

LEMMA InitBlind == CampaignInit => BlindInv
BY CampaignAssumption
DEF CampaignInit, BlindInv, BlindOK, SealsFirst, EndsFirst, Stages, Emptied, Resting, Unset, Batch,
    Candidates, Began, Arms, Evaluating

LEMMA BlindStep ==
  ASSUME BlindInv, [CampaignNext]_sbVars
  PROVE  BlindInv'
<1> USE CampaignAssumption DEF BlindInv, aftermath, Unset, Batch, Candidates, Began, Arms, Evaluating
<1>1. ASSUME StageCapability PROVE BlindInv'
  BY <1>1 DEF StageCapability, WorkerMoves, BlindOK, SealsFirst, EndsFirst, Stages, Emptied
<1>2. ASSUME SealBatch PROVE BlindInv'
  <2> DEFINE b == worker.batch
  <2>0. /\ b \in Batch /\ instant \in Int /\ sealed' = [sealed EXCEPT ![b] = instant]
        /\ b < Batches => b + 1 \in Batch
        /\ worker' = IF b < Batches THEN [at |-> "generate", batch |-> b + 1]
                                    ELSE [at |-> "register", batch |-> 1]
        /\ UNCHANGED <<instant, stage, capability, registered, begun, ended, opened>>
    BY <1>2 DEF SealBatch, WorkerMoves, BlindOK
  <2>a. worker'.batch \in Batch /\ worker'.at \in {"generate", "register"}
    BY <2>0
  <2> HIDE DEF b
  <2>1. BlindOK'
    BY <2>0, <2>a DEF BlindOK
  <2>2. SealsFirst'
    BY <2>0, <2>a DEF BlindOK, SealsFirst
  <2>3. EndsFirst'
    BY <2>0, <2>a, <1>2 DEF SealBatch, EndsFirst
  <2>4. Stages'
    BY <1>2 DEF SealBatch, WorkerMoves, EndsFirst, Stages
  <2>5. Emptied'
    BY <1>2 DEF SealBatch, WorkerMoves, EndsFirst, Stages, Emptied
  <2> QED BY <2>1, <2>2, <2>3, <2>4, <2>5
<1>3. ASSUME SealCampaign PROVE BlindInv'
  BY <1>3 DEF SealCampaign, WorkerMoves, BlindOK, SealsFirst, EndsFirst, Stages, Emptied
<1>4. ASSUME DenyLabels PROVE BlindInv'
  BY <1>4 DEF DenyLabels, WorkerMoves, BlindOK, SealsFirst, EndsFirst, Stages, Emptied
<1>5. ASSUME BeginBatch PROVE BlindInv'
  <2>1. BlindOK'
    BY <1>5 DEF BeginBatch, Preregistered, WorkerMoves, BlindOK, SealsFirst
  <2>2. SealsFirst'
    BY <1>5 DEF BeginBatch, Preregistered, WorkerMoves, BlindOK, SealsFirst
  <2>3. EndsFirst'
    BY <1>5 DEF BeginBatch, Preregistered, WorkerMoves, BlindOK, EndsFirst
  <2>4. Stages'
    BY <1>5 DEF BeginBatch, Preregistered, WorkerMoves, EndsFirst, Stages
  <2>5. Emptied'
    BY <1>5 DEF BeginBatch, Preregistered, WorkerMoves, EndsFirst, Stages, Emptied
  <2> QED BY <2>1, <2>2, <2>3, <2>4, <2>5
<1>6. ASSUME PrepareFixture PROVE BlindInv'
  BY <1>6 DEF PrepareFixture, WorkerMoves, BlindOK, SealsFirst, EndsFirst, Stages, Emptied
<1>7. ASSUME RunChain PROVE BlindInv'
  <2>1. BlindOK'
    BY <1>7 DEF RunChain, ArmAfter, WorkerMoves, BlindOK, SealsFirst
  <2>2. SealsFirst'
    BY <1>7 DEF RunChain, ArmAfter, WorkerMoves, BlindOK, SealsFirst
  <2>3. EndsFirst'
    BY <1>7 DEF RunChain, ArmAfter, WorkerMoves, BlindOK, EndsFirst
  <2>4. Stages'
    BY <1>7 DEF RunChain, ArmAfter, WorkerMoves, EndsFirst, Stages
  <2>5. Emptied'
    BY <1>7 DEF RunChain, ArmAfter, WorkerMoves, EndsFirst, Stages, Emptied
  <2> QED BY <2>1, <2>2, <2>3, <2>4, <2>5
<1>8. ASSUME EndBatch PROVE BlindInv'
  <2> DEFINE b == worker.batch
  <2>d. b \in Batch /\ (b < Batches => b + 1 \in Batch) /\ ended \in [Batch -> Int] /\ instant \in Nat
    BY DEF BlindOK
  <2>0. /\ ended' = [ended EXCEPT ![b] = instant]
        /\ worker' = IF b < Batches THEN [at |-> "wait", batch |-> b + 1]
                                    ELSE [at |-> "finished", batch |-> 1]
        /\ UNCHANGED <<instant, stage, capability, sealed, registered, begun, opened>>
        /\ worker.at = "observed"
    BY <1>8 DEF EndBatch, WorkerMoves
  <2>e. ended' \in [Batch -> Int]
    BY <2>0, <2>d
  <2>a. /\ worker'.batch \in Batch /\ worker'.at \in {"wait", "finished"}
        /\ worker'.at = "wait" => worker'.batch = b + 1
        /\ worker'.at = "finished" => b = Batches
    BY <2>0, <2>d
  <2>b. /\ \A c \in 1..b - 1 : ended[c] \in 0..instant
        /\ opened = Unset
    BY <2>0 DEF EndsFirst
  <2> HIDE DEF b
  <2>1. BlindOK'
    BY <2>0, <2>a, <2>d, <2>e DEF BlindOK
  <2>2. SealsFirst'
    BY <2>0, <2>a DEF SealsFirst, BlindOK
  <2>c. \A c \in 1..b : ended'[c] \in 0..instant
    <3> TAKE c \in 1..b
    <3>1. ended \in [Batch -> Int] /\ c \in Batch
      BY <2>d
    <3>2. c = b \/ c \in 1..b - 1
      BY <2>d
    <3> QED BY <2>0, <2>d, <2>b, <3>1, <3>2
  <2>3. EndsFirst'
    <3>1. worker'.at = "wait" => \A c \in 1..worker'.batch - 1 : ended'[c] \in 0..instant'
      BY <2>0, <2>a, <2>c, <2>d
    <3>2. worker'.at = "finished" => \A c \in Batch : ended'[c] \in 0..instant'
      BY <2>0, <2>a, <2>c, <2>d
    <3> QED BY <2>0, <2>a, <2>b, <3>1, <3>2 DEF EndsFirst
  <2>4. Stages'
    BY <1>8 DEF EndBatch, WorkerMoves, EndsFirst, Stages
  <2>5. Emptied'
    BY <1>8 DEF EndBatch, WorkerMoves, EndsFirst, Stages, Emptied
  <2> QED BY <2>1, <2>2, <2>3, <2>4, <2>5
<1>9. ASSUME WorkerFails PROVE BlindInv'
  BY <1>9 DEF WorkerFails, WorkerMoves, BlindOK, SealsFirst, EndsFirst, Stages, Emptied
<1>10. ASSUME OpenLabels PROVE BlindInv'
  BY <1>10 DEF OpenLabels, BlindOK, SealsFirst, EndsFirst, Stages, Emptied
<1>11. ASSUME NEW b \in Batch, Score(b) PROVE BlindInv'
  BY <1>11 DEF Score, BlindOK, SealsFirst, EndsFirst, Stages, Emptied
<1>12. ASSUME Aggregate PROVE BlindInv'
  BY <1>12 DEF Aggregate, AfterScore, BlindOK, SealsFirst, EndsFirst, Stages, Emptied
<1>13. ASSUME EvaluatorFails PROVE BlindInv'
  BY <1>13 DEF EvaluatorFails, AfterFailure, BlindOK, SealsFirst, EndsFirst, Stages, Emptied
<1>14. ASSUME EvaluatorReplay PROVE BlindInv'
  BY <1>14 DEF EvaluatorReplay, BlindOK, SealsFirst, EndsFirst, Stages, Emptied
<1>15. ASSUME RunBroken PROVE BlindInv'
  BY <1>15 DEF RunBroken, BlindOK, SealsFirst, EndsFirst, Stages, Emptied
<1>16. ASSUME SweepSandbox PROVE BlindInv'
  BY <1>16 DEF SweepSandbox, BlindOK, SealsFirst, EndsFirst, Stages, Emptied
<1>17. ASSUME RevokeCapability PROVE BlindInv'
  BY <1>17 DEF RevokeCapability, BlindOK, SealsFirst, EndsFirst, Stages, Emptied
<1>18. ASSUME PublishPage PROVE BlindInv'
  BY <1>18 DEF PublishPage, JudgeAccepts, Publishable, ReceiptsAgree, BlindOK, SealsFirst, EndsFirst, Stages, Emptied
<1>19. ASSUME PublishReference PROVE BlindInv'
  BY <1>19 DEF PublishReference, BlindOK, SealsFirst, EndsFirst, Stages, Emptied
<1>20. ASSUME InstantPasses PROVE BlindInv'
  <2>1. BlindOK'
    BY <1>20 DEF InstantPasses, BlindOK, SealsFirst
  <2>0. \A b \in Batch : sealed[b] <= instant + 1
    BY DEF BlindOK, SealsFirst
  <2>2. SealsFirst'
    <3>1. UNCHANGED <<worker, sealed, registered, begun>> /\ instant' = instant + 1
      BY <1>20 DEF InstantPasses
    <3> QED BY <2>0, <3>1 DEF SealsFirst
  <2>3. EndsFirst'
    <3>1. UNCHANGED <<worker, ended, opened>> /\ instant' = instant + 1
      BY <1>20 DEF InstantPasses
    <3>2. \A e \in Int : e \in 0..instant => e \in 0..instant'
      BY <3>1 DEF BlindOK
    <3>3. \A b \in Batch : ended[b] \in Int
      BY DEF BlindOK
    <3>4. \A b \in 1..worker.batch - 1 : b \in Batch
      BY DEF BlindOK
    <3> QED BY <3>1, <3>2, <3>3, <3>4 DEF EndsFirst
  <2>4. Stages'
    BY <1>20 DEF InstantPasses, EndsFirst, Stages
  <2>5. Emptied'
    BY <1>20 DEF InstantPasses, EndsFirst, Stages, Emptied
  <2> QED BY <2>1, <2>2, <2>3, <2>4, <2>5
<1>21. ASSUME UNCHANGED sbVars PROVE BlindInv'
  BY <1>21 DEF sbVars, BlindOK, SealsFirst, EndsFirst, Stages, Emptied
<1> QED
  BY <1>1, <1>2, <1>3, <1>4, <1>5, <1>6, <1>7, <1>8, <1>9, <1>10, <1>11, <1>12, <1>13, <1>14, <1>15,
     <1>16, <1>17, <1>18, <1>19, <1>20, <1>21
  DEF CampaignNext

LEMMA BlindImplies == BlindInv => BlindUntilDone
BY CampaignAssumption
DEF BlindInv, BlindOK, SealsFirst, EndsFirst, Stages, Emptied, Unset, Batch, Candidates, Began, Arms, BlindUntilDone,
    Observing, OpenedComplete

\* No candidate observes under a policy that can read a label or after the
\* labels were opened, what was opened had been sealed before and was complete,
\* and what the evidence site shows came from such a campaign, whose capability
\* is gone and whose sandbox is empty (run_live_sequential_blind.py,
\* score_sequential_blind.py, promote_sequential_blind_evidence.py): for any
\* number of batches and episodes.
THEOREM LabelsStayClosed == CampaignSpec => []BlindUntilDone
<1>1. BlindInv /\ [CampaignNext]_sbVars => BlindInv'
  BY BlindStep
<1> QED
  BY InitBlind, <1>1, BlindImplies, PTL DEF CampaignSpec

-----------------------------------------------------------------------------
(* The sandbox providers *)

SandboxState == [container : BOOLEAN, payload : {"none", "good", "conflict"},
                 receipt : BOOLEAN, aside : BOOLEAN]
SandboxCases == [provider : {"github", "s3"}, mode : {"labelled", "observed"},
           fixture : Fixtures, action : Actions]
Start == FixtureState(case.fixture)

\* The state s comes before t in the preparation of t.
PrefixOf(s, t) ==
  /\ ~s.aside
  /\ s.container => t.container
  /\ s.payload # "none" => s.payload = t.payload /\ s.container
  /\ s.receipt => t.receipt /\ s.payload = t.payload

\* The action was carried out on the fixture as it was prepared; only what a
\* deletion in S3 has left is not known yet.
CarriedOut ==
  /\ Admits(case.action, Start)
  /\ effects = IF case.action = "adopt" THEN 0 ELSE 1
  /\ (~GitHub /\ case.action = "delete") \/ sandbox = Applied(case.action, Start)

SandboxOK ==
  /\ case \in SandboxCases
  /\ sandbox \in SandboxState /\ lagging \in SandboxState /\ before \in SandboxState

\* Up to the action, and what the execution can see of the fixture.
Fresh ==
  /\ step = "prepare" => PrefixOf(sandbox, Start)
  /\ step \in {"prepare", "execute", "act"} =>
       PrefixOf(lagging, Start) /\ effects = 0 /\ failure = "none"
  /\ step \in {"execute", "act"} => sandbox = Start /\ (GitHub => (known <=> Start.container))
  /\ step = "act" =>
       before = Start \/ (GitHub /\ Start.container /\ before = lagging /\ before.container)

Outcomes ==
  /\ step \in {"prepare", "execute", "act", "verify"} => verdict = "none"
  /\ step = "verify" /\ failure = "none" => CarriedOut
  /\ SuccessIsTheTransition

Residuals ==
  /\ GitHub /\ step \in {"verify", "cleanup"} /\ ~known => sandbox = Empty \/ unanswered
  /\ residual # Unreported => step = "done"
  /\ ResidualIsTold

SandboxInv == SandboxOK /\ Fresh /\ Outcomes /\ Residuals

LEMMA FixtureIsAState ==
  ASSUME NEW f \in Fixtures
  PROVE  /\ FixtureState(f) \in SandboxState
         /\ ~FixtureState(f).aside
         /\ ~FixtureState(f).container => FixtureState(f) = Empty
         /\ FixtureState(f).payload # "none" => FixtureState(f).container
         /\ Admits(Labelled(f), FixtureState(f))
<1>1. CASE f = "missing"
  BY <1>1 DEF FixtureState, SandboxState, Empty, Admits, Labelled
<1>2. CASE f = "no payload"
  BY <1>2 DEF FixtureState, SandboxState, Empty, Admits, Labelled
<1>3. CASE f = "lost ack"
  BY <1>3 DEF FixtureState, SandboxState, Empty, Admits, Labelled
<1>4. CASE f = "no receipt"
  BY <1>4 DEF FixtureState, SandboxState, Empty, Admits, Labelled
<1>5. CASE f = "conflict"
  BY <1>5 DEF FixtureState, SandboxState, Empty, Admits, Labelled
<1>6. CASE f = "pending"
  BY <1>6 DEF FixtureState, SandboxState, Empty, Admits, Labelled
<1> QED BY <1>1, <1>2, <1>3, <1>4, <1>5, <1>6 DEF Fixtures

LEMMA AppliedIsAState ==
  ASSUME NEW s \in SandboxState, NEW a \in Actions
  PROVE  Applied(a, s) \in SandboxState
BY DEF Applied, SandboxState, Actions, Empty

LEMMA PartlyIsAState ==
  ASSUME NEW s \in SandboxState, NEW part \in DOMAIN Empty
  PROVE  Partly(s, part) \in SandboxState
<1>1. part \in {"container", "payload", "receipt", "aside"}
  BY DEF Empty
<1>2. CASE part = "container"
  BY <1>2 DEF Partly, SandboxState, Empty
<1>3. CASE part = "payload"
  BY <1>3 DEF Partly, SandboxState, Empty
<1>4. CASE part = "receipt"
  BY <1>4 DEF Partly, SandboxState, Empty
<1>5. CASE part = "aside"
  BY <1>5 DEF Partly, SandboxState, Empty
<1> QED BY <1>1, <1>2, <1>3, <1>4, <1>5

\* A write of the preparation leads on towards the fixture.
LEMMA NextPartIsPrefix ==
  ASSUME NEW t \in SandboxState, sandbox \in SandboxState, sandbox # t, PrefixOf(sandbox, t),
         ~t.aside, t.payload # "none" => t.container
  PROVE  NextPart(t) \in SandboxState /\ PrefixOf(NextPart(t), t)
<1>1. ASSUME NEW s \in SandboxState, PrefixOf(s, t), s.container # t.container
      PROVE  /\ [s EXCEPT !.container = TRUE] \in SandboxState
             /\ PrefixOf([s EXCEPT !.container = TRUE], t)
  <2>1. t.container /\ ~s.container
    BY <1>1 DEF PrefixOf, SandboxState
  <2>2. PICK u \in SandboxState : u = [s EXCEPT !.container = TRUE]
    BY DEF SandboxState
  <2>3. /\ u.container /\ u.payload = s.payload /\ (u.receipt <=> s.receipt) /\ (u.aside <=> s.aside)
    BY <2>2 DEF SandboxState
  <2> QED BY <1>1, <2>1, <2>2, <2>3 DEF PrefixOf
<1>2. ASSUME NEW s \in SandboxState, PrefixOf(s, t), s.container = t.container, s.payload # t.payload
      PROVE  /\ [s EXCEPT !.payload = t.payload] \in SandboxState
             /\ PrefixOf([s EXCEPT !.payload = t.payload], t)
  BY <1>2 DEF PrefixOf, SandboxState
<1>3. ASSUME NEW s \in SandboxState, PrefixOf(s, t), s.container = t.container, s.payload = t.payload,
             s # t
      PROVE  /\ [s EXCEPT !.receipt = TRUE] \in SandboxState
             /\ PrefixOf([s EXCEPT !.receipt = TRUE], t)
  <2>1. s.receipt # t.receipt
    BY <1>3 DEF PrefixOf, SandboxState
  <2> QED BY <1>3, <2>1 DEF PrefixOf, SandboxState
<1> QED BY <1>1, <1>2, <1>3 DEF NextPart

LEMMA InitSandbox == ProviderInit => SandboxInv
<1> SUFFICES ASSUME ProviderInit PROVE SandboxInv
  OBVIOUS
<1>1. SandboxOK
  BY DEF ProviderInit, SandboxOK, SandboxCases, SandboxState, Empty
<1>2. PrefixOf(Empty, Start)
  BY DEF PrefixOf, Empty
<1> QED BY <1>1, <1>2 DEF ProviderInit, SandboxInv, Fresh, Outcomes, Residuals, SuccessIsTheTransition, ResidualIsTold

\* What the process is told to do, and what it does, is the action that the
\* fixture admits.
LEMMA ToldIsAdmitted ==
  ASSUME SandboxInv, step = "act", ToldToAct,
         case.action = "adopt" \/ Takes(case.action, sandbox)
  PROVE  Admits(case.action, Start)
<1>1. Start \in SandboxState /\ Admits(Labelled(case.fixture), Start)
  BY FixtureIsAState DEF SandboxInv, SandboxOK, SandboxCases, Start
<1>2. CASE ~Observed
  BY <1>1, <1>2 DEF ToldToAct
<1>3. CASE Observed /\ before = Start
  BY <1>3 DEF ToldToAct
<1>4. CASE Observed /\ GitHub /\ before = lagging /\ before.container
  <2> PICK b \in SandboxState : b = before
    BY DEF SandboxInv, SandboxOK
  <2>1. /\ Admits(case.action, b) /\ PrefixOf(b, Start) /\ b.container
        /\ case.action = "adopt" \/ Takes(case.action, Start)
    BY <1>4 DEF SandboxInv, Fresh, ToldToAct
  <2>2. case.action \in Actions
    BY DEF SandboxInv, SandboxOK, SandboxCases
  <2>3. CASE case.action = "create"
    BY <2>1, <2>3 DEF Admits, Empty
  <2>4. CASE case.action = "upload"
    BY <1>4, <2>1, <2>4 DEF Admits, Takes
  <2>5. CASE case.action = "adopt"
    BY <2>1, <2>5 DEF Admits, PrefixOf
  <2>6. CASE case.action = "attach"
    BY <1>4, <2>1, <2>6 DEF Admits, Takes, PrefixOf
  <2>7. CASE case.action = "quarantine"
    BY <2>1, <2>7 DEF Admits, PrefixOf
  <2>8. CASE case.action = "delete"
    BY <2>1, <2>8 DEF Admits, PrefixOf
  <2> QED BY <2>2, <2>3, <2>4, <2>5, <2>6, <2>7, <2>8 DEF Actions
<1> QED BY <1>2, <1>3, <1>4 DEF SandboxInv, Fresh

LEMMA PrepareStep ==
  ASSUME SandboxInv, PrepareCall
  PROVE  SandboxInv'
<1>1. PICK t \in SandboxState : t = Start /\ ~t.aside /\ (t.payload # "none" => t.container)
  BY FixtureIsAState DEF SandboxInv, SandboxOK, SandboxCases, Start
<1>2. /\ sandbox \in SandboxState /\ sandbox # t /\ PrefixOf(sandbox, t)
      /\ sandbox' = NextPart(t) /\ lagging' = sandbox
      /\ UNCHANGED <<case, step, known, before, failure, effects, verdict, residual, unanswered>>
      /\ step = "prepare"
  BY <1>1 DEF SandboxInv, SandboxOK, Fresh, PrepareCall, Becomes, Start
<1>3. sandbox' \in SandboxState /\ PrefixOf(sandbox', t) /\ PrefixOf(lagging', t)
  BY <1>1, <1>2, NextPartIsPrefix
<1>4. Start' = t
  BY <1>1, <1>2 DEF Start
<1>5. SandboxOK'
  BY <1>2, <1>3 DEF SandboxInv, SandboxOK
<1>6. Fresh'
  BY <1>2, <1>3, <1>4 DEF SandboxInv, Fresh
<1>7. Outcomes' /\ Residuals'
  BY <1>2 DEF SandboxInv, Outcomes, Residuals, SuccessIsTheTransition, ResidualIsTold, Unreported
<1> QED BY <1>5, <1>6, <1>7 DEF SandboxInv

\* A step that writes nothing and records no outcome.
LEMMA SandboxKept ==
  ASSUME SandboxInv, UNCHANGED <<case, sandbox, lagging, verdict, residual, unanswered>>,
         before' \in SandboxState, Fresh',
         step' = "verify" /\ failure' = "none" => CarriedOut',
         step' \in {"prepare", "execute", "act", "verify"} => verdict = "none",
         step' = "cleanup" => verdict = "none",
         residual = Unreported,
         GitHub /\ step' \in {"verify", "cleanup"} /\ ~known' => sandbox = Empty \/ unanswered
  PROVE  SandboxInv'
<1>1. SandboxOK'
  BY DEF SandboxInv, SandboxOK
<1>2. Outcomes'
  BY DEF Outcomes, SuccessIsTheTransition
<1>3. Residuals'
  BY DEF Residuals, ResidualIsTold, GitHub, Unreported
<1> QED BY <1>1, <1>2, <1>3 DEF SandboxInv

LEMMA LookStep ==
  ASSUME SandboxInv, Prepared \/ LookBefore
  PROVE  SandboxInv'
<1>1. Start' = Start
  BY DEF Prepared, LookBefore, Start
<1>2. CASE Prepared
  <2>1. Fresh'
    BY <1>1, <1>2 DEF Prepared, SandboxInv, Fresh, GitHub, Start
  <2> QED BY <1>2, <2>1, SandboxKept DEF Prepared, SandboxInv, SandboxOK, Outcomes, Residuals
<1>3. CASE LookBefore
  <2>1. /\ sandbox = Start /\ sandbox \in SandboxState /\ lagging \in SandboxState
        /\ ~Start.container => Start = Empty
        /\ GitHub => (known <=> Start.container)
    BY <1>3, FixtureIsAState DEF LookBefore, SandboxInv, SandboxOK, Fresh, SandboxCases, Start
  <2>2. before' = Start \/ (GitHub /\ Start.container /\ before' = lagging /\ before'.container)
    BY <1>3, <2>1 DEF LookBefore, Views, ViewsOfRelease, ViewsOfPrefix
  <2>3. before' \in SandboxState
    BY <2>1, <2>2
  <2>4. Fresh'
    BY <1>1, <1>3, <2>2 DEF LookBefore, SandboxInv, Fresh, GitHub
  <2> QED BY <1>3, <2>3, <2>4, SandboxKept DEF LookBefore, SandboxInv, Outcomes, Residuals
<1> QED BY <1>2, <1>3

LEMMA AdoptStep ==
  ASSUME SandboxInv, NotAdmitted \/ Adopt
  PROVE  SandboxInv'
<1>1. /\ UNCHANGED <<case, sandbox, lagging, known, before, effects, verdict, residual, unanswered>>
      /\ step = "act" /\ step' = "verify"
  BY DEF NotAdmitted, Adopt
<1>2. Fresh'
  BY <1>1 DEF Fresh
<1>3. /\ sandbox = Start /\ before \in SandboxState /\ verdict = "none" /\ residual = Unreported
      /\ effects = 0
      /\ GitHub /\ ~known => Start = Empty
  BY <1>1, FixtureIsAState DEF SandboxInv, SandboxOK, Fresh, Outcomes, Residuals, SandboxCases, Start
<1>4. ASSUME failure' = "none" PROVE CarriedOut'
  <2>1. Adopt /\ case.action = "adopt"
    BY <1>4 DEF NotAdmitted, Adopt
  <2>2. Admits(case.action, Start)
    BY <1>1, <2>1, ToldIsAdmitted DEF Adopt
  <2> QED BY <1>1, <1>3, <2>1, <2>2 DEF CarriedOut, Applied, Start
<1> QED BY <1>1, <1>2, <1>3, <1>4, SandboxKept

\* The action itself: step goes from act to verify or cleanup.
LEMMA ActKept ==
  ASSUME SandboxInv, step = "act", step' \in {"verify", "cleanup"},
         UNCHANGED <<case, before, verdict, residual>>,
         sandbox' \in SandboxState, lagging' \in SandboxState,
         step' = "verify" /\ failure' = "none" => CarriedOut',
         GitHub /\ ~known' => sandbox' = Empty \/ unanswered'
  PROVE  SandboxInv'
<1>1. verdict = "none" /\ residual = Unreported
  BY DEF SandboxInv, Outcomes, Residuals
<1>2. SandboxOK'
  BY DEF SandboxInv, SandboxOK
<1>3. Fresh'
  BY DEF Fresh
<1>4. Outcomes'
  BY <1>1 DEF Outcomes, SuccessIsTheTransition
<1>5. Residuals'
  BY <1>1 DEF Residuals, ResidualIsTold, GitHub, Unreported
<1> QED BY <1>2, <1>3, <1>4, <1>5 DEF SandboxInv

\* What a call may do to a draft whose id is not known: there is none, and only
\* its creation works.
LEMMA UnknownDraft ==
  ASSUME SandboxInv, step = "act", GitHub, ~known, case.action # "adopt", Takes(case.action, sandbox)
  PROVE  case.action = "create" /\ sandbox = Empty
<1>1. sandbox = Start /\ Start = Empty
  BY FixtureIsAState DEF SandboxInv, SandboxOK, Fresh, SandboxCases, Start
<1>2. case.action \in Actions
  BY DEF SandboxInv, SandboxOK, SandboxCases
<1> QED BY <1>1, <1>2 DEF Takes, Actions, Empty

LEMMA ActStep ==
  ASSUME SandboxInv, Act
  PROVE  SandboxInv'
<1>1. /\ UNCHANGED <<case, before, failure, verdict, residual, unanswered>>
      /\ step = "act" /\ step' = "verify" /\ effects' = 1
      /\ sandbox' = Applied(case.action, sandbox) /\ lagging' = sandbox
      /\ case.action # "adopt" /\ Takes(case.action, sandbox) /\ ToldToAct
      /\ known' = (known \/ case.action = "create")
  BY DEF Act, Becomes
<1>2. sandbox = Start /\ sandbox \in SandboxState /\ case.action \in Actions /\ Start' = Start
  BY <1>1 DEF SandboxInv, SandboxOK, Fresh, SandboxCases, Start
<1>3. sandbox' \in SandboxState
  BY <1>1, <1>2, AppliedIsAState
<1>4. CarriedOut'
  <2>1. Admits(case.action, Start)
    BY <1>1, ToldIsAdmitted
  <2> QED BY <1>1, <1>2, <2>1 DEF CarriedOut
<1>5. GitHub => known'
  BY <1>1, UnknownDraft
<1> QED BY <1>1, <1>2, <1>3, <1>4, <1>5, ActKept

LEMMA ActFailsStep ==
  ASSUME SandboxInv, ActFails
  PROVE  SandboxInv'
<1>1. /\ UNCHANGED <<case, before, known, verdict, residual>>
      /\ step = "act" /\ step' \in {"verify", "cleanup"} /\ failure' = "error"
      /\ case.action # "adopt"
  BY DEF ActFails
<1>2. /\ sandbox = Start /\ sandbox \in SandboxState /\ lagging \in SandboxState
      /\ case.action \in Actions /\ case.provider \in {"github", "s3"}
      /\ GitHub /\ ~known => Start = Empty
  BY <1>1, FixtureIsAState DEF SandboxInv, SandboxOK, Fresh, SandboxCases, Start
<1>3. CASE UNCHANGED <<sandbox, lagging, unanswered>>
  BY <1>1, <1>2, <1>3, ActKept
<1>4. CASE /\ Takes(case.action, sandbox) /\ Becomes(Applied(case.action, sandbox))
           /\ unanswered' = (GitHub /\ case.action = "create")
  <2>1. sandbox' \in SandboxState /\ lagging' \in SandboxState
    BY <1>2, <1>4, AppliedIsAState DEF Becomes
  <2>2. GitHub /\ ~known' => unanswered'
    BY <1>1, <1>4, UnknownDraft
  <2> QED BY <1>1, <2>1, <2>2, ActKept
<1>5. CASE case.provider = "s3" /\ Becomes([sandbox EXCEPT !.aside = TRUE])
  <2>1. sandbox' \in SandboxState /\ lagging' \in SandboxState
    BY <1>2, <1>5 DEF Becomes, SandboxState
  <2> QED BY <1>1, <1>5, <2>1, ActKept DEF GitHub
<1> QED BY <1>3, <1>4, <1>5 DEF ActFails

LEMMA DeleteStep ==
  ASSUME SandboxInv, DeleteSomeObjects
  PROVE  SandboxInv'
<1>1. /\ UNCHANGED <<case, before, known, failure, verdict, residual, unanswered>>
      /\ step = "act" /\ step' = "verify" /\ effects' = 1
      /\ case.provider = "s3" /\ case.action = "delete" /\ ToldToAct
  BY DEF DeleteSomeObjects
<1>2. sandbox \in SandboxState /\ Start' = Start
  BY <1>1 DEF SandboxInv, SandboxOK, Start
<1>3. sandbox' \in SandboxState /\ lagging' \in SandboxState
  BY <1>2, PartlyIsAState DEF DeleteSomeObjects, Becomes
<1>4. Admits(case.action, Start)
  BY <1>1, ToldIsAdmitted DEF Takes, GitHub
<1>5. CarriedOut'
  BY <1>1, <1>2, <1>4 DEF CarriedOut, GitHub
<1> QED BY <1>1, <1>3, <1>5, ActKept DEF GitHub

LEMMA VerifyStep ==
  ASSUME SandboxInv, VerifyAfter \/ VerifyFails
  PROVE  SandboxInv'
<1>1. /\ UNCHANGED <<case, sandbox, lagging, known, before, failure, effects, residual, unanswered>>
      /\ step = "verify" /\ step' = "cleanup"
  BY DEF VerifyAfter, VerifyFails
<1>2. verdict = "none" /\ residual = Unreported /\ sandbox \in SandboxState
  BY <1>1 DEF SandboxInv, SandboxOK, Outcomes, Residuals
<1>3. ASSUME verdict' = "succeeded"
      PROVE  CarriedOut /\ sandbox = Applied(case.action, Start)
  <2>1. PICK seen \in Views : Verifies(case.action, seen) /\ failure = "none"
    BY <1>2, <1>3 DEF VerifyAfter, VerifyFails, Record
  <2>2. CarriedOut
    BY <1>1, <2>1 DEF SandboxInv, Outcomes
  <2>3. CASE ~GitHub /\ case.action = "delete"
    <3>1. seen = sandbox
      BY <2>3 DEF Views, ViewsOfPrefix
    <3>2. sandbox = Empty
      BY <2>1, <2>3, <3>1 DEF Verifies
    <3> QED BY <2>2, <2>3, <3>2 DEF Applied
  <2> QED BY <2>2, <2>3 DEF CarriedOut
<1>4. SandboxOK' /\ Fresh'
  BY <1>1 DEF SandboxInv, SandboxOK, Fresh
<1>5. Outcomes'
  BY <1>1, <1>3 DEF Outcomes, SuccessIsTheTransition, CarriedOut, Start
<1>6. Residuals'
  BY <1>1, <1>2 DEF SandboxInv, Residuals, ResidualIsTold, GitHub, Unreported
<1> QED BY <1>4, <1>5, <1>6 DEF SandboxInv

\* A count of no residual means that nothing is left.
LEMMA NothingLeft ==
  ASSUME NEW s \in SandboxState, Left(s) = 0
  PROVE  s = Empty
<1> DEFINE Parts == {"container", "receipt", "aside"}
           L == {p \in Parts : s[p]}
<1>1. IsFiniteSet(Parts)
  <2>1. IsFiniteSet({"container"})
    BY FS_Singleton
  <2>2. IsFiniteSet({"container"} \cup {"receipt"})
    BY <2>1, FS_AddElement
  <2>3. IsFiniteSet(({"container"} \cup {"receipt"}) \cup {"aside"})
    BY <2>2, FS_AddElement
  <2>4. ({"container"} \cup {"receipt"}) \cup {"aside"} = Parts
    OBVIOUS
  <2> QED BY <2>3, <2>4
<1>2. IsFiniteSet(L) /\ Cardinality(L) \in Nat
  BY <1>1, FS_Subset, FS_CardinalityType
<1>3. Cardinality(L) = 0 /\ s.payload = "none"
  BY <1>2 DEF Left
<1>4. L = {}
  BY <1>2, <1>3, FS_EmptySet
<1>5. ~s["container"] /\ ~s["receipt"] /\ ~s["aside"]
  BY <1>4
<1> QED BY <1>3, <1>5 DEF SandboxState, Empty

LEMMA CleanupStep ==
  ASSUME SandboxInv, DeleteDraft \/ EmptyPrefix
  PROVE  SandboxInv'
<1>1. /\ UNCHANGED <<case, known, before, failure, effects, verdict, unanswered>>
      /\ step = "cleanup" /\ step' = "done"
  BY DEF DeleteDraft, EmptyPrefix
<1>2. sandbox' \in SandboxState /\ lagging' \in SandboxState
  <2>1. Empty \in SandboxState /\ sandbox \in SandboxState /\ lagging \in SandboxState
    BY DEF Empty, SandboxState, SandboxInv, SandboxOK
  <2> QED BY <2>1, PartlyIsAState DEF DeleteDraft, EmptyPrefix, Becomes
<1>3. ResidualIsTold'
  <2>1. CASE DeleteDraft
    BY <1>1, <2>1 DEF DeleteDraft, Becomes, SandboxInv, Residuals, ResidualIsTold
  <2>2. CASE EmptyPrefix
    BY <1>2, <2>2, NothingLeft DEF EmptyPrefix, ResidualIsTold
  <2> QED BY <2>1, <2>2
<1>4. SandboxOK' /\ Fresh' /\ Outcomes'
  BY <1>1, <1>2 DEF SandboxInv, SandboxOK, Fresh, Outcomes, SuccessIsTheTransition
<1> QED BY <1>1, <1>3, <1>4 DEF SandboxInv, Residuals

LEMMA DeadStep ==
  ASSUME SandboxInv, CandidateDies \/ UNCHANGED providerVars
  PROVE  SandboxInv'
<1>1. /\ UNCHANGED <<case, sandbox, lagging, known, before, failure, effects, verdict, residual, unanswered>>
      /\ step' = step \/ (step # "done" /\ step' = "dead")
  BY DEF CandidateDies, providerVars
<1>2. SandboxOK' /\ Fresh'
  BY <1>1 DEF SandboxInv, SandboxOK, Fresh, GitHub, Start
<1>3. Outcomes'
  BY <1>1 DEF SandboxInv, Outcomes, SuccessIsTheTransition, CarriedOut, GitHub, Start
<1>4. Residuals'
  BY <1>1 DEF SandboxInv, Residuals, ResidualIsTold, GitHub, Unreported
<1> QED BY <1>2, <1>3, <1>4 DEF SandboxInv

LEMMA SandboxStep ==
  ASSUME SandboxInv, [ProviderNext]_providerVars
  PROVE  SandboxInv'
BY PrepareStep, LookStep, AdoptStep, ActStep, ActFailsStep, DeleteStep, VerifyStep, CleanupStep, DeadStep
DEF ProviderNext

\* An outcome that is recorded as succeeded is the whole transition of its
\* action from the fixture as it was prepared, with one effect or none: however
\* the lists lag, and whichever call is refused, unanswered or done by half
\* (execute, execute_observed and _verify of the two providers).
THEOREM SuccessIsWhole == ProviderSpec => []SuccessIsTheTransition
<1>1. SandboxInv /\ [ProviderNext]_providerVars => SandboxInv'
  BY SandboxStep
<1>2. SandboxInv => SuccessIsTheTransition
  BY DEF SandboxInv, Outcomes
<1> QED BY InitSandbox, <1>1, <1>2, PTL DEF ProviderSpec

\* A clean-up that reports no residual has left none, but for a draft whose
\* creation was never answered (cleanup of the two providers).
THEOREM ResidualsAreCounted == ProviderSpec => []ResidualIsTold
<1>1. SandboxInv /\ [ProviderNext]_providerVars => SandboxInv'
  BY SandboxStep
<1>2. SandboxInv => ResidualIsTold
  BY DEF SandboxInv, Residuals
<1> QED BY InitSandbox, <1>1, <1>2, PTL DEF ProviderSpec

-----------------------------------------------------------------------------
(* The adaptive diagnosis agent *)

\* What was read is shown, and shown as the fetch returned it.
DiagnosisInv ==
  /\ read \subseteq DOMAIN shown
  /\ ~looked => read = {}
  /\ DOMAIN atFetch = read
  /\ \A m \in read : atFetch[m] = shown[m]
  /\ ProposalIsEvidenced

LEMMA InitDiagnosis == DiagnosisInit => DiagnosisInv
BY DEF DiagnosisInit, DiagnosisInv, ProposalIsEvidenced, Undecided

\* As long as there is no proposal, nothing is said of one.
LEMMA NoProposalYet ==
  ASSUME Running
  PROVE  answer.status # "proposed"
BY DEF Running, Undecided

LEMMA StillRunning ==
  ASSUME DiagnosisInv, Running, answer' \in {answer, Stopped},
         UNCHANGED <<shown, looked, read, atFetch>>
  PROVE  DiagnosisInv'
<1>1. answer'.status # "proposed"
  BY NoProposalYet DEF Stopped
<1> QED BY <1>1 DEF DiagnosisInv, ProposalIsEvidenced

LEMMA SearchStep ==
  ASSUME DiagnosisInv, SearchMemory
  PROVE  DiagnosisInv'
<1>1. /\ Running /\ ~looked /\ looked' /\ UNCHANGED <<read, atFetch, answer>>
      /\ read = {}
  BY DEF SearchMemory, Turn, Offered, OfferGated, OfferFree, Tool, DiagnosisInv
<1>2. answer'.status # "proposed"
  BY <1>1, NoProposalYet
<1> QED BY <1>1, <1>2 DEF DiagnosisInv, ProposalIsEvidenced

LEMMA FetchStep ==
  ASSUME DiagnosisInv, NEW m \in Notes, FetchMemory(m)
  PROVE  DiagnosisInv'
<1>1. PICK payload \in Fetched(m) :
        /\ shown' = [shown EXCEPT ![m] = payload]
        /\ atFetch' = [k \in read' |-> IF k = m THEN payload ELSE atFetch[k]]
  BY DEF FetchMemory
<1>2. /\ Running /\ looked /\ m \in DOMAIN shown \ read /\ read' = read \cup {m}
      /\ UNCHANGED <<looked, answer>>
  BY DEF FetchMemory, Turn, Offered, Tool
<1>3. DOMAIN shown' = DOMAIN shown /\ DOMAIN atFetch' = read'
  BY <1>1
<1>4. \A k \in read' : atFetch'[k] = shown'[k]
  BY <1>1, <1>2, <1>3 DEF DiagnosisInv
<1>5. answer'.status # "proposed"
  BY <1>2, NoProposalYet
<1> QED BY <1>2, <1>3, <1>4, <1>5 DEF DiagnosisInv, ProposalIsEvidenced

LEMMA ProposeStep ==
  ASSUME DiagnosisInv, NEW patch \in Patches, Propose(patch)
  PROVE  DiagnosisInv'
<1>1. /\ Running /\ UNCHANGED <<setting, shown, looked, read, evidence, atFetch>>
      /\ [name |-> "propose", over |-> patch] \in Offered
  BY DEF Propose, Turn
<1>2. PICK cites \in SUBSET DOMAIN shown :
        answer' = IF Admitted(patch, cites)
                    THEN [status |-> "proposed", patch |-> patch, cites |-> cites]
                    ELSE answer
  BY DEF Propose
<1>3. evidence # <<>> => patch = evidence[Len(evidence)]
  BY <1>1 DEF Offered, Tool
<1>4. CASE ~Admitted(patch, cites)
  BY <1>1, <1>2, <1>4, StillRunning
<1>5. CASE Admitted(patch, cites)
  <2>1. answer' = [status |-> "proposed", patch |-> patch, cites |-> cites]
    BY <1>2, <1>5
  <2>2. ASSUME NEW m \in cites
        PROVE  /\ m \in read /\ Says(m, patch)
               /\ setting.arm = "continuum" =>
                    \/ atFetch[m].from = "here"
                    \/ setting.transfer /\ atFetch[m].from = "attested"
    <3>1. m \in read /\ Authorizes(shown[m], patch) /\ atFetch[m] = shown[m]
      BY <1>5 DEF Admitted, DiagnosisInv
    <3> QED BY <3>1 DEF Authorizes, Says
  <2>3. evidence = <<>> => cites # {}
    BY <1>5 DEF Admitted
  <2>4. ProposalIsEvidenced'
    BY <1>1, <1>3, <2>1, <2>2, <2>3 DEF ProposalIsEvidenced, Says
  <2> QED BY <1>1, <2>4 DEF DiagnosisInv
<1> QED BY <1>4, <1>5

LEMMA DiagnosisStep ==
  ASSUME DiagnosisInv, [DiagnosisNext]_dvars
  PROVE  DiagnosisInv'
<1>1. ASSUME OutOfTools \/ TurnFails PROVE DiagnosisInv'
  BY <1>1, StillRunning DEF OutOfTools, TurnFails
<1>2. ASSUME NEW m \in Notes, FetchTwice(m) PROVE DiagnosisInv'
  BY <1>2, StillRunning DEF FetchTwice, Turn
<1>3. ASSUME NEW p \in Patches, RunProbe(p) PROVE DiagnosisInv'
  BY <1>3, StillRunning DEF RunProbe, Turn
<1>4. ASSUME UNCHANGED dvars PROVE DiagnosisInv'
  BY <1>4 DEF dvars, DiagnosisInv, ProposalIsEvidenced, Says
<1> QED BY <1>1, <1>2, <1>3, <1>4, SearchStep, FetchStep, ProposeStep DEF DiagnosisNext

\* What the agent proposes is what the provider's evidence says: the last
\* finding of a probe, or memories that told of this very patch when they were
\* fetched, in this environment or with an attested transfer (run, _tool_specs
\* and _memory_authorizes_patch of adaptive_diagnosis_agent.py): however many
\* notes there are, and whatever the shared memory becomes between a search and
\* a fetch.
THEOREM ProposalsAreEvidenced == DiagnosisSpec => []ProposalIsEvidenced
<1>1. DiagnosisInv /\ [DiagnosisNext]_dvars => DiagnosisInv'
  BY DiagnosisStep
<1>2. DiagnosisInv => ProposalIsEvidenced
  BY DEF DiagnosisInv
<1> QED BY InitDiagnosis, <1>1, <1>2, PTL DEF DiagnosisSpec

-----------------------------------------------------------------------------
(* The child-workflow benchmarks *)

\* A next attempt dispatches later than discovery looks back from there: between
\* the two lie the end of the job, its restart and its set-up, against the five
\* seconds of execute_batch.
AttemptsAreApart == Window < RestartGap

\* The time of each run, and what lies between those of two attempts.
RunTimes ==
  /\ try \in 1..2 /\ second \in Int /\ after \in Int /\ startable \in Int
  /\ \A r \in childRuns :
       /\ r.of \in 1..try /\ r.created \in Int /\ r.created <= second
       /\ leg \in {"died", "failed"} => r.created + RestartGap <= startable
       /\ r.of < try => r.created + RestartGap <= second
       /\ r.of < try /\ leg \in BatchLegs => r.created + RestartGap <= after + Window

\* What discovery found in the batch that is under way.
FoundOwn ==
  leg \in BatchLegs /\ found # Nothing =>
    /\ due = {}
    /\ \A q \in sent : /\ found[q].title = Correlation(q) /\ found[q].of = try
                       /\ found[q].head = "sealed head"

\* What a memory may have brought the continuum arm to, and what a pass is.
Grades ==
  /\ ~contest.sameCause => Benchmark("transfer")
  /\ "continuum" \in adopted => "continuum" \in DOMAIN proposal /\ proposal["continuum"] = "expected"
  /\ grade = "PASS" => leg = "passed"
  /\ PassRestsOnReceipts

LEMMA NothingIsEmpty == DOMAIN Nothing = {}
BY DEF Nothing

LEMMA InitChild ==
  ASSUME ChildInit
  PROVE  RunTimes /\ FoundOwn /\ ReceiptsAreOwn /\ Grades
<1>1. RunTimes
  <2>1. try = 1 /\ second = Window /\ after = 0 /\ startable = 0 /\ childRuns = {}
    BY DEF ChildInit
  <2> QED BY <2>1, ChildAssumption DEF RunTimes
<1>2. FoundOwn /\ ReceiptsAreOwn
  BY NothingIsEmpty DEF ChildInit, FoundOwn, ReceiptsAreOwn
<1>3. ~contest.sameCause => Benchmark("transfer")
  <2>1. contest \in CiCases \/ contest \in AdaptiveCases \/ contest \in TransferCases
    BY DEF ChildInit
  <2> QED BY <2>1 DEF CiCases, AdaptiveCases, TransferCases, Benchmark
<1> QED BY <1>1, <1>2, <1>3 DEF ChildInit, Grades, PassRestsOnReceipts

-----------------------------------------------------------------------------
(* The times *)

\* A step that dispatches nothing: the process dies, or a batch may start.
LEMMA TimesKept ==
  ASSUME RunTimes, childRuns' = childRuns, try' = try, second' = second,
         \/ leg' \in BatchLegs /\ leg \in BatchLegs /\ UNCHANGED <<after, startable>>
         \/ leg' \in BatchLegs /\ after' = second - Window /\ startable' = startable
         \/ leg' \in {"died", "failed"} /\ startable' = second + RestartGap /\ after' \in {0, after}
         \/ leg' \notin BatchLegs \cup {"died", "failed"} /\ UNCHANGED <<after, startable>>
         \/ UNCHANGED <<leg, after, startable>>
  PROVE  RunTimes'
<1>1. after' \in Int /\ startable' \in Int
  BY ChildAssumption DEF RunTimes
<1>2. ASSUME NEW r \in childRuns
      PROVE  /\ leg' \in {"died", "failed"} => r.created + RestartGap <= startable'
             /\ r.of < try /\ leg' \in BatchLegs => r.created + RestartGap <= after' + Window
  BY ChildAssumption DEF RunTimes, BatchLegs
<1> QED BY <1>1, <1>2 DEF RunTimes

\* A step that dispatches one run.
LEMMA TimesWithRun ==
  ASSUME RunTimes, NEW q, childRuns' \in {childRuns, childRuns \cup {ChildRun(q)}},
         try' = try, second' = second,
         \/ UNCHANGED <<leg, after, startable>> /\ leg \in BatchLegs
         \/ leg' = "died" /\ startable' = second + RestartGap /\ after' = 0
  PROVE  RunTimes'
<1>1. after' \in Int /\ startable' \in Int /\ try' \in 1..2 /\ second' \in Int
  BY ChildAssumption DEF RunTimes
<1>2. PICK n : n = ChildRun(q)
  OBVIOUS
<1>3. n.created = second /\ n.of = try
  BY <1>2 DEF ChildRun
<1>4. ASSUME NEW r \in childRuns \cup {n}
      PROVE  /\ r.of \in 1..try /\ r.created \in Int /\ r.created <= second
             /\ leg' \in {"died", "failed"} => r.created + RestartGap <= startable'
             /\ r.of < try => r.created + RestartGap <= second
             /\ r.of < try /\ leg' \in BatchLegs => r.created + RestartGap <= after' + Window
  <2>1. CASE r = n
    BY <1>3, <2>1, ChildAssumption DEF RunTimes, BatchLegs
  <2>2. CASE r \in childRuns
    BY <2>2, ChildAssumption DEF RunTimes, BatchLegs
  <2> QED BY <2>1, <2>2
<1> QED BY <1>1, <1>2, <1>4 DEF RunTimes

LEMMA TimesStep ==
  ASSUME RunTimes, [ChildNext]_childVars
  PROVE  RunTimes'
<1>1. ASSUME SealFails \/ WaitFails \/ ReceiptUnreadable \/ ProposeRaises \/ ProbeRaises
      PROVE  RunTimes'
  BY <1>1, TimesKept DEF SealFails, WaitFails, ReceiptUnreadable, ProposeRaises, ProbeRaises, Die
<1>2. ASSUME SealInputs \/ (\E arm \in CandidateArms : CandidateAnswers(arm)) \/ BranchMoves
             \/ UNCHANGED childVars
      PROVE  RunTimes'
  BY <1>2, TimesKept DEF SealInputs, CandidateAnswers, BranchMoves, childVars
<1>3. ASSUME BeginAttempt \/ Remediate
      PROVE  RunTimes'
  BY <1>3, TimesKept DEF BeginAttempt, Remediate, StartBatch, BatchLegs
<1>4. ASSUME RunAgain
      PROVE  RunTimes'
  <2>1. ASSUME NEW r \in childRuns
        PROVE  r.of \in 1..2 /\ r.created + RestartGap <= second
    BY <1>4, <2>1, ChildAssumption DEF RunAgain, RunTimes
  <2> QED BY <1>4, <2>1 DEF RunAgain, RunTimes, BatchLegs
<1>5. ASSUME Dispatch
      PROVE  RunTimes'
  BY <1>5, TimesWithRun DEF Dispatch
<1>6. ASSUME DispatchFails
      PROVE  RunTimes'
  BY <1>6, TimesWithRun DEF DispatchFails, Die
<1>7. ASSUME DiscoverRuns
      PROVE  RunTimes'
  BY <1>7, TimesKept DEF DiscoverRuns, Die
<1>8. ASSUME CollectReceipts
      PROVE  RunTimes'
  <2>1. /\ UNCHANGED <<try, second, startable, childRuns>> /\ leg \in BatchLegs
        /\ leg' \in {"attest", "candidates", "score"}
        /\ leg' = "attest" => after' = second - Window
        /\ leg' # "attest" => after' = after
    BY <1>8 DEF CollectReceipts, LegAfter, StartBatch, BatchLegs
  <2> QED BY <2>1, TimesKept DEF BatchLegs
<1>9. ASSUME ScoreReport
      PROVE  RunTimes'
  <2>1. leg' \in {"passed", "failed"} /\ startable' = second + RestartGap
        /\ UNCHANGED <<try, second, childRuns, after>>
    BY <1>9 DEF ScoreReport
  <2>2. startable' \in Int /\ \A r \in childRuns : r.created + RestartGap <= startable'
    BY <2>1, ChildAssumption DEF RunTimes
  <2> QED BY <2>1, <2>2 DEF RunTimes, BatchLegs
<1>10. ASSUME SecondPasses
       PROVE  RunTimes'
  BY <1>10, ChildAssumption DEF SecondPasses, RunTimes
<1> QED
  BY <1>1, <1>2, <1>3, <1>4, <1>5, <1>6, <1>7, <1>8, <1>9, <1>10 DEF ChildNext

-----------------------------------------------------------------------------
(* The receipts *)

\* What discovery accepts is of this attempt.
LEMMA MatchesAreOwn ==
  ASSUME AttemptsAreApart, RunTimes, leg \in BatchLegs, NEW q, NEW r \in Matches(q)
  PROVE  r.title = Correlation(q) /\ r.of = try
<1>1. r \in childRuns /\ r.title = Correlation(q) /\ r.created >= after
  BY DEF Matches
<1>2. ~(r.of < try)
  BY <1>1, ChildAssumption DEF AttemptsAreApart, RunTimes
<1> QED BY <1>1, <1>2 DEF RunTimes

LEMMA CorrelationKept ==
  ASSUME UNCHANGED <<contest, try>>
  PROVE  \A q : Correlation(q)' = Correlation(q)
BY DEF Correlation, Benchmark

\* A step that touches neither what was found nor what was received, or that
\* throws it away.
LEMMA ReceiptsKept ==
  ASSUME FoundOwn, ReceiptsAreOwn, UNCHANGED <<contest, try>>,
         receiptOf' \in {receiptOf, Nothing},
         \/ leg' \notin BatchLegs
         \/ found' = Nothing
         \/ UNCHANGED <<leg, found, due, sent>>
  PROVE  FoundOwn' /\ ReceiptsAreOwn'
<1>1. FoundOwn'
  BY CorrelationKept DEF FoundOwn
<1>2. ReceiptsAreOwn'
  <2>1. CASE receiptOf' = Nothing
    BY <2>1, NothingIsEmpty DEF ReceiptsAreOwn
  <2>2. CASE receiptOf' = receiptOf
    BY <2>2, CorrelationKept DEF ReceiptsAreOwn
  <2> QED BY <2>1, <2>2
<1> QED BY <1>1, <1>2

LEMMA ReceiptsStep ==
  ASSUME AttemptsAreApart, RunTimes, FoundOwn, ReceiptsAreOwn, [ChildNext]_childVars
  PROVE  FoundOwn' /\ ReceiptsAreOwn'
<1>1. ASSUME SealFails \/ DispatchFails \/ WaitFails \/ ReceiptUnreadable \/ ProposeRaises \/ ProbeRaises
      PROVE  FoundOwn' /\ ReceiptsAreOwn'
  BY <1>1, ReceiptsKept
  DEF SealFails, DispatchFails, WaitFails, ReceiptUnreadable, ProposeRaises, ProbeRaises, Die, BatchLegs
<1>2. ASSUME \/ SealInputs \/ (\E arm \in CandidateArms : CandidateAnswers(arm)) \/ BranchMoves
             \/ SecondPasses \/ UNCHANGED childVars
      PROVE  FoundOwn' /\ ReceiptsAreOwn'
  BY <1>2, ReceiptsKept DEF SealInputs, CandidateAnswers, BranchMoves, SecondPasses, childVars
<1>3. ASSUME BeginAttempt \/ Remediate
      PROVE  FoundOwn' /\ ReceiptsAreOwn'
  BY <1>3, ReceiptsKept DEF BeginAttempt, Remediate, StartBatch
<1>4. ASSUME RunAgain
      PROVE  FoundOwn' /\ ReceiptsAreOwn'
  BY <1>4, NothingIsEmpty DEF RunAgain, FoundOwn, ReceiptsAreOwn, BatchLegs
<1>5. ASSUME Dispatch
      PROVE  FoundOwn' /\ ReceiptsAreOwn'
  BY <1>5, ReceiptsKept DEF Dispatch, FoundOwn
<1>6. ASSUME DiscoverRuns
      PROVE  FoundOwn' /\ ReceiptsAreOwn'
  <2>1. PICK f \in [sent -> childRuns] :
          /\ \A q \in sent : f[q] \in Matches(q)
          /\ IF \A q \in sent : f[q].head = "sealed head"
               THEN found' = f /\ UNCHANGED <<leg, due, sent, receiptOf>>
               ELSE Die
    BY <1>6 DEF DiscoverRuns
  <2>2. UNCHANGED <<contest, try>> /\ leg \in BatchLegs /\ due = {}
    BY <1>6 DEF DiscoverRuns
  <2>3. CASE \A q \in sent : f[q].head = "sealed head"
    <3>1. \A q \in sent : f[q].title = Correlation(q) /\ f[q].of = try
      BY <2>1, <2>2, MatchesAreOwn
    <3>2. FoundOwn'
      BY <2>1, <2>2, <2>3, <3>1, CorrelationKept DEF FoundOwn
    <3>3. ReceiptsAreOwn'
      BY <2>1, <2>2, <2>3, CorrelationKept DEF ReceiptsAreOwn
    <3> QED BY <3>2, <3>3
  <2>4. CASE ~\A q \in sent : f[q].head = "sealed head"
    BY <2>1, <2>2, <2>4, ReceiptsKept DEF Die
  <2> QED BY <2>3, <2>4
<1>7. ASSUME CollectReceipts
      PROVE  FoundOwn' /\ ReceiptsAreOwn'
  <2>1. PICK conclusions \in [sent -> {"success", "failure"}] :
          receiptOf' = [q \in sent \cup DOMAIN receiptOf |->
                             IF q \in sent
                               THEN [run |-> found[q], conclusion |-> conclusions[q]]
                               ELSE receiptOf[q]]
    BY <1>7 DEF CollectReceipts
  <2>2. /\ UNCHANGED <<contest, try>> /\ leg \in BatchLegs /\ found # Nothing
        /\ leg' \in BatchLegs => found' = Nothing
    BY <1>7 DEF CollectReceipts, LegAfter, StartBatch, BatchLegs
  <2>3. ASSUME NEW q \in DOMAIN receiptOf'
        PROVE  LET r == receiptOf'[q].run IN
               r.title = Correlation(q) /\ r.of = try /\ r.head = "sealed head"
    <3>1. CASE q \in sent
      BY <2>1, <2>2, <3>1 DEF FoundOwn
    <3>2. CASE q \notin sent
      <4>1. receiptOf'[q] = receiptOf[q] /\ q \in DOMAIN receiptOf
        BY <2>1, <3>2
      <4> QED BY <4>1 DEF ReceiptsAreOwn
    <3> QED BY <3>1, <3>2
  <2>4. ReceiptsAreOwn'
    BY <2>2, <2>3, CorrelationKept DEF ReceiptsAreOwn
  <2> QED BY <2>2, <2>4 DEF FoundOwn
<1>8. ASSUME ScoreReport
      PROVE  FoundOwn' /\ ReceiptsAreOwn'
  BY <1>8, ReceiptsKept DEF ScoreReport, BatchLegs
<1> QED
  BY <1>1, <1>2, <1>3, <1>4, <1>5, <1>6, <1>7, <1>8 DEF ChildNext

-----------------------------------------------------------------------------
(* The grade *)

\* A step that keeps the proposals or throws them away, and gives no grade.
LEMMA GradesKept ==
  ASSUME Grades, contest' = contest, grade' \in {grade, "none"}, leg # "passed" \/ leg' = leg,
         \/ UNCHANGED <<adopted, proposal>> /\ (leg # "passed" \/ receiptOf' = receiptOf)
         \/ adopted' = {} /\ leg # "passed"
  PROVE  Grades'
<1>1. CASE leg # "passed"
  <2>1. grade' # "PASS"
    BY <1>1 DEF Grades
  <2> QED BY <1>1, <2>1 DEF Grades, Benchmark, PassRestsOnReceipts
<1>2. CASE leg = "passed"
  <2>1. UNCHANGED <<adopted, proposal, receiptOf, leg>>
    BY <1>2
  <2>2. CASE grade' = grade
    BY <2>1, <2>2 DEF Grades, Benchmark, PassRestsOnReceipts, Recovered, Concluded
  <2>3. CASE grade' = "none"
    BY <2>1, <2>3 DEF Grades, Benchmark, PassRestsOnReceipts
  <2> QED BY <2>2, <2>3
<1> QED BY <1>1, <1>2

\* What the continuum arm adopts is the expected patch: across causes the server
\* does not let it adopt.
LEMMA AnswersStep ==
  ASSUME Grades, NEW arm \in CandidateArms, CandidateAnswers(arm)
  PROVE  Grades'
<1>1. PICK patch \in Fixes \cup {"no_patch"}, byMemory \in BOOLEAN :
        /\ byMemory => Adopts(arm, patch)
        /\ proposal' = [a \in DOMAIN proposal \cup {arm} |-> IF a = arm THEN patch ELSE proposal[a]]
        /\ adopted' = IF byMemory THEN adopted \cup {arm} ELSE adopted
  BY DEF CandidateAnswers
<1>2. leg = "candidates" /\ UNCHANGED <<contest, leg, grade>> /\ arm \notin DOMAIN proposal
  BY DEF CandidateAnswers
<1>3. "continuum" \in adopted' => "continuum" \in DOMAIN proposal' /\ proposal'["continuum"] = "expected"
  <2>1. CASE arm = "continuum" /\ byMemory
    <3>1. patch = Remembered /\ (Benchmark("transfer") => contest.sameCause)
      BY <1>1, <2>1 DEF Adopts, MayAdopt, MayTransfer
    <3>2. patch = "expected"
      BY <3>1 DEF Remembered, Grades
    <3> QED BY <1>1, <2>1, <3>2
  <2>2. CASE arm = "continuum" /\ ~byMemory
    BY <1>1, <1>2, <2>2 DEF Grades
  <2>3. CASE arm # "continuum"
    BY <1>1, <2>3 DEF Grades
  <2> QED BY <2>1, <2>2, <2>3
<1>4. grade' # "PASS"
  BY <1>2 DEF Grades
<1> QED BY <1>2, <1>3, <1>4 DEF Grades, Benchmark, PassRestsOnReceipts

LEMMA ScoreStep ==
  ASSUME Grades, ScoreReport
  PROVE  Grades'
<1>1. /\ UNCHANGED <<contest, receiptOf, proposal, adopted>>
      /\ leg' = IF grade' = "PASS" THEN "passed" ELSE "failed"
      /\ grade # "PASS"
  BY DEF ScoreReport, Grades
<1>2. ASSUME grade' = "PASS"
      PROVE  Calibrated /\ Gate
  BY <1>1, <1>2 DEF ScoreReport
<1>3. ASSUME Calibrated
      PROVE  Concluded(ChildRequest("calibration", "green")) = "success"
  BY <1>3 DEF Calibrated, RedRedGreen, Phases
<1>4. ASSUME Gate
      PROVE  Recovered("continuum")
  BY <1>4 DEF Gate, RecoveryGate, PromotedBy
<1>5. PassRestsOnReceipts'
  BY <1>1, <1>2, <1>3, <1>4 DEF Grades, PassRestsOnReceipts, Concluded, Recovered
<1> QED BY <1>1, <1>5 DEF Grades, Benchmark

LEMMA GradesStep ==
  ASSUME Grades, [ChildNext]_childVars
  PROVE  Grades'
<1>1. ASSUME SealFails \/ DispatchFails \/ WaitFails \/ ReceiptUnreadable \/ ProposeRaises \/ ProbeRaises
      PROVE  Grades'
  BY <1>1, GradesKept
  DEF SealFails, DispatchFails, WaitFails, ReceiptUnreadable, ProposeRaises, ProbeRaises, Die, BatchLegs
<1>2. ASSUME SealInputs \/ BranchMoves \/ SecondPasses \/ UNCHANGED childVars
      PROVE  Grades'
  BY <1>2, GradesKept DEF SealInputs, BranchMoves, SecondPasses, childVars
<1>3. ASSUME BeginAttempt \/ Remediate \/ Dispatch
      PROVE  Grades'
  BY <1>3, GradesKept DEF BeginAttempt, Remediate, Dispatch
<1>4. ASSUME RunAgain
      PROVE  Grades'
  BY <1>4, GradesKept DEF RunAgain
<1>5. ASSUME DiscoverRuns
      PROVE  Grades'
  <2>1. leg # "passed" /\ UNCHANGED <<contest, grade>>
    BY <1>5 DEF DiscoverRuns, BatchLegs
  <2>2. UNCHANGED <<adopted, proposal>> \/ adopted' = {}
    BY <1>5 DEF DiscoverRuns, Die
  <2> QED BY <2>1, <2>2, GradesKept
<1>6. ASSUME CollectReceipts
      PROVE  Grades'
  BY <1>6, GradesKept DEF CollectReceipts, BatchLegs
<1> QED
  BY <1>1, <1>2, <1>3, <1>4, <1>5, <1>6, AnswersStep, ScoreStep DEF ChildNext

\* Every receipt is of a run that this attempt dispatched for this very request,
\* at the sealed head (_discover_runs and execute_batch of
\* run_live_ci_recovery.py): however often calls fail and whatever a first
\* attempt left, if only two attempts lie further apart than discovery looks
\* back.
THEOREM ReceiptsOfThisAttempt ==
  ASSUME AttemptsAreApart
  PROVE  ChildSpec => []ReceiptsAreOwn
<1> DEFINE OwnInv == RunTimes /\ FoundOwn /\ ReceiptsAreOwn
<1>1. ChildInit => OwnInv
  BY InitChild
<1>2. OwnInv /\ [ChildNext]_childVars => OwnInv'
  BY TimesStep, ReceiptsStep
<1>3. OwnInv => ReceiptsAreOwn
  OBVIOUS
<1> QED BY <1>1, <1>2, <1>3, PTL DEF ChildSpec

\* A report that passes rests on memory that was true: a green receipt of the
\* calibration for each patch that was taken over, a green run of what the
\* continuum arm promotes, and no adoption across causes (summarize_ and the
\* gates of ci_recovery.py, adaptive_diagnosis.py and transfer_firewall.py).
THEOREM PassesRestOnReceipts == ChildSpec => []PassRestsOnReceipts
<1>1. ChildInit => Grades
  BY InitChild
<1>2. Grades /\ [ChildNext]_childVars => Grades'
  BY GradesStep
<1>3. Grades => PassRestsOnReceipts
  BY DEF Grades
<1> QED BY <1>1, <1>2, <1>3, PTL DEF ChildSpec

-----------------------------------------------------------------------------
(* The online memory lineage *)

JobSteps == {"idle", "calibrate", "propose", "proposing", "act", "finalize", "wait", "revoke",
             "failed", "passed"}
Place == [at : Int, step : {"none", "secret", "approve", "record", "index", "judge", "done", "dead"}]

Early == {"calibrate", "propose", "proposing", "act"}
ActedOnce == \A c \in Cases : Len(actions[c]) = 1

\* The finalize of job j has consumed the handles of the first n cases itself.
Consumed(j, n) ==
  \A i \in 1..n : ledger[Order[i]] = j /\ Order[i] \in vectored /\ actions[Order[i]][1]

\* What holds of the finalize command of job j when it stands at p.
Finalizing(j, p) ==
  /\ p # Absent => ActedOnce
  /\ p.step \in {"approve", "record", "index"} => p.at \in 1..2 /\ Consumed(j, p.at - 1)
  /\ p.step = "index" => ledger[Order[p.at]] = j /\ actions[Order[p.at]][1]
  /\ p.step = "judge" => Consumed(j, 2)

LineageOK ==
  /\ job \in [Jobs -> JobSteps]
  /\ process \in [Jobs -> Place]
  /\ ledger \in [Cases -> Int]
  /\ actions \in [Cases -> Seq(BOOLEAN)]
  /\ published \subseteq Jobs

\* Before the only step that acts there is nothing to finalize.
ActsOnce ==
  /\ job[Candidate] \in Early => \A c \in Cases : actions[c] = <<>>
  /\ \A j \in Jobs : job[j] \in {"finalize", "wait"} => ActedOnce

LineageInv ==
  /\ LineageOK /\ ActsOnce
  /\ \A j \in Jobs : Finalizing(j, process[j])
  /\ ReportIsItsOwn

LEMMA OrderFacts ==
  /\ Order[1] = "near" /\ Order[2] = "same" /\ Len(Order) = 2
  /\ \A i \in 1..2 : Order[i] \in Cases
  /\ \A c \in Cases : \E i \in 1..2 : Order[i] = c
<1>1. Order[1] = "near" /\ Order[2] = "same" /\ Len(Order) = 2
  BY DEF Order
<1>2. \A i \in 1..2 : i = 1 \/ i = 2
  OBVIOUS
<1> QED BY <1>1, <1>2 DEF Cases

LEMMA JobsAreNumbers == Jobs \subseteq Nat /\ Candidate \in Jobs
BY LineageAssumption DEF Jobs, Candidate

LEMMA InitLineage ==
  ASSUME LineageInit
  PROVE  LineageInv
<1>1. LineageOK
  <2>1. Absent \in Place /\ Unrecorded \in Int
    BY DEF Absent, Unrecorded, Place
  <2>2. <<>> \in Seq(BOOLEAN)
    OBVIOUS
  <2> QED BY <2>1, <2>2 DEF LineageInit, LineageOK, JobSteps
<1>2. ActsOnce
  BY JobsAreNumbers DEF LineageInit, ActsOnce
<1>3. \A j \in Jobs : Finalizing(j, process[j])
  BY DEF LineageInit, Finalizing, Absent
<1>4. ReportIsItsOwn
  BY DEF LineageInit, ReportIsItsOwn
<1> QED BY <1>1, <1>2, <1>3, <1>4 DEF LineageInv

\* What was consumed stays consumed: no handle is ever consumed for another one.
LEMMA ConsumedStays ==
  ASSUME LineageInv, actions' = actions, vectored \subseteq vectored',
         \A c \in Cases, k \in Jobs : ledger[c] = k => ledger'[c] = k,
         NEW j \in Jobs, NEW p \in Place, Finalizing(j, p)
  PROVE  Finalizing(j, p)'
<1>1. ASSUME NEW n \in 0..2, Consumed(j, n)
      PROVE  Consumed(j, n)'
  BY <1>1, OrderFacts DEF Consumed
<1>2. ActedOnce => ActedOnce'
  BY DEF ActedOnce
<1>3. CASE p.step \in {"approve", "record", "index"}
  <2>1. PICK n \in 0..2 : n = p.at - 1 /\ Consumed(j, n)
    BY <1>3 DEF Finalizing
  <2>2. Consumed(j, p.at - 1)'
    BY <1>1, <2>1 DEF Consumed
  <2>3. p.step = "index" => ledger'[Order[p.at]] = j /\ actions'[Order[p.at]][1]
    BY <1>3, OrderFacts DEF Finalizing
  <2> QED BY <1>2, <1>3, <2>2, <2>3 DEF Finalizing
<1>4. CASE p.step \notin {"approve", "record", "index"}
  BY <1>1, <1>2, <1>4 DEF Finalizing
<1> QED BY <1>3, <1>4

LEMMA ReportsStay ==
  ASSUME LineageInv, actions' = actions, vectored \subseteq vectored', published' = published,
         \A c \in Cases, k \in Jobs : ledger[c] = k => ledger'[c] = k
  PROVE  ReportIsItsOwn'
BY DEF LineageInv, LineageOK, ReportIsItsOwn

\* A step of no finalize command, which does not act either.
LEMMA CommandsStand ==
  ASSUME LineageInv, UNCHANGED <<actions, process, ledger, published>>, vectored \subseteq vectored',
         job' \in [Jobs -> JobSteps], job'[Candidate] \in Early => job[Candidate] \in Early,
         \A j \in Jobs : job'[j] \in {"finalize", "wait"} => job[j] \in {"finalize", "wait"} \/ ActedOnce
  PROVE  LineageInv'
<1>1. LineageOK'
  BY DEF LineageInv, LineageOK
<1>2. ActsOnce'
  BY DEF LineageInv, ActsOnce, ActedOnce
<1>3. (\A j \in Jobs : Finalizing(j, process[j]))'
  <2> SUFFICES ASSUME NEW j \in Jobs PROVE Finalizing(j, process[j])'
    OBVIOUS
  <2> PICK p \in Place : p = process[j] /\ p = process'[j]
    BY DEF LineageInv, LineageOK
  <2>1. Finalizing(j, p)'
    BY ConsumedStays DEF LineageInv
  <2> QED BY <2>1 DEF Finalizing, ActedOnce, Consumed
<1>4. ReportIsItsOwn'
  BY ReportsStay
<1> QED BY <1>1, <1>2, <1>3, <1>4 DEF LineageInv

\* A step of the finalize command of job j, which comes to p.
LEMMA CommandMoves ==
  ASSUME LineageInv, NEW j \in Jobs, NEW p \in Place,
         process' = [process EXCEPT ![j] = p], actions' = actions, vectored \subseteq vectored',
         job' \in [Jobs -> JobSteps],
         job'[Candidate] \in Early => job[Candidate] \in Early,
         \A k \in Jobs : job'[k] \in {"finalize", "wait"} => job[k] \in {"finalize", "wait"},
         ledger' \in [Cases -> Int],
         \A c \in Cases, k \in Jobs : ledger[c] = k => ledger'[c] = k,
         Finalizing(j, p)', published' \subseteq Jobs, ReportIsItsOwn'
  PROVE  LineageInv'
<1>1. LineageOK'
  BY DEF LineageInv, LineageOK
<1>2. ActsOnce'
  BY DEF LineageInv, ActsOnce, ActedOnce
<1>3. (\A k \in Jobs : Finalizing(k, process[k]))'
  <2> SUFFICES ASSUME NEW k \in Jobs PROVE Finalizing(k, process[k])'
    OBVIOUS
  <2> PICK q \in Place : q = process'[k]
    BY <1>1 DEF LineageOK
  <2>1. Finalizing(k, q)'
    <3>1. CASE k = j
      <4>1. q = p
        BY <3>1 DEF LineageInv, LineageOK
      <4> QED BY <3>1, <4>1
    <3>2. CASE k # j
      <4>1. q = process[k]
        BY <3>2 DEF LineageInv, LineageOK
      <4>2. Finalizing(k, q)
        BY <4>1 DEF LineageInv
      <4> QED BY <4>2, ConsumedStays
    <3> QED BY <3>1, <3>2
  <2> QED BY <2>1 DEF Finalizing, ActedOnce, Consumed
<1> QED BY <1>1, <1>2, <1>3 DEF LineageInv

\* The command moves on without an outcome, an index or a report.
LEMMA CommandSteps ==
  ASSUME LineageInv, NEW j \in Jobs, NEW p \in Place, process' = [process EXCEPT ![j] = p],
         UNCHANGED <<job, actions, ledger, vectored, published>>, Finalizing(j, p)
  PROVE  LineageInv'
<1>1. Finalizing(j, p)' /\ ReportIsItsOwn'
  BY ConsumedStays, ReportsStay
<1> QED BY <1>1, CommandMoves DEF LineageInv, LineageOK

LEMMA FirstStep ==
  ASSUME LineageInv, NEW j \in Jobs, SendFinalize(j)
  PROVE  LineageInv'
<1>1. /\ job[j] = "finalize" /\ job' = [job EXCEPT ![j] = "wait"]
      /\ process' = [process EXCEPT ![j] = Starting]
      /\ UNCHANGED <<actions, ledger, vectored, published>>
  BY DEF SendFinalize, Advance
<1>2. Starting \in Place /\ Finalizing(j, Starting)
  BY <1>1 DEF Starting, Place, Finalizing, LineageInv, ActsOnce
<1>3. /\ job' \in [Jobs -> JobSteps]
      /\ job'[Candidate] \in Early => job[Candidate] \in Early
      /\ \A k \in Jobs : job'[k] \in {"finalize", "wait"} => job[k] \in {"finalize", "wait"}
  BY <1>1, JobsAreNumbers DEF LineageInv, LineageOK, JobSteps, Early
<1>4. Finalizing(j, Starting)' /\ ReportIsItsOwn'
  BY <1>1, <1>2, ConsumedStays, ReportsStay
<1> QED BY <1>1, <1>2, <1>3, <1>4, CommandMoves DEF LineageInv, LineageOK

\* A command that has died, or is done, need hold nothing but that there was one.
LEMMA DeadIsFinalizing ==
  ASSUME LineageInv, NEW j \in Jobs, process[j] # Absent,
         NEW p \in {[at |-> 0, step |-> "dead"], [at |-> 0, step |-> "done"]}
  PROVE  p \in Place /\ Finalizing(j, p)
<1>1. ActedOnce
  BY DEF LineageInv, Finalizing
<1> QED BY <1>1 DEF Place, Finalizing

LEMMA SecretStep ==
  ASSUME LineageInv, NEW j \in Jobs, ReadMigratorSecret(j) \/ Crash(j)
  PROVE  LineageInv'
<1>1. /\ process[j] # Absent
      /\ UNCHANGED <<job, actions, ledger, vectored, published>>
  BY DEF ReadMigratorSecret, Crash, Absent
<1>2. PICK p : /\ p \in {[at |-> 0, step |-> "dead"], [at |-> 1, step |-> "approve"]}
               /\ process' = [process EXCEPT ![j] = p]
  BY DEF ReadMigratorSecret, Crash, Goes, Dies
<1>3. CASE p = [at |-> 0, step |-> "dead"]
  BY <1>1, <1>2, <1>3, DeadIsFinalizing, CommandSteps
<1>4. CASE p = [at |-> 1, step |-> "approve"]
  <2>1. ActedOnce
    BY <1>1 DEF LineageInv, Finalizing
  <2>2. p \in Place /\ Finalizing(j, p)
    BY <1>4, <2>1 DEF Place, Finalizing, Consumed
  <2> QED BY <1>1, <1>2, <2>2, CommandSteps
<1> QED BY <1>2, <1>3, <1>4

LEMMA ApproveStep ==
  ASSUME LineageInv, NEW j \in Jobs, Approve(j)
  PROVE  LineageInv'
<1>1. PICK n : n = process[j].at
  OBVIOUS
<1>2. PICK p : p = [at |-> n, step |-> "record"]
  OBVIOUS
<1>3. /\ process[j].step = "approve" /\ process' = [process EXCEPT ![j] = p]
      /\ UNCHANGED <<job, actions, ledger, vectored, published>>
  BY <1>1, <1>2 DEF Approve, Goes
<1>4. n \in 1..2 /\ Consumed(j, n - 1) /\ ActedOnce
  BY <1>1, <1>3 DEF LineageInv, Finalizing, Absent
<1>5. p \in Place /\ Finalizing(j, p)
  BY <1>2, <1>4 DEF Place, Finalizing
<1> QED BY <1>3, <1>5, CommandSteps

\* An outcome is recorded only where there is none: it takes nobody's away.
LEMMA RecordStep ==
  ASSUME LineageInv, NEW j \in Jobs, RecordOutcome(j)
  PROVE  LineageInv'
<1>1. PICK n : n = process[j].at
  OBVIOUS
<1>2. /\ process[j].step = "record"
      /\ UNCHANGED <<job, actions, vectored, published>>
  BY DEF RecordOutcome
<1>3. n \in 1..2 /\ Consumed(j, n - 1) /\ ActedOnce /\ process[j] # Absent /\ Order[n] \in Cases
  BY <1>1, <1>2, OrderFacts DEF LineageInv, Finalizing, Absent
<1>4. CASE actions[Order[n]][1] /\ ledger[Order[n]] = Unrecorded
  <2>1. PICK p : p = [at |-> n, step |-> "index"]
    OBVIOUS
  <2>2. ledger' = [ledger EXCEPT ![Order[n]] = j] /\ process' = [process EXCEPT ![j] = p]
    BY <1>1, <1>4, <2>1 DEF RecordOutcome, Case, Goes
  <2>3. /\ ledger' \in [Cases -> Int] /\ ledger'[Order[n]] = j
        /\ \A c \in Cases, k \in Jobs : ledger[c] = k => ledger'[c] = k
    BY <1>3, <1>4, <2>2, JobsAreNumbers DEF LineageInv, LineageOK, Unrecorded
  <2>4. (n \in 1..2 /\ Consumed(j, n - 1) /\ ActedOnce)'
    <3>0. [at |-> n, step |-> "record"] \in Place
      BY <1>3 DEF Place
    <3>1. PICK q \in Place : q = [at |-> n, step |-> "record"]
      BY <3>0
    <3>2. Finalizing(j, q)'
      BY <1>2, <1>3, <2>3, <3>1, ConsumedStays DEF Finalizing
    <3> QED BY <1>2, <1>3, <3>1, <3>2 DEF Finalizing, ActedOnce
  <2>5. Finalizing(j, p)' /\ p \in Place
    <3>1. ledger'[Order[n]] = j /\ actions'[Order[n]][1]
      BY <1>2, <1>4, <2>3
    <3>2. p.at = n /\ p.step = "index" /\ p \in Place
      BY <1>3, <2>1 DEF Place
    <3> QED BY <2>4, <3>1, <3>2 DEF Finalizing
  <2>6. ReportIsItsOwn'
    BY <1>2, <2>3, ReportsStay
  <2> QED BY <1>2, <2>2, <2>3, <2>5, <2>6, CommandMoves DEF LineageInv, LineageOK
<1>5. CASE ~(actions[Order[n]][1] /\ ledger[Order[n]] = Unrecorded)
  <2>1. process' = [process EXCEPT ![j] = [at |-> 0, step |-> "dead"]] /\ ledger' = ledger
    BY <1>1, <1>5 DEF RecordOutcome, Case, Dies, Goes
  <2> QED BY <1>2, <1>3, <2>1, DeadIsFinalizing, CommandSteps
<1> QED BY <1>4, <1>5

LEMMA IndexStep ==
  ASSUME LineageInv, NEW j \in Jobs, Index(j)
  PROVE  LineageInv'
<1>1. PICK n : n = process[j].at
  OBVIOUS
<1>2. /\ process[j].step = "index" /\ vectored' = vectored \cup {Order[n]}
      /\ UNCHANGED <<job, actions, ledger, published>>
  BY <1>1 DEF Index, Case
<1>3. /\ n \in 1..2 /\ Consumed(j, n - 1) /\ ActedOnce
      /\ ledger[Order[n]] = j /\ actions[Order[n]][1]
  BY <1>1, <1>2 DEF LineageInv, Finalizing, Absent
<1>4. \A i \in 1..n : /\ ledger'[Order[i]] = j /\ actions'[Order[i]][1]
                      /\ Order[i] \in vectored'
  <2> TAKE i \in 1..n
  <2>1. CASE i = n
    BY <1>2, <1>3, <2>1
  <2>2. CASE i # n
    <3>1. i \in 1..n - 1
      BY <1>3, <2>2
    <3> QED BY <1>2, <1>3, <3>1 DEF Consumed
  <2> QED BY <2>1, <2>2
<1>5. PICK p : p = IF n = 2 THEN [at |-> 0, step |-> "judge"] ELSE [at |-> n + 1, step |-> "approve"]
  OBVIOUS
<1>6. process' = [process EXCEPT ![j] = p]
  BY <1>1, <1>5, OrderFacts DEF Index, Goes
<1>7. Finalizing(j, p)' /\ p \in Place
  <2>1. ActedOnce'
    BY <1>2, <1>3 DEF ActedOnce
  <2>2. CASE n = 2
    BY <1>4, <1>5, <2>1, <2>2 DEF Finalizing, Consumed, Place
  <2>3. CASE n = 1
    <3>1. p.at = 2 /\ p.step = "approve" /\ p \in Place
      BY <1>5, <2>3 DEF Place
    <3>2. Consumed(j, 1)'
      BY <1>4, <2>3 DEF Consumed
    <3>3. Consumed(j, p.at - 1)'
      BY <3>1, <3>2 DEF Consumed
    <3> QED BY <2>1, <3>1, <3>3 DEF Finalizing
  <2> QED BY <1>3, <2>2, <2>3
<1>8. ReportIsItsOwn'
  BY <1>2, ReportsStay
<1> QED BY <1>2, <1>6, <1>7, <1>8, CommandMoves DEF LineageInv, LineageOK

LEMMA JudgeStep ==
  ASSUME LineageInv, NEW j \in Jobs, Judge(j)
  PROVE  LineageInv'
<1>1. /\ process[j].step = "judge"
      /\ UNCHANGED <<job, actions, ledger, vectored>>
      /\ published' \in {published, published \cup {j}}
  BY DEF Judge
<1>2. Consumed(j, 2) /\ ActedOnce /\ process[j] # Absent
  BY <1>1 DEF LineageInv, Finalizing, Absent
<1>3. ReportIsItsOwn' /\ published' \subseteq Jobs
  BY <1>1, <1>2, OrderFacts DEF LineageInv, LineageOK, ReportIsItsOwn, Consumed, ActedOnce
<1>4. PICK p \in {[at |-> 0, step |-> "dead"], [at |-> 0, step |-> "done"]} :
        process' = [process EXCEPT ![j] = p]
  BY DEF Judge, Dies, Goes
<1>5. p \in Place /\ Finalizing(j, p)
  BY <1>2, DeadIsFinalizing
<1>6. Finalizing(j, p)'
  BY <1>1, <1>5, ConsumedStays
<1> QED BY <1>1, <1>3, <1>4, <1>5, <1>6, CommandMoves DEF LineageInv, LineageOK

\* The two actions run in a step that comes once and before any finalize.
LEMMA RunStep ==
  ASSUME LineageInv, RunActions
  PROVE  LineageInv'
<1>1. PICK good \in SUBSET sound : actions' = [c \in Cases |-> Append(actions[c], c \in good)]
  BY DEF RunActions
<1>2. /\ job[Candidate] = "act" /\ UNCHANGED <<process, ledger, vectored, published>>
      /\ \E s \in {"finalize", "revoke"} : job' = [job EXCEPT ![Candidate] = s]
  BY DEF RunActions
<1>3. /\ \A c \in Cases : actions[c] = <<>>
      /\ ~ActedOnce
  BY <1>2, OrderFacts DEF LineageInv, ActsOnce, Early, ActedOnce, Cases
<1>4. \A c \in Cases : actions'[c] \in Seq(BOOLEAN) /\ Len(actions'[c]) = 1
  <2>1. ASSUME NEW s \in Seq(BOOLEAN), s = <<>>, NEW b \in BOOLEAN
        PROVE  Append(s, b) \in Seq(BOOLEAN) /\ Len(Append(s, b)) = 1
    <3>1. Len(s) = 0
      BY <2>1
    <3> QED BY <3>1
  <2> TAKE c \in Cases
  <2>2. actions'[c] = Append(actions[c], c \in good)
    BY <1>1
  <2>3. actions[c] \in Seq(BOOLEAN) /\ actions[c] = <<>>
    BY <1>3 DEF LineageInv, LineageOK
  <2> QED BY <2>1, <2>2, <2>3
<1>5. LineageOK' /\ ActsOnce'
  <2>1. job'[Candidate] \in {"finalize", "revoke"} /\ job' \in [Jobs -> JobSteps]
    BY <1>2, JobsAreNumbers DEF LineageInv, LineageOK, JobSteps
  <2>2. actions' \in [Cases -> Seq(BOOLEAN)]
    BY <1>1, <1>4
  <2> QED BY <1>2, <1>4, <2>1, <2>2 DEF LineageInv, LineageOK, ActsOnce, ActedOnce, Early
<1>6. (\A j \in Jobs : Finalizing(j, process[j]))'
  <2> SUFFICES ASSUME NEW j \in Jobs PROVE Finalizing(j, process[j])'
    OBVIOUS
  <2>1. process[j] = Absent /\ process'[j] = Absent
    BY <1>2, <1>3 DEF LineageInv, Finalizing
  <2> QED BY <2>1 DEF Finalizing, Absent
<1>7. ReportIsItsOwn'
  <2>1. published = {}
    <3>1. \A j \in published : \A c \in Cases : Len(actions[c]) = 1
      BY DEF LineageInv, ReportIsItsOwn
    <3> QED BY <1>3, <3>1 DEF ActedOnce
  <2> QED BY <1>2, <2>1 DEF ReportIsItsOwn
<1> QED BY <1>5, <1>6, <1>7 DEF LineageInv

LEMMA JobStep ==
  ASSUME LineageInv,
         \/ Calibrate \/ SendPrepare \/ TakeProposals
         \/ \E j \in Jobs : StartReconcile(j) \/ LeaveStep(j) \/ Revoke(j) \/ Conclude(j)
  PROVE  LineageInv'
<1>1. UNCHANGED <<actions, process, ledger, vectored, published>>
  BY DEF Calibrate, SendPrepare, TakeProposals, StartReconcile, LeaveStep, Revoke, Conclude
<1>2. /\ job' \in [Jobs -> JobSteps]
      /\ job'[Candidate] \in Early => job[Candidate] \in Early
      /\ \A j \in Jobs : job'[j] \in {"finalize", "wait"} => job[j] \in {"finalize", "wait"} \/ ActedOnce
  <2>1. CASE Calibrate \/ SendPrepare \/ TakeProposals
    BY <2>1, JobsAreNumbers
    DEF Calibrate, SendPrepare, TakeProposals, Advance, LineageInv, LineageOK, JobSteps, Early
  <2>2. ASSUME NEW j \in Jobs, StartReconcile(j)
        PROVE  /\ job' \in [Jobs -> JobSteps]
               /\ job'[Candidate] \in Early => job[Candidate] \in Early
               /\ ActedOnce
    BY <2>2, JobsAreNumbers
    DEF StartReconcile, Advance, Resumable, ActedOnce, LineageInv, LineageOK, JobSteps, Early
  <2>3. ASSUME NEW j \in Jobs, LeaveStep(j) \/ Revoke(j) \/ Conclude(j)
        PROVE  /\ job' \in [Jobs -> JobSteps]
               /\ job'[Candidate] \in Early => job[Candidate] \in Early
               /\ \A k \in Jobs : job'[k] \in {"finalize", "wait"} => job[k] \in {"finalize", "wait"}
    BY <2>3, JobsAreNumbers
    DEF LeaveStep, Revoke, Conclude, Advance, LineageInv, LineageOK, JobSteps, Early
  <2> QED BY <2>1, <2>2, <2>3
<1> QED BY <1>1, <1>2, CommandsStand

LEMMA PrepareCommandStep ==
  ASSUME LineageInv,
         \/ ReadBothSecrets \/ ImportSource \/ IndexSource \/ CreateForbiddenMemory
         \/ UploadProposals \/ PrepareFails \/ (\E c \in Cases : WriteProposal(c))
         \/ (\E j \in Jobs : PolicyLapses(j)) \/ UNCHANGED lineageVars
  PROVE  LineageInv'
<1>1. UNCHANGED <<job, actions, process, ledger, published>> /\ vectored \subseteq vectored'
  BY DEF ReadBothSecrets, ImportSource, IndexSource, CreateForbiddenMemory, UploadProposals, PrepareFails,
         WriteProposal, PolicyLapses, lineageVars
<1> QED BY <1>1, CommandsStand DEF LineageInv, LineageOK

LEMMA LineageStep ==
  ASSUME LineageInv, [LineageNext]_lineageVars
  PROVE  LineageInv'
BY JobStep, PrepareCommandStep, RunStep, FirstStep, SecretStep, ApproveStep, RecordStep, IndexStep, JudgeStep
DEF LineageNext

\* A published report is the work of one finalize, which consumed the handles of
\* both outcomes itself, each for the only action that was ever run for its case
\* (finalize of the online lineage, record_outcome_and_promote): for any number
\* of reconcile jobs, with their commands side by side on the host.
THEOREM ReportsAreTheirOwn == LineageSpec => []ReportIsItsOwn
<1>1. LineageInv /\ [LineageNext]_lineageVars => LineageInv'
  BY LineageStep
<1>2. LineageInv => ReportIsItsOwn
  BY DEF LineageInv
<1>3. LineageInit => LineageInv
  BY InitLineage
<1> QED BY <1>1, <1>2, <1>3, PTL DEF LineageSpec
=============================================================================
