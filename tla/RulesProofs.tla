----------------------------- MODULE RulesProofs ------------------------------
(***************************************************************************)
(* Proofs about the contract's rules, for every value of the constants:    *)
(* Governance first, then the credit score, the subscriptions and the      *)
(* withdrawal circuit breaker.                                             *)
(***************************************************************************)
EXTENDS MCRules, SumsProofs, SequenceTheorems

-----------------------------------------------------------------------------
(* Governance.  The inductive invariant adds to the types what makes the   *)
(* two kinds of proposal safe to act on later: a pending fee change still  *)
(* waits as long as a raise over today's fee must, and the approvals of a  *)
(* proposal of the current epoch are all from today's roster.              *)

FeeChangeWaits ==
  pendingFee.pending =>
    /\ pendingFee.bps \in FeeRates
    /\ pendingFee.immediate => pendingFee.bps <= fee
    /\ ~ pendingFee.immediate => pendingFee.effective >= pendingFee.at + MinFeeDelay

ConfigCounted == MultisigEnabled => config.epoch \in 0 .. MaxEpoch

ApprovalsCount(proposal) ==
  /\ Different(proposal.approvals)
  /\ proposal.epoch <= config.epoch
  /\ proposal.epoch = config.epoch =>
       \A i \in DOMAIN proposal.approvals : IsSigner(proposal.approvals[i])
AllApprovalsCount == \A id \in DOMAIN proposals : ApprovalsCount(proposals[id])

Inv == TypeOK /\ FeeChangeWaits /\ ConfigCounted /\ AllApprovalsCount

-----------------------------------------------------------------------------
\* What each kind of action carries.
LEMMA ActionFields ==
  \A a \in Actions :
    /\ a.kind = "set_fee" => a.bps \in FeeRates
    /\ a.kind = "upgrade" => a.hash \in Hashes
    /\ a.kind = "set_admin" => a.to \in Addresses
  BY DEF Actions

\* A new fee change waits as long as it must.
LEMMA NewFeeChange ==
  ASSUME TypeOK, NEW bps \in FeeRates, CanProposeFee(bps)
  PROVE  /\ FeeChange(bps) \in FeeChanges
         /\ FeeChange(bps).pending /\ FeeChange(bps).bps = bps /\ FeeChange(bps).at = now
         /\ bps <= MaxFeeBps
         /\ FeeChange(bps).immediate => bps <= fee
         /\ ~ FeeChange(bps).immediate => FeeChange(bps).effective >= now + MinFeeDelay
<1>1. now \in Nat /\ feeDelay \in Nat /\ fee \in Nat /\ bps \in Nat /\ MinFeeDelay \in Nat
  BY GovernanceAssumption DEF TypeOK
<1>2. feeDelay >= MinFeeDelay /\ bps <= MaxFeeBps
  BY DEF CanProposeFee
<1>3. CASE IsRaise(bps)
  <2>1. FeeChange(bps) = [bps |-> bps, effective |-> now + feeDelay, at |-> now,
                          immediate |-> FALSE, pending |-> TRUE]
    BY <1>3 DEF FeeChange
  <2>2. now + feeDelay \in Nat /\ now + feeDelay >= now + MinFeeDelay
    BY <1>1, <1>2
  <2> QED BY <1>1, <1>2, <2>1, <2>2 DEF FeeChanges
<1>4. CASE ~ IsRaise(bps)
  <2>1. FeeChange(bps) = [bps |-> bps, effective |-> now, at |-> now,
                          immediate |-> TRUE, pending |-> TRUE]
    BY <1>4 DEF FeeChange
  <2>2. bps <= fee
    BY <1>1, <1>4 DEF IsRaise
  <2> QED BY <1>1, <1>2, <2>1, <2>2 DEF FeeChanges
<1> QED BY <1>3, <1>4

\* What the effect of an executed action preserves.
LEMMA EffectPreserves ==
  ASSUME TypeOK, FeeChangeWaits, NEW action \in Actions,
         Effect(action) \/ UNCHANGED governed, UNCHANGED feeVars
  PROVE  /\ admin' \in Addresses /\ pendingFee' \in FeeChanges
         /\ pauseFlags' \subseteq PauseBits
         /\ wasm' \in Hashes \cup {NoHash} /\ version' \in 0 .. MaxVersion
         /\ FeeChangeWaits'
<1> USE DEF codeVars, feeVars
<1>0. UNCHANGED fee
  OBVIOUS
<1>1. CASE action.kind = "pause" /\ pauseFlags' = PauseBits /\ UNCHANGED <<admin, pendingFee, codeVars>>
  BY <1>0, <1>1 DEF TypeOK, FeeChangeWaits
<1>2. CASE action.kind = "unpause" /\ pauseFlags' = {} /\ UNCHANGED <<admin, pendingFee, codeVars>>
  BY <1>0, <1>2 DEF TypeOK, FeeChangeWaits
<1>3. CASE /\ action.kind = "upgrade" /\ InstallCode(action.hash)
           /\ UNCHANGED <<admin, pendingFee, pauseFlags>>
  <2>1. action.hash \in Hashes
    BY <1>3, ActionFields
  <2>2. version' \in 0 .. MaxVersion /\ wasm' = action.hash
    BY <1>3, GovernanceAssumption DEF InstallCode, TypeOK
  <2> QED BY <1>0, <1>3, <2>1, <2>2 DEF TypeOK, FeeChangeWaits
<1>4. CASE /\ action.kind = "set_fee" /\ CanProposeFee(action.bps)
           /\ pendingFee' = FeeChange(action.bps)
           /\ UNCHANGED <<admin, pauseFlags, codeVars>>
  <2>1. action.bps \in FeeRates
    BY <1>4, ActionFields
  <2>2. pendingFee' \in FeeChanges /\ FeeChangeWaits'
    BY <1>0, <1>4, <2>1, NewFeeChange DEF FeeChangeWaits
  <2> QED BY <1>4, <2>2 DEF TypeOK
<1>5. CASE action.kind = "set_admin" /\ admin' = action.to /\ UNCHANGED <<pendingFee, pauseFlags, codeVars>>
  BY <1>0, <1>5, ActionFields DEF TypeOK, FeeChangeWaits
<1>6. CASE UNCHANGED governed
  BY <1>0, <1>6 DEF governed, TypeOK, FeeChangeWaits
<1> QED BY <1>1, <1>2, <1>3, <1>4, <1>5, <1>6 DEF Effect

\* A step that leaves the multisig alone keeps what is said of it.
LEMMA MultisigUntouched ==
  ASSUME TypeOK, ConfigCounted, AllApprovalsCount, UNCHANGED multisigVars
  PROVE  /\ config' \in Configs /\ proposals' \in Seq(Proposals)
         /\ ConfigCounted' /\ AllApprovalsCount'
  BY DEF TypeOK, ConfigCounted, AllApprovalsCount, ApprovalsCount, multisigVars,
         MultisigEnabled, IsSigner

-----------------------------------------------------------------------------
LEMMA InitInv == Init => Inv
  BY GovernanceAssumption
  DEF Init, Inv, TypeOK, FeeChangeWaits, ConfigCounted, AllApprovalsCount, NoFeeChange,
      NoAdminChange, NoConfig, FeeChanges, AdminChanges, Configs, MultisigEnabled

LEMMA TickInv == ASSUME Inv, Tick PROVE Inv'
<1>1. UNCHANGED multisigVars
  BY DEF Tick
<1>2. now' \in 0 .. MaxTime
  BY GovernanceAssumption DEF Inv, TypeOK, Tick
<1> QED BY <1>1, <1>2, MultisigUntouched DEF Inv, TypeOK, FeeChangeWaits, Tick, governed, codeVars, feeVars

LEMMA FeeStepInv == ASSUME Inv, NEW caller \in Addresses, FeeStep(caller) PROVE Inv'
<1> USE DEF codeVars, feeVars, governed
<1>1. ASSUME NEW bps \in FeeRates, ProposeFeeChange(caller, bps) PROVE Inv'
  <2>1. UNCHANGED multisigVars
    BY <1>1 DEF ProposeFeeChange
  <2>2. pendingFee' \in FeeChanges /\ FeeChangeWaits'
    BY <1>1, NewFeeChange DEF Inv, ProposeFeeChange, FeeChangeWaits
  <2> QED BY <1>1, <2>1, <2>2, MultisigUntouched DEF Inv, TypeOK, ProposeFeeChange
<1>2. ASSUME NEW bps \in FeeRates, SetFee(caller, bps) PROVE Inv'
  <2>1. UNCHANGED multisigVars
    BY <1>2 DEF SetFee
  <2>2. fee' \in FeeRates /\ fee' <= MaxFeeBps
    BY <1>2, NewFeeChange DEF Inv, SetFee
  <2>3. ~ pendingFee'.pending
    BY <1>2 DEF SetFee, CanProposeFee
  <2> QED BY <1>2, <2>1, <2>2, <2>3, MultisigUntouched DEF Inv, TypeOK, FeeChangeWaits, SetFee
<1>3. ASSUME ApplyFeeChange(caller) PROVE Inv'
  <2>1. UNCHANGED multisigVars
    BY <1>3 DEF ApplyFeeChange
  <2>2. fee' \in FeeRates /\ fee' <= MaxFeeBps
    BY <1>3 DEF Inv, FeeChangeWaits, ApplyFeeChange
  <2>3. pendingFee' \in FeeChanges /\ ~ pendingFee'.pending
    BY <1>3 DEF ApplyFeeChange, NoFeeChange, FeeChanges
  <2> QED BY <1>3, <2>1, <2>2, <2>3, MultisigUntouched DEF Inv, TypeOK, FeeChangeWaits, ApplyFeeChange
<1>4. ASSUME CancelFeeChange(caller) PROVE Inv'
  <2>1. UNCHANGED multisigVars
    BY <1>4 DEF CancelFeeChange
  <2>2. pendingFee' \in FeeChanges /\ ~ pendingFee'.pending
    BY <1>4 DEF CancelFeeChange, NoFeeChange, FeeChanges
  <2> QED BY <1>4, <2>1, <2>2, MultisigUntouched DEF Inv, TypeOK, FeeChangeWaits, CancelFeeChange
<1>5. ASSUME NEW delay \in FeeDelays, SetFeeChangeDelay(caller, delay) PROVE Inv'
  <2>1. UNCHANGED multisigVars
    BY <1>5 DEF SetFeeChangeDelay
  <2> QED BY <1>5, <2>1, MultisigUntouched DEF Inv, TypeOK, FeeChangeWaits, SetFeeChangeDelay
<1> QED BY <1>1, <1>2, <1>3, <1>4, <1>5 DEF FeeStep

LEMMA AdminStepInv == ASSUME Inv, NEW caller \in Addresses, AdminStep(caller) PROVE Inv'
<1> USE DEF codeVars, feeVars, governed
<1>1. ASSUME NEW successor \in Addresses, ProposeAdminChange(caller, successor) PROVE Inv'
  <2>1. UNCHANGED multisigVars
    BY <1>1 DEF ProposeAdminChange
  <2>2. pendingAdmin' \in AdminChanges
    BY <1>1, GovernanceAssumption DEF Inv, TypeOK, ProposeAdminChange, AdminChanges
  <2> QED BY <1>1, <2>1, <2>2, MultisigUntouched DEF Inv, TypeOK, FeeChangeWaits, ProposeAdminChange
<1>2. ASSUME ConfirmAdminChange(caller) PROVE Inv'
  <2>1. UNCHANGED multisigVars
    BY <1>2 DEF ConfirmAdminChange
  <2>2. pendingAdmin' \in AdminChanges
    BY <1>2, GovernanceAssumption DEF ConfirmAdminChange, AdminChanges, NoAdminChange
  <2> QED BY <1>2, <2>1, <2>2, MultisigUntouched DEF Inv, TypeOK, FeeChangeWaits, ConfirmAdminChange
<1>3. ASSUME CancelAdminChange(caller) PROVE Inv'
  <2>1. UNCHANGED multisigVars
    BY <1>3 DEF CancelAdminChange
  <2>2. pendingAdmin' \in AdminChanges
    BY <1>3, GovernanceAssumption DEF CancelAdminChange, AdminChanges, NoAdminChange
  <2> QED BY <1>3, <2>1, <2>2, MultisigUntouched DEF Inv, TypeOK, FeeChangeWaits, CancelAdminChange
<1> QED BY <1>1, <1>2, <1>3 DEF AdminStep

LEMMA PauseStepInv == ASSUME Inv, NEW caller \in Addresses, PauseStep(caller) PROVE Inv'
<1> USE DEF codeVars, feeVars
<1>1. PICK mask \in PauseMasks : Pause(caller, mask) \/ Unpause(caller, mask)
  BY DEF PauseStep
<1>2. mask \subseteq PauseBits
  BY DEF PauseMasks
<1>3. /\ UNCHANGED <<now, admin, pendingFee, codeVars, feeVars, pendingAdmin, proposedHash,
                     multisigVars>>
      /\ pauseFlags' = pauseFlags \cup mask \/ pauseFlags' = pauseFlags \ mask
  BY <1>1 DEF Pause, Unpause, SetPauseFlags
<1>4. pauseFlags' \subseteq PauseBits
  BY <1>2, <1>3 DEF Inv, TypeOK
<1>5. UNCHANGED multisigVars
  BY <1>3
<1> QED BY <1>3, <1>4, <1>5, MultisigUntouched DEF Inv, TypeOK, FeeChangeWaits

LEMMA UpgradeStepInv == ASSUME Inv, NEW caller \in Addresses, UpgradeStep(caller) PROVE Inv'
<1> USE DEF codeVars, feeVars, governed
<1>1. ASSUME NEW hash \in Hashes, ProposeUpgrade(caller, hash) PROVE Inv'
  <2>1. UNCHANGED multisigVars
    BY <1>1 DEF ProposeUpgrade
  <2> QED BY <1>1, <2>1, MultisigUntouched DEF Inv, TypeOK, FeeChangeWaits, ProposeUpgrade
<1>2. ASSUME NEW hash \in Hashes, Upgrade(caller, hash) PROVE Inv'
  <2>1. UNCHANGED multisigVars
    BY <1>2 DEF Upgrade
  <2>2. version' \in 0 .. MaxVersion /\ wasm' \in Hashes \cup {NoHash}
    BY <1>2, GovernanceAssumption DEF Inv, TypeOK, Upgrade, InstallCode
  <2> QED BY <1>2, <2>1, <2>2, MultisigUntouched DEF Inv, TypeOK, FeeChangeWaits, Upgrade
<1>3. ASSUME CancelUpgrade(caller) PROVE Inv'
  <2>1. UNCHANGED multisigVars
    BY <1>3 DEF CancelUpgrade
  <2> QED BY <1>3, <2>1, MultisigUntouched DEF Inv, TypeOK, FeeChangeWaits, CancelUpgrade
<1> QED BY <1>1, <1>2, <1>3 DEF UpgradeStep

-----------------------------------------------------------------------------
(* The multisig's own steps.                                               *)

\* A new configuration: no proposal is of its epoch.
LEMMA SetMultisigConfigInv ==
  ASSUME Inv, NEW caller \in Addresses, NEW signers \in Rosters,
         NEW required \in 1 .. Len(signers), SetMultisigConfig(caller, required, signers)
  PROVE  Inv'
<1> USE DEF codeVars, feeVars, governed
<1>1. signers \in Seq(Addresses) /\ required \in Nat /\ MaxEpoch \in Nat
  BY GovernanceAssumption
<1>2. config.epoch \in -1 .. MaxEpoch /\ config.epoch < MaxEpoch
  BY DEF Inv, TypeOK, Configs, SetMultisigConfig
<1>3. config' = [required |-> required, signers |-> signers, epoch |-> config.epoch + 1]
  BY DEF SetMultisigConfig, NextEpoch
<1>4. config'.epoch \in 0 .. MaxEpoch
  BY <1>1, <1>2, <1>3
<1>5. config' \in Configs /\ ConfigCounted'
  BY <1>1, <1>3, <1>4 DEF Configs, ConfigCounted
<1>6. ASSUME NEW id \in DOMAIN proposals' PROVE ApprovalsCount(proposals[id])'
  <2>1. proposals' = proposals
    BY DEF SetMultisigConfig
  <2>2. ApprovalsCount(proposals[id]) /\ proposals[id].epoch \in Int
    <3>1. id \in DOMAIN proposals
      BY <1>6, <2>1
    <3>2. proposals[id] \in Proposals
      BY <3>1 DEF Inv, TypeOK
    <3>3. proposals[id].epoch \in 0 .. MaxEpoch
      BY <3>2 DEF Proposals
    <3> QED BY <1>1, <3>1, <3>3 DEF Inv, AllApprovalsCount
  <2>3. proposals[id].epoch < config'.epoch
    BY <1>2, <1>3, <2>2 DEF ApprovalsCount
  <2>4. config'.epoch \in Int
    BY <1>4
  <2> QED BY <2>1, <2>2, <2>3, <2>4 DEF ApprovalsCount
<1> QED BY <1>5, <1>6 DEF Inv, TypeOK, FeeChangeWaits, AllApprovalsCount, SetMultisigConfig

\* Recording whether a proposal is executed changes nothing that counts.
LEMMA RecordKeeps ==
  ASSUME NEW proposal \in Proposals, NEW enough \in BOOLEAN
  PROVE  /\ Record(proposal, enough) \in Proposals
         /\ Record(proposal, enough).approvals = proposal.approvals
         /\ Record(proposal, enough).epoch = proposal.epoch
         /\ Record(proposal, enough).executed = enough
  BY DEF Record, Proposals

\* What a proposal that is carried or not leaves of the rest of the state.
LEMMA CarryPreserves ==
  ASSUME Inv, NEW proposal \in Proposals, Carry(proposal), UNCHANGED feeVars
  PROVE  /\ admin' \in Addresses /\ pendingFee' \in FeeChanges
         /\ pauseFlags' \subseteq PauseBits
         /\ wasm' \in Hashes \cup {NoHash} /\ version' \in 0 .. MaxVersion
         /\ FeeChangeWaits'
<1>1. proposal.action \in Actions
  BY DEF Proposals
<1>2. Effect(proposal.action) \/ UNCHANGED governed
  BY DEF Carry
<1> QED BY <1>1, <1>2, EffectPreserves DEF Inv

LEMMA ProposeActionInv ==
  ASSUME Inv, NEW signer \in Addresses, NEW action \in Actions, ProposeAction(signer, action)
  PROVE  Inv'
<1> DEFINE proposal == [action |-> action, approvals |-> <<signer>>, proposer |-> signer,
                        expires |-> now + ProposalExpiry, executed |-> FALSE,
                        cancelled |-> FALSE, epoch |-> config.epoch]
           recorded == Record(proposal, Enough(proposal))
<1>1. /\ MultisigEnabled /\ IsSigner(signer)
      /\ proposals' = Append(proposals, recorded)
      /\ Carry(proposal)
      /\ UNCHANGED <<now, feeVars, pendingAdmin, proposedHash, config>>
  BY DEF ProposeAction
<1>2. now + ProposalExpiry \in Nat
  BY GovernanceAssumption DEF Inv, TypeOK
<1>3. config.epoch \in 0 .. MaxEpoch
  BY <1>1 DEF Inv, ConfigCounted
<1>4. proposal \in Proposals
  BY <1>2, <1>3 DEF Proposals
<1>5. Enough(proposal) \in BOOLEAN
  BY DEF Enough
<1> HIDE DEF recorded
<1>6. /\ recorded \in Proposals /\ recorded.approvals = <<signer>>
      /\ recorded.epoch = config.epoch
  <2>1. proposal.approvals = <<signer>> /\ proposal.epoch = config.epoch
    OBVIOUS
  <2> HIDE DEF proposal
  <2> QED BY <1>4, <1>5, <2>1, RecordKeeps DEF recorded
<1>7. proposals \in Seq(Proposals) /\ proposals' \in Seq(Proposals)
  BY <1>1, <1>6 DEF Inv, TypeOK
<1>8. ASSUME NEW id \in DOMAIN proposals' PROVE ApprovalsCount(proposals[id])'
  <2>1. CASE id \in DOMAIN proposals
    <3>1. proposals'[id] = proposals[id] /\ config' = config
      BY <1>1, <1>6, <1>7, <2>1
    <3>2. ApprovalsCount(proposals[id])
      BY <2>1 DEF Inv, AllApprovalsCount
    <3> QED BY <3>1, <3>2 DEF ApprovalsCount, IsSigner
  <2>2. CASE id \notin DOMAIN proposals
    <3>1. proposals'[id] = recorded /\ config' = config
      BY <1>1, <1>6, <1>7, <1>8, <2>2
    <3>2. /\ Different(<<signer>>)
          /\ \A i \in DOMAIN <<signer>> : <<signer>>[i] = signer
      BY DEF Different
    <3>3. \A i \in DOMAIN <<signer>> : IsSigner(<<signer>>[i])'
      BY <1>1, <3>1, <3>2 DEF IsSigner
    <3>4. config.epoch <= config.epoch
      BY <1>3
    <3> QED BY <1>6, <3>1, <3>2, <3>3, <3>4 DEF ApprovalsCount
  <2> QED BY <2>1, <2>2
<1>9. /\ admin' \in Addresses /\ pendingFee' \in FeeChanges
      /\ pauseFlags' \subseteq PauseBits
      /\ wasm' \in Hashes \cup {NoHash} /\ version' \in 0 .. MaxVersion
      /\ FeeChangeWaits'
  <2> HIDE DEF proposal
  <2> QED BY <1>1, <1>4, CarryPreserves
<1>10. ConfigCounted'
  BY <1>1 DEF Inv, ConfigCounted, MultisigEnabled
<1> QED BY <1>1, <1>7, <1>8, <1>9, <1>10 DEF Inv, TypeOK, feeVars, AllApprovalsCount

LEMMA ApproveActionInv ==
  ASSUME Inv, NEW signer \in Addresses, NEW id \in DOMAIN proposals, ApproveAction(signer, id)
  PROVE  Inv' /\ ApprovalsCount(proposals[id])' /\ proposals'[id].epoch = config.epoch
<1> DEFINE before == proposals[id]
           approved == [before EXCEPT !.approvals = Append(@, signer)]
           recorded == Record(approved, Enough(approved))
<1>1. /\ MultisigEnabled /\ IsSigner(signer)
      /\ Approvable(before)
      /\ signer \notin ToSet(before.approvals)
      /\ proposals' = [proposals EXCEPT ![id] = recorded]
      /\ Carry(approved)
      /\ UNCHANGED <<now, feeVars, pendingAdmin, proposedHash, config>>
  BY DEF ApproveAction
<1>2. before \in Proposals /\ proposals \in Seq(Proposals) /\ ApprovalsCount(before)
  BY DEF Inv, TypeOK, AllApprovalsCount
<1>3. /\ approved \in Proposals /\ approved.epoch = config.epoch
      /\ approved.approvals = Append(before.approvals, signer)
  <2> HIDE DEF before
  <2>1. before.approvals \in Seq(Addresses) /\ before.epoch = config.epoch
    BY <1>1, <1>2 DEF Proposals, Approvable
  <2>2. Append(before.approvals, signer) \in Seq(Addresses)
    BY <2>1
  <2>3. approved \in Proposals
    BY <1>2, <2>2 DEF Proposals
  <2> QED BY <1>2, <2>1, <2>3 DEF Proposals
<1>4. before.epoch = config.epoch /\ before.approvals \in Seq(Addresses)
  BY <1>1, <1>2 DEF Approvable, Proposals
<1> HIDE DEF before, approved
<1>5. /\ recorded \in Proposals /\ recorded.epoch = config.epoch
      /\ recorded.approvals = Append(before.approvals, signer)
  <2>1. Enough(approved) \in BOOLEAN
    BY DEF Enough
  <2> QED BY <1>3, <2>1, RecordKeeps
<1> HIDE DEF recorded
<1>6. proposals' \in Seq(Proposals) /\ DOMAIN proposals' = DOMAIN proposals
      /\ proposals'[id] = recorded /\ config' = config
  BY <1>1, <1>2, <1>5
<1>7. /\ Different(recorded.approvals) /\ recorded.epoch <= config.epoch
      /\ \A i \in DOMAIN recorded.approvals : IsSigner(recorded.approvals[i])
  <2> DEFINE old == before.approvals
             new == Append(old, signer)
  <2>1. /\ Len(new) = Len(old) + 1 /\ DOMAIN new = 1 .. Len(old) + 1
        /\ new[Len(old) + 1] = signer /\ \A i \in 1 .. Len(old) : new[i] = old[i]
        /\ DOMAIN old = 1 .. Len(old) /\ Len(old) \in Nat
    BY <1>4
  <2>2. \A i \in DOMAIN old : old[i] # signer /\ IsSigner(old[i])
    BY <1>1, <1>2, <1>4 DEF ToSet, ApprovalsCount
  <2>3. \A i, j \in DOMAIN old : old[i] = old[j] => i = j
    BY <1>2 DEF ApprovalsCount, Different
  <2> HIDE DEF old, new
  <2>4. Different(new)
    BY <2>1, <2>2, <2>3 DEF Different
  <2>5. \A i \in DOMAIN new : IsSigner(new[i])
    BY <1>1, <2>1, <2>2
  <2>6. recorded.approvals = new /\ recorded.epoch = config.epoch /\ config.epoch <= config.epoch
    <3>1. config.epoch \in 0 .. MaxEpoch
      BY <1>1 DEF Inv, ConfigCounted
    <3> QED BY <1>5, <3>1 DEF new, old
  <2> QED BY <2>4, <2>5, <2>6
<1>8. ASSUME NEW k \in DOMAIN proposals' PROVE ApprovalsCount(proposals[k])'
  <2>1. CASE k = id
    BY <1>6, <1>7, <2>1 DEF ApprovalsCount, IsSigner
  <2>2. CASE k # id
    <3>1. proposals'[k] = proposals[k] /\ ApprovalsCount(proposals[k])
      BY <1>1, <1>6, <2>2 DEF Inv, AllApprovalsCount
    <3> QED BY <1>6, <3>1 DEF ApprovalsCount, IsSigner
  <2> QED BY <2>1, <2>2
<1>9. /\ admin' \in Addresses /\ pendingFee' \in FeeChanges
      /\ pauseFlags' \subseteq PauseBits
      /\ wasm' \in Hashes \cup {NoHash} /\ version' \in 0 .. MaxVersion
      /\ FeeChangeWaits'
  BY <1>1, <1>3, CarryPreserves
<1>10. ConfigCounted'
  BY <1>1 DEF Inv, ConfigCounted, MultisigEnabled
<1>11. Inv'
  BY <1>1, <1>6, <1>8, <1>9, <1>10 DEF Inv, TypeOK, feeVars, AllApprovalsCount
<1> QED BY <1>5, <1>6, <1>8, <1>11

LEMMA CancelProposalInv ==
  ASSUME Inv, NEW caller \in Addresses, NEW id \in DOMAIN proposals, CancelProposal(caller, id)
  PROVE  Inv'
<1> USE DEF codeVars, feeVars, governed
<1>1. proposals \in Seq(Proposals) /\ proposals[id] \in Proposals
  BY DEF Inv, TypeOK
<1> DEFINE cancelled == [proposals[id] EXCEPT !.cancelled = TRUE]
<1>2. /\ proposals' = [proposals EXCEPT ![id] = cancelled]
      /\ UNCHANGED <<now, governed, feeVars, pendingAdmin, proposedHash, config>>
  BY DEF CancelProposal
<1>3. /\ cancelled \in Proposals /\ cancelled.approvals = proposals[id].approvals
      /\ cancelled.epoch = proposals[id].epoch
  BY <1>1 DEF Proposals
<1> HIDE DEF cancelled
<1>4. proposals' \in Seq(Proposals)
  BY <1>1, <1>2, <1>3
<1>5. ASSUME NEW k \in DOMAIN proposals' PROVE ApprovalsCount(proposals[k])'
  <2>1. /\ proposals'[k].approvals = proposals[k].approvals
        /\ proposals'[k].epoch = proposals[k].epoch
        /\ ApprovalsCount(proposals[k])
    BY <1>1, <1>2, <1>3 DEF Inv, AllApprovalsCount
  <2> QED BY <1>2, <2>1 DEF ApprovalsCount, IsSigner
<1> QED BY <1>2, <1>4, <1>5 DEF Inv, TypeOK, FeeChangeWaits, ConfigCounted, MultisigEnabled, AllApprovalsCount

-----------------------------------------------------------------------------
LEMMA NextInv == ASSUME Inv, [Next]_vars PROVE Inv'
<1>1. CASE Tick
  BY <1>1, TickInv
<1>2. ASSUME NEW caller \in Addresses,
             FeeStep(caller) \/ AdminStep(caller) \/ PauseStep(caller) \/ UpgradeStep(caller)
      PROVE  Inv'
  BY <1>2, FeeStepInv, AdminStepInv, PauseStepInv, UpgradeStepInv
<1>3. ASSUME NEW caller \in Addresses, MultisigStep(caller) PROVE Inv'
  BY <1>3, SetMultisigConfigInv, ProposeActionInv, ApproveActionInv, CancelProposalInv
  DEF MultisigStep
<1>4. CASE UNCHANGED vars
  <2>1. UNCHANGED multisigVars
    BY <1>4 DEF vars
  <2> QED BY <1>4, <2>1, MultisigUntouched
      DEF Inv, TypeOK, FeeChangeWaits, vars, governed, codeVars, feeVars
<1> QED BY <1>1, <1>2, <1>3, <1>4 DEF Next

LEMMA InvHolds == Spec => []Inv
  BY InitInv, NextInv, PTL DEF Spec

\* Every setting keeps its type and its limits: no sequence of proposals on the two
\* routes brings the fee above MAX_FEE or its delay below the minimum.
THEOREM TypeCorrect == Spec => []TypeOK
  BY InvHolds, PTL DEF Inv

-----------------------------------------------------------------------------
(* Action properties.                                                      *)

\* Only two operations move the fee ...
LEMMA FeeMovers ==
  ASSUME [Next]_vars
  PROVE  \/ UNCHANGED fee
         \/ \E caller \in Addresses :
              ApplyFeeChange(caller) \/ \E bps \in FeeRates : SetFee(caller, bps)
<1>1. ASSUME NEW caller \in Addresses, FeeStep(caller)
      PROVE  \/ UNCHANGED fee
             \/ ApplyFeeChange(caller) \/ \E bps \in FeeRates : SetFee(caller, bps)
  BY <1>1 DEF FeeStep, ProposeFeeChange, CancelFeeChange, SetFeeChangeDelay, feeVars
<1>2. ASSUME NEW caller \in Addresses, AdminStep(caller) \/ PauseStep(caller) \/ UpgradeStep(caller)
      PROVE  UNCHANGED fee
  BY <1>2 DEF AdminStep, ProposeAdminChange, ConfirmAdminChange, CancelAdminChange, PauseStep,
              Pause, Unpause, UpgradeStep, ProposeUpgrade, Upgrade, CancelUpgrade, feeVars
<1>3. ASSUME NEW caller \in Addresses, MultisigStep(caller) PROVE UNCHANGED fee
  BY <1>3 DEF MultisigStep, SetMultisigConfig, ProposeAction, ApproveAction, CancelProposal, feeVars
<1>4. CASE Tick
  BY <1>4 DEF Tick, feeVars
<1>5. CASE UNCHANGED vars
  BY <1>5 DEF vars, feeVars
<1> QED BY <1>1, <1>2, <1>3, <1>4, <1>5 DEF Next

\* ... and neither raises it without an announcement.
LEMMA RaiseAnnounced ==
  ASSUME Inv, [Next]_vars, fee' > fee
  PROVE  /\ pendingFee.pending /\ pendingFee.bps = fee'
         /\ now >= pendingFee.at + MinFeeDelay
<1>1. fee \in Nat /\ now \in Nat /\ MinFeeDelay \in Nat \ {0}
  BY GovernanceAssumption DEF Inv, TypeOK
<1>2. fee' # fee
  BY <1>1
<1>3. ASSUME NEW caller \in Addresses, NEW bps \in FeeRates, SetFee(caller, bps) PROVE FALSE
  <2>1. fee' = bps /\ FeeDue(FeeChange(bps)) /\ CanProposeFee(bps)
    BY <1>3 DEF SetFee
  <2>2. bps \in Nat /\ bps > fee
    BY <2>1, GovernanceAssumption
  <2>3. FeeChange(bps).effective = now + feeDelay /\ ~ FeeChange(bps).immediate
    BY <2>2 DEF FeeChange, IsRaise
  <2>4. now >= now + feeDelay
    BY <2>1, <2>3 DEF FeeDue
  <2>5. feeDelay \in Nat /\ feeDelay >= MinFeeDelay
    BY GovernanceAssumption DEF Inv, TypeOK
  <2> QED BY <1>1, <2>4, <2>5
<1>4. ASSUME NEW caller \in Addresses, ApplyFeeChange(caller)
      PROVE  /\ pendingFee.pending /\ pendingFee.bps = fee'
             /\ now >= pendingFee.at + MinFeeDelay
  <2>1. pendingFee.pending /\ pendingFee.bps = fee' /\ FeeDue(pendingFee)
    BY <1>4 DEF ApplyFeeChange
  <2>2. /\ pendingFee.immediate => pendingFee.bps <= fee
        /\ ~ pendingFee.immediate => pendingFee.effective >= pendingFee.at + MinFeeDelay
    BY <2>1 DEF Inv, FeeChangeWaits
  <2>3. pendingFee.bps \in Nat /\ pendingFee.effective \in Nat /\ pendingFee.at \in Nat
    BY <2>1, GovernanceAssumption DEF Inv, TypeOK, FeeChanges, FeeChangeWaits
  <2>4. ~ pendingFee.immediate
    BY <1>1, <2>1, <2>2, <2>3
  <2>5. now >= pendingFee.effective /\ pendingFee.effective >= pendingFee.at + MinFeeDelay
    BY <2>1, <2>2, <2>4 DEF FeeDue
  <2> QED BY <1>1, <2>1, <2>3, <2>5
<1> QED BY <1>2, <1>3, <1>4, FeeMovers

\* The fee rises only to a rate announced at least the minimum delay before, whatever
\* happens to delays, decreases and multisigs meanwhile.
THEOREM RaisesAreAnnounced == Spec => FeeRaiseWasAnnounced
<1>1. Inv /\ [Next]_vars =>
        [ fee' > fee => /\ pendingFee.pending /\ pendingFee.bps = fee'
                        /\ now >= pendingFee.at + MinFeeDelay ]_vars
  BY RaiseAnnounced
<1> QED BY <1>1, InvHolds, PTL DEF Spec, FeeRaiseWasAnnounced

\* Only proposing and approving make a proposal executed.
LEMMA Executors ==
  ASSUME Inv, [Next]_vars, NEW id \in DOMAIN proposals', Executes(id)
  PROVE  \E caller \in Addresses :
           \/ \E action \in Actions : ProposeAction(caller, action)
           \/ \E k \in DOMAIN proposals : ApproveAction(caller, k)
<1>1. proposals' # proposals
  BY DEF Executes
<1>2. ASSUME NEW caller \in Addresses,
             FeeStep(caller) \/ AdminStep(caller) \/ PauseStep(caller) \/ UpgradeStep(caller)
      PROVE  FALSE
  BY <1>1, <1>2
  DEF FeeStep, ProposeFeeChange, ApplyFeeChange, SetFee, CancelFeeChange, SetFeeChangeDelay,
      AdminStep, ProposeAdminChange, ConfirmAdminChange, CancelAdminChange, PauseStep, Pause,
      Unpause, UpgradeStep, ProposeUpgrade, Upgrade, CancelUpgrade, multisigVars
<1>3. ASSUME NEW caller \in Addresses, NEW k \in DOMAIN proposals, CancelProposal(caller, k)
      PROVE  FALSE
  <2>1. proposals' = [proposals EXCEPT ![k].cancelled = TRUE] /\ ~ proposals[k].executed
    BY <1>3 DEF CancelProposal, Cancellable
  <2>2. proposals \in Seq(Proposals) /\ proposals[k] \in Proposals
    BY DEF Inv, TypeOK
  <2>3. proposals'[k].executed = proposals[k].executed /\ DOMAIN proposals' = DOMAIN proposals
    BY <2>1, <2>2 DEF Proposals
  <2>4. \A j \in DOMAIN proposals : j # k => proposals'[j] = proposals[j]
    BY <2>1, <2>2
  <2> QED BY <2>1, <2>3, <2>4 DEF Executes
<1>4. ASSUME NEW caller \in Addresses, NEW signers \in Rosters, NEW required \in 1 .. Len(signers),
             SetMultisigConfig(caller, required, signers)
      PROVE  FALSE
  BY <1>1, <1>4 DEF SetMultisigConfig
<1>5. ~ Tick /\ ~ UNCHANGED vars
  BY <1>1 DEF Tick, vars, multisigVars
<1> QED BY <1>2, <1>3, <1>4, <1>5 DEF Next, MultisigStep

\* A proposal that has just been executed has its quorum.
LEMMA ExecutedWithQuorum ==
  ASSUME Inv, [Next]_vars, NEW id \in DOMAIN proposals', Executes(id)
  PROVE  Quorum(proposals'[id].approvals)
<1>0. Inv'
  BY NextInv
<1>1. ASSUME NEW signer \in Addresses, NEW action \in Actions, ProposeAction(signer, action)
      PROVE  Quorum(proposals'[id].approvals)
  <2> DEFINE proposal == [action |-> action, approvals |-> <<signer>>, proposer |-> signer,
                          expires |-> now + ProposalExpiry, executed |-> FALSE,
                          cancelled |-> FALSE, epoch |-> config.epoch]
             recorded == Record(proposal, Enough(proposal))
  <2>1. proposals' = Append(proposals, recorded) /\ IsSigner(signer)
    BY <1>1 DEF ProposeAction
  <2>2. recorded.approvals = <<signer>> /\ recorded.executed = Enough(proposal)
    BY DEF Record
  <2>3. Enough(proposal) <=> Len(<<signer>>) >= config.required
    BY DEF Enough
  <2> HIDE DEF proposal, recorded
  <2>4. proposals \in Seq(Proposals)
    BY DEF Inv, TypeOK
  <2>5. id \notin DOMAIN proposals /\ proposals'[id] = recorded /\ recorded.executed
    <3>1. \A j \in DOMAIN proposals : proposals'[j] = proposals[j]
      BY <2>1, <2>4
    <3>2. id \notin DOMAIN proposals
      BY <3>1 DEF Executes
    <3>3. id = Len(proposals) + 1 /\ proposals'[id] = recorded
      BY <2>1, <2>4, <3>2 DEF Executes
    <3> QED BY <3>2, <3>3 DEF Executes
  <2>6. Different(<<signer>>) /\ \A i \in DOMAIN <<signer>> : IsSigner(<<signer>>[i])
    BY <2>1 DEF Different
  <2>7. Len(<<signer>>) >= config.required
    BY <2>2, <2>3, <2>5
  <2>8. proposals'[id].approvals = <<signer>>
    BY <2>2, <2>5
  <2> QED BY <2>6, <2>7, <2>8 DEF Quorum
<1>2. ASSUME NEW signer \in Addresses, NEW k \in DOMAIN proposals, ApproveAction(signer, k)
      PROVE  Quorum(proposals'[id].approvals)
  <2> DEFINE approved == [proposals[k] EXCEPT !.approvals = Append(@, signer)]
             recorded == Record(approved, Enough(approved))
  <2>1. proposals' = [proposals EXCEPT ![k] = recorded] /\ config' = config
    BY <1>2 DEF ApproveAction
  <2>2. proposals \in Seq(Proposals) /\ proposals[k] \in Proposals
    BY DEF Inv, TypeOK
  <2>3. recorded.approvals = approved.approvals /\ recorded.executed = Enough(approved)
    BY <2>2 DEF Record, Proposals
  <2>4. Enough(approved) <=> Len(approved.approvals) >= config.required
    BY DEF Enough
  <2> HIDE DEF approved, recorded
  <2>5. id = k /\ proposals'[k] = recorded /\ recorded.executed
    BY <2>1, <2>2 DEF Executes
  <2>6. ApprovalsCount(proposals[k])' /\ proposals'[k].epoch = config.epoch
    BY <1>2, ApproveActionInv
  <2>7. Different(recorded.approvals) /\ \A i \in DOMAIN recorded.approvals : IsSigner(recorded.approvals[i])
    BY <2>1, <2>5, <2>6 DEF ApprovalsCount, IsSigner
  <2> QED BY <2>3, <2>4, <2>5, <2>7 DEF Quorum
<1> QED BY <1>1, <1>2, Executors

\* Only a quorum of different signers of the configuration in force executes: what was
\* approved under an earlier roster or threshold never counts.
THEOREM QuorumsExecute == Spec => QuorumExecutes
<1>1. Inv /\ [Next]_vars =>
        [ \A id \in DOMAIN proposals' : Executes(id) => Quorum(proposals'[id].approvals) ]_vars
  BY ExecutedWithQuorum
<1> QED BY <1>1, InvHolds, PTL DEF Spec, QuorumExecutes

\* A step of the admin's routes leaves the proposals alone.
LEMMA OnlyMultisigSteps ==
  ASSUME [Next]_vars
  PROVE  UNCHANGED proposals \/ \E caller \in Addresses : MultisigStep(caller)
<1>1. ASSUME NEW caller \in Addresses,
             FeeStep(caller) \/ AdminStep(caller) \/ PauseStep(caller) \/ UpgradeStep(caller)
      PROVE  UNCHANGED proposals
  BY <1>1
  DEF FeeStep, ProposeFeeChange, ApplyFeeChange, SetFee, CancelFeeChange, SetFeeChangeDelay,
      AdminStep, ProposeAdminChange, ConfirmAdminChange, CancelAdminChange, PauseStep, Pause,
      Unpause, UpgradeStep, ProposeUpgrade, Upgrade, CancelUpgrade, multisigVars
<1> QED BY <1>1 DEF Next, Tick, vars, multisigVars

LEMMA ClosedKept ==
  ASSUME Inv, [Next]_vars, NEW id \in DOMAIN proposals,
         proposals[id].executed \/ proposals[id].cancelled
  PROVE  proposals'[id] = proposals[id]
<1>1. proposals \in Seq(Proposals)
  BY DEF Inv, TypeOK
<1>2. ASSUME NEW caller \in Addresses, MultisigStep(caller) PROVE proposals'[id] = proposals[id]
  <2>1. ASSUME NEW action \in Actions, ProposeAction(caller, action)
        PROVE  proposals'[id] = proposals[id]
    <3>1. \E p : proposals' = Append(proposals, p)
      BY <2>1 DEF ProposeAction
    <3> QED BY <1>1, <3>1
  <2>2. ASSUME NEW k \in DOMAIN proposals, ApproveAction(caller, k) \/ CancelProposal(caller, k)
        PROVE  proposals'[id] = proposals[id]
    <3>1. ~ proposals[k].executed /\ ~ proposals[k].cancelled
      BY <2>2 DEF ApproveAction, Approvable, CancelProposal, Cancellable
    <3>2. id # k
      BY <3>1
    <3>3. CASE ApproveAction(caller, k)
      <4>1. \E p : proposals' = [proposals EXCEPT ![k] = p]
        BY <3>3 DEF ApproveAction
      <4> QED BY <3>2, <4>1
    <3>4. CASE CancelProposal(caller, k)
      BY <3>2, <3>4 DEF CancelProposal
    <3> QED BY <2>2, <3>3, <3>4
  <2>3. ASSUME NEW signers \in Rosters, NEW required \in 1 .. Len(signers),
               SetMultisigConfig(caller, required, signers)
        PROVE  proposals'[id] = proposals[id]
    BY <2>3 DEF SetMultisigConfig
  <2> QED BY <1>2, <2>1, <2>2, <2>3 DEF MultisigStep
<1> QED BY <1>2, OnlyMultisigSteps

\* An answered proposal keeps its answer.
THEOREM AnswersStand == Spec => ClosedStaysClosed
<1>1. Inv /\ [Next]_vars =>
        [ \A id \in DOMAIN proposals :
            proposals[id].executed \/ proposals[id].cancelled => proposals'[id] = proposals[id] ]_vars
  BY ClosedKept
<1> QED BY <1>1, InvHolds, PTL DEF Spec, ClosedStaysClosed

-----------------------------------------------------------------------------
(* The guard of the multisig.                                              *)

\* A proposal that is carried has just been executed, or changes nothing.
LEMMA CarriedIsExecuted ==
  ASSUME Inv, NEW signer \in Addresses, MultisigStep(signer)
  PROVE  UNCHANGED governed \/ SomeExecutes
<1>1. proposals \in Seq(Proposals)
  BY DEF Inv, TypeOK
<1>2. ASSUME NEW action \in Actions, ProposeAction(signer, action), ~ UNCHANGED governed
      PROVE  SomeExecutes
  <2> DEFINE proposal == [action |-> action, approvals |-> <<signer>>, proposer |-> signer,
                          expires |-> now + ProposalExpiry, executed |-> FALSE,
                          cancelled |-> FALSE, epoch |-> config.epoch]
             recorded == Record(proposal, Enough(proposal))
  <2>1. proposals' = Append(proposals, recorded) /\ Enough(proposal)
    BY <1>2 DEF ProposeAction, Carry
  <2>2. recorded.executed
    BY <2>1 DEF Record
  <2> HIDE DEF proposal, recorded
  <2>3. /\ Len(proposals) + 1 \in DOMAIN proposals' /\ Len(proposals) + 1 \notin DOMAIN proposals
        /\ proposals'[Len(proposals) + 1] = recorded
    BY <1>1, <2>1
  <2> QED BY <2>2, <2>3 DEF SomeExecutes, Executes
<1>3. ASSUME NEW id \in DOMAIN proposals, ApproveAction(signer, id), ~ UNCHANGED governed
      PROVE  SomeExecutes
  <2> DEFINE approved == [proposals[id] EXCEPT !.approvals = Append(@, signer)]
             recorded == Record(approved, Enough(approved))
  <2>1. /\ proposals' = [proposals EXCEPT ![id] = recorded] /\ Enough(approved)
        /\ ~ proposals[id].executed
    BY <1>3 DEF ApproveAction, Carry, Approvable
  <2>2. proposals[id] \in Proposals
    BY <1>1
  <2>3. recorded.executed
    BY <2>1, <2>2 DEF Record, Proposals
  <2> HIDE DEF approved, recorded
  <2> QED BY <1>1, <2>1, <2>3 DEF SomeExecutes, Executes
<1>4. ASSUME NEW id \in DOMAIN proposals, CancelProposal(signer, id) PROVE UNCHANGED governed
  BY <1>4 DEF CancelProposal
<1>5. ASSUME NEW signers \in Rosters, NEW required \in 1 .. Len(signers),
             SetMultisigConfig(signer, required, signers)
      PROVE  UNCHANGED governed
  BY <1>5 DEF SetMultisigConfig
<1> QED BY <1>2, <1>3, <1>4, <1>5 DEF MultisigStep

LEMMA GuardHolds ==
  ASSUME Inv, [Next]_vars, MultisigEnabled, GuardedChange
  PROVE  SomeExecutes
<1> USE DEF codeVars, feeVars, governed, RequireNoMultisig, GuardedChange
<1>1. ASSUME NEW caller \in Addresses, FeeStep(caller) PROVE FALSE
  BY <1>1 DEF FeeStep, ProposeFeeChange, SetFee, CancelFeeChange, SetFeeChangeDelay,
              ApplyFeeChange, NoFeeChange
<1>2. ASSUME NEW caller \in Addresses, AdminStep(caller) PROVE FALSE
  BY <1>2 DEF AdminStep, ProposeAdminChange, ConfirmAdminChange, CancelAdminChange
<1>3. ASSUME NEW caller \in Addresses, PauseStep(caller) PROVE FALSE
  BY <1>3 DEF PauseStep, Pause, Unpause
<1>4. ASSUME NEW caller \in Addresses, UpgradeStep(caller) PROVE FALSE
  BY <1>4 DEF UpgradeStep, ProposeUpgrade, Upgrade, CancelUpgrade
<1>5. ASSUME NEW caller \in Addresses, MultisigStep(caller)
      PROVE  SomeExecutes
  BY <1>5, CarriedIsExecuted
<1>6. ~ Tick /\ ~ UNCHANGED vars
  BY DEF Tick, vars
<1> QED BY <1>1, <1>2, <1>3, <1>4, <1>5, <1>6 DEF Next

\* With a multisig in force, no pause, code change or new fee change happens except by
\* an executed proposal.
THEOREM MultisigGuards == Spec => GuardedByMultisig
<1>1. Inv /\ [Next]_vars => [ MultisigEnabled /\ GuardedChange => SomeExecutes ]_vars
  BY GuardHolds
<1> QED BY <1>1, InvHolds, PTL DEF Spec, GuardedByMultisig

-----------------------------------------------------------------------------
(* The credit score. *)

(* Clamping and the parts of the formula. *)

LEMMA ClampInRange ==
    ASSUME NEW x \in Int, NEW low \in Int, NEW high \in Int, low <= high
    PROVE  C!Clamp(x, low, high) \in low .. high
BY DEF C!Clamp

LEMMA QuotientRange ==
    ASSUME NEW d \in Nat \ {0}, NEW n \in 0 .. 100 * d
    PROVE  n \div d \in 0 .. 100
<1> DEFINE q == n \div d
<1>1. q \in Int /\ n = d * q + (n % d) /\ n % d \in 0 .. d - 1
  OBVIOUS
<1>2. q >= 0
  <2> SUFFICES ASSUME q <= -1 PROVE FALSE
    BY <1>1
  <2>1. d * q <= d * (-1)
    BY <1>1
  <2> QED BY <1>1, <2>1
<1>3. q <= 100
  <2> SUFFICES ASSUME q >= 101 PROVE FALSE
    BY <1>1
  <2>1. d * q >= d * 101
    BY <1>1
  <2> QED BY <1>1, <2>1
<1> QED BY <1>1, <1>2, <1>3

\* The whole XLM of a volume.
LEMMA WholeRange ==
    ASSUME NEW tips \in Int
    PROVE  C!Clamp(tips, 0, C!TipVolumeCap) \div C!TipDivisor \in 0 .. 100
<1>1. C!TipVolumeCap \in Int /\ 0 <= C!TipVolumeCap
  BY DEF C!TipVolumeCap, C!TipDivisor
<1>2. C!Clamp(tips, 0, C!TipVolumeCap) \in 0 .. C!TipVolumeCap
  BY <1>1, ClampInRange
<1>3. C!TipDivisor \in Nat \ {0} /\ C!TipVolumeCap = 100 * C!TipDivisor
  BY DEF C!TipVolumeCap, C!TipDivisor
<1> QED BY <1>2, <1>3, QuotientRange

LEMMA TipPartRange ==
    ASSUME NEW tips \in Int
    PROVE  C!TipPart(tips) \in 0 .. 20
BY WholeRange DEF C!TipPart, C!MaxScore

LEMMA XPartRange ==
    ASSUME NEW followers \in Nat, NEW engagement \in Nat
    PROVE  C!XPart(followers, engagement) \in 0 .. 30
BY DEF C!XPart, C!Least, C!MaxScore

LEMMA AgePartRange ==
    ASSUME NEW days \in Nat
    PROVE  C!AgePart(days) \in 0 .. 10
BY DEF C!AgePart, C!Least, C!MaxScore

\* Whatever the numbers, the contract's score is between the base and the maximum
\* (credit.rs:121-167).
THEOREM ScoreInRange ==
    ASSUME NEW tips \in Int, NEW followers \in Nat, NEW engagement \in Nat, NEW days \in Nat
    PROVE  C!Weighed(tips, followers, engagement, days) \in C!Base .. C!MaxScore
<1>1. C!TipPart(tips) \in 0 .. 20 /\ C!XPart(followers, engagement) \in 0 .. 30 /\ C!AgePart(days) \in 0 .. 10
  BY TipPartRange, XPartRange, AgePartRange
<1> QED BY <1>1 DEF C!Weighed, C!Least, C!Base, C!MaxScore

-----------------------------------------------------------------------------
(* The two implementations. *)

LEMMA TipAgrees ==
    ASSUME NEW tips \in Int
    PROVE  C!Weight(C!BackendTip(tips), 20) = C!TipPart(tips)
<1>1. C!BackendTip(tips) = C!Clamp(tips, 0, C!TipVolumeCap) \div C!TipDivisor
  BY WholeRange DEF C!BackendTip, C!Least
<1> QED BY <1>1 DEF C!TipPart, C!Weight, C!MaxScore

LEMMA XAgrees ==
    ASSUME NEW followers \in Nat, NEW engagement \in Nat
    PROVE  C!Weight(C!BackendX(followers, engagement), 30) = C!XPart(followers, engagement)
<1> DEFINE sum == C!Least(followers \div 50, 50) + C!Least(engagement \div 10, 50)
<1>1. sum \in 0 .. 100
  BY DEF C!Least
<1>2. followers = 0 /\ engagement = 0 => sum = 0
  BY DEF C!Least
<1>3. C!BackendX(followers, engagement) = sum
  BY <1>1, <1>2 DEF C!BackendX, C!Least, C!MaxScore
<1> QED BY <1>3 DEF C!XPart, C!Weight, C!MaxScore

LEMMA AgeAgrees ==
    ASSUME NEW days \in Nat
    PROVE  C!Weight(C!BackendAge(days), 10) = C!AgePart(days)
<1>1. C!BackendAge(days) = C!Least(days \div 10, 100)
  BY DEF C!BackendAge, C!Least
<1> QED BY <1>1 DEF C!AgePart, C!Weight, C!MaxScore

LEMMA StreakAgrees ==
    ASSUME NEW raw \in Nat
    PROVE  C!BackendStreak(raw) = C!Least(raw, C!StreakCap) /\ C!BackendStreak(raw) \in 0 .. 10
BY DEF C!BackendStreak, C!Clamp, C!Least, C!StreakCap, C!MaxScore

\* "The two implementations must agree" (credit.rs:84-106): the contract caps its sum before and
\* after the points of streaks, the backend once at the end, and each caps its parts in its own
\* way; for every input the scores are the same.
THEOREM ImplementationsAgree ==
    ASSUME NEW tips \in Int, NEW followers \in Nat, NEW engagement \in Nat,
           NEW days \in Nat, NEW raw \in Nat
    PROVE  C!BackendTotal(tips, followers, engagement, days, raw)
             = C!WithStreak(tips, followers, engagement, days, raw)
<1> DEFINE t == C!TipPart(tips)
           x == C!XPart(followers, engagement)
           a == C!AgePart(days)
           s == C!BackendStreak(raw)
<1>1. t \in 0 .. 20 /\ x \in 0 .. 30 /\ a \in 0 .. 10
  BY TipPartRange, XPartRange, AgePartRange
<1>2. s = C!Least(raw, C!StreakCap) /\ s \in 0 .. 10
  BY StreakAgrees
<1>3. C!BackendTotal(tips, followers, engagement, days, raw) = C!Clamp(40 + t + x + a + s, 0, 100)
  BY TipAgrees, XAgrees, AgeAgrees DEF C!BackendTotal, C!Base, C!MaxScore
<1>4. C!WithStreak(tips, followers, engagement, days, raw) = C!Least(100, C!Least(100, 40 + t + x + a) + s)
  BY <1>2 DEF C!WithStreak, C!Weighed, C!Base, C!MaxScore
<1>5. /\ C!BackendTotal(tips, followers, engagement, days, raw) = C!Clamp(40 + t + x + a + s, 0, 100)
      /\ C!WithStreak(tips, followers, engagement, days, raw) = C!Least(100, C!Least(100, 40 + t + x + a) + s)
      /\ s \in 0 .. 10
  BY <1>2, <1>3, <1>4
<1> HIDE DEF t, x, a, s
<1>6. C!Clamp(40 + t + x + a + s, 0, 100) = C!Least(100, C!Least(100, 40 + t + x + a) + s)
  BY <1>1, <1>5 DEF C!Clamp, C!Least
<1> QED BY <1>5, <1>6

-----------------------------------------------------------------------------
(* The stored score. *)

ScoredProfiles == [tips : Int, followers : Nat, engagement : Nat, registered : Nat, active : Nat, score : Nat]

LEMMA DaysIsNat ==
    ASSUME NEW registered \in Nat, NEW moment \in Nat
    PROVE  C!Days(registered, moment) \in Nat
BY DEF C!Days, C!SecondsPerDay

LEMMA TotalInRange ==
    ASSUME NEW c \in ScoredProfiles, NEW moment \in Nat
    PROVE  C!Total(c, moment) \in C!Base .. C!MaxScore
<1>1. c.tips \in Int /\ c.followers \in Nat /\ c.engagement \in Nat /\ c.registered \in Nat
  BY DEF ScoredProfiles
<1>2. C!Days(c.registered, moment) \in Nat
  BY <1>1, DaysIsNat
<1> QED BY <1>1, <1>2, ScoreInRange DEF C!Total

\* The decay takes from the score and never below the base.
LEMMA DecayedInRange ==
    ASSUME NEW c \in ScoredProfiles, NEW moment \in Nat
    PROVE  C!Decayed(c, moment) \in C!Base .. C!Total(c, moment)
<1>1. C!Total(c, moment) \in 40 .. 100 /\ c.active \in Nat
  BY TotalInRange DEF C!Base, C!MaxScore, ScoredProfiles
<1> DEFINE total == C!Total(c, moment)
<1> HIDE DEF total
<1>2. total \in 40 .. 100
  BY <1>1 DEF total
<1>3. C!Decayed(c, moment) = IF moment - c.active > C!DecayWindow
                         THEN total - C!Least(moment - c.active - C!DecayWindow, total - 40) ELSE total
  BY DEF C!Decayed, total, C!Base
<1>4. C!DecayWindow \in Nat
  BY DEF C!DecayWindow, C!SecondsPerDay
<1>5. C!Decayed(c, moment) \in 40 .. total
  BY <1>1, <1>2, <1>3, <1>4 DEF C!Least
<1> QED BY <1>5 DEF total, C!Base

\* An account only grows older.
LEMMA TotalGrows ==
    ASSUME NEW c \in ScoredProfiles, NEW now1 \in Nat, NEW now2 \in Nat, now1 <= now2
    PROVE  C!Total(c, now1) <= C!Total(c, now2)
<1>1. c.tips \in Int /\ c.followers \in Nat /\ c.engagement \in Nat /\ c.registered \in Nat
  BY DEF ScoredProfiles
<1> DEFINE d1 == C!Days(c.registered, now1)
           d2 == C!Days(c.registered, now2)
<1>2. d1 \in Nat /\ d2 \in Nat
  BY <1>1, DaysIsNat
<1>3. d1 <= d2
  BY <1>1 DEF C!Days, C!SecondsPerDay
<1> HIDE DEF d1, d2
<1>4. C!AgePart(d1) <= C!AgePart(d2) /\ C!AgePart(d1) \in 0 .. 10 /\ C!AgePart(d2) \in 0 .. 10
  BY <1>2, <1>3, AgePartRange DEF C!AgePart, C!Least, C!MaxScore
<1>5. C!TipPart(c.tips) \in 0 .. 20 /\ C!XPart(c.followers, c.engagement) \in 0 .. 30
  BY <1>1, TipPartRange, XPartRange
<1> QED BY <1>4, <1>5 DEF C!Total, C!Weighed, C!Least, C!Base, C!MaxScore, d1, d2

(* Each operation stores one score or the other, for some numbers and some  *)
(* time of the last activity.                                               *)

StoresHonestly(c, moment) ==
    /\ c \in ScoredProfiles /\ c.registered <= moment /\ c.active <= moment
    /\ C!Base <= c.score /\ c.score <= C!Total(c, moment)

LEMMA ScoredIsHonest ==
    ASSUME time \in Nat, NEW c \in ScoredProfiles, c.registered <= time, c.active <= time
    PROVE  StoresHonestly(C!Scored(c), time)
<1> DEFINE s == C!Scored(c)
<1>1. C!Total(c, time) \in C!Base .. C!MaxScore
  BY TotalInRange
<1>2. /\ s.tips = c.tips /\ s.followers = c.followers /\ s.engagement = c.engagement
      /\ s.registered = c.registered /\ s.active = c.active /\ s.score = C!Total(c, time)
  BY DEF C!Scored, ScoredProfiles
<1>3. s \in ScoredProfiles
  BY <1>1 DEF C!Scored, ScoredProfiles, C!Base, C!MaxScore
<1>4. C!Total(s, time) = C!Total(c, time)
  BY <1>2 DEF C!Total
<1> QED BY <1>1, <1>2, <1>3, <1>4 DEF StoresHonestly, C!Base, C!MaxScore

LEMMA ScoredDecayedIsHonest ==
    ASSUME time \in Nat, NEW c \in ScoredProfiles, c.registered <= time, c.active <= time
    PROVE  StoresHonestly(C!ScoredDecayed(c), time)
<1> DEFINE s == C!ScoredDecayed(c)
<1>1. C!Total(c, time) \in C!Base .. C!MaxScore /\ C!Decayed(c, time) \in C!Base .. C!Total(c, time)
  BY TotalInRange, DecayedInRange
<1>2. /\ s.tips = c.tips /\ s.followers = c.followers /\ s.engagement = c.engagement
      /\ s.registered = c.registered /\ s.active = c.active /\ s.score = C!Decayed(c, time)
  BY DEF C!ScoredDecayed, ScoredProfiles
<1>3. s \in ScoredProfiles
  BY <1>1 DEF C!ScoredDecayed, ScoredProfiles, C!Base, C!MaxScore
<1>4. C!Total(s, time) = C!Total(c, time)
  BY <1>2 DEF C!Total
<1> QED BY <1>1, <1>2, <1>3, <1>4 DEF StoresHonestly, C!Base, C!MaxScore

\* The score does not look at the mark of activity.
LEMMA MarkIsHonest ==
    ASSUME time \in Nat, NEW c, StoresHonestly(c, time)
    PROVE  StoresHonestly([c EXCEPT !.active = time], time)
<1> DEFINE m == [c EXCEPT !.active = time]
<1>1. c \in ScoredProfiles
  BY DEF StoresHonestly
<1>2. /\ m.tips = c.tips /\ m.followers = c.followers /\ m.engagement = c.engagement
      /\ m.registered = c.registered /\ m.active = time /\ m.score = c.score /\ m \in ScoredProfiles
  BY <1>1 DEF ScoredProfiles
<1>3. C!Total(m, time) = C!Total(c, time)
  BY <1>2 DEF C!Total
<1> QED BY <1>2, <1>3 DEF StoresHonestly

-----------------------------------------------------------------------------
(* The inductive invariant: the type, and the honest score. *)

CreditInv == C!TypeOK /\ C!NeverFlatters

LEMMA InvariantInShort ==
    ASSUME C!CreditAssumption
    PROVE  CreditInv <=> /\ time \in Nat /\ StoresHonestly(creator, time)
                    /\ tip \in [Tips -> {"unsent", "kept", "refunded"}] /\ lastTip \in Nat
BY DEF CreditInv, C!TypeOK, C!NeverFlatters, StoresHonestly, ScoredProfiles

LEMMA CreditInitInv == C!CreditAssumption /\ C!Init => CreditInv
<1> SUFFICES ASSUME C!CreditAssumption, C!Init PROVE CreditInv
  OBVIOUS
<1>1. creator \in ScoredProfiles /\ time = 0 /\ creator.score = C!Base
      /\ creator.registered = 0 /\ creator.active = 0
  BY DEF C!Init, ScoredProfiles, C!Base
<1>2. C!Total(creator, 0) \in C!Base .. C!MaxScore
  BY <1>1, TotalInRange
<1> QED BY <1>1, <1>2, InvariantInShort DEF StoresHonestly, C!Init, C!Base, C!MaxScore

LEMMA CreditNextInv == C!CreditAssumption /\ CreditInv /\ [C!Next]_(C!vars) => CreditInv'
<1> SUFFICES ASSUME C!CreditAssumption, CreditInv, [C!Next]_(C!vars) PROVE CreditInv'
  OBVIOUS
<1>1. /\ time \in Nat /\ creator \in ScoredProfiles /\ creator.registered <= time /\ creator.active <= time
      /\ StoresHonestly(creator, time)
      /\ tip \in [Tips -> {"unsent", "kept", "refunded"}] /\ lastTip \in Nat
  BY InvariantInShort DEF StoresHonestly
<1>2. SUFFICES /\ time' \in Nat /\ StoresHonestly(creator', time')
               /\ tip' \in [Tips -> {"unsent", "kept", "refunded"}] /\ lastTip' \in Nat
  BY DEF CreditInv, C!TypeOK, C!NeverFlatters, StoresHonestly, ScoredProfiles
<1>3. ASSUME NEW seconds \in Waits, C!Wait(seconds) PROVE <1>2!1
  <2>1. time' \in Nat /\ time <= time' /\ creator' = creator /\ tip' = tip /\ lastTip' = lastTip
    BY <1>1, <1>3 DEF C!Wait, C!CreditAssumption
  <2>2. C!Total(creator, time) <= C!Total(creator, time')
    BY <1>1, <2>1, TotalGrows
  <2>3. C!Total(creator, time) \in C!Base .. C!MaxScore /\ C!Total(creator, time') \in C!Base .. C!MaxScore
    BY <1>1, <2>1, TotalInRange
  <2>4. creator.score \in Nat /\ creator.registered \in Nat /\ creator.active \in Nat
    BY <1>1 DEF ScoredProfiles
  <2>5. StoresHonestly(creator, time')
    BY <1>1, <2>1, <2>2, <2>3, <2>4 DEF StoresHonestly, C!Base, C!MaxScore
  <2> QED BY <1>1, <2>1, <2>5
<1>4. ASSUME NEW t \in Tips, C!SendTip(t) \/ C!SendTipOnBehalf(t) \/ C!DeliverScheduledTip(t) PROVE <1>2!1
  <2>1. time' = time /\ lastTip' = time /\ tip' \in [Tips -> {"unsent", "kept", "refunded"}]
    BY <1>1, <1>4 DEF C!SendTip, C!SendTipOnBehalf, C!DeliverScheduledTip, C!Receive
  <2>2. /\ C!Tipped(t) \in ScoredProfiles /\ C!Tipped(t).registered = creator.registered
        /\ C!Tipped(t).active = creator.active
    <3>1. TipAmount[t] \in Nat
      BY DEF C!CreditAssumption
    <3> QED BY <1>1, <3>1 DEF C!Tipped, ScoredProfiles
  <2>3. StoresHonestly(C!Scored(C!Tipped(t)), time) /\ StoresHonestly(C!ScoredDecayed(C!Tipped(t)), time)
    BY <1>1, <2>2, ScoredIsHonest, ScoredDecayedIsHonest
  <2>4. /\ StoresHonestly([C!Scored(C!Tipped(t)) EXCEPT !.active = time], time)
        /\ StoresHonestly([C!ScoredDecayed(C!Tipped(t)) EXCEPT !.active = time], time)
    BY <1>1, <2>3, MarkIsHonest
  <2> QED BY <1>1, <1>4, <2>1, <2>3, <2>4 DEF C!SendTip, C!SendTipOnBehalf, C!DeliverScheduledTip
<1>5. ASSUME NEW t \in Tips, C!Refund(t) PROVE <1>2!1
  <2>1. time' = time /\ lastTip' = lastTip /\ tip' \in [Tips -> {"unsent", "kept", "refunded"}]
    BY <1>1, <1>5 DEF C!Refund
  <2> DEFINE less == [creator EXCEPT !.tips = @ - TipAmount[t]]
  <2>2. /\ less \in ScoredProfiles /\ less.registered = creator.registered /\ less.active = creator.active
    <3>1. TipAmount[t] \in Nat
      BY DEF C!CreditAssumption
    <3> QED BY <1>1, <3>1 DEF ScoredProfiles
  <2>3. StoresHonestly(C!Scored(less), time)
    <3> HIDE DEF less
    <3> QED BY <1>1, <2>2, ScoredIsHonest
  <2> QED BY <1>1, <1>5, <2>1, <2>3 DEF C!Refund, C!Refunded
<1>6. ASSUME NEW m \in Metrics, C!UpdateXMetrics(m) PROVE <1>2!1
  <2> DEFINE known == [creator EXCEPT !.followers = m.followers, !.engagement = m.engagement]
  <2>1. /\ known \in ScoredProfiles /\ known.registered = creator.registered
        /\ known.active = creator.active
    <3>1. m.followers \in Nat /\ m.engagement \in Nat
      BY DEF C!CreditAssumption
    <3> QED BY <1>1, <3>1 DEF ScoredProfiles
  <2>2. StoresHonestly(C!ScoredDecayed(known), time)
    <3> HIDE DEF known
    <3> QED BY <1>1, <2>1, ScoredDecayedIsHonest
  <2> QED BY <1>1, <1>6, <2>2 DEF C!UpdateXMetrics
<1>7. CASE C!Recompute
  <2>1. StoresHonestly(C!Scored(creator), time)
    BY <1>1, ScoredIsHonest
  <2> QED BY <1>1, <1>7, <2>1 DEF C!Recompute
<1>8. CASE C!Quiet \/ UNCHANGED C!vars
  BY <1>1, <1>8 DEF C!Quiet, C!vars
<1> QED BY <1>3, <1>4, <1>5, <1>6, <1>7, <1>8 DEF C!Next

-----------------------------------------------------------------------------
(* Subscriptions.  The inductive invariant is Safe itself; the batch is a   *)
(* fold over the list, so what its turns keep is said of every prefix.      *)

SubRecords == [active : BOOLEAN, amount : Pledges \cup {0}, interval : Intervals \cup {0}, due : Nat]
ChangeRecords == S!Terms \cup {S!NoTerms}
RateRecords == [count : 0 .. IF MaxOps = 0 THEN 1 ELSE MaxOps, at : 0 .. LastDay]

\* Places of a sequence, the largest of a set of them.
LEMMA LargestPlace ==
    ASSUME NEW n \in Nat, NEW s \in SUBSET (1 .. n), s # {}
    PROVE  /\ S!Max(s) \in s
           /\ \A i \in s : S!Max(s) >= i
<1>1. s \in SUBSET (0 .. n)
  OBVIOUS
<1>2. \E x \in s : \A y \in s : x >= y
  BY <1>1, LargestExists
<1> QED BY <1>2 DEF S!Max

\* The list without a pair, as a fold.
KeptOf(p) == [step \in Seq(S!Pairs) \X (DOMAIN listed) |->
                IF listed[step[2]] # p THEN Append(step[1], listed[step[2]]) ELSE step[1]]
Largest == [s \in SUBSET DOMAIN listed |-> S!Max(s)]

LEMMA PlacesOfList ==
    ASSUME listed \in Seq(S!Pairs)
    PROVE  /\ DOMAIN listed = 1 .. Len(listed) /\ Len(listed) \in Nat
           /\ IsFiniteSet(DOMAIN listed)
           /\ \A i \in DOMAIN listed : listed[i] \in S!Pairs
           /\ \A s \in SUBSET DOMAIN listed : s # {} => Largest[s] \in s
<1>1. DOMAIN listed = 1 .. Len(listed) /\ Len(listed) \in Nat
  OBVIOUS
<1>2. IsFiniteSet(1 .. Len(listed))
  BY <1>1, FS_Interval
<1>3. \A s \in SUBSET DOMAIN listed : s # {} => Largest[s] \in s
  BY <1>1, LargestPlace DEF Largest
<1>4. \A i \in DOMAIN listed : listed[i] \in S!Pairs
  BY ElementOfSeq, <1>1
<1> QED BY <1>1, <1>2, <1>3, <1>4

UnlistedFold(p, f) ==
    f = [s \in SUBSET DOMAIN listed |->
           IF s = {} THEN <<>>
           ELSE IF listed[S!Max(s)] # p THEN Append(f[s \ {S!Max(s)}], listed[S!Max(s)])
                ELSE f[s \ {S!Max(s)}]]

LEMMA UnlistedIsFold ==
    ASSUME NEW p PROVE S!Unlisted(p) = (CHOOSE f : UnlistedFold(p, f))[DOMAIN listed]
BY Zenon DEF S!Unlisted, S!FoldLeft, S!MapThenFoldSet, UnlistedFold

\* One more member at the end of a list without it.
LEMMA AppendedOnce ==
    ASSUME NEW q \in Seq(S!Pairs), S!IsInjective(q), NEW e \in S!Pairs, e \notin S!ToSet(q)
    PROVE  /\ Append(q, e) \in Seq(S!Pairs) /\ S!IsInjective(Append(q, e))
           /\ S!ToSet(Append(q, e)) = S!ToSet(q) \cup {e}
<1> DEFINE r == Append(q, e)
           n == Len(q)
<1>1. n \in Nat /\ DOMAIN q = 1 .. n /\ r \in Seq(S!Pairs) /\ DOMAIN r = 1 .. n + 1
      /\ r[n + 1] = e /\ \A i \in 1 .. n : r[i] = q[i]
  OBVIOUS
<1> HIDE DEF r, n
<1>2. \A i \in 1 .. n : q[i] # e
  BY <1>1 DEF S!ToSet
<1>3. \A i \in 1 .. n + 1 : i = n + 1 \/ i \in 1 .. n
  BY <1>1
<1>4. S!IsInjective(r)
  BY <1>1, <1>2, <1>3 DEF S!IsInjective
<1>5. S!ToSet(r) = S!ToSet(q) \cup {e}
  BY <1>1, <1>3 DEF S!ToSet
<1> QED BY <1>1, <1>4, <1>5 DEF r

ListedIn(s) == {listed[i] : i \in s}
KeptIn(p) == [s \in SUBSET DOMAIN listed |->
                {q \in Seq(S!Pairs) : S!IsInjective(q) /\ S!ToSet(q) = ListedIn(s) \ {p}}]

\* A pair that is taken from the list leaves the others, each once.
LEMMA UnlistedStays ==
    ASSUME NEW p \in S!Pairs, listed \in Seq(S!Pairs), S!IsInjective(listed)
    PROVE  /\ S!Unlisted(p) \in Seq(S!Pairs) /\ S!IsInjective(S!Unlisted(p))
           /\ S!ToSet(S!Unlisted(p)) = S!ToSet(listed) \ {p}
<1> DEFINE D == DOMAIN listed
<1>1. /\ IsFiniteSet(D) /\ D \in SUBSET D
      /\ \A i \in D : listed[i] \in S!Pairs
      /\ \A s \in SUBSET D : s # {} => Largest[s] \in s /\ Largest[s] \in D /\ Largest[s] = S!Max(s)
  BY PlacesOfList DEF Largest
<1>2. <<>> \in Seq(S!Pairs)
  OBVIOUS
<1>3. ASSUME NEW q \in Seq(S!Pairs), NEW i \in D PROVE KeptOf(p)[<<q, i>>] \in Seq(S!Pairs)
  <2>1. listed[i] \in S!Pairs
    BY <1>1
  <2>2. Append(q, listed[i]) \in Seq(S!Pairs)
    BY <2>1
  <2> QED BY <2>2 DEF KeptOf
<1>4. PICK g : /\ g = [s \in SUBSET D |-> g[s]]
               /\ \A s \in SUBSET D : g[s] \in Seq(S!Pairs)
               /\ Folding(D, Largest, g, <<>>, KeptOf(p))
  BY <1>1, <1>2, <1>3, FoldIs
<1>5. UnlistedFold(p, g)
  <2>1. ASSUME NEW s \in SUBSET D
        PROVE  g[s] = IF s = {} THEN <<>>
                      ELSE IF listed[S!Max(s)] # p THEN Append(g[s \ {S!Max(s)}], listed[S!Max(s)])
                           ELSE g[s \ {S!Max(s)}]
    <3>1. CASE s = {}
      BY <1>4, <3>1 DEF Folding
    <3>2. CASE s # {}
      <4>1. S!Max(s) \in D /\ g[s \ {S!Max(s)}] \in Seq(S!Pairs)
        BY <1>1, <1>4, <3>2
      <4>2. g[s] = KeptOf(p)[<<g[s \ {S!Max(s)}], S!Max(s)>>]
        BY <1>1, <1>4, <3>2 DEF Folding, Without
      <4> QED BY <3>2, <4>1, <4>2 DEF KeptOf
    <3> QED BY <3>1, <3>2
  <2> QED BY <1>4, <2>1 DEF UnlistedFold
<1> DEFINE f == CHOOSE h : UnlistedFold(p, h)
<1>6. UnlistedFold(p, f)
  BY <1>5
<1>7. S!Unlisted(p) = f[D]
  BY UnlistedIsFold
<1> HIDE DEF f
<1>8. ASSUME NEW s \in SUBSET D
      PROVE  f[s] = IF s = {} THEN <<>>
                    ELSE IF listed[S!Max(s)] # p THEN Append(f[s \ {S!Max(s)}], listed[S!Max(s)])
                         ELSE f[s \ {S!Max(s)}]
  BY <1>6 DEF UnlistedFold
<1>9. f[{}] \in KeptIn(p)[{}]
  <2>1. f[{}] = <<>>
    BY <1>8
  <2>2. S!IsInjective(<<>>) /\ S!ToSet(<<>>) = {}
    BY DEF S!IsInjective, S!ToSet
  <2> QED BY <2>1, <2>2 DEF KeptIn, ListedIn
<1>10. ASSUME NEW s \in SUBSET D, s # {},
              f[Without(s, Largest[s])] \in KeptIn(p)[Without(s, Largest[s])]
       PROVE  f[s] \in KeptIn(p)[s]
  <2> DEFINE m == S!Max(s)
             q == f[s \ {m}]
  <2>1. m \in s /\ m \in D /\ s \ {m} \in SUBSET D /\ Without(s, Largest[s]) = s \ {m}
    BY <1>1, <1>10 DEF Without
  <2>2. q \in Seq(S!Pairs) /\ S!IsInjective(q) /\ S!ToSet(q) = ListedIn(s \ {m}) \ {p}
    BY <1>10, <2>1 DEF KeptIn
  <2>3. f[s] = IF listed[m] # p THEN Append(q, listed[m]) ELSE q
    BY <1>8, <1>10
  <2> HIDE DEF m, q
  <2>4. ListedIn(s) = ListedIn(s \ {m}) \cup {listed[m]}
    BY <2>1 DEF ListedIn
  <2>5. listed[m] \notin ListedIn(s \ {m})
    BY <2>1 DEF ListedIn, S!IsInjective
  <2>6. listed[m] \in S!Pairs
    BY <1>1, <2>1
  <2>7. CASE listed[m] # p
    <3>1. listed[m] \notin S!ToSet(q)
      BY <2>2, <2>5
    <3>2. /\ f[s] \in Seq(S!Pairs) /\ S!IsInjective(f[s])
          /\ S!ToSet(f[s]) = S!ToSet(q) \cup {listed[m]}
      <4>1. f[s] = Append(q, listed[m])
        BY <2>3, <2>7
      <4>2. /\ Append(q, listed[m]) \in Seq(S!Pairs) /\ S!IsInjective(Append(q, listed[m]))
            /\ S!ToSet(Append(q, listed[m])) = S!ToSet(q) \cup {listed[m]}
        BY <2>2, <2>6, <3>1, AppendedOnce
      <4> QED BY <4>1, <4>2
    <3>3. S!ToSet(f[s]) = ListedIn(s) \ {p}
      BY <2>2, <2>4, <2>7, <3>2
    <3> QED BY <3>2, <3>3 DEF KeptIn
  <2>8. CASE listed[m] = p
    <3>1. f[s] = q /\ ListedIn(s) \ {p} = ListedIn(s \ {m}) \ {p}
      BY <2>3, <2>4, <2>8
    <3> QED BY <2>2, <3>1 DEF KeptIn
  <2> QED BY <2>7, <2>8
<1>11. f[D] \in KeptIn(p)[D]
  BY <1>1, <1>9, <1>10, FoldStays
<1>12. ListedIn(D) = S!ToSet(listed)
  BY DEF ListedIn, S!ToSet
<1> QED BY <1>1, <1>7, <1>11, <1>12 DEF KeptIn

-----------------------------------------------------------------------------
(* One charge, and the batch.  A state of the batch is sound when the same  *)
(* subscriptions run, none is paid ahead, and what was not due, or is       *)
(* paused, is as it was when the batch began.                               *)

BatchStates ==
  [wallet : [Subscribers -> 0 .. MaxWallet], subs : [S!Pairs -> SubRecords],
   change : [S!Pairs -> ChangeRecords], rate : [Subscribers -> RateRecords],
   guard : BOOLEAN, charged : Nat, trapped : BOOLEAN]

PairSound(st, p) ==
  /\ st.subs[p].active = subs[p].active
  /\ st.subs[p].active => st.subs[p].due <= day + st.subs[p].interval
  /\ st.change[p] # S!NoTerms => st.subs[p].active
  /\ day < subs[p].due => st.subs[p] = subs[p]
PausedSound(st) == halted => st.wallet = wallet /\ st.subs = subs
BatchSound == {st \in BatchStates : (\A p \in S!Pairs : PairSound(st, p)) /\ PausedSound(st)}

SubTypes ==
  /\ day \in 0 .. LastDay /\ halted \in BOOLEAN /\ accepting \subseteq Creators
  /\ wallet \in [Subscribers -> 0 .. MaxWallet]
  /\ subs \in [S!Pairs -> SubRecords]
  /\ change \in [S!Pairs -> ChangeRecords]
  /\ listed \in Seq(S!Pairs)
  /\ rate \in [Subscribers -> RateRecords]
  /\ guard \in BOOLEAN /\ signed \subseteq Subscribers

LEMMA SubTypesAreTypes == S!TypeOK <=> SubTypes
BY DEF S!TypeOK, SubTypes, SubRecords, ChangeRecords, RateRecords

LEMMA PairParts == ASSUME NEW p \in S!Pairs PROVE p[1] \in Subscribers /\ p[2] \in Creators
BY DEF S!Pairs

LEMMA StateIsSound == ASSUME S!Safe PROVE S!State \in BatchSound
<1>1. SubTypes
  BY SubTypesAreTypes DEF S!Safe
<1>2. S!State \in BatchStates
  BY <1>1 DEF SubTypes, S!State, BatchStates
<1>3. ASSUME NEW p \in S!Pairs PROVE PairSound(S!State, p)
  BY DEF S!Safe, S!NeverPaidAhead, S!ChangesDieWithSubscription, S!Active, PairSound, S!State
<1> QED BY <1>2, <1>3 DEF BatchSound, PausedSound, S!State

\* The terms of a running subscription are offered ones.
LEMMA TermsAreOffered ==
    ASSUME NEW st \in BatchStates, NEW p \in S!Pairs, S!SubscriptionsAssumption
    PROVE  /\ S!TermsNow(st, p).amount \in Pledges \cup {0}
           /\ S!TermsNow(st, p).interval \in Intervals \cup {0}
           /\ S!TermsNow(st, p).amount \in Nat /\ S!TermsNow(st, p).interval \in Nat
<1>1. st.change[p] \in ChangeRecords /\ st.subs[p] \in SubRecords
  BY DEF BatchStates
<1>2. Pledges \subseteq Nat /\ Intervals \subseteq Nat
  BY DEF S!SubscriptionsAssumption
<1>3. CASE st.change[p] # S!NoTerms
  <2>1. st.change[p] \in S!Terms /\ S!TermsNow(st, p) = st.change[p]
    BY <1>1, <1>3 DEF ChangeRecords, S!TermsNow
  <2> QED BY <1>2, <2>1 DEF S!Terms
<1>4. CASE st.change[p] = S!NoTerms
  <2>1. S!TermsNow(st, p) = [amount |-> st.subs[p].amount, interval |-> st.subs[p].interval]
    BY <1>4 DEF S!TermsNow
  <2>2. /\ st.subs[p].amount \in Pledges \cup {0} /\ st.subs[p].interval \in Intervals \cup {0}
    BY <1>1 DEF SubRecords
  <2>3. S!TermsNow(st, p).amount = st.subs[p].amount /\ S!TermsNow(st, p).interval = st.subs[p].interval
    BY <2>1
  <2>4. Pledges \cup {0} \subseteq Nat /\ Intervals \cup {0} \subseteq Nat
    BY <1>2
  <2> QED BY <2>2, <2>3, <2>4
<1> QED BY <1>3, <1>4

\* What the rate limiter counts stays within its bound.
LEMMA CountedStays ==
    ASSUME S!SubscriptionsAssumption, day \in 0 .. LastDay,
           NEW status \in RateRecords, S!WithinRate(status)
    PROVE  S!Counted(status) \in RateRecords
<1>1. MaxOps \in Nat /\ status.count \in Nat /\ status.at \in 0 .. LastDay
  BY DEF S!SubscriptionsAssumption, RateRecords
<1>2. CASE S!WindowOver(status)
  <2>1. S!Counted(status) = [count |-> 1, at |-> day]
    BY <1>2 DEF S!Counted
  <2>2. 1 \in 0 .. IF MaxOps = 0 THEN 1 ELSE MaxOps
    BY <1>1
  <2> QED BY <2>1, <2>2 DEF RateRecords
<1>3. CASE ~ S!WindowOver(status)
  <2>1. S!Counted(status) = [status EXCEPT !.count = @ + 1] /\ status.count < MaxOps
    BY <1>3 DEF S!Counted, S!WithinRate
  <2>2. status.count + 1 \in 0 .. IF MaxOps = 0 THEN 1 ELSE MaxOps
    BY <1>1, <2>1
  <2> QED BY <2>1, <2>2 DEF RateRecords
<1> QED BY <1>2, <1>3

\* A refused charge is counted, and may leave the guard behind.
LEMMA RefusedStays ==
    ASSUME S!SubscriptionsAssumption, day \in 0 .. LastDay,
           NEW st \in BatchSound, NEW p \in S!Pairs
    PROVE  S!RefusedCharge(st, p) \in BatchSound
<1> DEFINE s == p[1]
           status == st.rate[s]
<1>1. /\ st \in BatchStates /\ s \in Subscribers /\ status \in RateRecords
      /\ (\A q \in S!Pairs : PairSound(st, q)) /\ PausedSound(st)
  BY PairParts DEF BatchSound, BatchStates
<1>2. CASE halted \/ ~ S!WithinRate(status)
  BY <1>2 DEF S!RefusedCharge
<1>3. CASE ~ halted /\ S!WithinRate(status)
  <2> DEFINE counted == [st EXCEPT !.rate[s] = S!Counted(@)]
  <2>1. S!Counted(status) \in RateRecords
    BY <1>1, <1>3, CountedStays
  <2>2. PICK c \in RateRecords : c = S!Counted(status)
    BY <2>1
  <2>3. counted = [st EXCEPT !.rate = [st.rate EXCEPT ![s] = c]]
    BY <2>2 DEF BatchStates
  <2>4. [st.rate EXCEPT ![s] = c] \in [Subscribers -> RateRecords]
    BY <1>1 DEF BatchStates
  <2>5. PICK r \in [Subscribers -> RateRecords] : r = [st.rate EXCEPT ![s] = c]
    BY <2>4
  <2>6. counted = [st EXCEPT !.rate = r]
    BY <2>3, <2>5
  <2>7. S!RefusedCharge(st, p) = IF p[2] \notin accepting THEN counted ELSE [counted EXCEPT !.guard = TRUE]
    BY <1>3 DEF S!RefusedCharge
  <2> HIDE DEF counted
  <2>8. PICK g \in BOOLEAN : S!RefusedCharge(st, p) = [st EXCEPT !.rate = r, !.guard = g]
    <3>1. CASE p[2] \notin accepting
      <4>1. counted = [st EXCEPT !.rate = r, !.guard = st.guard] /\ st.guard \in BOOLEAN
        BY <1>1, <2>6 DEF BatchStates
      <4> QED BY <2>7, <3>1, <4>1
    <3>2. CASE p[2] \in accepting
      <4>1. [counted EXCEPT !.guard = TRUE] = [st EXCEPT !.rate = r, !.guard = TRUE]
        BY <1>1, <2>6 DEF BatchStates
      <4> QED BY <2>7, <3>2, <4>1
    <3> QED BY <3>1, <3>2
  <2> DEFINE n == [st EXCEPT !.rate = r, !.guard = g]
  <2>9. n \in BatchStates /\ n.subs = st.subs /\ n.change = st.change /\ n.wallet = st.wallet
    BY <1>1 DEF BatchStates
  <2> HIDE DEF n
  <2>10. (\A q \in S!Pairs : PairSound(n, q)) /\ PausedSound(n)
    BY <1>1, <2>9 DEF PairSound, PausedSound
  <2>11. n \in BatchSound
    BY <2>9, <2>10 DEF BatchSound
  <2> QED BY <2>8, <2>11 DEF n
<1> QED BY <1>2, <1>3

\* A charge moves its own pair one interval on, and no further than one interval from today.
LEMMA ChargeStays ==
    ASSUME S!SubscriptionsAssumption, day \in 0 .. LastDay,
           NEW st \in BatchSound, NEW p \in S!Pairs,
           S!IsDue(st.subs[p]), S!Chargeable(st, p)
    PROVE  S!Charge(st, p) \in BatchSound
<1> DEFINE s == p[1]
           status == st.rate[s]
           terms == S!TermsNow(st, p)
           sub == st.subs[p]
<1>1. /\ st \in BatchStates /\ s \in Subscribers /\ status \in RateRecords /\ sub \in SubRecords
      /\ (\A q \in S!Pairs : PairSound(st, q)) /\ PausedSound(st)
  BY PairParts DEF BatchSound, BatchStates
<1>2. /\ ~ halted /\ S!WithinRate(status) /\ terms.amount <= st.wallet[s]
      /\ sub.active /\ day >= sub.due
  BY DEF S!Chargeable, S!IsDue
<1>3. PICK c \in RateRecords : c = S!Counted(status)
  BY <1>1, <1>2, CountedStays
<1>4. PICK a \in Nat : a = terms.amount /\ a \in Pledges \cup {0}
  BY <1>1, TermsAreOffered
<1>5. PICK i \in Nat : i = terms.interval /\ i \in Intervals \cup {0}
  BY <1>1, TermsAreOffered
<1>6. st.wallet[s] - a \in 0 .. MaxWallet
  BY <1>1, <1>2, <1>4 DEF BatchStates, S!SubscriptionsAssumption
<1>7. sub.due \in Nat /\ sub.due + i \in Nat /\ sub.due + i <= day + i
  BY <1>1, <1>2 DEF SubRecords
<1> DEFINE new == [active |-> TRUE, amount |-> a, interval |-> i, due |-> sub.due + i]
           n == [st EXCEPT !.wallet = [st.wallet EXCEPT ![s] = st.wallet[s] - a],
                           !.rate = [st.rate EXCEPT ![s] = c],
                           !.guard = FALSE,
                           !.change = [st.change EXCEPT ![p] = S!NoTerms],
                           !.subs = [st.subs EXCEPT ![p] = new],
                           !.charged = st.charged + 1]
<1>8. S!Charge(st, p) = n
  BY <1>1, <1>3, <1>4, <1>5 DEF S!Charge, BatchStates
<1>9. new \in SubRecords /\ new.active /\ new.due = sub.due + i /\ new.interval = i
  BY <1>4, <1>5, <1>7 DEF SubRecords
<1> HIDE DEF new
<1>10. PICK w \in [Subscribers -> 0 .. MaxWallet] : w = [st.wallet EXCEPT ![s] = st.wallet[s] - a]
  BY <1>1, <1>6 DEF BatchStates
<1>11. PICK r \in [Subscribers -> RateRecords] : r = [st.rate EXCEPT ![s] = c]
  BY <1>1 DEF BatchStates
<1>12. PICK k \in [S!Pairs -> ChangeRecords] : k = [st.change EXCEPT ![p] = S!NoTerms]
  BY <1>1 DEF BatchStates, ChangeRecords
<1>13. PICK u \in [S!Pairs -> SubRecords] : u = [st.subs EXCEPT ![p] = new]
  BY <1>1, <1>9 DEF BatchStates
<1>14. n = [st EXCEPT !.wallet = w, !.rate = r, !.guard = FALSE, !.change = k, !.subs = u,
                      !.charged = st.charged + 1]
  BY <1>10, <1>11, <1>12, <1>13
<1> HIDE DEF n
<1>15. /\ n \in BatchStates /\ n.wallet = w /\ n.change = k /\ n.subs = u
  <2>1. PICK x \in Nat : x = st.charged + 1
    BY <1>1 DEF BatchStates
  <2>3. PICK y \in BOOLEAN : y = st.trapped
    BY <1>1 DEF BatchStates
  <2>2. n = [wallet |-> w, subs |-> u, change |-> k, rate |-> r, guard |-> FALSE, charged |-> x,
             trapped |-> y]
    BY <1>1, <1>14, <2>1, <2>3 DEF BatchStates
  <2> QED BY <2>2 DEF BatchStates
<1>16. ASSUME NEW q \in S!Pairs PROVE PairSound(n, q)
  <2>1. PairSound(st, q)
    BY <1>1
  <2>2. CASE q = p
    <3>1. n.subs[q] = new /\ n.change[q] = S!NoTerms
      BY <1>1, <1>12, <1>13, <1>15, <2>2 DEF BatchStates
    <3>2. subs[p].active
      BY <1>2, <2>1, <2>2, Zenon DEF PairSound
    <3>3. ~ (day < subs[p].due)
      <4>1. SUFFICES ASSUME day < subs[p].due PROVE FALSE
        OBVIOUS
      <4>2. sub = subs[p]
        BY <2>1, <2>2, <4>1, Zenon DEF PairSound
      <4>3. sub.due \in Nat /\ day \in Nat /\ day < sub.due /\ day >= sub.due
        BY <1>2, <1>7, <4>1, <4>2
      <4> QED BY <4>3
    <3> QED BY <1>7, <1>9, <2>2, <3>1, <3>2, <3>3 DEF PairSound
  <2>3. CASE q # p
    <3>1. n.subs[q] = st.subs[q] /\ n.change[q] = st.change[q]
      BY <1>1, <1>12, <1>13, <1>15, <2>3 DEF BatchStates
    <3> QED BY <2>1, <3>1 DEF PairSound
  <2> QED BY <2>2, <2>3
<1>17. PausedSound(n)
  BY <1>2 DEF PausedSound
<1> QED BY <1>8, <1>15, <1>16, <1>17 DEF BatchSound

LEMMA TurnStays ==
    ASSUME S!SubscriptionsAssumption, day \in 0 .. LastDay,
           NEW st \in BatchSound, NEW p \in S!Pairs, NEW limit
    PROVE  S!BatchTurn(st, p, limit) \in BatchSound
<1> DEFINE n == [st EXCEPT !.trapped = TRUE]
<1>1. n \in BatchStates /\ n.subs = st.subs /\ n.change = st.change /\ n.wallet = st.wallet
  BY DEF BatchSound, BatchStates
<1> HIDE DEF n
<1>2. (\A q \in S!Pairs : PairSound(n, q)) /\ PausedSound(n)
  BY <1>1 DEF BatchSound, PairSound, PausedSound
<1>3. n \in BatchSound
  BY <1>1, <1>2 DEF BatchSound
<1> QED BY <1>3, RefusedStays, ChargeStays DEF S!BatchTurn, n

\* The batch as a fold of turns.
TurnOf(limit) ==
  [step \in BatchSound \X (DOMAIN listed) |-> S!BatchTurn(step[1], listed[step[2]], limit)]
BatchFold(limit, f) ==
    f = [s \in SUBSET DOMAIN listed |->
           IF s = {} THEN S!State
           ELSE CHOOSE next \in {S!BatchTurn(st, listed[S!Max(s)], limit) : st \in {f[s \ {S!Max(s)}]}} : TRUE]

LEMMA BatchIsFold ==
    ASSUME NEW limit PROVE S!Batch(limit) = (CHOOSE f : BatchFold(limit, f))[DOMAIN listed]
BY Zenon DEF S!Batch, S!FoldLeft, S!MapThenFoldSet, BatchFold

LEMMA BatchStays ==
    ASSUME S!SubscriptionsAssumption, S!Safe, NEW limit
    PROVE  S!Batch(limit) \in BatchSound
<1> DEFINE D == DOMAIN listed
<1>0. SubTypes
  BY SubTypesAreTypes DEF S!Safe
<1>1. /\ IsFiniteSet(D) /\ D \in SUBSET D
      /\ \A i \in D : listed[i] \in S!Pairs
      /\ \A s \in SUBSET D : s # {} => Largest[s] \in s /\ Largest[s] \in D /\ Largest[s] = S!Max(s)
  BY <1>0, PlacesOfList DEF Largest, SubTypes
<1>2. S!State \in BatchSound
  BY StateIsSound
<1>3. ASSUME NEW st \in BatchSound, NEW i \in D PROVE TurnOf(limit)[<<st, i>>] \in BatchSound
  <2>1. TurnOf(limit)[<<st, i>>] = S!BatchTurn(st, listed[i], limit)
    BY DEF TurnOf
  <2>2. day \in 0 .. LastDay /\ listed[i] \in S!Pairs
    BY <1>0, <1>1 DEF SubTypes
  <2> QED BY <2>1, <2>2, TurnStays
<1>4. PICK g : /\ g = [s \in SUBSET D |-> g[s]]
               /\ \A s \in SUBSET D : g[s] \in BatchSound
               /\ Folding(D, Largest, g, S!State, TurnOf(limit))
  BY <1>1, <1>2, <1>3, FoldIs
<1>5. BatchFold(limit, g)
  <2>1. ASSUME NEW s \in SUBSET D
        PROVE  g[s] = IF s = {} THEN S!State
                      ELSE CHOOSE next \in {S!BatchTurn(st, listed[S!Max(s)], limit) :
                                              st \in {g[s \ {S!Max(s)}]}} : TRUE
    <3>1. CASE s = {}
      BY <1>4, <3>1 DEF Folding
    <3>2. CASE s # {}
      <4>1. S!Max(s) \in D /\ g[s \ {S!Max(s)}] \in BatchSound
        BY <1>1, <1>4, <3>2
      <4>2. g[s] = TurnOf(limit)[<<g[s \ {S!Max(s)}], S!Max(s)>>]
        BY <1>1, <1>4, <3>2 DEF Folding, Without
      <4>3. g[s] = S!BatchTurn(g[s \ {S!Max(s)}], listed[S!Max(s)], limit)
        BY <4>1, <4>2 DEF TurnOf
      <4>4. {S!BatchTurn(st, listed[S!Max(s)], limit) : st \in {g[s \ {S!Max(s)}]}} = {g[s]}
        BY <4>3
      <4> QED BY <3>2, <4>4
    <3> QED BY <3>1, <3>2
  <2> DEFINE e(s) == IF s = {} THEN S!State
                     ELSE CHOOSE next \in {S!BatchTurn(st, listed[S!Max(s)], limit) :
                                             st \in {g[s \ {S!Max(s)}]}} : TRUE
  <2>2. \A s \in SUBSET D : g[s] = e(s)
    BY <2>1
  <2>3. g = [s \in SUBSET D |-> e(s)]
    <3> HIDE DEF e
    <3> QED BY <1>4, <2>2
  <2> QED BY <2>3, Zenon DEF BatchFold
<1> DEFINE f == CHOOSE h : BatchFold(limit, h)
<1>6. BatchFold(limit, f)
  BY <1>5
<1>7. S!Batch(limit) = f[D]
  BY BatchIsFold
<1> HIDE DEF f
<1>8. ASSUME NEW s \in SUBSET D
      PROVE  f[s] = IF s = {} THEN S!State
                    ELSE CHOOSE next \in {S!BatchTurn(st, listed[S!Max(s)], limit) :
                                            st \in {f[s \ {S!Max(s)}]}} : TRUE
  BY <1>6 DEF BatchFold
<1> DEFINE T == [s \in SUBSET D |-> BatchSound]
<1>9. f[{}] \in T[{}]
  <2>1. {} \in SUBSET D /\ f[{}] = S!State
    BY <1>8, Zenon
  <2>2. T[{}] = BatchSound
    OBVIOUS
  <2> QED BY <1>2, <2>1, <2>2
<1>10. ASSUME NEW s \in SUBSET D, s # {}, f[Without(s, Largest[s])] \in T[Without(s, Largest[s])]
       PROVE  f[s] \in T[s]
  <2> DEFINE m == S!Max(s)
             b == f[s \ {m}]
  <2>1. m \in D /\ s \ {m} \in SUBSET D /\ Without(s, Largest[s]) = s \ {m}
    BY <1>1, <1>10 DEF Without
  <2>2. b \in BatchSound
    BY <1>10, <2>1
  <2>3. f[s] = CHOOSE next \in {S!BatchTurn(st, listed[m], limit) : st \in {b}} : TRUE
    BY <1>8, <1>10
  <2> HIDE DEF m, b
  <2>4. {S!BatchTurn(st, listed[m], limit) : st \in {b}} = {S!BatchTurn(b, listed[m], limit)}
    OBVIOUS
  <2>5. f[s] = S!BatchTurn(b, listed[m], limit)
    BY <2>3, <2>4
  <2>6. day \in 0 .. LastDay /\ listed[m] \in S!Pairs
    BY <1>0, <1>1, <2>1 DEF SubTypes
  <2>7. f[s] \in BatchSound
    BY <2>2, <2>5, <2>6, TurnStays
  <2> QED BY <2>7
<1>11. f[D] \in T[D]
  <2> HIDE DEF T
  <2> QED BY <1>1, <1>9, <1>10, FoldStays
<1> QED BY <1>1, <1>7, <1>11

-----------------------------------------------------------------------------
(* Every operation keeps the invariant, the terms of what is not due, and   *)
(* the pause.                                                               *)

SubInv ==
  /\ SubTypes
  /\ S!IsInjective(listed) /\ S!ToSet(listed) = {p \in S!Pairs : subs[p].active}
  /\ \A p \in S!Pairs : subs[p].active => subs[p].due <= day + subs[p].interval
  /\ \A p \in S!Pairs : change[p] # S!NoTerms => subs[p].active

LEMMA SubInvIsSafe == (SubInv <=> S!Safe) /\ (SubInv' <=> S!Safe')
BY DEF SubInv, S!Safe, S!TypeOK, SubTypes, SubRecords, ChangeRecords, RateRecords,
       S!ListedAreActive, S!NeverPaidAhead, S!ChangesDieWithSubscription, S!Active

TermsKept ==
  \A p \in S!Pairs : S!Active(p) /\ S!Active(p)' /\ day < subs[p].due => subs'[p] = subs[p]
PauseKept ==
  halted => \A p \in S!Pairs : wallet'[p[1]] >= wallet[p[1]] /\ subs'[p].due = subs[p].due
Kept == SubInv' /\ TermsKept /\ PauseKept

LEMMA SubInitInv == S!SubscriptionsAssumption /\ S!Init => SubInv
<1> SUFFICES ASSUME S!SubscriptionsAssumption, S!Init PROVE SubInv
  OBVIOUS
<1> USE DEF S!Init
<1>1. S!NoSub \in SubRecords /\ ~ S!NoSub.active
  BY DEF S!NoSub, SubRecords
<1>2. [count |-> 0, at |-> 0] \in RateRecords
  BY DEF RateRecords, S!SubscriptionsAssumption
<1>3. 0 \in 0 .. LastDay /\ MaxWallet \in 0 .. MaxWallet
  BY DEF S!SubscriptionsAssumption
<1>4. SubTypes
  <2>1. wallet \in [Subscribers -> 0 .. MaxWallet] /\ subs \in [S!Pairs -> SubRecords]
    BY <1>1, <1>3
  <2>2. change \in [S!Pairs -> ChangeRecords] /\ rate \in [Subscribers -> RateRecords]
    BY <1>2 DEF ChangeRecords
  <2>3. halted \in BOOLEAN /\ guard \in BOOLEAN
    BY Zenon
  <2>4. /\ listed \in Seq(S!Pairs) /\ day \in 0 .. LastDay /\ accepting \subseteq Creators
        /\ signed \subseteq Subscribers
    BY <1>3
  <2> QED BY <2>1, <2>2, <2>3, <2>4 DEF SubTypes
<1>5. S!IsInjective(<<>>) /\ S!ToSet(<<>>) = {}
  BY DEF S!IsInjective, S!ToSet
<1> QED BY <1>1, <1>4, <1>5 DEF SubInv

\* Money never shrinks in a step that leaves the purses alone.
LEMMA SamePurse ==
    ASSUME SubTypes, wallet' = wallet, subs' = subs PROVE PauseKept
<1>1. \A p \in S!Pairs : wallet[p[1]] \in Nat
  BY PairParts DEF SubTypes
<1> QED BY <1>1 DEF PauseKept

LEMMA DayKeeps == ASSUME S!SubscriptionsAssumption, SubInv, S!NewDay PROVE Kept
<1>1. /\ day' \in 0 .. LastDay /\ day' = day + 1 /\ day \in Nat
      /\ UNCHANGED <<halted, accepting, wallet, subs, change, listed, rate, guard, signed>>
  BY DEF SubInv, SubTypes, S!NewDay, S!SubscriptionsAssumption
<1>2. SubTypes'
  BY <1>1 DEF SubInv, SubTypes
<1>3. \A p \in S!Pairs : subs[p].active => subs[p].due <= day' + subs[p].interval
  <2>1. \A p \in S!Pairs : subs[p].due \in Nat /\ subs[p].interval \in Nat
    <3>1. Intervals \cup {0} \subseteq Nat
      BY DEF S!SubscriptionsAssumption
    <3>2. \A p \in S!Pairs : subs[p] \in SubRecords
      BY DEF SubInv, SubTypes
    <3> QED BY <3>1, <3>2 DEF SubRecords
  <2> QED BY <1>1, <2>1 DEF SubInv
<1>4. SubInv'
  BY <1>1, <1>2, <1>3 DEF SubInv
<1>5. PauseKept
  BY <1>1, SamePurse DEF SubInv
<1> QED BY <1>1, <1>4, <1>5 DEF Kept, TermsKept

LEMMA SwitchKeeps ==
    ASSUME SubInv, S!SetPaused \/ (\E c \in Creators : S!SetAccepting(c)) PROVE Kept
<1>1. /\ halted' \in BOOLEAN /\ accepting' \subseteq Creators
      /\ UNCHANGED <<day, wallet, subs, change, listed, rate, guard, signed>>
  <2>1. CASE S!SetPaused
    BY <2>1 DEF SubInv, SubTypes, S!SetPaused
  <2>2. ASSUME NEW c \in Creators, S!SetAccepting(c)
        PROVE  /\ halted' \in BOOLEAN /\ accepting' \subseteq Creators
               /\ UNCHANGED <<day, wallet, subs, change, listed, rate, guard, signed>>
    <3>1. accepting' = accepting \ {c} \/ accepting' = accepting \cup {c}
      BY <2>2 DEF S!SetAccepting
    <3>2. halted \in BOOLEAN /\ accepting \subseteq Creators
      BY DEF SubInv, SubTypes
    <3>3. UNCHANGED <<day, halted, wallet, subs, change, listed, rate, guard, signed>>
      BY <2>2 DEF S!SetAccepting
    <3>4. accepting' \subseteq Creators
      BY <3>1, <3>2
    <3>5. halted' \in BOOLEAN
      BY <3>2, <3>3, Zenon
    <3> QED BY <3>3, <3>4, <3>5
  <2> QED BY <2>1, <2>2
<1>2. SubInv'
  BY <1>1 DEF SubInv, SubTypes
<1>3. PauseKept
  BY <1>1, SamePurse DEF SubInv
<1> QED BY <1>1, <1>2, <1>3 DEF Kept, TermsKept

LEMMA TopUpKeeps ==
    ASSUME S!SubscriptionsAssumption, SubInv, NEW s \in Subscribers, S!TopUp(s) PROVE Kept
<1>1. /\ wallet' = [wallet EXCEPT ![s] = MaxWallet] /\ wallet \in [Subscribers -> 0 .. MaxWallet]
      /\ UNCHANGED <<day, halted, accepting, subs, change, listed, rate, guard, signed>>
      /\ MaxWallet \in Nat
  BY DEF SubInv, SubTypes, S!TopUp, S!SubscriptionsAssumption
<1>2. SubInv'
  BY <1>1 DEF SubInv, SubTypes
<1>3. \A x \in Subscribers : wallet'[x] >= wallet[x]
  BY <1>1
<1> QED BY <1>1, <1>2, <1>3, PairParts DEF Kept, TermsKept, PauseKept

LEMMA SignKeeps ==
    ASSUME SubInv, NEW s \in Subscribers, S!SetSigned(s) PROVE Kept
<1>1. /\ signed' = signed \ {s} \/ signed' = signed \cup {s}
      /\ UNCHANGED <<day, halted, accepting, wallet, subs, change, listed, rate, guard>>
  BY DEF S!SetSigned
<1>2. signed' \subseteq Subscribers
  BY <1>1 DEF SubInv, SubTypes
<1>3. SubInv'
  BY <1>1, <1>2 DEF SubInv, SubTypes
<1>4. PauseKept
  BY <1>1, SamePurse DEF SubInv
<1> QED BY <1>1, <1>3, <1>4 DEF Kept, TermsKept

LEMMA TermParts ==
    ASSUME NEW terms \in S!Terms PROVE terms.amount \in Pledges /\ terms.interval \in Intervals
BY DEF S!Terms

LEMMA CreateKeeps ==
    ASSUME S!SubscriptionsAssumption, SubInv, NEW p \in S!Pairs, NEW terms \in S!Terms,
           S!CreateSubscription(p, terms)
    PROVE  Kept
<1> DEFINE new == [active |-> TRUE, amount |-> terms.amount, interval |-> terms.interval,
                   due |-> day + terms.interval]
<1>1. /\ ~ halted /\ ~ subs[p].active /\ subs' = [subs EXCEPT ![p] = new] /\ listed' = Append(listed, p)
      /\ UNCHANGED <<day, halted, accepting, wallet, change, rate, guard, signed>>
  BY DEF S!CreateSubscription, S!Active
<1>2. new \in SubRecords /\ new.active /\ new.due = day + new.interval
  <2>1. terms.amount \in Pledges /\ terms.interval \in Intervals /\ terms.interval \in Nat /\ day \in Nat
    <3>1. terms.amount \in Pledges /\ terms.interval \in Intervals
      BY TermParts
    <3>2. Intervals \subseteq Nat
      BY DEF S!SubscriptionsAssumption
    <3>3. day \in Nat
      BY DEF SubInv, SubTypes
    <3> QED BY <3>1, <3>2, <3>3
  <2> QED BY <2>1 DEF SubRecords
<1> HIDE DEF new
<1>3. /\ listed' \in Seq(S!Pairs) /\ S!IsInjective(listed') /\ S!ToSet(listed') = S!ToSet(listed) \cup {p}
  <2>1. listed \in Seq(S!Pairs) /\ S!IsInjective(listed) /\ p \notin S!ToSet(listed)
    BY <1>1 DEF SubInv, SubTypes
  <2> QED BY <1>1, <2>1, AppendedOnce
<1>4. SubTypes'
  BY <1>1, <1>2, <1>3 DEF SubInv, SubTypes
<1>5. \A q \in S!Pairs : subs'[q] = IF q = p THEN new ELSE subs[q]
  BY <1>1 DEF SubInv, SubTypes
<1>6. day + new.interval <= day + new.interval
  BY <1>2 DEF SubRecords, SubInv, SubTypes, S!SubscriptionsAssumption
<1>7. SubInv'
  <2>1. S!ToSet(listed') = {q \in S!Pairs : subs'[q].active}
    BY <1>2, <1>3, <1>5 DEF SubInv
  <2>2. \A q \in S!Pairs : subs'[q].active => subs'[q].due <= day + subs'[q].interval
    BY <1>2, <1>5, <1>6 DEF SubInv
  <2>3. \A q \in S!Pairs : change[q] # S!NoTerms => subs'[q].active
    BY <1>2, <1>5 DEF SubInv
  <2> QED BY <1>1, <1>3, <1>4, <2>1, <2>2, <2>3 DEF SubInv
<1>8. TermsKept
  BY <1>1, <1>5 DEF TermsKept, S!Active
<1> QED BY <1>1, <1>7, <1>8 DEF Kept, PauseKept

LEMMA ChangeKeeps ==
    ASSUME SubInv, NEW p \in S!Pairs, NEW terms \in S!Terms, S!ChangeSubscription(p, terms)
    PROVE  Kept
<1>1. /\ subs[p].active /\ change' = [change EXCEPT ![p] = terms]
      /\ UNCHANGED <<day, halted, accepting, wallet, subs, listed, rate, guard, signed>>
  BY DEF S!ChangeSubscription, S!Active, S!TermsAside
<1>2. change' \in [S!Pairs -> ChangeRecords] /\ \A q \in S!Pairs : q # p => change'[q] = change[q]
  BY <1>1 DEF SubInv, SubTypes, ChangeRecords
<1>3. SubInv'
  BY <1>1, <1>2 DEF SubInv, SubTypes
<1>4. PauseKept
  BY <1>1, SamePurse DEF SubInv
<1> QED BY <1>1, <1>3, <1>4 DEF Kept, TermsKept

LEMMA CancelKeeps ==
    ASSUME SubInv, NEW p \in S!Pairs, S!CancelSubscription(p) PROVE Kept
<1>1. /\ ~ halted /\ change' = [change EXCEPT ![p] = S!NoTerms]
      /\ subs' = [subs EXCEPT ![p].active = FALSE] /\ listed' = S!Unlisted(p)
      /\ UNCHANGED <<day, halted, accepting, wallet, rate, guard, signed>>
  BY DEF S!CancelSubscription, S!Discarded
<1>2. listed \in Seq(S!Pairs) /\ S!IsInjective(listed) /\ subs \in [S!Pairs -> SubRecords]
      /\ change \in [S!Pairs -> ChangeRecords]
  BY DEF SubInv, SubTypes
<1>3. /\ listed' \in Seq(S!Pairs) /\ S!IsInjective(listed') /\ S!ToSet(listed') = S!ToSet(listed) \ {p}
  BY <1>1, <1>2, UnlistedStays
<1>4. PICK sub \in SubRecords : sub = [subs[p] EXCEPT !.active = FALSE] /\ ~ sub.active
  <2>1. subs[p] \in SubRecords
    BY <1>2
  <2>2. [subs[p] EXCEPT !.active = FALSE] \in SubRecords
    BY <2>1 DEF SubRecords
  <2>3. ~ [subs[p] EXCEPT !.active = FALSE].active
    BY <2>1 DEF SubRecords
  <2> QED BY <2>2, <2>3
<1>5. subs' = [subs EXCEPT ![p] = sub]
  BY <1>1, <1>2, <1>4
<1>6. /\ subs' \in [S!Pairs -> SubRecords] /\ change' \in [S!Pairs -> ChangeRecords]
      /\ \A q \in S!Pairs : subs'[q] = IF q = p THEN sub ELSE subs[q]
      /\ \A q \in S!Pairs : change'[q] = IF q = p THEN S!NoTerms ELSE change[q]
  BY <1>1, <1>2, <1>5 DEF ChangeRecords
<1>7. SubTypes'
  BY <1>1, <1>3, <1>6 DEF SubInv, SubTypes
<1>8. SubInv'
  <2>1. S!ToSet(listed') = {q \in S!Pairs : subs'[q].active}
    BY <1>3, <1>4, <1>6 DEF SubInv
  <2>2. \A q \in S!Pairs : subs'[q].active => subs'[q].due <= day + subs'[q].interval
    BY <1>4, <1>6 DEF SubInv
  <2>3. \A q \in S!Pairs : change'[q] # S!NoTerms => subs'[q].active
    BY <1>6 DEF SubInv
  <2> QED BY <1>1, <1>3, <1>7, <2>1, <2>2, <2>3 DEF SubInv
<1>9. TermsKept
  BY <1>4, <1>6 DEF TermsKept, S!Active
<1> QED BY <1>1, <1>8, <1>9 DEF Kept, PauseKept

\* What is committed from a sound state of the batch keeps all of it.
LEMMA CommitKeeps ==
    ASSUME SubInv, NEW st \in BatchSound, S!Commit(st) PROVE Kept
<1>1. /\ wallet' = st.wallet /\ subs' = st.subs /\ change' = st.change /\ rate' = st.rate
      /\ guard' = st.guard /\ UNCHANGED <<day, halted, accepting, listed, signed>>
  BY DEF S!Commit
<1>2. st \in BatchStates /\ (\A p \in S!Pairs : PairSound(st, p)) /\ PausedSound(st)
  BY DEF BatchSound
<1>3. SubTypes'
  BY <1>1, <1>2 DEF SubInv, SubTypes, BatchStates
<1>4. \A p \in S!Pairs : subs'[p].active = subs[p].active
  BY <1>1, <1>2 DEF PairSound
<1>5. S!ToSet(listed') = {p \in S!Pairs : subs'[p].active}
  BY <1>1, <1>4 DEF SubInv
<1>6. SubInv'
  <2>1. \A p \in S!Pairs : subs'[p].active => subs'[p].due <= day + subs'[p].interval
    BY <1>1, <1>2 DEF PairSound
  <2>2. \A p \in S!Pairs : change'[p] # S!NoTerms => subs'[p].active
    BY <1>1, <1>2 DEF PairSound
  <2> QED BY <1>1, <1>3, <1>5, <2>1, <2>2 DEF SubInv
<1>7. TermsKept
  BY <1>1, <1>2 DEF TermsKept, PairSound
<1>8. PauseKept
  <2>1. CASE halted
    BY <1>1, <1>2, <2>1, SamePurse DEF SubInv, PausedSound
  <2>2. CASE ~ halted
    BY <2>2 DEF PauseKept
  <2> QED BY <2>1, <2>2
<1> QED BY <1>6, <1>7, <1>8 DEF Kept

LEMMA SubNextKeeps ==
    ASSUME S!SubscriptionsAssumption, SubInv, [S!Next]_(S!vars) PROVE Kept
<1>1. CASE S!NewDay
  BY <1>1, DayKeeps
<1>2. CASE S!SetPaused \/ \E c \in Creators : S!SetAccepting(c)
  BY <1>2, SwitchKeeps
<1>3. ASSUME NEW s \in Subscribers, S!TopUp(s) \/ S!SetSigned(s) PROVE Kept
  BY <1>3, TopUpKeeps, SignKeeps
<1>4. ASSUME NEW p \in S!Pairs, NEW terms \in S!Terms,
             S!CreateSubscription(p, terms) \/ S!ChangeSubscription(p, terms)
      PROVE  Kept
  BY <1>4, CreateKeeps, ChangeKeeps
<1>5. ASSUME NEW p \in S!Pairs, S!CancelSubscription(p) PROVE Kept
  BY <1>5, CancelKeeps
<1>6. ASSUME NEW p \in S!Pairs, S!ExecuteDueSubscription(p) PROVE Kept
  <2>1. S!IsDue(subs[p]) /\ S!Chargeable(S!State, p) /\ S!Commit(S!Charge(S!State, p))
    BY <1>6 DEF S!ExecuteDueSubscription
  <2>2. S!State \in BatchSound /\ S!State.subs[p] = subs[p] /\ day \in 0 .. LastDay
    BY SubInvIsSafe, StateIsSound DEF SubInv, SubTypes, S!State
  <2>3. S!Charge(S!State, p) \in BatchSound
    BY <2>1, <2>2, ChargeStays
  <2> QED BY <2>1, <2>3, CommitKeeps
<1>7. ASSUME NEW limit \in BatchLimits, S!ExecuteSubscriptions(limit) PROVE Kept
  <2>1. S!Batch(limit) \in BatchSound
    BY SubInvIsSafe, BatchStays
  <2>2. S!Commit(S!Batch(limit))
    BY <1>7 DEF S!ExecuteSubscriptions
  <2> QED BY <2>1, <2>2, CommitKeeps
<1>8. CASE UNCHANGED S!vars
  <2>1. UNCHANGED <<day, halted, accepting, wallet, subs, change, listed, rate, guard, signed>>
    BY <1>8 DEF S!vars
  <2>2. SubInv'
    BY <2>1 DEF SubInv, SubTypes
  <2>3. PauseKept
    BY <2>1, SamePurse DEF SubInv
  <2> QED BY <2>1, <2>2, <2>3 DEF Kept, TermsKept
<1> QED BY <1>1, <1>2, <1>3, <1>4, <1>5, <1>6, <1>7, <1>8 DEF S!Next

-----------------------------------------------------------------------------
(* The circuit breaker.  The invariant compares what the slots of the ring    *)
(* hold with what was taken: P are the partial sums over time of what was     *)
(* taken.  What the slots hold from some time on was taken from then on; and, *)
(* from the start of any block the ring can still hold, everything taken is   *)
(* in a slot.                                                                 *)

\* The starts or the volumes of n slots, and what becomes of them when one is set.
Ring(n) == [1 .. n -> Nat]
With(f, s, x) == [f EXCEPT ![s] = x]

\* What the slots that begin at a time or later hold together.
HeldFrom(n, st, vol, from) ==
  SumTo([i \in 1 .. n |-> IF st[i] >= from THEN vol[i] ELSE 0], n)

\* A slot is empty, or holds a block of its own place in the ring that has begun.
SlotsInPlace(n, secs, st, vol, at) ==
  \A i \in 1 .. n :
    \/ st[i] = 0 /\ vol[i] = 0
    \/ st[i] <= at /\ \E k \in Nat : st[i] = k * secs /\ k % n = i - 1

CountedOnce(n, st, vol, P, at) ==
  \A from \in 1 .. at + 1 : HeldFrom(n, st, vol, from) <= P[at] - P[from - 1]

AllCounted(n, secs, st, vol, P, at) ==
  \A k \in 1 .. at \div secs :
    k > (at \div secs) - n => P[at] - P[k * secs - 1] <= HeldFrom(n, st, vol, k * secs)

MemoryOf(c) ==
  LET kept == (c.buckets - 1) * B!BucketSecs(c) IN IF kept < c.window THEN kept ELSE c.window
Limited(c, P, at) == P[at] - P[at - MemoryOf(c) - 1] <= c.threshold

\* What was taken, for every natural number and not only for the times of the model.
Daily(f) == [i \in Nat |-> IF i \in B!Times THEN f[i] ELSE 0]

RingInv(c, st, vol, P, at) ==
  /\ SlotsInPlace(c.buckets, B!BucketSecs(c), st, vol, at)
  /\ CountedOnce(c.buckets, st, vol, P, at)
  /\ AllCounted(c.buckets, B!BucketSecs(c), st, vol, P, at)
  /\ Limited(c, P, at)

BreakerInv ==
  /\ B!TypeOK
  /\ \A t \in B!Times : t > time => taken[t] = 0
  /\ setting.enabled => RingInv(setting, starts, volumes, PrefixSums(Daily(taken)), time)

LEMMA HeldIsNat ==
  ASSUME NEW n \in Nat, NEW st \in Ring(n), NEW vol \in Ring(n), NEW from \in Int
  PROVE  HeldFrom(n, st, vol, from) \in Int /\ HeldFrom(n, st, vol, from) >= 0
<1> DEFINE f == [i \in 1 .. n |-> IF st[i] >= from THEN vol[i] ELSE 0]
           z == [i \in 1 .. n |-> 0]
<1>1. f \in [1 .. n -> Int] /\ z \in [1 .. n -> Int] /\ \A i \in 1 .. n : z[i] <= f[i] /\ z[i] = 0
  BY DEF Ring
<1>2. HeldFrom(n, st, vol, from) = SumTo(f, n)
  BY DEF HeldFrom
<1> HIDE DEF f, z
<1>3. SumTo(z, n) = 0 /\ SumTo(z, n) <= SumTo(f, n) /\ SumTo(f, n) \in Int
  BY <1>1, SumToZero, SumToMonotone, SumToInt
<1> QED BY <1>2, <1>3

\* One slot is given another start and another volume.
Part(start, volume, from) == IF start >= from THEN volume ELSE 0

LEMMA HeldChanges ==
  ASSUME NEW n \in Nat, NEW st \in Ring(n), NEW vol \in Ring(n), NEW from \in Int,
         NEW s \in 1 .. n, NEW b \in Nat, NEW v \in Nat,
         NEW st2, st2 = With(st, s, b), NEW vol2, vol2 = With(vol, s, v)
  PROVE  HeldFrom(n, st2, vol2, from)
         = HeldFrom(n, st, vol, from) - Part(st[s], vol[s], from) + Part(b, v, from)
<1> DEFINE f == [i \in 1 .. n |-> IF st[i] >= from THEN vol[i] ELSE 0]
           g == [i \in 1 .. n |-> IF st2[i] >= from THEN vol2[i] ELSE 0]
<1>1. f \in [1 .. n -> Int] /\ g \in [1 .. n -> Int]
  BY DEF Ring, With
<1>2. \A i \in (1 .. n) \ {s} : g[i] = f[i]
  BY DEF Ring, With
<1>3. f[s] = Part(st[s], vol[s], from) /\ g[s] = Part(b, v, from)
  BY DEF Part, Ring, With
<1>4. HeldFrom(n, st, vol, from) = SumTo(f, n) /\ HeldFrom(n, st2, vol2, from) = SumTo(g, n)
  BY DEF HeldFrom
<1> HIDE DEF f, g
<1>5. SumTo(g, n) = SumTo(f, n) - f[s] + g[s]
  BY <1>1, <1>2, SumToChange
<1> QED BY <1>3, <1>4, <1>5

\* Less is held from later on.
LEMMA HeldLater ==
  ASSUME NEW n \in Nat, NEW st \in Ring(n), NEW vol \in Ring(n),
         NEW from \in Int, NEW later \in Int, from <= later
  PROVE  HeldFrom(n, st, vol, later) <= HeldFrom(n, st, vol, from)
<1> DEFINE f == [i \in 1 .. n |-> IF st[i] >= later THEN vol[i] ELSE 0]
           g == [i \in 1 .. n |-> IF st[i] >= from THEN vol[i] ELSE 0]
<1>1. f \in [1 .. n -> Int] /\ g \in [1 .. n -> Int] /\ \A i \in 1 .. n : f[i] <= g[i]
  BY DEF Ring
<1>2. HeldFrom(n, st, vol, later) = SumTo(f, n) /\ HeldFrom(n, st, vol, from) = SumTo(g, n)
  BY DEF HeldFrom
<1> HIDE DEF f, g
<1> QED BY <1>1, <1>2, SumToMonotone

LEMMA HeldNothing ==
  ASSUME NEW n \in Nat, NEW st \in Ring(n), NEW vol \in Ring(n), NEW from \in Int,
         \A i \in 1 .. n : st[i] < from \/ vol[i] = 0
  PROVE  HeldFrom(n, st, vol, from) = 0
<1> DEFINE f == [i \in 1 .. n |-> IF st[i] >= from THEN vol[i] ELSE 0]
<1>1. f \in [1 .. n -> Int] /\ \A i \in 1 .. n : f[i] = 0
  BY DEF Ring
<1>2. HeldFrom(n, st, vol, from) = SumTo(f, n)
  BY DEF HeldFrom
<1> HIDE DEF f
<1> QED BY <1>1, <1>2, SumToZero

LEMMA WithIs ==
  ASSUME NEW n \in Nat, NEW f \in Ring(n), NEW s \in 1 .. n, NEW x \in Nat
  PROVE  /\ With(f, s, x) \in Ring(n) /\ With(f, s, x)[s] = x
         /\ \A i \in 1 .. n : i # s => With(f, s, x)[i] = f[i]
         /\ \A i \in 1 .. n : f[i] \in Nat
         /\ f[s] = x => With(f, s, x) = f
         /\ \A y \in Nat : With(With(f, s, x), s, y) = With(f, s, y)
BY DEF Ring, With

-----------------------------------------------------------------------------
(* Blocks of time, and the slots they are kept in.                           *)

LEMMA Division ==
  ASSUME NEW a \in Nat, NEW n \in Nat \ {0}
  PROVE  /\ a \div n \in Nat /\ a % n \in 0 .. n - 1
         /\ a = n * (a \div n) + (a % n)
OBVIOUS

LEMMA Multiples ==
  ASSUME NEW a \in Nat, NEW b \in Nat, NEW n \in Nat \ {0}, a < b
  PROVE  a * n \in Nat /\ b * n \in Nat /\ a * n <= b * n - n
OBVIOUS

\* An earlier block of the same slot is a round of the ring earlier.
LEMMA RoundsApart ==
  ASSUME NEW a \in Nat, NEW b \in Nat, NEW n \in Nat \ {0}, a < b, a % n = b % n
  PROVE  a <= b - n
<1>1. PICK q \in Nat, r \in 0 .. n - 1 : a = n * q + r /\ r = a % n
  BY Division
<1>2. PICK p \in Nat, s \in 0 .. n - 1 : b = n * p + s /\ s = b % n
  BY Division
<1>3. r = s
  BY <1>1, <1>2
<1>4. n * q < n * p
  BY <1>1, <1>2, <1>3
<1>5. q < p
  BY <1>4
<1>6. q * n <= p * n - n
  BY <1>5, Multiples
<1> QED BY <1>1, <1>2, <1>3, <1>6

\* The block a time lies in.
LEMMA BlockOf ==
  ASSUME NEW t \in Nat, NEW b \in Nat \ {0}
  PROVE  /\ t \div b \in Nat /\ (t \div b) * b \in Nat
         /\ (t \div b) * b <= t /\ t < (t \div b) * b + b
BY Division

LEMMA BlocksFollow ==
  ASSUME NEW t \in Nat, NEW u \in Nat, NEW b \in Nat \ {0}, t <= u
  PROVE  t \div b <= u \div b
<1>1. (t \div b) * b <= t /\ u < (u \div b) * b + b /\ t \div b \in Nat /\ u \div b \in Nat
  BY BlockOf
<1>2. u \div b < t \div b => (u \div b) * b <= (t \div b) * b - b
  BY <1>1, Multiples
<1>3. (t \div b) * b \in Nat /\ (u \div b) * b \in Nat
  BY BlockOf
<1> QED BY <1>1, <1>2, <1>3

LEMMA BlocksBack ==
  ASSUME NEW h \in Nat, NEW n \in Nat, NEW b \in Nat, NEW k, k = h - n + 1
  PROVE  k * b = h * b - (n * b - b)
<1>1. h * b \in Int /\ n * b \in Int
  OBVIOUS
<1>2. (h - n + 1) * b = h * b - n * b + b
  OBVIOUS
<1> QED BY <1>1, <1>2

\* A configuration that is switched on: its buckets fill the window at most, or are a second each.
LEMMA SecsFit ==
  ASSUME B!CircuitBreakerAssumption, NEW c \in BreakerConfigs, c.enabled
  PROVE  /\ c.buckets \in Nat \ {0} /\ c.window \in Nat \ {0} /\ c.threshold \in Nat
         /\ c.window < Genesis /\ Genesis \in Nat
         /\ B!BucketSecs(c) \in Nat \ {0}
         /\ \/ c.buckets * B!BucketSecs(c) <= c.window
            \/ B!BucketSecs(c) = 1 /\ c.window < c.buckets
<1>1. /\ c.buckets \in Nat \ {0} /\ c.window \in Nat \ {0} /\ c.threshold \in Nat
      /\ c.window < Genesis /\ Genesis \in Nat
  BY DEF B!CircuitBreakerAssumption, B!ConfigType
<1>2. PICK w \in Nat \ {0}, n \in Nat \ {0} : w = c.window /\ n = c.buckets
  BY <1>1
<1>3. PICK q \in Nat, r \in 0 .. n - 1 : q = w \div n /\ w = n * q + r
  BY Division
<1>4. CASE q = 0
  <2>1. B!BucketSecs(c) = 1
    BY <1>2, <1>3, <1>4 DEF B!BucketSecs
  <2>2. w < n
    BY <1>3, <1>4
  <2> QED BY <1>1, <1>2, <2>1, <2>2
<1>5. CASE q # 0
  <2>1. B!BucketSecs(c) = q
    BY <1>2, <1>3, <1>5 DEF B!BucketSecs
  <2>2. n * q <= w
    BY <1>3
  <2> QED BY <1>1, <1>2, <1>5, <2>1, <2>2
<1> QED BY <1>4, <1>5

\* The time the ring remembers begins in a block that the ring still holds and the window counts.
LEMMA MemoryFits ==
  ASSUME B!CircuitBreakerAssumption, NEW c \in BreakerConfigs, c.enabled,
         NEW at \in Nat, at >= Genesis
  PROVE  /\ MemoryOf(c) \in Nat /\ at - MemoryOf(c) - 1 \in Nat
         /\ \E k \in 1 .. at \div B!BucketSecs(c) :
               /\ k > (at \div B!BucketSecs(c)) - c.buckets
               /\ k * B!BucketSecs(c) <= at - MemoryOf(c)
               /\ at - c.window <= k * B!BucketSecs(c)
<1>1. /\ c.buckets \in Nat \ {0} /\ c.window \in Nat \ {0}
      /\ c.window < Genesis /\ Genesis \in Nat
      /\ B!BucketSecs(c) \in Nat \ {0}
      /\ \/ c.buckets * B!BucketSecs(c) <= c.window
         \/ B!BucketSecs(c) = 1 /\ c.window < c.buckets
  BY SecsFit
<1> DEFINE b == B!BucketSecs(c)
           n == c.buckets
<1>2. PICK m \in Nat : m = (n - 1) * b /\ m = n * b - b
  BY <1>1
<1>3. MemoryOf(c) = IF m < c.window THEN m ELSE c.window
  BY <1>2 DEF MemoryOf
<1>4. PICK h \in Nat : h = at \div b /\ h * b \in Nat /\ h * b <= at /\ at < h * b + b
  BY <1>1, BlockOf
<1> HIDE DEF b, n
<1>5. b \in Nat \ {0} /\ n \in Nat \ {0} /\ n = c.buckets
      /\ (n * b <= c.window \/ (b = 1 /\ c.window < n))
  BY <1>1 DEF b, n
<1>6. CASE n * b <= c.window
  <2>1. MemoryOf(c) = m /\ n * b \in Nat
    BY <1>1, <1>2, <1>3, <1>5, <1>6
  <2>2. n <= h
    <3>0. n * b < at
      BY <1>1, <1>6, <2>1
    <3>1. n * b < h * b + b
      BY <1>4, <1>5, <2>1, <3>0
    <3>2. h < n => h * b <= n * b - b
      BY <1>4, <1>5, Multiples
    <3>3. h * b + b <= n * b \/ n <= h
      BY <1>4, <1>5, <2>1, <3>2
    <3> QED BY <1>4, <1>5, <2>1, <3>1, <3>3
  <2>3. PICK k \in 1 .. h : k = h - n + 1
    BY <1>4, <1>5, <2>2
  <2>4. k * b = h * b - m
    <3>1. h \in Nat /\ n \in Nat /\ b \in Nat /\ k = h - n + 1
      BY <1>4, <1>5, <2>3
    <3>2. k * b = h * b - (n * b - b)
      BY <3>1, BlocksBack
    <3>3. m = n * b - b
      BY <1>2 DEF b, n
    <3>4. h * b \in Int /\ n * b \in Int /\ b \in Int
      BY <3>1
    <3> QED BY <3>2, <3>3, <3>4
  <2>5. k * b <= at - m /\ at - c.window <= k * b /\ at - m - 1 \in Nat
    BY <1>1, <1>2, <1>4, <1>5, <1>6, <2>1, <2>4
  <2> QED BY <1>4, <1>5, <2>1, <2>3, <2>5 DEF b
<1>7. CASE b = 1 /\ c.window < n
  <2>1. MemoryOf(c) = c.window
    BY <1>1, <1>2, <1>3, <1>5, <1>7
  <2>2. h = at
    BY <1>4, <1>7
  <2>3. PICK k \in 1 .. h : k = at - c.window
    BY <1>1, <2>2
  <2> QED BY <1>1, <1>4, <1>5, <1>7, <2>1, <2>2, <2>3 DEF b
<1> QED BY <1>5, <1>6, <1>7

-----------------------------------------------------------------------------
(* What a withdrawal does to the ring.                                       *)

\* The slot of the current block, and what the ring holds once that slot is its own.
SlotNow(n, secs, at) == ((at \div secs) % n) + 1
Started(n, secs, st, at) == With(st, SlotNow(n, secs, at), (at \div secs) * secs)
Emptied(n, secs, st, vol, at) ==
  IF st[SlotNow(n, secs, at)] # (at \div secs) * secs
  THEN With(vol, SlotNow(n, secs, at), 0) ELSE vol

LEMMA SlotIs ==
  ASSUME NEW n \in Nat \ {0}, NEW secs \in Nat \ {0}, NEW at \in Nat
  PROVE  /\ SlotNow(n, secs, at) \in 1 .. n /\ SlotNow(n, secs, at) - 1 = (at \div secs) % n
<1>1. at \div secs \in Nat
  BY Division
<1>2. (at \div secs) % n \in 0 .. n - 1
  BY <1>1, Division
<1> QED BY <1>2 DEF SlotNow

LEMMA RenewedHoldsLess ==
  ASSUME NEW n \in Nat \ {0}, NEW secs \in Nat \ {0}, NEW at \in Nat, NEW from \in Int,
         NEW st \in Ring(n), NEW vol \in Ring(n)
  PROVE  /\ Started(n, secs, st, at) \in Ring(n)
         /\ Emptied(n, secs, st, vol, at) \in Ring(n)
         /\ HeldFrom(n, Started(n, secs, st, at), Emptied(n, secs, st, vol, at), from)
              <= HeldFrom(n, st, vol, from)
<1>1. PICK s \in 1 .. n : s = SlotNow(n, secs, at)
  BY SlotIs
<1>2. PICK b \in Nat : b = (at \div secs) * secs
  BY BlockOf
<1>3. Started(n, secs, st, at) = With(st, s, b) /\ With(st, s, b) \in Ring(n)
  BY <1>1, <1>2, WithIs DEF Started
<1>4. HeldFrom(n, st, vol, from) \in Int
  BY HeldIsNat
<1>5. CASE st[s] # b
  <2> DEFINE z == 0
  <2>1. Emptied(n, secs, st, vol, at) = With(vol, s, z) /\ z \in Nat /\ z = 0
    BY <1>1, <1>2, <1>5 DEF Emptied
  <2> HIDE DEF z
  <2>2. HeldFrom(n, With(st, s, b), With(vol, s, z), from)
        = HeldFrom(n, st, vol, from) - Part(st[s], vol[s], from) + Part(b, z, from)
    BY <1>1, <1>2, <2>1, HeldChanges
  <2>3. Part(b, z, from) = 0 /\ Part(st[s], vol[s], from) \in Nat /\ With(vol, s, z) \in Ring(n)
    BY <1>1, <2>1, WithIs DEF Part, Ring
  <2> QED BY <1>3, <1>4, <2>1, <2>2, <2>3
<1>6. CASE st[s] = b
  <2>1. Emptied(n, secs, st, vol, at) = vol /\ Started(n, secs, st, at) = st
    <3>1. With(st, s, b) = st
      BY <1>6 DEF With, Ring
    <3> QED BY <1>1, <1>2, <1>3, <1>6, <3>1 DEF Emptied
  <2> QED BY <1>4, <2>1
<1> QED BY <1>5, <1>6

\* An amount is taken now: P becomes Q, and slot s, of the block h that begins at b, holds v.
Grown(Q, P, at, a) == \A k \in Nat : Q[k] = P[k] + (IF at <= k THEN a ELSE 0)
Refilled(st, vol, s, b, a) == (IF st[s] # b THEN 0 ELSE vol[s]) + a

RingTypes(n, secs, at, st, vol) ==
  /\ n \in Nat \ {0} /\ secs \in Nat \ {0} /\ at \in Nat
  /\ st \in Ring(n) /\ vol \in Ring(n)
SlotTypes(n, secs, at, s, h, b) ==
  /\ s \in 1 .. n /\ h \in Nat /\ b \in Nat
  /\ h = at \div secs /\ h % n = s - 1 /\ b = h * secs /\ b <= at /\ at < b + secs
Took(P, Q, at, a) ==
  a \in Nat /\ P \in [Nat -> Int] /\ Q \in [Nat -> Int] /\ Grown(Q, P, at, a)

LEMMA GrownIs ==
  ASSUME NEW P, NEW Q, NEW at \in Nat, NEW a, Took(P, Q, at, a), NEW from \in 1 .. at
  PROVE  /\ Q[at] = P[at] + a /\ Q[from - 1] = P[from - 1]
         /\ Q[at] \in Int /\ P[at] \in Int /\ P[from - 1] \in Int
<1>1. from - 1 \in Nat /\ ~ at <= from - 1
  OBVIOUS
<1> QED BY <1>1 DEF Took, Grown

LEMMA RefilledIs ==
  ASSUME NEW n, NEW secs, NEW at, NEW st, NEW vol, NEW s, NEW h, NEW b, NEW v, NEW a, NEW P, NEW Q,
         RingTypes(n, secs, at, st, vol), SlotTypes(n, secs, at, s, h, b), Took(P, Q, at, a),
         v = Refilled(st, vol, s, b, a)
  PROVE  /\ a \in Nat /\ v \in Nat /\ at \in Nat /\ n \in Nat \ {0} /\ secs \in Nat \ {0}
         /\ s \in 1 .. n /\ h \in Nat /\ b \in Nat /\ b = h * secs /\ b <= at
         /\ vol[s] \in Nat /\ st[s] \in Nat
         /\ st[s] = b => v = vol[s] + a
         /\ st[s] # b => v = a
<1>1. vol[s] \in Nat /\ st[s] \in Nat /\ a \in Nat /\ s \in 1 .. n
  BY DEF RingTypes, SlotTypes, Took, Ring
<1>2. at \in Nat /\ n \in Nat \ {0} /\ secs \in Nat \ {0}
  BY DEF RingTypes
<1>3. h \in Nat /\ b \in Nat /\ b = h * secs /\ b <= at
  BY DEF SlotTypes
<1>4. CASE st[s] = b
  BY <1>1, <1>2, <1>3, <1>4 DEF Refilled
<1>5. CASE st[s] # b
  BY <1>1, <1>2, <1>3, <1>5 DEF Refilled
<1> QED BY <1>4, <1>5

LEMMA RefilledStays ==
  ASSUME NEW n, NEW secs, NEW at, NEW st, NEW vol, NEW s, NEW h, NEW b, NEW v \in Nat,
         RingTypes(n, secs, at, st, vol), SlotTypes(n, secs, at, s, h, b),
         SlotsInPlace(n, secs, st, vol, at),
         NEW st2, st2 = With(st, s, b), NEW vol2, vol2 = With(vol, s, v)
  PROVE  /\ st2 \in Ring(n) /\ vol2 \in Ring(n)
         /\ SlotsInPlace(n, secs, st2, vol2, at)
<1>0. n \in Nat /\ st \in Ring(n) /\ vol \in Ring(n) /\ s \in 1 .. n /\ b \in Nat
  BY DEF RingTypes, SlotTypes
<1>1. /\ st2 \in Ring(n) /\ vol2 \in Ring(n) /\ st2[s] = b
      /\ \A i \in 1 .. n : i # s => st2[i] = st[i] /\ vol2[i] = vol[i]
  <2>1. st2 \in Ring(n) /\ st2[s] = b /\ \A i \in 1 .. n : i # s => st2[i] = st[i]
    BY <1>0 DEF Ring, With
  <2>2. vol2 \in Ring(n) /\ \A i \in 1 .. n : i # s => vol2[i] = vol[i]
    BY <1>0 DEF Ring, With
  <2> QED BY <2>1, <2>2
<1>2. SUFFICES ASSUME NEW i \in 1 .. n
               PROVE  \/ st2[i] = 0 /\ vol2[i] = 0
                      \/ st2[i] <= at /\ \E k \in Nat : st2[i] = k * secs /\ k % n = i - 1
  BY <1>1 DEF SlotsInPlace
<1>3. CASE i = s
  <2>1. st2[i] = b
    BY <1>1, <1>3
  <2> QED BY <1>3, <2>1 DEF SlotTypes
<1>4. CASE i # s
  <2>1. st2[i] = st[i] /\ vol2[i] = vol[i]
    BY <1>1, <1>4
  <2> QED BY <2>1 DEF SlotsInPlace
<1> QED BY <1>3, <1>4

\* What the slot gains or loses, seen from a time on.
LEMMA RefilledBy ==
  ASSUME NEW n, NEW secs, NEW at, NEW st, NEW vol, NEW s, NEW h, NEW b, NEW v \in Nat,
         RingTypes(n, secs, at, st, vol), SlotTypes(n, secs, at, s, h, b),
         NEW st2, st2 = With(st, s, b), NEW vol2, vol2 = With(vol, s, v),
         NEW from \in Int
  PROVE  /\ HeldFrom(n, st, vol, from) \in Nat
         /\ Part(st[s], vol[s], from) \in Nat
         /\ HeldFrom(n, st2, vol2, from)
            = HeldFrom(n, st, vol, from) - Part(st[s], vol[s], from) + Part(b, v, from)
<1>1. n \in Nat /\ st \in Ring(n) /\ vol \in Ring(n) /\ s \in 1 .. n /\ b \in Nat
  BY DEF RingTypes, SlotTypes
<1>2. HeldFrom(n, st, vol, from) \in Nat
  <2>1. HeldFrom(n, st, vol, from) \in Int /\ HeldFrom(n, st, vol, from) >= 0
    BY <1>1, HeldIsNat
  <2> QED BY <2>1
<1>3. Part(st[s], vol[s], from) \in Nat
  BY <1>1 DEF Part, Ring
<1>4. HeldFrom(n, st2, vol2, from)
      = HeldFrom(n, st, vol, from) - Part(st[s], vol[s], from) + Part(b, v, from)
  BY <1>1, HeldChanges
<1> QED BY <1>2, <1>3, <1>4

LEMMA RefilledCounts ==
  ASSUME NEW n, NEW secs, NEW at, NEW st, NEW vol, NEW s, NEW h, NEW b, NEW v, NEW a, NEW P, NEW Q,
         RingTypes(n, secs, at, st, vol), SlotTypes(n, secs, at, s, h, b), Took(P, Q, at, a),
         v = Refilled(st, vol, s, b, a), SlotsInPlace(n, secs, st, vol, at),
         CountedOnce(n, st, vol, P, at),
         NEW st2, st2 = With(st, s, b), NEW vol2, vol2 = With(vol, s, v)
  PROVE  CountedOnce(n, st2, vol2, Q, at)
<1>1. a \in Nat /\ v \in Nat /\ at \in Nat /\ n \in Nat /\ b \in Nat
  BY RefilledIs
<1>2. /\ st2 \in Ring(n) /\ vol2 \in Ring(n)
      /\ SlotsInPlace(n, secs, st2, vol2, at)
  BY <1>1, RefilledStays
<1>3. ASSUME NEW from \in 1 .. at PROVE HeldFrom(n, st2, vol2, from) <= Q[at] - Q[from - 1]
  <2>0. from \in Int
    OBVIOUS
  <2>1. PICK old \in Nat, lost \in Nat :
          /\ old = HeldFrom(n, st, vol, from)
          /\ lost = Part(st[s], vol[s], from)
          /\ HeldFrom(n, st2, vol2, from) = old - lost + Part(b, v, from)
    <3>1. v \in Nat
      BY <1>1
    <3>2. /\ HeldFrom(n, st, vol, from) \in Nat
          /\ Part(st[s], vol[s], from) \in Nat
          /\ HeldFrom(n, st2, vol2, from)
             = HeldFrom(n, st, vol, from) - Part(st[s], vol[s], from) + Part(b, v, from)
      BY <3>1, <2>0, RefilledBy
    <3> QED BY <3>2
  <2>2. Part(b, v, from) - lost <= a /\ Part(b, v, from) \in Nat
    <3>1. CASE st[s] = b
      <4>1. vol[s] \in Nat /\ v = vol[s] + a
        BY <1>1, <3>1, RefilledIs
      <4> QED BY <1>1, <2>0, <2>1, <3>1, <4>1 DEF Part
    <3>2. CASE st[s] # b
      <4>1. v = a
        BY <1>1, <3>2, RefilledIs
      <4> QED BY <1>1, <2>0, <2>1, <4>1 DEF Part
    <3> QED BY <3>1, <3>2
  <2>3. old <= P[at] - P[from - 1]
    BY <1>1, <2>1 DEF CountedOnce
  <2>4. /\ Q[at] = P[at] + a /\ Q[from - 1] = P[from - 1]
        /\ Q[at] \in Int /\ P[at] \in Int /\ P[from - 1] \in Int
    BY <1>1, GrownIs
  <2>5. \A u \in Nat : u - lost <= a => old - lost + u <= old + a
    BY <1>1
  <2>6. HeldFrom(n, st2, vol2, from) <= old + a
    BY <2>1, <2>2, <2>5
  <2>7. HeldFrom(n, st2, vol2, from) \in Int
    BY <1>1, <1>2, <2>0, HeldIsNat
  <2> QED BY <1>1, <2>3, <2>4, <2>6, <2>7
<1>4. ASSUME NEW from, from = at + 1 PROVE HeldFrom(n, st2, vol2, from) <= Q[at] - Q[from - 1]
  <2>1. \A i \in 1 .. n : st2[i] < from \/ vol2[i] = 0
    BY <1>1, <1>2, <1>4 DEF SlotsInPlace, Ring
  <2>2. HeldFrom(n, st2, vol2, from) = 0
    <3>1. from \in Int
      BY <1>1, <1>4
    <3> QED BY <1>1, <1>2, <2>1, <3>1, HeldNothing
  <2>3. Q[at] \in Int /\ from - 1 = at
    BY <1>1, <1>4 DEF Took
  <2> QED BY <2>2, <2>3
<1> SUFFICES ASSUME NEW from \in 1 .. at + 1
             PROVE  HeldFrom(n, st2, vol2, from) <= Q[at] - Q[from - 1]
  BY DEF CountedOnce
<1>5. CASE from = at + 1
  BY <1>4, <1>5
<1>6. CASE from # at + 1
  <2>1. from \in 1 .. at
    BY <1>1, <1>6
  <2> QED BY <1>3, <2>1
<1> QED BY <1>5, <1>6

\* What the slot held before is too old for every block that the ring still holds.
LEMMA RefilledWasOld ==
  ASSUME NEW n, NEW secs, NEW at, NEW st, NEW vol, NEW s, NEW h, NEW b,
         RingTypes(n, secs, at, st, vol), SlotTypes(n, secs, at, s, h, b),
         SlotsInPlace(n, secs, st, vol, at), st[s] # b,
         NEW k \in 1 .. h, k > h - n
  PROVE  vol[s] = 0 \/ st[s] < k * secs
<1>1. /\ n \in Nat \ {0} /\ secs \in Nat \ {0} /\ at \in Nat /\ s \in 1 .. n /\ h \in Nat
      /\ b = h * secs /\ h % n = s - 1 /\ at < b + secs /\ b \in Nat
  BY DEF RingTypes, SlotTypes
<1>2. ASSUME NEW x \in Nat, st[s] <= at, st[s] = x * secs, x % n = s - 1 PROVE st[s] < k * secs
  <2>1. x # h
    BY <1>1, <1>2
  <2>2. ~ h < x
    <3>1. SUFFICES ASSUME h < x PROVE FALSE
      OBVIOUS
    <3>2. h * secs <= x * secs - secs /\ x * secs \in Nat
      BY <1>1, <3>1, Multiples
    <3> QED BY <1>1, <1>2, <3>2
  <2>3. x < h
    BY <1>1, <2>1, <2>2
  <2>4. x <= h - n
    BY <1>1, <1>2, <2>3, RoundsApart
  <2>5. x < k /\ k \in Nat
    BY <1>1, <2>4
  <2>6. x * secs <= k * secs - secs /\ x * secs \in Nat /\ k * secs \in Nat
    BY <1>1, <2>5, Multiples
  <2> QED BY <1>1, <1>2, <2>6
<1>3. \/ st[s] = 0 /\ vol[s] = 0
      \/ st[s] <= at /\ \E x \in Nat : st[s] = x * secs /\ x % n = s - 1
  BY <1>1 DEF SlotsInPlace
<1> QED BY <1>2, <1>3

LEMMA RefilledHolds ==
  ASSUME NEW n, NEW secs, NEW at, NEW st, NEW vol, NEW s, NEW h, NEW b, NEW v, NEW a, NEW P, NEW Q,
         RingTypes(n, secs, at, st, vol), SlotTypes(n, secs, at, s, h, b), Took(P, Q, at, a),
         v = Refilled(st, vol, s, b, a), SlotsInPlace(n, secs, st, vol, at),
         AllCounted(n, secs, st, vol, P, at),
         NEW st2, st2 = With(st, s, b), NEW vol2, vol2 = With(vol, s, v)
  PROVE  AllCounted(n, secs, st2, vol2, Q, at)
<1>1. /\ a \in Nat /\ v \in Nat /\ at \in Nat /\ n \in Nat \ {0} /\ secs \in Nat \ {0}
      /\ h \in Nat /\ b \in Nat /\ b = h * secs /\ b <= at
  BY RefilledIs
<1>2. st2 \in Ring(n) /\ vol2 \in Ring(n)
  BY <1>1, RefilledStays
<1>3. ASSUME NEW k \in 1 .. h, k > h - n
      PROVE  Q[at] - Q[k * secs - 1] <= HeldFrom(n, st2, vol2, k * secs)
  <2>1. k * secs \in Nat /\ 1 <= k * secs
    BY <1>1
  <2>2. k * secs <= b
    <3>1. CASE k = h
      BY <1>1, <3>1
    <3>2. CASE k < h
      <4>1. k * secs <= h * secs - secs
        BY <1>1, <3>2, Multiples
      <4> QED BY <1>1, <2>1, <4>1
    <3> QED BY <1>1, <3>1, <3>2
  <2>3. PICK from \in 1 .. at : from = k * secs /\ from <= b
    BY <1>1, <2>1, <2>2
  <2>4. from \in Int
    OBVIOUS
  <2>5. PICK old \in Nat, lost \in Nat :
          /\ old = HeldFrom(n, st, vol, from)
          /\ lost = Part(st[s], vol[s], from)
          /\ HeldFrom(n, st2, vol2, from) = old - lost + Part(b, v, from)
    <3>1. v \in Nat
      BY <1>1
    <3>2. /\ HeldFrom(n, st, vol, from) \in Nat
          /\ Part(st[s], vol[s], from) \in Nat
          /\ HeldFrom(n, st2, vol2, from)
             = HeldFrom(n, st, vol, from) - Part(st[s], vol[s], from) + Part(b, v, from)
      BY <3>1, <2>4, RefilledBy
    <3> QED BY <3>2
  <2>6. HeldFrom(n, st2, vol2, from) >= old + a
    <3>0. HeldFrom(n, st2, vol2, from) = old - lost + v
      BY <1>1, <2>3, <2>5 DEF Part
    <3>1. CASE st[s] = b
      <4>1. lost = vol[s] /\ v = vol[s] + a
        BY <1>1, <2>3, <2>5, <3>1, RefilledIs DEF Part
      <4> QED BY <1>1, <2>5, <3>0, <4>1
    <3>2. CASE st[s] # b
      <4>1. vol[s] = 0 \/ st[s] < from
        BY <1>3, <2>3, <3>2, RefilledWasOld
      <4>2. v = a /\ st[s] \in Nat
        BY <3>2, RefilledIs
      <4>3. lost = 0
        BY <2>4, <2>5, <4>1, <4>2 DEF Part
      <4> QED BY <1>1, <2>5, <3>0, <4>2, <4>3
    <3> QED BY <3>1, <3>2
  <2>7. P[at] - P[from - 1] <= old
    <3>1. h = at \div secs
      BY DEF SlotTypes
    <3> QED BY <1>3, <2>3, <2>5, <3>1 DEF AllCounted
  <2>8. /\ Q[at] = P[at] + a /\ Q[from - 1] = P[from - 1]
        /\ Q[at] \in Int /\ P[at] \in Int /\ P[from - 1] \in Int
    BY <1>1, GrownIs
  <2>9. HeldFrom(n, st2, vol2, from) \in Int
    BY <1>1, <1>2, <2>4, HeldIsNat
  <2> QED BY <1>1, <2>3, <2>6, <2>7, <2>8, <2>9
<1>4. h = at \div secs
  BY DEF SlotTypes
<1> QED BY <1>3, <1>4 DEF AllCounted

\* From what the window counts to what the ring remembers: no more than the threshold.
LEMMA RefilledIsLimited ==
  ASSUME B!CircuitBreakerAssumption, NEW c \in BreakerConfigs, c.enabled,
         NEW at \in Nat, at >= Genesis, NEW n, n = c.buckets, NEW secs, secs = B!BucketSecs(c),
         NEW st \in Ring(n), NEW vol \in Ring(n), NEW Q \in [Nat -> Int],
         \A j, k \in Nat : j <= k => Q[j] <= Q[k],
         AllCounted(n, secs, st, vol, Q, at),
         HeldFrom(n, st, vol, at - c.window) <= c.threshold
  PROVE  Limited(c, Q, at)
<1>1. /\ n \in Nat \ {0} /\ c.window \in Nat \ {0} /\ c.threshold \in Nat /\ secs \in Nat \ {0}
  BY SecsFit
<1>2. PICK k \in 1 .. at \div secs :
        /\ k > (at \div secs) - n /\ k * secs <= at - MemoryOf(c) /\ at - c.window <= k * secs
        /\ MemoryOf(c) \in Nat /\ at - MemoryOf(c) - 1 \in Nat
  BY MemoryFits
<1>3. at \div secs \in Nat
  BY <1>1, BlockOf
<1>4. PICK from \in Nat \ {0} : from = k * secs
  BY <1>1, <1>2, <1>3
<1>5. PICK t \in Nat : t = at - MemoryOf(c) - 1
  BY <1>2
<1>6. PICK cut \in Int : cut = at - c.window /\ cut <= from
  BY <1>1, <1>2, <1>4
<1>7. Q[at] - Q[from - 1] <= HeldFrom(n, st, vol, from)
  BY <1>2, <1>4 DEF AllCounted
<1>8. HeldFrom(n, st, vol, from) <= HeldFrom(n, st, vol, cut)
  BY <1>1, <1>6, HeldLater
<1>9. HeldFrom(n, st, vol, from) \in Int /\ HeldFrom(n, st, vol, cut) \in Int
  <2>1. n \in Nat /\ from \in Int /\ cut \in Int
    BY <1>1
  <2>2. HeldFrom(n, st, vol, from) \in Int
    BY <2>1, HeldIsNat
  <2>3. HeldFrom(n, st, vol, cut) \in Int
    BY <2>1, HeldIsNat
  <2> QED BY <2>2, <2>3
<1>10. HeldFrom(n, st, vol, cut) <= c.threshold
  BY <1>6
<1>11. from - 1 \in Nat /\ from - 1 <= t
  BY <1>2, <1>4, <1>5
<1>12. Q[from - 1] <= Q[t] /\ Q[from - 1] \in Int /\ Q[t] \in Int /\ Q[at] \in Int
  BY <1>11
<1>13. Q[at] - Q[t] <= c.threshold
  BY <1>1, <1>7, <1>8, <1>9, <1>10, <1>12
<1> QED BY <1>5, <1>13 DEF Limited

LEMMA SpendKeepsRing ==
  ASSUME B!CircuitBreakerAssumption, NEW c \in BreakerConfigs, c.enabled,
         NEW at \in Nat, at >= Genesis, NEW a, NEW n, n = c.buckets, NEW secs, secs = B!BucketSecs(c),
         NEW st \in Ring(n), NEW vol \in Ring(n), NEW P, NEW Q, Took(P, Q, at, a),
         \A j, k \in Nat : j <= k => Q[j] <= Q[k],
         RingInv(c, st, vol, P, at),
         NEW st2, st2 = Started(n, secs, st, at),
         NEW rvol, rvol = Emptied(n, secs, st, vol, at),
         NEW s, s = SlotNow(n, secs, at),
         NEW vol2, vol2 = With(rvol, s, rvol[s] + a),
         a + HeldFrom(n, st2, rvol, at - c.window) <= c.threshold
  PROVE  RingInv(c, st2, vol2, Q, at) /\ st2 \in Ring(n) /\ vol2 \in Ring(n)
<1>1. /\ n \in Nat \ {0} /\ secs \in Nat \ {0} /\ c.window \in Nat /\ c.threshold \in Nat
  BY SecsFit
<1>2. PICK h \in Nat, b \in Nat :
        /\ h = at \div secs /\ b = h * secs /\ b <= at /\ at < b + secs
  BY <1>1, BlockOf
<1>3. s \in 1 .. n /\ s - 1 = h % n
  BY <1>1, <1>2, SlotIs
<1>4. RingTypes(n, secs, at, st, vol) /\ SlotTypes(n, secs, at, s, h, b)
  BY <1>1, <1>2, <1>3 DEF RingTypes, SlotTypes
<1>5. PICK v : v = Refilled(st, vol, s, b, a)
  OBVIOUS
<1>6. /\ a \in Nat /\ v \in Nat /\ vol[s] \in Nat /\ st[s] \in Nat
      /\ st[s] = b => v = vol[s] + a
      /\ st[s] # b => v = a
  BY <1>4, <1>5, RefilledIs
<1>7. st2 = With(st, s, b)
  BY <1>2 DEF Started
<1>8. /\ rvol \in Ring(n) /\ rvol[s] \in Nat /\ v = rvol[s] + a
      /\ With(rvol, s, v) = With(vol, s, v)
  <2>1. CASE st[s] = b
    <3>1. rvol = vol
      BY <1>2, <2>1 DEF Emptied
    <3> QED BY <1>6, <2>1, <3>1
  <2>2. CASE st[s] # b
    <3>1. rvol = With(vol, s, 0)
      BY <1>2, <2>2 DEF Emptied
    <3>2. With(vol, s, 0) \in Ring(n) /\ With(vol, s, 0)[s] = 0
      BY <1>3 DEF Ring, With
    <3>3. With(With(vol, s, 0), s, v) = With(vol, s, v)
      BY <1>3 DEF Ring, With
    <3>4. rvol[s] + a = v /\ rvol[s] \in Nat
      BY <1>6, <2>2, <3>1, <3>2
    <3> QED BY <3>1, <3>2, <3>3, <3>4
  <2> QED BY <2>1, <2>2
<1>8a. vol2 = With(vol, s, v) /\ vol2 = With(rvol, s, v)
  BY <1>8
<1>9. /\ SlotsInPlace(n, secs, st, vol, at) /\ CountedOnce(n, st, vol, P, at)
      /\ AllCounted(n, secs, st, vol, P, at)
  BY DEF RingInv
<1>10. /\ st2 \in Ring(n) /\ vol2 \in Ring(n) /\ SlotsInPlace(n, secs, st2, vol2, at)
  <2>1. v \in Nat /\ vol2 = With(vol, s, v) /\ SlotsInPlace(n, secs, st, vol, at)
    BY <1>6, <1>8a, <1>9
  <2> QED BY <1>4, <1>7, <2>1, RefilledStays
<1>11. CountedOnce(n, st2, vol2, Q, at)
  <2>1. vol2 = With(vol, s, v) /\ SlotsInPlace(n, secs, st, vol, at) /\ CountedOnce(n, st, vol, P, at)
    BY <1>8a, <1>9
  <2> QED BY <1>4, <1>5, <1>7, <2>1, RefilledCounts
<1>12. AllCounted(n, secs, st2, vol2, Q, at)
  <2>1. vol2 = With(vol, s, v) /\ SlotsInPlace(n, secs, st, vol, at) /\ AllCounted(n, secs, st, vol, P, at)
    BY <1>8a, <1>9
  <2> QED BY <1>4, <1>5, <1>7, <2>1, RefilledHolds
<1>13. HeldFrom(n, st2, vol2, at - c.window) <= c.threshold
  <2>1. PICK cut \in Int : cut = at - c.window
    BY <1>1
  <2>2. st2[s] = b /\ With(st2, s, b) = st2
    <3>1. n \in Nat
      BY <1>1
    <3>2. st2[s] = b
      BY <1>2, <1>3, <1>7 DEF With, Ring
    <3>3. With(st2, s, b) = st2
      BY <1>3, <1>10, <3>2 DEF With, Ring
    <3> QED BY <3>2, <3>3
  <2>3. PICK held \in Int : held = HeldFrom(n, st2, rvol, cut)
    BY <1>1, <1>8, <1>10, HeldIsNat
  <2>4. HeldFrom(n, st2, vol2, cut) = held - Part(b, rvol[s], cut) + Part(b, v, cut)
    <3>1. n \in Nat /\ st2 \in Ring(n) /\ rvol \in Ring(n) /\ s \in 1 .. n /\ b \in Nat /\ v \in Nat
      BY <1>1, <1>2, <1>3, <1>6, <1>8, <1>10
    <3>2. st2 = With(st2, s, b) /\ vol2 = With(rvol, s, v)
      BY <1>8a, <2>2
    <3>3. HeldFrom(n, st2, vol2, cut) = HeldFrom(n, st2, rvol, cut) - Part(st2[s], rvol[s], cut) + Part(b, v, cut)
      BY <3>1, <3>2, HeldChanges
    <3> QED BY <2>2, <2>3, <3>3
  <2>5. Part(b, v, cut) <= Part(b, rvol[s], cut) + a /\ Part(b, v, cut) \in Nat /\ Part(b, rvol[s], cut) \in Nat
    BY <1>2, <1>6, <1>8 DEF Part
  <2>6. a + held <= c.threshold
    BY <2>1, <2>3
  <2>7. HeldFrom(n, st2, vol2, cut) <= c.threshold
    BY <1>1, <1>6, <2>3, <2>4, <2>5, <2>6
  <2> QED BY <2>1, <2>7
<1>14. Limited(c, Q, at)
  <2>1. Q \in [Nat -> Int]
    BY DEF Took
  <2> QED BY <1>10, <1>12, <1>13, <2>1, RefilledIsLimited
<1> QED BY <1>10, <1>11, <1>12, <1>14 DEF RingInv

-----------------------------------------------------------------------------
(* What was taken, and the breaker's sums of it.                             *)

LEMMA SameSum == ASSUME NEW f, NEW n PROVE B!SumTo(f, n) = SumTo(f, n)
BY Zenon DEF B!SumTo, B!PrefixSums, B!Padded, SumTo, PrefixSums, Padded

LEMMA TimesAre ==
  ASSUME B!CircuitBreakerAssumption
  PROVE  Genesis \in Nat /\ BreakerEnd \in Nat /\ \A t \in B!Times : t \in Nat /\ t >= Genesis
BY DEF B!CircuitBreakerAssumption, B!Times

LEMMA DailyIs ==
  ASSUME B!CircuitBreakerAssumption, NEW f \in [B!Times -> Nat], NEW P, P = PrefixSums(Daily(f))
  PROVE  /\ Daily(f) \in [Nat -> Nat] /\ Daily(f) \in [Nat -> Int]
         /\ IsPrefixOf(P, Daily(f)) /\ P \in [Nat -> Int]
         /\ \A j, k \in Nat : j <= k => P[j] <= P[k]
<1>1. Daily(f) \in [Nat -> Nat]
  BY DEF Daily
<1>2. Daily(f) \in [Nat -> Int]
  BY <1>1
<1>3. IsPrefixOf(P, Daily(f)) /\ P \in [Nat -> Int]
  BY <1>2, PrefixSumsDef DEF IsPrefixOf
<1> QED BY <1>1, <1>2, <1>3, PrefixGrows

LEMMA Between ==
  ASSUME B!CircuitBreakerAssumption, taken \in [B!Times -> Nat], time \in Nat,
         NEW from \in Nat \ {0}, from <= time + 1, NEW P, P = PrefixSums(Daily(taken))
  PROVE  B!TakenBetween(from, time) = P[time] - P[from - 1]
<1> DEFINE m == time - from + 1
           f == [i \in 1 .. m |-> IF from + i - 1 \in B!Times THEN taken[from + i - 1] ELSE 0]
<1>1. PICK d \in Nat : d = from - 1
  OBVIOUS
<1>2. m \in Nat /\ d + m = time
  BY <1>1
<1>3. f \in [1 .. m -> Int]
  OBVIOUS
<1>4. B!TakenBetween(from, time) = PrefixSums(Padded(f, m))[m]
  <2>1. B!TakenBetween(from, time) = B!SumTo(f, m)
    BY DEF B!TakenBetween
  <2> QED BY <2>1, SameSum DEF SumTo
<1>5. \A k \in 1 .. m : Padded(f, m)[k] = Daily(taken)[d + k]
  <2> TAKE k \in 1 .. m
  <2>1. k \in Nat /\ d + k \in Nat /\ from + k - 1 = d + k
    BY <1>1, <1>2
  <2>2. Padded(f, m)[k] = f[k]
    BY <2>1 DEF Padded
  <2>3. f[k] = IF d + k \in B!Times THEN taken[d + k] ELSE 0
    BY <2>1
  <2>4. Daily(taken)[d + k] = IF d + k \in B!Times THEN taken[d + k] ELSE 0
    BY <2>1 DEF Daily
  <2> QED BY <2>2, <2>3, <2>4
<1> HIDE DEF m, f
<1>6. /\ Padded(f, m) \in [Nat -> Int] /\ IsPrefixOf(PrefixSums(Padded(f, m)), Padded(f, m))
      /\ Daily(taken) \in [Nat -> Int] /\ IsPrefixOf(P, Daily(taken))
  BY <1>2, <1>3, PaddedType, PaddedPrefix, DailyIs
<1>7. PrefixSums(Padded(f, m))[m] = P[d + m] - P[d]
  <2>0. PICK k \in Nat : k = m
    BY <1>2
  <2>1. PICK F, G, Q : F = Daily(taken) /\ G = Padded(f, k) /\ Q = PrefixSums(G)
    OBVIOUS
  <2>2. F \in [Nat -> Int] /\ G \in [Nat -> Int] /\ IsPrefixOf(P, F) /\ IsPrefixOf(Q, G)
    BY <1>6, <2>0, <2>1
  <2>3. Shifted(F, G, d, k)
    BY <1>5, <2>0, <2>1 DEF Shifted
  <2>4. Q[k] = P[d + k] - P[d]
    BY <2>2, <2>3, PrefixShift
  <2> QED BY <2>0, <2>1, <2>4
<1> QED BY <1>1, <1>2, <1>4, <1>7

\* What the breaker computes for a withdrawal, in the terms of the lemmas above.
LEMMA SpendIs ==
  ASSUME NEW n, n = setting.buckets, NEW secs, secs = B!BucketSecs(setting)
  PROVE  /\ B!Slot = SlotNow(n, secs, time)
         /\ B!RingStarts = Started(n, secs, starts, time)
         /\ B!RingVolumes = Emptied(n, secs, starts, volumes, time)
         /\ \A a : B!RollingTotal(a)
                   = a + HeldFrom(n, B!RingStarts, B!RingVolumes, time - setting.window)
<1>1. B!Slot = SlotNow(n, secs, time)
  BY DEF B!Slot, B!Block, SlotNow
<1>2. B!RingStarts = Started(n, secs, starts, time)
  BY <1>1 DEF B!RingStarts, B!BlockStart, B!Block, Started, With
<1>3. B!RingVolumes = Emptied(n, secs, starts, volumes, time)
  BY <1>1 DEF B!RingVolumes, B!Renewed, B!BlockStart, B!Block, Emptied, With
<1>4. ASSUME NEW a
      PROVE  B!RollingTotal(a) = a + HeldFrom(n, B!RingStarts, B!RingVolumes, time - setting.window)
  BY SameSum DEF B!RollingTotal, B!Cutoff, HeldFrom
<1> QED BY <1>1, <1>2, <1>3, <1>4

\* A new ring, before anything is taken.
LEMMA EmptyRingKeeps ==
  ASSUME B!CircuitBreakerAssumption, NEW c \in BreakerConfigs, c.enabled,
         NEW at \in Nat, at >= Genesis, NEW P, \A k \in Nat : P[k] = 0,
         NEW st \in Ring(c.buckets), \A i \in 1 .. c.buckets : st[i] = 0
  PROVE  RingInv(c, st, st, P, at)
<1>1. /\ c.buckets \in Nat /\ c.threshold \in Nat /\ B!BucketSecs(c) \in Nat \ {0}
  BY SecsFit
<1>2. \A from \in Int : HeldFrom(c.buckets, st, st, from) = 0
  <2> TAKE from \in Int
  <2>1. \A i \in 1 .. c.buckets : st[i] < from \/ st[i] = 0
    OBVIOUS
  <2> QED BY <1>1, <2>1, HeldNothing
<1>3. SlotsInPlace(c.buckets, B!BucketSecs(c), st, st, at)
  BY DEF SlotsInPlace
<1>4. CountedOnce(c.buckets, st, st, P, at)
  <2> SUFFICES ASSUME NEW from \in 1 .. at + 1
               PROVE  HeldFrom(c.buckets, st, st, from) <= P[at] - P[from - 1]
    BY DEF CountedOnce
  <2>1. from \in Int /\ from - 1 \in Nat
    OBVIOUS
  <2>2. HeldFrom(c.buckets, st, st, from) = 0 /\ P[at] = 0 /\ P[from - 1] = 0
    BY <1>2, <2>1
  <2> QED BY <2>2
<1>5. AllCounted(c.buckets, B!BucketSecs(c), st, st, P, at)
  <2> SUFFICES ASSUME NEW k \in 1 .. at \div B!BucketSecs(c)
               PROVE  P[at] - P[k * B!BucketSecs(c) - 1]
                      <= HeldFrom(c.buckets, st, st, k * B!BucketSecs(c))
    BY DEF AllCounted
  <2>1. at \div B!BucketSecs(c) \in Nat
    BY <1>1, BlockOf
  <2>2. PICK from \in Nat \ {0} : from = k * B!BucketSecs(c)
    BY <1>1, <2>1
  <2>3. from \in Int /\ from - 1 \in Nat
    OBVIOUS
  <2>4. HeldFrom(c.buckets, st, st, from) = 0 /\ P[at] = 0 /\ P[from - 1] = 0
    BY <1>2, <2>3
  <2> QED BY <2>2, <2>4
<1>6. Limited(c, P, at)
  <2>1. at - MemoryOf(c) - 1 \in Nat
    BY MemoryFits
  <2>2. P[at] = 0 /\ P[at - MemoryOf(c) - 1] = 0
    BY <2>1
  <2> QED BY <1>1, <2>2 DEF Limited
<1> QED BY <1>3, <1>4, <1>5, <1>6 DEF RingInv

\* Time goes by, and nothing is taken meanwhile.
LEMMA WaitingKeeps ==
  ASSUME B!CircuitBreakerAssumption, NEW c \in BreakerConfigs, c.enabled,
         NEW at \in Nat, at >= Genesis, NEW later \in Nat, at < later,
         NEW st \in Ring(c.buckets), NEW vol \in Ring(c.buckets), NEW P \in [Nat -> Int],
         \A j, k \in Nat : j <= k => P[j] <= P[k], \A k \in Nat : k >= at => P[k] = P[at],
         RingInv(c, st, vol, P, at)
  PROVE  RingInv(c, st, vol, P, later)
<1>1. PICK n, secs : n = c.buckets /\ secs = B!BucketSecs(c)
  OBVIOUS
<1>2. n \in Nat \ {0} /\ secs \in Nat \ {0} /\ st \in Ring(n) /\ vol \in Ring(n)
  BY <1>1, SecsFit
<1>3. /\ SlotsInPlace(n, secs, st, vol, at) /\ CountedOnce(n, st, vol, P, at)
      /\ AllCounted(n, secs, st, vol, P, at) /\ Limited(c, P, at)
  BY <1>1 DEF RingInv
<1>4. \A i \in 1 .. n : vol[i] = 0 \/ st[i] <= at
  BY <1>3 DEF SlotsInPlace
<1>5. \A i \in 1 .. n : st[i] \in Nat /\ vol[i] \in Nat
  BY <1>2 DEF Ring
<1>6. P[later] = P[at] /\ P[at] \in Int
  OBVIOUS
<1>7. SlotsInPlace(n, secs, st, vol, later)
  <2> SUFFICES ASSUME NEW i \in 1 .. n
               PROVE  \/ st[i] = 0 /\ vol[i] = 0
                      \/ st[i] <= later /\ \E k \in Nat : st[i] = k * secs /\ k % n = i - 1
    BY DEF SlotsInPlace
  <2>1. st[i] <= at => st[i] <= later
    BY <1>5
  <2> QED BY <1>3, <2>1 DEF SlotsInPlace
<1>8. CountedOnce(n, st, vol, P, later)
  <2> SUFFICES ASSUME NEW from \in 1 .. later + 1
               PROVE  HeldFrom(n, st, vol, from) <= P[later] - P[from - 1]
    BY DEF CountedOnce
  <2>1. CASE from <= at + 1
    <3>1. from \in 1 .. at + 1
      BY <2>1
    <3> QED BY <1>3, <1>6, <3>1 DEF CountedOnce
  <2>2. CASE from > at + 1
    <3>1. from \in Int /\ from - 1 \in Nat /\ from - 1 >= at
      BY <2>2
    <3>2. \A i \in 1 .. n : st[i] < from \/ vol[i] = 0
      BY <1>4, <1>5, <2>2
    <3>3. HeldFrom(n, st, vol, from) = 0
      BY <1>2, <3>1, <3>2, HeldNothing
    <3>4. P[from - 1] = P[at]
      BY <3>1
    <3> QED BY <1>6, <3>3, <3>4
  <2> QED BY <2>1, <2>2
<1>9. AllCounted(n, secs, st, vol, P, later)
  <2>0. at \div secs \in Nat /\ later \div secs \in Nat /\ at \div secs <= later \div secs
    <3>1. at <= later
      OBVIOUS
    <3>2. at \div secs <= later \div secs
      BY <1>2, <3>1, BlocksFollow
    <3> QED BY <1>2, <3>2, BlockOf
  <2>1. PICK h \in Nat, g \in Nat :
          h = at \div secs /\ g = later \div secs /\ h <= g /\ at < h * secs + secs
    BY <1>2, <2>0, BlockOf
  <2> SUFFICES ASSUME NEW k \in 1 .. g, k > g - n
               PROVE  P[later] - P[k * secs - 1] <= HeldFrom(n, st, vol, k * secs)
    BY <2>1 DEF AllCounted
  <2>2. CASE k <= h
    <3>1. k \in 1 .. h /\ k > h - n
      BY <1>2, <2>1, <2>2
    <3>2. P[at] - P[k * secs - 1] <= HeldFrom(n, st, vol, k * secs)
      BY <1>3, <2>1, <3>1 DEF AllCounted
    <3> QED BY <1>6, <3>2
  <2>3. CASE h < k
    <3>1. h * secs <= k * secs - secs /\ k * secs \in Nat /\ h * secs \in Nat
      BY <1>2, <2>1, <2>3, Multiples
    <3>2. PICK from \in Nat \ {0} : from = k * secs
      BY <1>2, <3>1
    <3>3. from - 1 \in Nat /\ from - 1 >= at /\ from \in Int
      BY <1>2, <2>1, <3>1, <3>2
    <3>4. P[from - 1] = P[at]
      BY <3>3
    <3>5. HeldFrom(n, st, vol, from) >= 0 /\ HeldFrom(n, st, vol, from) \in Int
      BY <1>2, <3>3, HeldIsNat
    <3> QED BY <1>6, <3>2, <3>4, <3>5
  <2> QED BY <2>2, <2>3
<1>10. Limited(c, P, later)
  <2>1. PICK t \in Nat, u \in Nat :
          t = at - MemoryOf(c) - 1 /\ u = later - MemoryOf(c) - 1 /\ t <= u
    BY MemoryFits
  <2>2. P[t] <= P[u] /\ P[t] \in Int /\ P[u] \in Int
    BY <2>1
  <2>3. P[at] - P[t] <= c.threshold /\ c.threshold \in Nat
    BY <1>3, <2>1, SecsFit DEF Limited
  <2>4. P[later] - P[u] <= c.threshold
    BY <1>6, <2>2, <2>3
  <2> QED BY <2>1, <2>4 DEF Limited
<1> QED BY <1>1, <1>7, <1>8, <1>9, <1>10 DEF RingInv

-----------------------------------------------------------------------------
(* The invariant is inductive.                                               *)

LEMMA BreakerTypes ==
  ASSUME B!CircuitBreakerAssumption, B!TypeOK
  PROVE  /\ time \in Nat /\ time >= Genesis /\ time \in B!Times /\ setting \in BreakerConfigs
         /\ starts \in Ring(setting.buckets) /\ volumes \in Ring(setting.buckets)
         /\ taken \in [B!Times -> Nat]
BY TimesAre DEF B!TypeOK, Ring

\* After a change of the configuration, or a reset.
LEMMA NewRing ==
  ASSUME B!CircuitBreakerAssumption, NEW c \in BreakerConfigs, NEW at \in Nat, at >= Genesis,
         NEW st, st = [i \in 1 .. c.buckets |-> 0],
         NEW f, f = [t \in B!Times |-> 0]
  PROVE  /\ st \in [1 .. c.buckets -> Nat] /\ f \in [B!Times -> Nat]
         /\ \A t \in B!Times : f[t] = 0
         /\ c.enabled => RingInv(c, st, st, PrefixSums(Daily(f)), at)
<1>1. st \in [1 .. c.buckets -> Nat] /\ f \in [B!Times -> Nat] /\ \A t \in B!Times : f[t] = 0
  OBVIOUS
<1>2. ASSUME c.enabled PROVE RingInv(c, st, st, PrefixSums(Daily(f)), at)
  <2>1. PICK P : P = PrefixSums(Daily(f))
    OBVIOUS
  <2>2. IsPrefixOf(P, Daily(f)) /\ Daily(f) \in [Nat -> Int]
    BY <1>1, <2>1, DailyIs
  <2>3. \A k \in Nat : k > 0 => Daily(f)[k] = 0
    BY <1>1 DEF Daily
  <2>4. P[0] = 0 /\ \A k \in Nat : k >= 0 => P[k] = P[0]
    <3>1. \A k \in Nat : k >= 0 => P[k] = P[0]
      BY <2>2, <2>3, PrefixStands
    <3> QED BY <2>2, <3>1 DEF IsPrefixOf
  <2>5. \A k \in Nat : P[k] = 0
    BY <2>4
  <2>6. st \in Ring(c.buckets) /\ \A i \in 1 .. c.buckets : st[i] = 0
    BY DEF Ring
  <2> QED BY <1>2, <2>1, <2>5, <2>6, EmptyRingKeeps
<1> QED BY <1>1, <1>2

LEMMA BreakerInitInv == B!CircuitBreakerAssumption /\ B!Init => BreakerInv
<1> SUFFICES ASSUME B!CircuitBreakerAssumption, B!Init PROVE BreakerInv
  OBVIOUS
<1>1. ~ setting.enabled /\ setting \in BreakerConfigs /\ time = Genesis
  BY DEF B!Init
<1>2. Genesis \in Nat /\ BreakerEnd \in Nat /\ Genesis <= BreakerEnd /\ setting.buckets \in Nat
  BY <1>1 DEF B!CircuitBreakerAssumption, B!ConfigType
<1>3. /\ starts = [i \in 1 .. setting.buckets |-> 0] /\ volumes = [i \in 1 .. setting.buckets |-> 0]
      /\ taken = [t \in B!Times |-> 0]
  BY DEF B!Init, B!EmptyRing, B!NothingTaken
<1>4. time \in B!Times
  BY <1>1, <1>2 DEF B!Times
<1>5. tripped = FALSE /\ paused \in BOOLEAN /\ alarm \in BOOLEAN
  BY DEF B!Init
<1>6. B!TypeOK
  BY <1>1, <1>3, <1>4, <1>5 DEF B!TypeOK
<1> QED BY <1>1, <1>3, <1>6 DEF BreakerInv

\* The clock.
LEMMA TickKeepsRing == ASSUME B!CircuitBreakerAssumption, BreakerInv, B!Tick PROVE BreakerInv'
<1>1. /\ time' \in Nat /\ time < time' /\ time' \in B!Times /\ alarm' = FALSE
      /\ UNCHANGED <<setting, starts, volumes, tripped, paused, taken>>
  <2>1. PICK later \in time + 1 .. time + MaxStep : later <= BreakerEnd /\ time' = later
    BY DEF B!Tick
  <2>2. time \in Genesis .. BreakerEnd /\ MaxStep \in Nat /\ Genesis \in Nat /\ BreakerEnd \in Nat
    BY DEF BreakerInv, B!TypeOK, B!Times, B!CircuitBreakerAssumption
  <2> QED BY <2>1, <2>2 DEF B!Tick, B!Times
<1>2. B!TypeOK'
  BY <1>1 DEF BreakerInv, B!TypeOK
<1>3. \A t \in B!Times : t > time' => taken'[t] = 0
  <2> SUFFICES ASSUME NEW t \in B!Times, t > time' PROVE taken[t] = 0
    BY <1>1
  <2>1. t \in Nat /\ time \in Nat
    BY TimesAre, BreakerTypes DEF BreakerInv
  <2> QED BY <1>1, <2>1 DEF BreakerInv
<1>4. ASSUME setting.enabled PROVE RingInv(setting, starts, volumes, PrefixSums(Daily(taken)), time')
  <2>1. PICK P, c, at : P = PrefixSums(Daily(taken)) /\ c = setting /\ at = time
    OBVIOUS
  <2>2. /\ at \in Nat /\ at >= Genesis /\ c \in BreakerConfigs /\ c.enabled
        /\ starts \in Ring(c.buckets) /\ volumes \in Ring(c.buckets) /\ taken \in [B!Times -> Nat]
    BY <1>4, <2>1, BreakerTypes DEF BreakerInv
  <2>3. /\ P \in [Nat -> Int] /\ IsPrefixOf(P, Daily(taken)) /\ Daily(taken) \in [Nat -> Int]
        /\ \A j, k \in Nat : j <= k => P[j] <= P[k]
    BY <2>1, <2>2, DailyIs
  <2>4. \A k \in Nat : k > at => Daily(taken)[k] = 0
    BY <2>1 DEF Daily, BreakerInv
  <2>5. \A k \in Nat : k >= at => P[k] = P[at]
    BY <2>2, <2>3, <2>4, PrefixStands
  <2>6. RingInv(c, starts, volumes, P, at)
    BY <1>4, <2>1 DEF BreakerInv
  <2>7. RingInv(c, starts, volumes, P, time')
    BY <1>1, <2>1, <2>2, <2>3, <2>5, <2>6, WaitingKeeps
  <2> QED BY <2>1, <2>7
<1>5. setting'.enabled => RingInv(setting', starts', volumes', PrefixSums(Daily(taken')), time')
  BY <1>1, <1>4
<1> QED BY <1>2, <1>3, <1>5 DEF BreakerInv

\* The admin's calls.
LEMMA ConfigureKeepsRing ==
  ASSUME B!CircuitBreakerAssumption, BreakerInv, NEW c \in BreakerConfigs, B!Configure(c)
  PROVE  BreakerInv'
<1>1. /\ setting' = c /\ starts' = [i \in 1 .. c.buckets |-> 0]
      /\ volumes' = [i \in 1 .. c.buckets |-> 0] /\ taken' = [t \in B!Times |-> 0]
      /\ tripped' = FALSE /\ alarm' = FALSE /\ UNCHANGED <<time, paused>>
  BY DEF B!Configure, B!EmptyRing, B!NothingTaken
<1>2. time \in Nat /\ time >= Genesis /\ time \in B!Times /\ paused \in BOOLEAN
  BY BreakerTypes DEF BreakerInv, B!TypeOK
<1>3. PICK st, f : st = [i \in 1 .. c.buckets |-> 0] /\ f = [t \in B!Times |-> 0]
  OBVIOUS
<1>4. /\ st \in [1 .. c.buckets -> Nat] /\ f \in [B!Times -> Nat]
      /\ \A t \in B!Times : f[t] = 0
      /\ c.enabled => RingInv(c, st, st, PrefixSums(Daily(f)), time)
  BY <1>2, <1>3, NewRing
<1>5. B!TypeOK'
  BY <1>1, <1>2, <1>3, <1>4 DEF B!TypeOK
<1>6. \A t \in B!Times : t > time' => taken'[t] = 0
  BY <1>1, <1>3, <1>4
<1>7. setting'.enabled => RingInv(setting', starts', volumes', PrefixSums(Daily(taken')), time')
  BY <1>1, <1>3, <1>4
<1> QED BY <1>5, <1>6, <1>7 DEF BreakerInv

LEMMA ResetKeepsRing == ASSUME B!CircuitBreakerAssumption, BreakerInv, B!Reset PROVE BreakerInv'
<1>0. PICK c : c = setting
  OBVIOUS
<1>1. /\ setting' = c /\ starts' = [i \in 1 .. c.buckets |-> 0]
      /\ volumes' = [i \in 1 .. c.buckets |-> 0] /\ taken' = [t \in B!Times |-> 0]
      /\ tripped' = FALSE /\ alarm' = FALSE /\ time' = time /\ paused' \in BOOLEAN
  BY <1>0 DEF B!Reset, B!EmptyRing, B!NothingTaken
<1>2. time \in Nat /\ time >= Genesis /\ time \in B!Times /\ c \in BreakerConfigs
  BY <1>0, BreakerTypes DEF BreakerInv
<1>3. PICK st, f : st = [i \in 1 .. c.buckets |-> 0] /\ f = [t \in B!Times |-> 0]
  OBVIOUS
<1>4. /\ st \in [1 .. c.buckets -> Nat] /\ f \in [B!Times -> Nat]
      /\ \A t \in B!Times : f[t] = 0
      /\ c.enabled => RingInv(c, st, st, PrefixSums(Daily(f)), time)
  BY <1>2, <1>3, NewRing
<1>5. B!TypeOK'
  BY <1>1, <1>2, <1>3, <1>4 DEF B!TypeOK
<1>6. \A t \in B!Times : t > time' => taken'[t] = 0
  BY <1>1, <1>3, <1>4
<1>7. setting'.enabled => RingInv(setting', starts', volumes', PrefixSums(Daily(taken')), time')
  BY <1>1, <1>3, <1>4
<1> QED BY <1>5, <1>6, <1>7 DEF BreakerInv

\* Whatever leaves the ring, the configuration and the clock alone.
LEMMA OthersKeepRing ==
  ASSUME BreakerInv, UNCHANGED <<time, setting, starts, volumes, tripped, taken>>,
         paused' \in BOOLEAN, alarm' \in BOOLEAN
  PROVE  BreakerInv'
<1>1. B!TypeOK'
  BY DEF BreakerInv, B!TypeOK
<1>2. \A t \in B!Times : t > time' => taken'[t] = 0
  BY DEF BreakerInv
<1>3. setting'.enabled => RingInv(setting', starts', volumes', PrefixSums(Daily(taken')), time')
  BY DEF BreakerInv
<1> QED BY <1>1, <1>2, <1>3 DEF BreakerInv

\* What is taken now adds to every sum from now on.
LEMMA TakenGrows ==
  ASSUME B!CircuitBreakerAssumption, NEW f \in [B!Times -> Nat], NEW at \in B!Times,
         at \in Nat \ {0}, NEW a \in Nat, NEW g, g = [f EXCEPT ![at] = @ + a],
         NEW P, P = PrefixSums(Daily(f)), NEW Q, Q = PrefixSums(Daily(g))
  PROVE  g \in [B!Times -> Nat] /\ Took(P, Q, at, a)
<1>1. /\ g \in [B!Times -> Nat] /\ g[at] = f[at] + a /\ f[at] \in Nat
      /\ \A t \in B!Times : t # at => g[t] = f[t]
  OBVIOUS
<1>2. PICK F, G : F = Daily(f) /\ G = Daily(g)
  OBVIOUS
<1>3. /\ F \in [Nat -> Int] /\ G \in [Nat -> Int] /\ IsPrefixOf(P, F) /\ IsPrefixOf(Q, G)
      /\ P \in [Nat -> Int] /\ Q \in [Nat -> Int]
  BY <1>1, <1>2, DailyIs
<1>4. AgreeExcept(F, G, at) /\ G[at] - F[at] = a
  <2>1. F[at] = f[at] /\ G[at] = g[at]
    BY <1>2 DEF Daily
  <2>2. \A j \in Nat : j # at => G[j] = F[j]
    BY <1>1, <1>2 DEF Daily
  <2> QED BY <1>1, <2>1, <2>2 DEF AgreeExcept
<1>5. \A k \in Nat : Q[k] = P[k] + Jump(F, G, at, k)
  BY <1>3, <1>4, PrefixChange
<1>6. \A k \in Nat : Jump(F, G, at, k) = IF at <= k THEN a ELSE 0
  BY <1>4 DEF Jump
<1>7. Grown(Q, P, at, a)
  BY <1>5, <1>6 DEF Grown
<1> QED BY <1>1, <1>3, <1>7 DEF Took

LEMMA WithdrawKeepsRing ==
  ASSUME B!CircuitBreakerAssumption, BreakerInv, NEW a \in Withdrawals, B!Withdraw(a)
  PROVE  BreakerInv'
<1>1. /\ UNCHANGED <<time, setting, tripped, paused>> /\ alarm' \in BOOLEAN /\ paused' \in BOOLEAN
      /\ a \in Nat
  BY DEF B!Withdraw, BreakerInv, B!TypeOK, B!CircuitBreakerAssumption
<1>2. CASE ~ setting.enabled
  <2>1. UNCHANGED <<starts, volumes, taken>>
    BY <1>2 DEF B!Withdraw
  <2> QED BY <1>1, <2>1, OthersKeepRing
<1>3. CASE setting.enabled
  <2>1. PICK c, at, n, secs, P :
          /\ c = setting /\ at = time /\ n = c.buckets /\ secs = B!BucketSecs(c)
          /\ P = PrefixSums(Daily(taken))
    OBVIOUS
  <2>2. /\ at \in Nat /\ at >= Genesis /\ at \in B!Times /\ c \in BreakerConfigs /\ c.enabled
        /\ starts \in Ring(n) /\ volumes \in Ring(n) /\ taken \in [B!Times -> Nat]
    BY <1>3, <2>1, BreakerTypes DEF BreakerInv
  <2>3. at \in Nat \ {0}
    BY <2>2, SecsFit
  <2>4. RingInv(c, starts, volumes, P, at)
    BY <1>3, <2>1 DEF BreakerInv
  <2>5. PICK st2, rvol, s, vol2, g, Q :
          /\ st2 = Started(n, secs, starts, at) /\ rvol = Emptied(n, secs, starts, volumes, at)
          /\ s = SlotNow(n, secs, at) /\ vol2 = With(rvol, s, rvol[s] + a)
          /\ g = [taken EXCEPT ![at] = @ + a] /\ Q = PrefixSums(Daily(g))
    OBVIOUS
  <2>6. /\ B!Slot = s /\ B!RingStarts = st2 /\ B!RingVolumes = rvol
        /\ B!RollingTotal(a) = a + HeldFrom(n, st2, rvol, at - c.window)
    BY <2>1, <2>5, SpendIs
  <2>7. starts' = st2 /\ volumes' = vol2 /\ taken' = g
    <3>1. starts' = B!RingStarts /\ volumes' = [B!RingVolumes EXCEPT ![B!Slot] = @ + a]
          /\ taken' = [taken EXCEPT ![time] = @ + a]
      BY <1>3 DEF B!Withdraw
    <3>2. volumes' = [rvol EXCEPT ![s] = @ + a]
      BY <2>6, <3>1
    <3>3. volumes' = [rvol EXCEPT ![s] = rvol[s] + a]
      BY <3>2
    <3> QED BY <2>1, <2>5, <2>6, <3>1, <3>3 DEF With
  <2>8. a + HeldFrom(n, st2, rvol, at - c.window) <= c.threshold
    <3>1. ~ (B!RollingTotal(a) > c.threshold)
      BY <1>3, <2>1 DEF B!Withdraw, B!Exceeds
    <3>2. c.threshold \in Nat /\ n \in Nat \ {0} /\ secs \in Nat \ {0} /\ c.window \in Nat
      BY <2>1, <2>2, SecsFit
    <3>3. st2 \in Ring(n) /\ rvol \in Ring(n)
      <4>1. 0 \in Int
        OBVIOUS
      <4> QED BY <2>2, <2>5, <3>2, <4>1, RenewedHoldsLess
    <3>4. PICK cut \in Int : cut = at - c.window
      BY <2>2, <3>2
    <3>5. HeldFrom(n, st2, rvol, cut) \in Int
      BY <3>2, <3>3, <3>4, HeldIsNat
    <3> QED BY <1>1, <2>6, <3>1, <3>2, <3>4, <3>5
  <2>9. g \in [B!Times -> Nat] /\ Took(P, Q, at, a)
    BY <1>1, <2>1, <2>2, <2>3, <2>5, TakenGrows
  <2>10. \A j, k \in Nat : j <= k => Q[j] <= Q[k]
    BY <2>5, <2>9, DailyIs
  <2>11. RingInv(c, st2, vol2, Q, at) /\ st2 \in Ring(n) /\ vol2 \in Ring(n)
    <3>1. /\ n = c.buckets /\ secs = B!BucketSecs(c) /\ c \in BreakerConfigs /\ c.enabled
          /\ at \in Nat /\ at >= Genesis /\ starts \in Ring(n) /\ volumes \in Ring(n)
      BY <2>1, <2>2
    <3>2. /\ st2 = Started(n, secs, starts, at) /\ rvol = Emptied(n, secs, starts, volumes, at)
          /\ s = SlotNow(n, secs, at) /\ vol2 = With(rvol, s, rvol[s] + a)
      BY <2>5
    <3> QED BY <2>4, <2>8, <2>9, <2>10, <3>1, <3>2, SpendKeepsRing
  <2>12. B!TypeOK'
    <3>1. st2 \in [1 .. c.buckets -> Nat] /\ vol2 \in [1 .. c.buckets -> Nat]
      BY <2>1, <2>11 DEF Ring
    <3> QED BY <1>1, <2>1, <2>2, <2>7, <2>9, <3>1 DEF B!TypeOK, BreakerInv
  <2>13. \A t \in B!Times : t > time' => taken'[t] = 0
    <3> SUFFICES ASSUME NEW t \in B!Times, t > at PROVE g[t] = 0
      BY <1>1, <2>1, <2>7
    <3>1. t # at /\ taken[t] = 0
      BY <2>1, <2>2 DEF BreakerInv
    <3> QED BY <2>2, <2>5, <3>1
  <2>14. RingInv(setting', starts', volumes', PrefixSums(Daily(taken')), time')
    BY <1>1, <2>1, <2>5, <2>7, <2>11
  <2> QED BY <2>12, <2>13, <2>14 DEF BreakerInv
<1> QED BY <1>2, <1>3

LEMMA BreakerNextInv == B!CircuitBreakerAssumption /\ BreakerInv /\ [B!Next]_(B!vars) => BreakerInv'
<1> SUFFICES ASSUME B!CircuitBreakerAssumption, BreakerInv, [B!Next]_(B!vars) PROVE BreakerInv'
  OBVIOUS
<1>0. paused \in BOOLEAN /\ alarm \in BOOLEAN
  BY DEF BreakerInv, B!TypeOK
<1>1. CASE B!Tick
  BY <1>1, TickKeepsRing
<1>2. ASSUME NEW c \in BreakerConfigs, B!Configure(c) PROVE BreakerInv'
  BY <1>2, ConfigureKeepsRing
<1>3. CASE B!Reset
  BY <1>3, ResetKeepsRing
<1>4. ASSUME NEW on \in BOOLEAN, B!SetPaused(on) PROVE BreakerInv'
  <2>1. UNCHANGED <<time, setting, starts, volumes, tripped, taken>>
        /\ paused' \in BOOLEAN /\ alarm' \in BOOLEAN
    BY <1>4 DEF B!SetPaused
  <2> QED BY <2>1, OthersKeepRing
<1>5. ASSUME NEW a \in Withdrawals, B!Withdraw(a) PROVE BreakerInv'
  BY <1>5, WithdrawKeepsRing
<1>6. ASSUME NEW a \in Withdrawals, B!Refuse(a) PROVE BreakerInv'
  <2>1. UNCHANGED <<time, setting, starts, volumes, tripped, taken>>
        /\ paused' \in BOOLEAN /\ alarm' \in BOOLEAN
    BY <1>0, <1>6 DEF B!Refuse
  <2> QED BY <2>1, OthersKeepRing
<1>7. CASE UNCHANGED B!vars
  <2>1. UNCHANGED <<time, setting, starts, volumes, tripped, taken>>
        /\ paused' \in BOOLEAN /\ alarm' \in BOOLEAN
    BY <1>0, <1>7 DEF B!vars
  <2> QED BY <2>1, OthersKeepRing
<1> QED BY <1>1, <1>2, <1>3, <1>4, <1>5, <1>6, <1>7 DEF B!Next

-----------------------------------------------------------------------------
(* What the invariant says of the breaker.                                   *)

LEMMA LimitHolds == ASSUME B!CircuitBreakerAssumption, BreakerInv PROVE B!VolumeIsLimited
<1> SUFFICES ASSUME setting.enabled
             PROVE  B!TakenBetween(time - B!Remembered, time) <= setting.threshold
  BY DEF B!VolumeIsLimited
<1>1. PICK c, P : c = setting /\ P = PrefixSums(Daily(taken))
  OBVIOUS
<1>2. /\ time \in Nat /\ time >= Genesis /\ c \in BreakerConfigs /\ taken \in [B!Times -> Nat]
      /\ c.enabled
  BY <1>1, BreakerTypes DEF BreakerInv
<1>3. B!Remembered = MemoryOf(c)
  BY <1>1 DEF B!Remembered, MemoryOf
<1>4. MemoryOf(c) \in Nat /\ time - MemoryOf(c) - 1 \in Nat
  BY <1>2, MemoryFits
<1>5. PICK from \in Nat \ {0} : from = time - MemoryOf(c) /\ from <= time + 1
  BY <1>2, <1>4
<1>6. B!TakenBetween(from, time) = P[time] - P[from - 1]
  BY <1>1, <1>2, <1>5, Between
<1>7. P[time] - P[time - MemoryOf(c) - 1] <= c.threshold
  BY <1>1 DEF BreakerInv, RingInv, Limited
<1>8. B!TakenBetween(from, time) <= c.threshold
  BY <1>5, <1>6, <1>7
<1> QED BY <1>1, <1>3, <1>5, <1>8

LEMMA NoneIsFalse == ASSUME B!CircuitBreakerAssumption, BreakerInv PROVE B!NoFalseAlarm
<1> SUFFICES ASSUME NEW a \in Withdrawals, B!Exceeds(a)
             PROVE  B!TakenBetween(time - setting.window, time) + a > setting.threshold
  BY DEF B!NoFalseAlarm
<1>1. PICK c, n, secs, P :
        c = setting /\ n = c.buckets /\ secs = B!BucketSecs(c) /\ P = PrefixSums(Daily(taken))
  OBVIOUS
<1>2. /\ time \in Nat /\ time >= Genesis /\ c \in BreakerConfigs /\ taken \in [B!Times -> Nat]
      /\ starts \in Ring(n) /\ volumes \in Ring(n) /\ c.enabled /\ a \in Nat
  <2>1. setting.enabled
    BY DEF B!Exceeds
  <2>2. a \in Nat
    BY DEF B!CircuitBreakerAssumption
  <2> QED BY <1>1, <2>1, <2>2, BreakerTypes DEF BreakerInv
<1>3. /\ n \in Nat \ {0} /\ secs \in Nat \ {0} /\ c.window \in Nat \ {0} /\ c.threshold \in Nat
      /\ c.window < time
  BY <1>1, <1>2, SecsFit
<1>4. PICK from \in Nat \ {0} : from = time - setting.window /\ from <= time + 1 /\ from \in Int
  BY <1>1, <1>2, <1>3
<1>5. PICK held \in Int, kept \in Int :
        /\ held = HeldFrom(n, Started(n, secs, starts, time),
                           Emptied(n, secs, starts, volumes, time), from)
        /\ kept = HeldFrom(n, starts, volumes, from) /\ held <= kept
  <2>1. /\ Started(n, secs, starts, time) \in Ring(n)
        /\ Emptied(n, secs, starts, volumes, time) \in Ring(n)
        /\ HeldFrom(n, Started(n, secs, starts, time), Emptied(n, secs, starts, volumes, time), from)
             <= HeldFrom(n, starts, volumes, from)
    BY <1>2, <1>3, <1>4, RenewedHoldsLess
  <2> QED BY <1>2, <1>3, <1>4, <2>1, HeldIsNat
<1>6. B!RollingTotal(a) = a + held
  BY <1>1, <1>4, <1>5, SpendIs
<1>7. kept <= P[time] - P[from - 1]
  <2>1. CountedOnce(n, starts, volumes, P, time)
    BY <1>1, <1>2 DEF BreakerInv, RingInv
  <2>2. from \in 1 .. time + 1
    BY <1>2, <1>4
  <2> QED BY <1>5, <2>1, <2>2 DEF CountedOnce
<1>8. B!TakenBetween(from, time) = P[time] - P[from - 1]
  BY <1>1, <1>2, <1>4, Between
<1>9. P[time] \in Int /\ P[from - 1] \in Int
  <2>1. P \in [Nat -> Int] /\ from - 1 \in Nat
    BY <1>1, <1>2, <1>4, DailyIs
  <2> QED BY <1>2, <2>1
<1>10. a + held > c.threshold
  BY <1>1, <1>6 DEF B!Exceeds
<1>11. B!TakenBetween(from, time) + a > c.threshold
  BY <1>2, <1>3, <1>5, <1>7, <1>8, <1>9, <1>10
<1> QED BY <1>1, <1>4, <1>11

-----------------------------------------------------------------------------
(* The rules together. *)

\* A behaviour of the rules about one of them is a behaviour of that one.
LEMMA CreditSteps ==
    ASSUME focus = "credit", [RulesNext]_ruleVars
    PROVE  [C!Next]_(C!vars)
BY DEF RulesNext, GovernanceNext, BreakerNext, CreditNext, SubscriptionsNext, InGovernance,
       InBreaker, InCredit, InSubscriptions, ruleVars, creditVars, C!vars

LEMMA FocusStays == ASSUME [RulesNext]_ruleVars PROVE focus' = focus
BY DEF RulesNext, GovernanceNext, BreakerNext, CreditNext, SubscriptionsNext, InGovernance,
       InBreaker, InCredit, InSubscriptions, ruleVars

\* For all tips, amounts, metrics and times, no sequence of operations leaves a stored score below
\* the base or above what the creator's numbers give, and in every reachable state the formula of
\* the contract and that of the backend agree (credit.rs:121-251, refund.rs:343, admin.rs:235).
THEOREM ScoresStayHonest == RulesSpec => []ScoresAreHonest
<1> DEFINE I == focus = "credit" => CreditInv
<1> USE RulesAssumption
<1>1. RulesInit => I
  BY CreditInitInv DEF RulesInit
<1>2. I /\ [RulesNext]_ruleVars => I'
  BY CreditSteps, FocusStays, CreditNextInv
<1>3. I => ScoresAreHonest
  <2> SUFFICES ASSUME CreditInv PROVE C!Safe
    BY DEF ScoresAreHonest
  <2>1. /\ creator.tips \in Int /\ creator.followers \in Nat /\ creator.engagement \in Nat
        /\ C!Days(creator.registered, time) \in Nat
    BY DaysIsNat DEF CreditInv, C!TypeOK
  <2>2. C!FormulasAgree
    BY <2>1, ImplementationsAgree DEF C!FormulasAgree
  <2> QED BY <2>2 DEF CreditInv, C!Safe
<1> HIDE DEF I
<1> QED BY <1>1, <1>2, <1>3, PTL DEF RulesSpec

LEMMA BreakerSteps ==
    ASSUME focus = "breaker", [RulesNext]_ruleVars
    PROVE  [B!Next]_(B!vars)
BY DEF RulesNext, GovernanceNext, BreakerNext, CreditNext, SubscriptionsNext, InGovernance,
       InBreaker, InCredit, InSubscriptions, ruleVars, breakerVars, B!vars

\* For all configurations, amounts and ways of spreading withdrawals over time, no more than the
\* threshold leaves within the time the ring remembers, whatever slots are reused meanwhile, and
\* no withdrawal is refused that the window has room for (circuit_breaker.rs,
\* record_withdrawal_or_trip).
THEOREM LimitIsExact == RulesSpec => []BreakerIsExact
<1> DEFINE I == focus = "breaker" => BreakerInv
<1> USE RulesAssumption
<1>1. RulesInit => I
  BY BreakerInitInv DEF RulesInit
<1>2. I /\ [RulesNext]_ruleVars => I'
  BY BreakerSteps, FocusStays, BreakerNextInv
<1>3. I => BreakerIsExact
  BY LimitHolds, NoneIsFalse DEF BreakerIsExact, B!Safe, BreakerInv
<1> HIDE DEF I
<1> QED BY <1>1, <1>2, <1>3, PTL DEF RulesSpec

LEMMA SubscriptionSteps ==
    ASSUME [RulesNext]_ruleVars
    PROVE  [S!Next]_(S!vars)
BY DEF RulesNext, GovernanceNext, BreakerNext, CreditNext, SubscriptionsNext, InGovernance,
       InBreaker, InCredit, InSubscriptions, ruleVars, subscriptionVars, S!vars

LEMMA SubscriptionsStay == RulesInit /\ [][RulesNext]_ruleVars => []SubInv
<1> USE RulesAssumption
<1>1. RulesInit => SubInv
  BY SubInitInv DEF RulesInit
<1>2. SubInv /\ [RulesNext]_ruleVars => SubInv'
  BY SubscriptionSteps, SubNextKeeps DEF Kept
<1> QED BY <1>1, <1>2, PTL

\* For all subscribers, creators, intervals, limits and batches, no sequence of creations, changes,
\* cancellations, charges and batches leaves the list other than the active subscriptions, each
\* once, or a subscriber charged for a period that has not begun, or a change that outlives its
\* subscription (subscription.rs:10-260).
THEOREM SubscriptionsStayExact == RulesSpec => []SubscriptionsSafe
<1>1. SubInv => SubscriptionsSafe
  BY SubInvIsSafe DEF SubscriptionsSafe
<1> QED BY <1>1, SubscriptionsStay, PTL DEF RulesSpec

\* Whatever is charged, changed or batched, a running subscription that is not due keeps its
\* amount and its due date (subscription.rs:36-84).
THEOREM TermsHold == RulesSpec => TermsHoldForPeriod
<1> USE RulesAssumption
<1>1. SubInv /\ [RulesNext]_ruleVars =>
        [\A p \in S!Pairs :
           S!Active(p) /\ S!Active(p)' /\ day < subs[p].due => subs'[p] = subs[p]]_(S!vars)
  BY SubscriptionSteps, SubNextKeeps DEF Kept, TermsKept
<1> QED BY <1>1, SubscriptionsStay, PTL DEF RulesSpec, TermsHoldForPeriod, S!TermsHoldForPeriod

\* The batch does not look at the pause flags, but while one is set nobody's money moves in it and
\* no due date advances (subscription.rs:148-189, 229-260).
THEOREM PauseHoldsCharges == RulesSpec => PauseStopsCharges
<1> USE RulesAssumption
<1>1. SubInv /\ [RulesNext]_ruleVars =>
        [halted => \A p \in S!Pairs : wallet'[p[1]] >= wallet[p[1]]
                                      /\ subs'[p].due = subs[p].due]_(S!vars)
  BY SubscriptionSteps, SubNextKeeps DEF Kept, PauseKept
<1> QED BY <1>1, SubscriptionsStay, PTL DEF RulesSpec, PauseStopsCharges, S!PauseStopsCharges
=============================================================================
