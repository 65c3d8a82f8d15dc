----------------------------- MODULE Governance -----------------------------
(***************************************************************************)
(* Who may change the Tipz contract's settings, and how: the admin alone,  *)
(* until a multisig is configured; after that a quorum of its signers for  *)
(* the operations that require_no_multisig guards.  Fee raises and changes *)
(* of the admin are proposals that wait; either kind may be overtaken by a *)
(* new multisig configuration or by a proposal of the other route.         *)
(*                                                                         *)
(* One clock stands for ledger number and timestamp: no rule compares the  *)
(* two.  Settings that nothing here reads (fee collector, minimum amounts, *)
(* audit log) are left out.                                                *)
(***************************************************************************)
EXTENDS Integers, SequencesExt

CONSTANTS
  Addresses,      \* whoever may be admin or signer
  FirstAdmin,     \* the admin given to initialize
  Rosters,        \* lists of signers offered to set_multisig_config
  FeeRates,       \* rates offered to the fee operations, initialize's among them
  MaxFeeBps,      \* 1000
  MinFeeDelay,    \* MIN_FEE_CHANGE_DELAY_LEDGERS
  FeeDelays,      \* delays offered to set_fee_change_delay
  AdminTimelock,  \* ADMIN_CHANGE_TIMELOCK_SECS
  AdminExpiry,    \* ADMIN_PROPOSAL_EXPIRY_SECS
  ProposalExpiry, \* DEFAULT_PROPOSAL_EXPIRY
  PauseBits,      \* the single-bit pause flags in use
  Hashes,         \* WASM hashes
  MaxProposals,   \* bound on multisig proposals
  MaxEpoch,       \* bound on the configuration epoch
  MaxVersion,     \* bound on the contract version
  MaxTime         \* bound on the clock

ASSUME GovernanceAssumption ==
  /\ FirstAdmin \in Addresses /\ Rosters \subseteq Seq(Addresses)
  /\ FeeRates \subseteq Nat /\ MaxFeeBps \in Nat
  /\ MinFeeDelay \in Nat \ {0} /\ FeeDelays \subseteq Nat
  /\ AdminTimelock \in Nat /\ AdminExpiry \in Nat /\ ProposalExpiry \in Nat
  /\ MaxProposals \in Nat /\ MaxEpoch \in Nat /\ MaxVersion \in Nat /\ MaxTime \in Nat

VARIABLES
  now,          \* ledger number and timestamp
  admin,        \* Admin
  fee,          \* FeeBps
  feeDelay,     \* fee_change_delay_ledgers
  pendingFee,   \* PendingFeeChange: bps, effective ledger, proposal ledger, immediate
  pendingAdmin, \* AdminChangeProposal
  pauseFlags,   \* the pause bits that are set
  wasm,         \* the code the contract runs
  version,      \* ContractVersion
  proposedHash, \* ProposedUpgradeHash
  config,       \* MultisigConfig
  proposals     \* Proposal(0), Proposal(1), ...

feeVars == <<fee, feeDelay>>
codeVars == <<wasm, version>>
multisigVars == <<config, proposals>>
\* What an executed proposal may change.
governed == <<admin, pendingFee, pauseFlags, codeVars>>
vars == <<now, governed, feeVars, pendingAdmin, proposedHash, multisigVars>>

NoFeeChange == [bps |-> 0, effective |-> 0, at |-> 0, immediate |-> FALSE, pending |-> FALSE]
NoAdminChange == [to |-> FirstAdmin, after |-> 0, expires |-> 0, pending |-> FALSE]
NoConfig == [required |-> 0, signers |-> <<>>, epoch |-> -1]
NoHash == "none"

Actions ==
  [kind : {"pause", "unpause"}]
    \cup [kind : {"upgrade"}, hash : Hashes]
    \cup [kind : {"set_fee"}, bps : FeeRates]
    \cup [kind : {"set_admin"}, to : Addresses]

MultisigEnabled == config # NoConfig
IsSigner(a) == a \in ToSet(config.signers)

\* require_admin and, for the guarded operations, require_no_multisig.
AsAdmin(caller) == caller = admin
RequireNothing == TRUE
RequireNoMultisig == ~ MultisigEnabled

-----------------------------------------------------------------------------
(* The changes themselves.                                                 *)

\* propose_fee_change_inner: a raise waits, anything else may be applied at once.
NeverARaise(bps) == FALSE
IsRaise(bps) == bps > fee

FeeChange(bps) ==
  [bps |-> bps, effective |-> IF IsRaise(bps) THEN now + feeDelay ELSE now,
   at |-> now, immediate |-> ~ IsRaise(bps), pending |-> TRUE]

CanProposeFee(bps) ==
  bps <= MaxFeeBps /\ feeDelay >= MinFeeDelay /\ ~ pendingFee.pending

FeeDue(change) == change.immediate \/ now >= change.effective

SetPauseFlags(flags) == pauseFlags' = flags

InstallCode(hash) ==
  /\ version < MaxVersion
  /\ wasm' = hash /\ version' = version + 1

\* execute_proposal_internal's match.
Effect(action) ==
  \/ /\ action.kind = "pause"
     /\ pauseFlags' = PauseBits
     /\ UNCHANGED <<admin, pendingFee, codeVars>>
  \/ /\ action.kind = "unpause"
     /\ pauseFlags' = {}
     /\ UNCHANGED <<admin, pendingFee, codeVars>>
  \/ /\ action.kind = "upgrade"
     /\ InstallCode(action.hash)
     /\ UNCHANGED <<admin, pendingFee, pauseFlags>>
  \/ /\ action.kind = "set_fee"
     /\ CanProposeFee(action.bps)
     /\ pendingFee' = FeeChange(action.bps)
     /\ UNCHANGED <<admin, pauseFlags, codeVars>>
  \/ /\ action.kind = "set_admin"
     /\ admin' = action.to
     /\ UNCHANGED <<pendingFee, pauseFlags, codeVars>>

-----------------------------------------------------------------------------
Init ==
  /\ now = 0 /\ admin = FirstAdmin
  /\ fee \in {f \in FeeRates : f <= MaxFeeBps}
  /\ feeDelay \in {d \in FeeDelays : d >= MinFeeDelay}
  /\ pendingFee = NoFeeChange /\ pendingAdmin = NoAdminChange
  /\ pauseFlags = {}
  /\ wasm = NoHash /\ version = 0 /\ proposedHash = NoHash
  /\ config = NoConfig /\ proposals = <<>>

Tick ==
  /\ now < MaxTime
  /\ now' = now + 1
  /\ UNCHANGED <<governed, feeVars, pendingAdmin, proposedHash, multisigVars>>

-----------------------------------------------------------------------------
(* The admin's operations.                                                 *)

ProposeFeeChange(caller, bps) ==
  /\ AsAdmin(caller) /\ RequireNoMultisig
  /\ CanProposeFee(bps)
  /\ pendingFee' = FeeChange(bps)
  /\ UNCHANGED <<now, admin, pauseFlags, codeVars, feeVars, pendingAdmin, proposedHash,
                 multisigVars>>

\* Not guarded: a quorum's SetFee only proposes, and the admin applies it.
ApplyFeeChange(caller) ==
  /\ AsAdmin(caller)
  /\ pendingFee.pending /\ FeeDue(pendingFee) /\ pendingFee.bps <= MaxFeeBps
  /\ fee' = pendingFee.bps
  /\ pendingFee' = NoFeeChange
  /\ UNCHANGED <<now, admin, pauseFlags, codeVars, feeDelay, pendingAdmin, proposedHash,
                 multisigVars>>

\* Proposes and applies in one call, so a raise is rolled back.
SetFee(caller, bps) ==
  /\ AsAdmin(caller) /\ RequireNoMultisig
  /\ CanProposeFee(bps)
  /\ FeeDue(FeeChange(bps))
  /\ fee' = bps
  /\ UNCHANGED <<now, governed, feeDelay, pendingAdmin, proposedHash, multisigVars>>

CancelFeeChange(caller) ==
  /\ AsAdmin(caller) /\ RequireNoMultisig
  /\ pendingFee.pending
  /\ pendingFee' = NoFeeChange
  /\ UNCHANGED <<now, admin, pauseFlags, codeVars, feeVars, pendingAdmin, proposedHash,
                 multisigVars>>

SetFeeChangeDelay(caller, delay) ==
  /\ AsAdmin(caller) /\ RequireNoMultisig
  /\ delay >= MinFeeDelay
  /\ feeDelay' = delay
  /\ UNCHANGED <<now, governed, fee, pendingAdmin, proposedHash, multisigVars>>

ProposeAdminChange(caller, successor) ==
  /\ AsAdmin(caller) /\ RequireNoMultisig
  /\ successor # admin
  /\ ~ pendingAdmin.pending
  /\ pendingAdmin' = [to |-> successor, after |-> now + AdminTimelock,
                      expires |-> now + AdminTimelock + AdminExpiry, pending |-> TRUE]
  /\ UNCHANGED <<now, governed, feeVars, proposedHash, multisigVars>>

\* The removal of an expired proposal is rolled back with the error it returns:
\* only cancel_admin_change makes room for another one.
ConfirmAdminChange(caller) ==
  /\ pendingAdmin.pending /\ caller = pendingAdmin.to
  /\ pendingAdmin.after <= now /\ now <= pendingAdmin.expires
  /\ admin' = caller
  /\ pendingAdmin' = NoAdminChange
  /\ UNCHANGED <<now, pendingFee, pauseFlags, codeVars, feeVars, proposedHash, multisigVars>>

CancelAdminChange(caller) ==
  /\ AsAdmin(caller)
  /\ pendingAdmin.pending
  /\ pendingAdmin' = NoAdminChange
  /\ UNCHANGED <<now, governed, feeVars, proposedHash, multisigVars>>

Pause(caller, mask) ==
  /\ AsAdmin(caller) /\ RequireNoMultisig
  /\ SetPauseFlags(pauseFlags \cup mask)
  /\ UNCHANGED <<now, admin, pendingFee, codeVars, feeVars, pendingAdmin, proposedHash,
                 multisigVars>>

Unpause(caller, mask) ==
  /\ AsAdmin(caller) /\ RequireNoMultisig
  /\ SetPauseFlags(pauseFlags \ mask)
  /\ UNCHANGED <<now, admin, pendingFee, codeVars, feeVars, pendingAdmin, proposedHash,
                 multisigVars>>

ProposeUpgrade(caller, hash) ==
  /\ AsAdmin(caller)
  /\ proposedHash' = hash
  /\ UNCHANGED <<now, governed, feeVars, pendingAdmin, multisigVars>>

CancelUpgrade(caller) ==
  /\ AsAdmin(caller)
  /\ proposedHash' = NoHash
  /\ UNCHANGED <<now, governed, feeVars, pendingAdmin, multisigVars>>

Upgrade(caller, hash) ==
  /\ AsAdmin(caller) /\ RequireNoMultisig
  /\ proposedHash = hash
  /\ InstallCode(hash)
  /\ proposedHash' = NoHash
  /\ UNCHANGED <<now, admin, pendingFee, pauseFlags, feeVars, pendingAdmin, multisigVars>>

-----------------------------------------------------------------------------
(* The multisig.                                                           *)

SameEpoch == config.epoch
NextEpoch == config.epoch + 1

\* The admin's own operation, with or without a multisig in force.  A roster may
\* name a signer twice.
SetMultisigConfig(caller, required, signers) ==
  /\ AsAdmin(caller)
  /\ 1 <= required /\ required <= Len(signers)
  /\ config.epoch < MaxEpoch
  /\ config' = [required |-> required, signers |-> signers, epoch |-> NextEpoch]
  /\ UNCHANGED <<now, governed, feeVars, pendingAdmin, proposedHash, proposals>>

\* Executed when the approvals suffice; a failing effect takes the approval with it.
Record(proposal, enough) == [proposal EXCEPT !.executed = enough]
Enough(proposal) == Len(proposal.approvals) >= config.required

Carry(proposal) ==
  IF Enough(proposal) THEN Effect(proposal.action) ELSE UNCHANGED governed

ProposeAction(signer, action) ==
  LET proposal == [action |-> action, approvals |-> <<signer>>, proposer |-> signer,
                   expires |-> now + ProposalExpiry, executed |-> FALSE,
                   cancelled |-> FALSE, epoch |-> config.epoch]
  IN  /\ MultisigEnabled /\ IsSigner(signer)
      /\ Len(proposals) < MaxProposals
      /\ proposals' = Append(proposals, Record(proposal, Enough(proposal)))
      /\ Carry(proposal)
      /\ UNCHANGED <<now, feeVars, pendingAdmin, proposedHash, config>>

OpenInAnyEpoch(proposal) ==
  ~ proposal.executed /\ ~ proposal.cancelled /\ now <= proposal.expires
Approvable(proposal) ==
  /\ ~ proposal.executed /\ ~ proposal.cancelled
  /\ now <= proposal.expires
  /\ proposal.epoch = config.epoch

ApproveAction(signer, id) ==
  LET approved == [proposals[id] EXCEPT !.approvals = Append(@, signer)]
  IN  /\ MultisigEnabled /\ IsSigner(signer)
      /\ Approvable(proposals[id])
      /\ signer \notin ToSet(proposals[id].approvals)
      /\ proposals' = [proposals EXCEPT ![id] = Record(approved, Enough(approved))]
      /\ Carry(approved)
      /\ UNCHANGED <<now, feeVars, pendingAdmin, proposedHash, config>>

CancellableAnyTime(proposal, caller) == proposal.proposer = caller
Cancellable(proposal, caller) ==
  ~ proposal.executed /\ ~ proposal.cancelled /\ proposal.proposer = caller

CancelProposal(caller, id) ==
  /\ Cancellable(proposals[id], caller)
  /\ proposals' = [proposals EXCEPT ![id].cancelled = TRUE]
  /\ UNCHANGED <<now, governed, feeVars, pendingAdmin, proposedHash, config>>

-----------------------------------------------------------------------------
PauseMasks == {{b} : b \in PauseBits} \cup {PauseBits}

FeeStep(caller) ==
  \/ \E bps \in FeeRates : ProposeFeeChange(caller, bps) \/ SetFee(caller, bps)
  \/ ApplyFeeChange(caller) \/ CancelFeeChange(caller)
  \/ \E delay \in FeeDelays : SetFeeChangeDelay(caller, delay)

AdminStep(caller) ==
  \/ \E successor \in Addresses : ProposeAdminChange(caller, successor)
  \/ ConfirmAdminChange(caller) \/ CancelAdminChange(caller)

PauseStep(caller) == \E mask \in PauseMasks : Pause(caller, mask) \/ Unpause(caller, mask)

UpgradeStep(caller) ==
  \/ \E hash \in Hashes : ProposeUpgrade(caller, hash) \/ Upgrade(caller, hash)
  \/ CancelUpgrade(caller)

MultisigStep(caller) ==
  \/ \E signers \in Rosters :
       \E required \in 1 .. Len(signers) : SetMultisigConfig(caller, required, signers)
  \/ \E action \in Actions : ProposeAction(caller, action)
  \/ \E id \in DOMAIN proposals : ApproveAction(caller, id) \/ CancelProposal(caller, id)

Next ==
  \/ Tick
  \/ \E caller \in Addresses :
       \/ FeeStep(caller) \/ AdminStep(caller) \/ PauseStep(caller)
       \/ UpgradeStep(caller) \/ MultisigStep(caller)

Spec == Init /\ [][Next]_vars

-----------------------------------------------------------------------------
(* Properties.                                                             *)

FeeChanges ==
  [bps : FeeRates \cup {0}, effective : Nat, at : Nat, immediate : BOOLEAN, pending : BOOLEAN]
AdminChanges == [to : Addresses, after : Nat, expires : Nat, pending : BOOLEAN]
Configs == [required : Nat, signers : Seq(Addresses), epoch : -1 .. MaxEpoch]
Proposals ==
  [action : Actions, approvals : Seq(Addresses), proposer : Addresses, expires : Nat,
   executed : BOOLEAN, cancelled : BOOLEAN, epoch : 0 .. MaxEpoch]

\* Every variable keeps the type of the storage entry it stands for, and the fee
\* and its delay stay within the limits their operations check.
TypeOK ==
  /\ now \in 0 .. MaxTime
  /\ admin \in Addresses
  /\ fee \in FeeRates /\ fee <= MaxFeeBps
  /\ feeDelay \in FeeDelays /\ feeDelay >= MinFeeDelay
  /\ pendingFee \in FeeChanges /\ pendingAdmin \in AdminChanges
  /\ pauseFlags \subseteq PauseBits
  /\ wasm \in Hashes \cup {NoHash} /\ proposedHash \in Hashes \cup {NoHash}
  /\ version \in 0 .. MaxVersion
  /\ config \in Configs /\ proposals \in Seq(Proposals)

\* Creators are warned: whoever proposes a raise and whatever happens to delays,
\* decreases and multisigs meanwhile, the fee rises only to a rate that has been
\* pending for MIN_FEE_CHANGE_DELAY_LEDGERS.
FeeRaiseWasAnnounced ==
  [][ fee' > fee => /\ pendingFee.pending /\ pendingFee.bps = fee'
                    /\ now >= pendingFee.at + MinFeeDelay ]_vars

Different(s) == \A i, j \in DOMAIN s : s[i] = s[j] => i = j
Quorum(approvals) ==
  /\ Different(approvals)
  /\ \A i \in DOMAIN approvals : IsSigner(approvals[i])
  /\ Len(approvals) >= config.required

Executes(id) == proposals'[id].executed /\ (id \in DOMAIN proposals => ~ proposals[id].executed)
SomeExecutes == \E id \in DOMAIN proposals' : Executes(id)

\* A proposal is executed by enough different signers of the configuration in
\* force: approvals given under an earlier roster or threshold never count.
QuorumExecutes ==
  [][ \A id \in DOMAIN proposals' : Executes(id) => Quorum(proposals'[id].approvals) ]_vars

\* An executed or cancelled proposal is never approved, executed or cancelled again.
ClosedStaysClosed ==
  [][ \A id \in DOMAIN proposals :
        proposals[id].executed \/ proposals[id].cancelled => proposals'[id] = proposals[id] ]_vars

\* While a multisig is in force the pause flags, the code and a new fee change come
\* from an executed proposal only, and no fee change is withdrawn unapplied.
GuardedChange ==
  \/ <<pauseFlags, wasm>>' # <<pauseFlags, wasm>>
  \/ pendingFee' # pendingFee /\ pendingFee'.pending
  \/ pendingFee.pending /\ ~ pendingFee'.pending /\ fee' # pendingFee.bps
GuardedByMultisig == [][ MultisigEnabled /\ GuardedChange => SomeExecutes ]_vars

\* The same of the admin's role: "admin transfer" is among the operations that
\* require_no_multisig is said to cover.
AdminChangesByQuorum == [][ MultisigEnabled /\ admin' # admin => SomeExecutes ]_vars
=============================================================================
