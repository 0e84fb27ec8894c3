-------------------------- MODULE MCContractGroup --------------------------
(* Small instances of ContractGroup: two slots in one branch, or one slot. *)
EXTENDS ContractGroup

CONSTANTS c1, c2, b1

MCBranchOf == [c \in Contracts |-> b1]
MCEither == {{}, {"SCHEDULED"}}
=============================================================================
