---------------------------- MODULE MCGovernance ----------------------------
(* A small instance of Governance for TLC. *)
EXTENDS Governance

CONSTANTS a1, a2, a3

\* Lists with one signer, two signers, and one signer written twice.
MCApproverLists == {<<a1>>, <<a2, a3>>, <<a2, a2>>}
=============================================================================
