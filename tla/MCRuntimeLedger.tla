-------------------------- MODULE MCRuntimeLedger --------------------------
(* Small instance of RuntimeLedger for TLC: one agent of each profile. *)
EXTENDS RuntimeLedger, FiniteSets, TLC

CONSTANTS sdkAgent, sandAgent

MCProfile == (sdkAgent :> "sdk") @@ (sandAgent :> "sand")

\* Bound: one run has recorded tool calls.  A row is read and written under its
\* run and call id only, so calls of a second run add states but no interaction.
CallsOfOneRun == Cardinality({id[1] : id \in DOMAIN interaction}) <= 1

\* Bound: both runs have receipts only while no calls are recorded.  Records of
\* calls and receipts read the row of their run and otherwise their own table.
CallsOrReceipts == interaction = Empty \/ Cardinality(DOMAIN receipt) <= 1

Symmetry ==
  Permutations(Keys) \cup Permutations(Runs) \cup Permutations(Receipts)
    \cup Permutations(Policies)
=============================================================================
