---------------------------- MODULE MCThresholds ----------------------------
\* A small instance of Thresholds.
EXTENDS Thresholds, TLC

\* Settings without a limit and with one of zero, and a budget above it.
SettingBodies ==
  {[above |-> NoAmount, cap |-> 2, currency |-> "USD"], [above |-> 0, cap |-> 2, currency |-> "USD"]}
CampaignBudgets == {[total |-> 1, currency |-> "USD"], [total |-> 2, currency |-> "USD"]}

\* Requests are interchangeable.
Symmetry == Permutations(Sessions)
=============================================================================
