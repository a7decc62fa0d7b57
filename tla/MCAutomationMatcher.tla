------------------------- MODULE MCAutomationMatcher ------------------------
(* Small instances of AutomationMatcher for TLC. *)
EXTENDS AutomationMatcher, TLC

CONSTANTS k1, k2, o1, o2

\* Each rule has an organization of its own.
TwoTenants == [k \in Rules |-> IF k = k1 THEN o1 ELSE o2]

\* Every rule takes the same payload.
TakesFit == [k \in Rules |-> {"fit"}]

\* Instances are interchangeable.
InstanceSymmetry == Permutations(Instances)
=============================================================================
