------------------------ MODULE MCFeatureEnvironment ------------------------
(* FeatureEnvironment on small instances.                                  *)
EXTENDS FeatureEnvironment, TLC

CONSTANTS s1, s2, s3, c1, c2

TwoStrategies == {s1, s2}
ThreeStrategies == {s1, s2, s3}
OneCaller == {c1}
TwoCallers == {c1, c2}

(* A default strategy that is on, or any the API accepts.                  *)
DefaultsOn == {"none", "on"}
AllDefaults == {"none", "on", "off"}

StrategySymmetry == Permutations(ThreeStrategies) \cup Permutations(TwoCallers)
=============================================================================
