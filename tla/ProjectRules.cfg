SPECIFICATION Spec
CONSTANTS
  Users = {u1}
  Groups = {g1}
  OtherRoles = {member}
  Environments = {e1, e2}
  Features = {f1}
  Callers = {c1, c2}
INVARIANTS
  TypeOK
  HasEnvironment
  FeaturesHaveProject
PROPERTIES
  LastOwnerStays
CONSTRAINT Undisturbed
SYMMETRY CallerSymmetry
