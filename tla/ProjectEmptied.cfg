SPECIFICATION Spec
CONSTANTS
  Users = {u1}
  Groups = {}
  OtherRoles = {}
  Environments = {e1, e2}
  Features = {}
  Callers = {c1}
PROPERTIES
  OneActiveEnvironment
