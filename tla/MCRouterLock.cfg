SPECIFICATION RouterSpec
CONSTANTS
  m1 = m1  m2 = m2  m3 = m3  u1 = u1  u2 = u2  u3 = u3
  Ids <- MCIds
  Upstreams <- MCUpstreams
  Groups = {"med"}
  Caps = {"streaming"}
  Contexts = {"ec2", "lambda"}
  Wires = {"openai"}
  Callers = {"a", "p"}
  InProcess = {"p"}
  Versions = {"v1", "v2"}
  RegistryOf <- MCRegistryOf
  MaxDeploys = 1
  MaxPolls = 1
  MaxAgain = 1
  None = None
PROPERTY GetRouterReturns
CHECK_DEADLOCK FALSE
