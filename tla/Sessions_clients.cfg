SPECIFICATION Spec
CONSTANTS
  a = a
  b = b
  p1 = p1
  p2 = p2
  Conns = {c1, c2}
  Channels = {a, b}
  Passwords = {p1, p2}
  RequirePass = None
  Commands <- SomeCommands
  MaxPublish = 1
  MaxQueue = 1
  None = None
INVARIANTS NeverSubscribedInTx ExecIsAuthenticated LatecomersGavePassword
PROPERTY Publishing
CHECK_DEADLOCK FALSE
