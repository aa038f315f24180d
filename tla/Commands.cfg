CONSTANTS
  irc = irc
  ctl = ctl
  ldr = ldr
  none = none
  alice = alice
  bob = bob
  Dispatchers <- MCDispatchers
  Irc = irc
  Loader = ldr
  NoCaller = none
  Users = {alice, bob}
  Seeds = {alice}
  WorkerRole = "admin"
  MaxRequests = 3
  MaxBindings = 2
  MaxRestarts = 1
SPECIFICATION Spec
INVARIANTS AnswersMatch WorkIsAwaited
PROPERTIES NobodyElseEndsIt RequestsEnd OwnerRemains RemovedStaysRemoved AuthorityIsCurrent
CHECK_DEADLOCK FALSE
