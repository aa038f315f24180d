SPECIFICATION Spec
CONSTANTS
  Requested <- MCRequested
  Extra = {}
  MaxChanges = 2
INVARIANTS
  TypeOK
  AuthenticatedOrFailed
  CapabilitiesAgree
PROPERTIES
  RegistrationEnds
\* A failed connection is the end of this module.
CHECK_DEADLOCK FALSE
