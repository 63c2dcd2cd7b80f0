SPECIFICATION Spec
CONSTANTS
  Plan <- MCRedirectTwice
  Present <- MCPresent
  g1 = g1
  g2 = g2
  Callers <- MCCallers
  Requests <- MCRequests
  Extensions = {"", ".sav"}
  Ports = {70000, 40000}
  PageOf <- MCPageOf
  MayFail = FALSE
INVARIANT InstallIsIdempotent
CHECK_DEADLOCK FALSE
