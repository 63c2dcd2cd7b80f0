SPECIFICATION FairSpec
CONSTANTS
  Plan <- MCTwice
  Present <- MCPresent
  g1 = g1
  g2 = g2
  Callers <- MCCallers
  Requests <- MCRequests
  Extensions = {"", ".sav"}
  Ports = {70000, 40000}
  PageOf <- MCPageOf
  MayFail = TRUE
INVARIANTS TypeOK ForwardsToOriginal PagesAreRestored InstallIsIdempotent RedirectIsOneToOne
PROPERTIES HookTakesEffect CallsReturn NoneGoesPastHook CallsOnlyAdvance IsInterception
CHECK_DEADLOCK FALSE
