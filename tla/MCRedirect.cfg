SPECIFICATION Spec
CONSTANTS
  Images <- MCImages
  Hosts <- MCHosts
  Keys <- MCKeys
  Text = {"x", "c", "d", "e", "q", "r", "cr"}
  MaxInstalls = 3
INVARIANTS TypeOK StringsOnly WholeOrUntouched InstalledMeansRedirected
PROPERTIES OverwrittenOnce
CHECK_DEADLOCK FALSE
