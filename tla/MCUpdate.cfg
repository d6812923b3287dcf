SPECIFICATION Spec
CONSTANTS
  Updaters = {u1, u2}
  Versions = {1, 2, 3}
  Releases <- MCReleases
SYMMETRY Symmetry
INVARIANTS
  InstalledWorks
  VerdictIsTrue
PROPERTIES
  NoSilentDowngrade
CHECK_DEADLOCK FALSE
