\* Two clients that adopt the answers they get and one submission, on one project.
SPECIFICATION Spec
CONSTANTS
  a = a
  aTidied = aTidied
  b = b
  faulty = faulty
  p1 = p1
  p2 = p2
  c1 = c1
  c2 = c2
  c3 = c3
  NoProject = NoProject
  NoSpec = NoSpec
  Projects = {p1}
  Clients = {c1, c2}
  Runs = {r1}
  Specs = {a, aTidied, b, faulty}
  Canon <- CanonOf
  Text <- TextOf
  Samples <- SmallTexts
  Optional <- OptionalKeys
  Values <- AllValues
  Depth <- Depths
  Runnable <- AllBut
  Adopting = {c1, c2}
  Blind = {c1, c2}
  MaxVersion = 3
INVARIANTS VersionCountsSaves SnapshotIsItsVersion FreshRunsMatch OutdatedRunsWereEdited
  RaisedByEditsOnly ComparisonAsMeant
PROPERTIES NoSilentOverwrite
CHECK_DEADLOCK FALSE
