\* Two clients that keep their own content and take the version from the answer.
SPECIFICATION Spec
CONSTANTS
  a = a
  aTidied = aTidied
  b = b
  faulty = faulty
  p1 = p1
  p2 = p2
  c1 = c1
  c2 = c2
  c3 = c3
  NoProject = NoProject
  NoSpec = NoSpec
  Projects = {p1}
  Clients = {c1, c2}
  Runs = {}
  Specs = {a, b}
  Canon <- CanonOf
  Text <- TextOf
  Samples <- SmallTexts
  Optional <- OptionalKeys
  Values <- AllValues
  Depth <- Depths
  Runnable <- AllBut
  Adopting = {}
  Blind = {}
  MaxVersion = 4
PROPERTIES NoSilentOverwrite
CHECK_DEADLOCK FALSE
