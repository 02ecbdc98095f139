\* A request without a key when keys are asked for.
SPECIFICATION Spec
CONSTANTS
  Pages <- TwoPages
  Keys <- ThreeKeys
  Ascii <- TwoKeys
  Here = Here
  Any = Any
  NoOne = NoOne
  Anonymous = Anonymous
INVARIANT
  OnlyProbesAreOpen
CHECK_DEADLOCK FALSE
