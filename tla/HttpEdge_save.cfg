\* A page of an allowed origin that saves with If-Match.
SPECIFICATION Spec
CONSTANTS
  Pages <- TwoPages
  Keys <- ThreeKeys
  Ascii <- TwoKeys
  Here = Here
  Any = Any
  NoOne = NoOne
  Anonymous = Anonymous
INVARIANT
  PagesCanSaveTheirVersion
CHECK_DEADLOCK FALSE
