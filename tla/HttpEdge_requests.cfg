\* Every request of two pages and three keys, one of them not ASCII, under every setting.
SPECIFICATION FairSpec
CONSTANTS
  Pages <- TwoPages
  Keys <- ThreeKeys
  Ascii <- TwoKeys
  Here = Here
  Any = Any
  NoOne = NoOne
  Anonymous = Anonymous
INVARIANTS
  HandlersServePrincipals
  AnswersReachAllowedPages
PROPERTIES
  WelcomeRequestsAreHandled
CHECK_DEADLOCK FALSE
