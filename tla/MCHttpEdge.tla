------------------------------ MODULE MCHttpEdge ------------------------------
(* A small instance of HttpEdge for TLC.                                      *)
EXTENDS HttpEdge

\* Two origins and two keys: one of each can be allowed while the other is not.
\* A third key is not ASCII.  Requests and settings are all enumerated by Init.
TwoPages == {"https://app", "https://other"}
TwoKeys == {"k1", "k2"}
ThreeKeys == TwoKeys \cup {"with an umlaut"}
=============================================================================
