----------------------------- MODULE ProjectSaves -----------------------------
(***************************************************************************)
(* ProjectVersions with the comparison that update_project makes: a spec   *)
(* has a JSON text, and Canon is what WithoutNulls leaves of its sections. *)
(***************************************************************************)
EXTENDS ProjectVersions, ProjectComparison, FiniteSetsExt

CONSTANTS
  Text,    \* Text[s]: the JSON of s, a function from keys
  Samples  \* what else a save may send

\* _SIMULATION_INPUTS of a project, without the nulls.
Sections(text) == [s \in Inputs |-> WithoutNulls[Get(text, s)]]

Texts == Samples \cup { Text[s] : s \in Specs }

\* What the API answers with is JSON again, and Canon is what the comparison
\* sees of a spec.
ASSUME TextsAssumption ==
  /\ \A text \in Texts \cup { Fetched(t) : t \in Texts } :
       \A s \in Inputs : Get(text, s) \in Values
  /\ \A v \in Values : Filled[v] \in Values
  /\ Canon = [s \in Specs |-> Sections(Text[s])]

\* Edit[s][t]: a simulation reads t otherwise than s.
Edit == [s \in Specs |-> [t \in Specs |-> ReadsOtherwise(Text[s], Text[t])]]

\* The saves of p that are edits.
EditsOf(p) ==
  LET h == history[p]
  IN  { v \in 2..Len(h) : Edit[h[v - 1]][h[v]] }

\* inputs_version is the last save that changed what a simulation reads: neither
\* sending back what was fetched, nor writing a null out, nor two saves at once
\* moves it, and every edit does, down to a null among the items of a list.
RaisedByEditsOnly ==
  \A p \in Projects : Exists(p) => inputsVersion[p] = Max({1} \cup EditsOf(p))

\* Judged[t]: what is compared with t differs exactly where a simulation reads
\* something else.
Judged ==
  [old \in Texts |->
    \A new \in Texts \cup { Fetched(text) : text \in Texts } :
      SectionsDiffer(old, new) <=> ReadsOtherwise(old, new)]

Misjudged == { text \in Texts : ~ Judged[text] }

\* Whatever a project holds, now or once any of the samples has been saved, the
\* comparison with what is saved next finds a difference exactly where a
\* simulation would read something else, whichever nulls are written or left
\* out; so a project that is fetched and saved back is the same.
ComparisonAsMeant ==
  \A p \in Projects : Exists(p) => (Samples \cup {Text[spec[p]]}) \cap Misjudged = {}
=============================================================================
