--------------------------- MODULE ProjectFamilies ---------------------------
(***************************************************************************)
(* Bases and their scenarios: the base_project_id column of projects, as   *)
(* create_project sets it and deletions clear it                           *)
(* (services/projects_service.py, db/models.py).                           *)
(*                                                                         *)
(* create_project reads the project it is given as a base, decides from    *)
(* that row which project the new one will point at, and inserts the new   *)
(* row afterwards.  Whatever is created or deleted in between, a family    *)
(* has to stay one base and its scenarios.                                 *)
(***************************************************************************)
EXTENDS Naturals

CONSTANTS
  Projects,   \* ids that uuid4 may generate
  NoProject

ASSUME FamiliesAssumption == NoProject \notin Projects

VARIABLES
  status,    \* status[p]: "new", "pending" (its base was read), "stored" or "gone"
  base,      \* base[p]: base_project_id, in the row or still in the request
  madeFrom,  \* madeFrom[p]: the base_project_id that the request gave (auxiliary)
  baseThen   \* baseThen[p]: what madeFrom[p] had as its base when p was made (auxiliary)

familyVars == <<status, base, madeFrom, baseThen>>

Stored(p) == status[p] = "stored"

FamiliesInit ==
  /\ status = [p \in Projects |-> "new"]
  /\ base = [p \in Projects |-> NoProject]
  /\ madeFrom = [p \in Projects |-> NoProject]
  /\ baseThen = [p \in Projects |-> NoProject]

\* A project of its own.
CreateAlone(p) ==
  /\ status[p] = "new"
  /\ status' = [status EXCEPT ![p] = "stored"]
  /\ UNCHANGED <<base, madeFrom, baseThen>>

\* Mutant: a scenario of a scenario points at that scenario.
BaseOfScenario(b) == b

\* base.base_project_id or base.id
BaseOf(b) == IF base[b] # NoProject THEN base[b] ELSE b

\* Without the row of b, create_project ends here with a 404.
ReadBase(p, b) ==
  /\ status[p] = "new"
  /\ Stored(b)
  /\ status' = [status EXCEPT ![p] = "pending"]
  /\ base' = [base EXCEPT ![p] = BaseOf(b)]
  /\ madeFrom' = [madeFrom EXCEPT ![p] = b]
  /\ baseThen' = [baseThen EXCEPT ![p] = base[b]]

\* Mutant: the column has no foreign key.
InsertUnchecked(p) ==
  /\ status[p] = "pending"
  /\ status' = [status EXCEPT ![p] = "stored"]
  /\ UNCHANGED <<base, madeFrom, baseThen>>

\* The foreign key needs the base to be there still.
Insert(p) ==
  /\ status[p] = "pending"
  /\ Stored(base[p])
  /\ status' = [status EXCEPT ![p] = "stored"]
  /\ UNCHANGED <<base, madeFrom, baseThen>>

InsertFails(p) ==
  /\ status[p] = "pending"
  /\ ~Stored(base[p])
  /\ status' = [status EXCEPT ![p] = "gone"]
  /\ UNCHANGED <<base, madeFrom, baseThen>>

\* Mutant: ON DELETE CASCADE, as the runs have it.
DeleteFamily(p) ==
  /\ Stored(p)
  /\ status' = [q \in Projects |-> IF Stored(q) /\ p \in {q, base[q]}
                                   THEN "gone" ELSE status[q]]
  /\ UNCHANGED <<base, madeFrom, baseThen>>

\* Its scenarios become projects of their own (ON DELETE SET NULL).
Delete(p) ==
  /\ Stored(p)
  /\ status' = [status EXCEPT ![p] = "gone"]
  /\ base' = [q \in Projects |-> IF Stored(q) /\ base[q] = p THEN NoProject ELSE base[q]]
  /\ UNCHANGED <<madeFrom, baseThen>>

\* The request of a project that is about to be inserted is lost.
Lost(p) ==
  /\ status[p] = "pending"
  /\ status' = [status EXCEPT ![p] = "gone"]
  /\ UNCHANGED <<base, madeFrom, baseThen>>

FamiliesNext ==
  \E p \in Projects :
    \/ CreateAlone(p) \/ Insert(p) \/ InsertFails(p) \/ Delete(p) \/ Lost(p)
    \/ \E b \in Projects : ReadBase(p, b)

FamiliesSpec == FamiliesInit /\ [][FamiliesNext]_familyVars

-----------------------------------------------------------------------------

\* Every variable stays within its type.
FamiliesTypeOK ==
  /\ status \in [Projects -> {"new", "pending", "stored", "gone"}]
  /\ base \in [Projects -> Projects \cup {NoProject}]
  /\ madeFrom \in [Projects -> Projects \cup {NoProject}]
  /\ baseThen \in [Projects -> Projects \cup {NoProject}]

\* "A base is never a scenario of another, so a family is one base and its
\* scenarios" (db/models.py): what a stored project points at is stored, and
\* points at nothing.
BaseIsRoot ==
  \A p \in Projects :
    Stored(p) /\ base[p] # NoProject => Stored(base[p]) /\ base[base[p]] = NoProject

\* "A scenario made from a scenario belongs to the same base" (README.md): as long
\* as a project and the one it was made from are both there, one is the base of
\* the other, or they have the same base, or neither has one any more because the
\* base that the other had when the project was made is deleted.
SameFamily ==
  \A p \in Projects :
    LET b == madeFrom[p] IN
    /\ Stored(p)
    /\ b # NoProject
    /\ Stored(b)
    => \/ base[p] = b /\ base[b] = NoProject
       \/ base[p] = base[b] /\ base[p] # NoProject
       \/ /\ base[p] = NoProject /\ base[b] = NoProject
          /\ baseThen[p] # NoProject /\ status[baseThen[p]] = "gone"

\* "Scenarios outlive a deleted base, as projects of their own" (db/models.py): a
\* stored project goes only by its own deletion, and changes family only when
\* its base goes.
ScenariosOutliveBases ==
  [][\A p \in Projects :
       Stored(p) =>
         /\ status'[p] # "stored" => \A q \in Projects \ {p} : status'[q] = status[q]
         /\ status'[p] = "stored" /\ base'[p] # base[p] =>
              base'[p] = NoProject /\ status'[base[p]] # "stored"]_familyVars

\* What makes them inductive: the base that a pending project will point at is
\* a root as long as it is stored, and of the family of what it is made from;
\* and a scenario never has another base than the one it was given.
PendingOK ==
  \A p \in Projects :
    /\ madeFrom[p] # NoProject => status[madeFrom[p]] \in {"stored", "gone"}
    /\ baseThen[p] # NoProject => madeFrom[p] # NoProject
    /\ Stored(p) /\ madeFrom[p] # NoProject =>
         base[p] \in {NoProject, IF baseThen[p] # NoProject THEN baseThen[p] ELSE madeFrom[p]}
    /\ status[p] \in {"new", "gone"} => \A q \in Projects : Stored(q) => base[q] # p
    /\ status[p] = "new" => base[p] = NoProject /\ madeFrom[p] = NoProject
    /\ status[p] = "pending" =>
         /\ base[p] \in Projects /\ madeFrom[p] \in Projects
         /\ base[p] = IF baseThen[p] # NoProject THEN baseThen[p] ELSE madeFrom[p]
         /\ status[base[p]] \in {"stored", "gone"}
         /\ Stored(base[p]) => base[base[p]] = NoProject
         /\ Stored(base[p]) /\ Stored(madeFrom[p]) => BaseOf(madeFrom[p]) = base[p]

\* The inductive invariant.
FamiliesInv == FamiliesTypeOK /\ BaseIsRoot /\ SameFamily /\ PendingOK

=============================================================================
