--------------------------- MODULE ProjectVersions ---------------------------
(***************************************************************************)
(* Projects that several clients save, and the runs submitted meanwhile    *)
(* (services/projects_service.py, the first half of submit_run).           *)
(*                                                                         *)
(* A project counts its saves (version) and remembers the one at which     *)
(* what a simulation reads last changed (inputs_version).  A client sends  *)
(* the version it loaded as If-Match, and a run records the version it was *)
(* submitted at.  Two promises hang on these numbers: a save cannot        *)
(* silently overwrite another, and a run that is not shown as out of date  *)
(* is a run of the project as it stands.                                   *)
(*                                                                         *)
(* A step is one transaction, or what a request does under a row lock      *)
(* before it commits.  A spec is a value; Canon gives what _without_nulls  *)
(* leaves of the sections a simulation reads.                              *)
(***************************************************************************)
EXTENDS Naturals, Sequences

CONSTANTS
  Projects,    \* ids that uuid4 may generate
  Clients,     \* clients, each with one request at a time
  Runs,        \* submissions
  Specs,       \* project specs that a body can hold
  Canon,       \* Canon[s]: the simulation inputs of s, nulls dropped
  Runnable,    \* the specs validate() finds no error in
  Adopting,    \* clients that take over the whole project in an answer; the
               \* others take its version and keep their own content
  Blind,       \* clients that may save without If-Match
  MaxVersion,  \* bound on the saves of one project
  NoProject,
  NoSpec

ASSUME ProjectsAssumption ==
  /\ NoProject \notin Projects
  /\ NoSpec \notin Specs
  /\ Runnable \subseteq Specs
  /\ MaxVersion \in Nat

VARIABLES
  version,        \* version[p]: the column, 0 without a row
  inputsVersion,  \* inputsVersion[p]: the inputs_version column
  spec,           \* spec[p]: the spec column
  history,        \* history[p]: every spec p has had (auxiliary)
  made,           \* ids in use now or earlier
  pc,             \* pc[c]: "idle", "locked" (its save has the row FOR UPDATE)
                  \* or "committed" (before the refresh)
  target,         \* target[c], draft[c]: the project and the spec in the body
  draft,          \* of the request
  expected,       \* expected[c]: the If-Match of the request, 0 without one
  rowVersion,     \* rowVersion[c], rowSpec[c]: the row in the session
  rowSpec,
  copyOf,         \* copyOf[c], copyVersion[c], copySpec[c]: the project that the
  copyVersion,    \* client has open, the version it was told, and the content
  copySpec,       \* it takes that version to have
  runState,       \* runState[r]: "new", "read", "inserted" or "gone"
  runProject,     \* runProject[r], runVersion[r], runSpec[r]: project_id,
  runVersion,     \* project_version and spec_snapshot of the run
  runSpec

table == <<version, inputsVersion, spec, history, made>>
request == <<pc, target, draft, expected, rowVersion, rowSpec>>
copy == <<copyOf, copyVersion, copySpec>>
run == <<runState, runProject, runVersion, runSpec>>
vars == <<table, request, copy, run>>

Exists(p) == version[p] > 0

\* Mutant: nothing waits for a row, as without with_for_update.
UnlockedAlways(p) == TRUE

\* No save holds the row.
Unlocked(p) == \A c \in Clients : pc[c] = "locked" => target[c] # p

Init ==
  /\ version = [p \in Projects |-> 0]
  /\ inputsVersion = [p \in Projects |-> 0]
  /\ spec = [p \in Projects |-> NoSpec]
  /\ history = [p \in Projects |-> <<>>]
  /\ made = {}
  /\ pc = [c \in Clients |-> "idle"]
  /\ target = [c \in Clients |-> NoProject]
  /\ draft = [c \in Clients |-> NoSpec]
  /\ expected = [c \in Clients |-> 0]
  /\ rowVersion = [c \in Clients |-> 0]
  /\ rowSpec = [c \in Clients |-> NoSpec]
  /\ copyOf = [c \in Clients |-> NoProject]
  /\ copyVersion = [c \in Clients |-> 0]
  /\ copySpec = [c \in Clients |-> NoSpec]
  /\ runState = [r \in Runs |-> "new"]
  /\ runProject = [r \in Runs |-> NoProject]
  /\ runVersion = [r \in Runs |-> 0]
  /\ runSpec = [r \in Runs |-> NoSpec]

-----------------------------------------------------------------------------
(* The clients' copies.                                                    *)

\* The client has p open, told version v of it, and takes that to be s.
Open(c, p, v, s) ==
  /\ copyOf' = [copyOf EXCEPT ![c] = p]
  /\ copyVersion' = [copyVersion EXCEPT ![c] = v]
  /\ copySpec' = [copySpec EXCEPT ![c] = s]

Close(c) == Open(c, NoProject, 0, NoSpec)

Fetch(c, p) ==
  /\ pc[c] = "idle"
  /\ Exists(p)
  /\ Open(c, p, version[p], spec[p])
  /\ UNCHANGED <<table, request, run>>

-----------------------------------------------------------------------------
(* create_project, update_project and delete_project.                      *)

\* The request is over and its session closed.
Answered(c) ==
  /\ pc' = [pc EXCEPT ![c] = "idle"]
  /\ target' = [target EXCEPT ![c] = NoProject]
  /\ draft' = [draft EXCEPT ![c] = NoSpec]
  /\ expected' = [expected EXCEPT ![c] = 0]
  /\ rowVersion' = [rowVersion EXCEPT ![c] = 0]
  /\ rowSpec' = [rowSpec EXCEPT ![c] = NoSpec]

Create(c, p, s) ==
  /\ pc[c] = "idle"
  /\ p \notin made
  /\ made' = made \cup {p}
  /\ version' = [version EXCEPT ![p] = 1]
  /\ inputsVersion' = [inputsVersion EXCEPT ![p] = 1]
  /\ spec' = [spec EXCEPT ![p] = s]
  /\ history' = [history EXCEPT ![p] = <<s>>]
  /\ pc' = [pc EXCEPT ![c] = "committed"]
  /\ target' = [target EXCEPT ![c] = p]
  /\ draft' = [draft EXCEPT ![c] = s]
  /\ UNCHANGED <<expected, rowVersion, rowSpec, copy, run>>

\* _version_from: the version the client was told, or 0 for no header.
IfMatch(c) == ({copyVersion[c]} \ {0}) \cup {0 : x \in Blind \cap {c}}

\* A save of s with If-Match e (0: without) gets the row and passes the check.
LockRow(c, p, s, e) ==
  /\ pc[c] = "idle"
  /\ Exists(p)
  /\ Unlocked(p)
  /\ version[p] < MaxVersion
  /\ e # 0 => copyOf[c] = p /\ e = version[p]
  /\ pc' = [pc EXCEPT ![c] = "locked"]
  /\ target' = [target EXCEPT ![c] = p]
  /\ draft' = [draft EXCEPT ![c] = s]
  /\ expected' = [expected EXCEPT ![c] = e]
  /\ rowVersion' = [rowVersion EXCEPT ![c] = version[p]]
  /\ rowSpec' = [rowSpec EXCEPT ![c] = spec[p]]
  /\ UNCHANGED <<table, copy, run>>

\* 412 or 404: nothing is saved, and the client gives its copy up.
Refuse(c) ==
  LET p == copyOf[c] IN
  /\ pc[c] = "idle"
  /\ p # NoProject
  /\ Unlocked(p)
  /\ version[p] # copyVersion[c]
  /\ Close(c)
  /\ UNCHANGED <<table, request, run>>

\* Mutants: no save is noticed, and every save is.
NeverDiffer(c) == FALSE
AlwaysDiffer(c) == TRUE

\* The spec in the session and the one in the body, as _inputs_differ compares
\* them.
InputsDiffer(c) == Canon[rowSpec[c]] # Canon[draft[c]]

Save(c) ==
  LET p == target[c] IN
  /\ pc[c] = "locked"
  /\ version' = [version EXCEPT ![p] = rowVersion[c] + 1]
  /\ inputsVersion' = [inputsVersion EXCEPT ![p] =
                         IF InputsDiffer(c) THEN rowVersion[c] + 1 ELSE @]
  /\ spec' = [spec EXCEPT ![p] = draft[c]]
  /\ history' = [history EXCEPT ![p] = Append(@, draft[c])]
  /\ pc' = [pc EXCEPT ![c] = "committed"]
  /\ UNCHANGED <<made, target, draft, expected, rowVersion, rowSpec, copy, run>>

\* The answer is what the refresh finds, which may be a later save.
Refresh(c) ==
  LET p == target[c] IN
  /\ pc[c] = "committed"
  /\ Exists(p)
  /\ Open(c, p, version[p], IF c \in Adopting THEN spec[p] ELSE draft[c])
  /\ Answered(c)
  /\ UNCHANGED <<table, run>>

\* The row is gone: the client is told of an error.
RefreshFails(c) ==
  /\ pc[c] = "committed"
  /\ ~Exists(target[c])
  /\ Close(c)
  /\ Answered(c)
  /\ UNCHANGED <<table, run>>

\* The process that serves the request dies, before or after the commit; the
\* client, left without an answer, does not know which.
Lost(c) ==
  /\ pc[c] # "idle"
  /\ Answered(c)
  /\ UNCHANGED <<table, copy, run>>

\* Its runs go with it (ON DELETE CASCADE).
Delete(p) ==
  /\ Exists(p)
  /\ Unlocked(p)
  /\ version' = [version EXCEPT ![p] = 0]
  /\ inputsVersion' = [inputsVersion EXCEPT ![p] = 0]
  /\ spec' = [spec EXCEPT ![p] = NoSpec]
  /\ history' = [history EXCEPT ![p] = <<>>]
  /\ runState' = [r \in Runs |->
                    IF runState[r] = "inserted" /\ runProject[r] = p
                      THEN "gone" ELSE runState[r]]
  /\ UNCHANGED <<made, request, copy, runProject, runVersion, runSpec>>

-----------------------------------------------------------------------------
(* submit_run, up to the commit of its rows.                               *)

ReadForRun(r, p) ==
  /\ runState[r] = "new"
  /\ Exists(p)
  /\ spec[p] \in Runnable
  /\ runState' = [runState EXCEPT ![r] = "read"]
  /\ runProject' = [runProject EXCEPT ![r] = p]
  /\ runVersion' = [runVersion EXCEPT ![r] = version[p]]
  /\ runSpec' = [runSpec EXCEPT ![r] = spec[p]]
  /\ UNCHANGED <<table, request, copy>>

\* Mutant: the version is read again when the run is inserted.
InsertRunReread(r) ==
  LET p == runProject[r] IN
  /\ runState[r] = "read"
  /\ Exists(p)
  /\ Unlocked(p)
  /\ runState' = [runState EXCEPT ![r] = "inserted"]
  /\ runVersion' = [runVersion EXCEPT ![r] = version[p]]
  /\ UNCHANGED <<table, request, copy, runProject, runSpec>>

\* The foreign key waits for a save that has the row, and needs the project.
InsertRun(r) ==
  LET p == runProject[r] IN
  /\ runState[r] = "read"
  /\ Exists(p)
  /\ Unlocked(p)
  /\ runState' = [runState EXCEPT ![r] = "inserted"]
  /\ UNCHANGED <<table, request, copy, runProject, runVersion, runSpec>>

InsertRunFails(r) ==
  /\ runState[r] = "read"
  /\ ~Exists(runProject[r])
  /\ runState' = [runState EXCEPT ![r] = "gone"]
  /\ UNCHANGED <<table, request, copy, runProject, runVersion, runSpec>>

-----------------------------------------------------------------------------

Next ==
  \/ \E c \in Clients :
       \/ \E p \in Projects : Fetch(c, p)
       \/ \E p \in Projects, s \in Specs : Create(c, p, s)
       \/ \E p \in Projects, s \in Specs, e \in IfMatch(c) : LockRow(c, p, s, e)
       \/ Refuse(c) \/ Save(c) \/ Refresh(c) \/ RefreshFails(c) \/ Lost(c)
  \/ \E p \in Projects : Delete(p)
  \/ \E r \in Runs :
       \/ \E p \in Projects : ReadForRun(r, p)
       \/ InsertRun(r) \/ InsertRunFails(r)

Spec == Init /\ [][Next]_vars

-----------------------------------------------------------------------------
(* Correctness.                                                            *)

\* Every variable stays within its type.
TypeOK ==
  /\ version \in [Projects -> Nat]
  /\ inputsVersion \in [Projects -> Nat]
  /\ spec \in [Projects -> Specs \cup {NoSpec}]
  /\ history \in [Projects -> Seq(Specs)]
  /\ made \subseteq Projects
  /\ pc \in [Clients -> {"idle", "locked", "committed"}]
  /\ target \in [Clients -> Projects \cup {NoProject}]
  /\ draft \in [Clients -> Specs \cup {NoSpec}]
  /\ expected \in [Clients -> Nat]
  /\ rowVersion \in [Clients -> Nat]
  /\ rowSpec \in [Clients -> Specs \cup {NoSpec}]
  /\ copyOf \in [Clients -> Projects \cup {NoProject}]
  /\ copyVersion \in [Clients -> Nat]
  /\ copySpec \in [Clients -> Specs \cup {NoSpec}]
  /\ runState \in [Runs -> {"new", "read", "inserted", "gone"}]
  /\ runProject \in [Runs -> Projects \cup {NoProject}]
  /\ runVersion \in [Runs -> Nat]
  /\ runSpec \in [Runs -> Specs \cup {NoSpec}]

\* "Counts saves: 1 when created, one more each time the project is replaced"
\* (db/models.py): no save is lost from the count, however many are made at once,
\* and the project stands as the last of them left it.
VersionCountsSaves ==
  \A p \in Projects :
    /\ version[p] = Len(history[p])
    /\ Exists(p) => spec[p] = history[p][version[p]]

\* What a run runs and the version it names belong together, though the project
\* may have been saved between the reading and the insertion of the run.
SnapshotIsItsVersion ==
  \A r \in Runs :
    runState[r] = "inserted" =>
      /\ runVersion[r] \in 1..version[runProject[r]]
      /\ runSpec[r] = history[runProject[r]][runVersion[r]]

\* A run that is not out of date (its project_version is not below the project's
\* inputs_version) ran what the project would run now (README.md, schemas/run.py).
FreshRunsMatch ==
  \A r \in Runs :
    /\ runState[r] = "inserted"
    /\ runVersion[r] >= inputsVersion[runProject[r]]
    => Canon[runSpec[r]] = Canon[spec[runProject[r]]]

\* A run that is out of date became so by a save that changed what a simulation
\* reads; a new name or a tidied layout never makes one so (README.md).
OutdatedRunsWereEdited ==
  \A r \in Runs :
    LET h == history[runProject[r]] IN
    /\ runState[r] = "inserted"
    /\ runVersion[r] < inputsVersion[runProject[r]]
    => \E v \in (runVersion[r] + 1)..Len(h) : Canon[h[v]] # Canon[h[v - 1]]

\* A save that carries a version replaces content that its author has seen: "two
\* browser tabs can't silently overwrite each other" (README.md).
NoSilentOverwrite ==
  [][\A c \in Clients :
       pc[c] = "locked" /\ pc'[c] = "committed" /\ expected[c] # 0 =>
         spec[target[c]] = copySpec[c]]_vars

-----------------------------------------------------------------------------
(* What makes these properties inductive.                                  *)

\* A save has read the row as it still is when it commits.
SavesHoldTheRow ==
  \A c \in Clients :
    pc[c] = "locked" =>
      /\ target[c] \in Projects
      /\ draft[c] \in Specs
      /\ Exists(target[c])
      /\ rowVersion[c] = version[target[c]]
      /\ rowSpec[c] = spec[target[c]]
      /\ expected[c] # 0 =>
           expected[c] = rowVersion[c] /\ copyOf[c] = target[c]
           /\ copyVersion[c] = expected[c]
      /\ \A d \in Clients : pc[d] = "locked" /\ target[d] = target[c] => d = c

CommittedOK ==
  \A c \in Clients :
    pc[c] = "committed" =>
      target[c] \in Projects /\ target[c] \in made /\ draft[c] \in Specs

\* A client's copy is the version it names, if that project is still there.
CopiesAreVersions ==
  \A c \in Clients :
    copyOf[c] # NoProject =>
      /\ copyOf[c] \in made
      /\ copyVersion[c] > 0
      /\ Exists(copyOf[c]) =>
           /\ copyVersion[c] <= version[copyOf[c]]
           /\ copySpec[c] = history[copyOf[c]][copyVersion[c]]

\* inputs_version is where the inputs last changed: at it they did, since then
\* they did not.
InputsVersionExact ==
  \A p \in Projects :
    Exists(p) =>
      /\ inputsVersion[p] \in 1..version[p]
      /\ \A v \in inputsVersion[p]..version[p] :
           Canon[history[p][v]] = Canon[history[p][version[p]]]
      /\ inputsVersion[p] > 1 =>
           Canon[history[p][inputsVersion[p]]] # Canon[history[p][inputsVersion[p] - 1]]

\* A run that was read or inserted names an id in use, and, while the project is
\* there, one of its versions.
RunsOK ==
  \A r \in Runs :
    /\ runState[r] \in {"read", "inserted"} =>
         /\ runProject[r] \in Projects
         /\ runProject[r] \in made
         /\ Exists(runProject[r]) =>
              /\ runVersion[r] \in 1..version[runProject[r]]
              /\ runSpec[r] = history[runProject[r]][runVersion[r]]
    /\ runState[r] = "inserted" => Exists(runProject[r])

ExistingAreMade == \A p \in Projects : Exists(p) => p \in made

\* The inductive invariant; CopiesAreVersions is part of it only when every
\* client adopts the answers it gets.
IInv ==
  /\ TypeOK
  /\ VersionCountsSaves
  /\ SavesHoldTheRow
  /\ CommittedOK
  /\ Adopting = Clients => CopiesAreVersions
  /\ InputsVersionExact
  /\ RunsOK
  /\ ExistingAreMade

=============================================================================
