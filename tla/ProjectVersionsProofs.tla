------------------------ MODULE ProjectVersionsProofs ------------------------
(***************************************************************************)
(* Proofs about ProjectVersions and ProjectSaves, for every value of their *)
(* constants.  The second half is about the comparison of ProjectSaves:    *)
(* its recursive functions exist, and by induction on how deep a value is  *)
(* nested what is left of two values without their nulls is the same       *)
(* exactly when they mean the same to spur.                                *)
(***************************************************************************)
EXTENDS ProjectSaves, FiniteSetTheorems, TLAPS

\* An append keeps what was there and puts the new item last.
LEMMA AppendFacts ==
  ASSUME NEW h \in Seq(Specs), NEW s \in Specs
  PROVE /\ Append(h, s) \in Seq(Specs)
        /\ Len(Append(h, s)) = Len(h) + 1
        /\ \A v \in 1..Len(h) : Append(h, s)[v] = h[v]
        /\ Append(h, s)[Len(h) + 1] = s
  OBVIOUS

LEMMA InitInv == Init => IInv
  BY ProjectsAssumption
  DEF Init, IInv, TypeOK, SavesHoldTheRow, CommittedOK, ExistingAreMade, RunsOK,
      VersionCountsSaves, CopiesAreVersions, InputsVersionExact, Exists

LEMMA AnsweredType ==
  ASSUME TypeOK, NEW c \in Clients, Answered(c)
  PROVE /\ pc' \in [Clients -> {"idle", "locked", "committed"}]
        /\ target' \in [Clients -> Projects \cup {NoProject}]
        /\ draft' \in [Clients -> Specs \cup {NoSpec}]
        /\ expected' \in [Clients -> Nat]
        /\ rowVersion' \in [Clients -> Nat]
        /\ rowSpec' \in [Clients -> Specs \cup {NoSpec}]
  BY DEF Answered, TypeOK

LEMMA OpenType ==
  ASSUME TypeOK, NEW c \in Clients, NEW p \in Projects \cup {NoProject},
         NEW v \in Nat, NEW s \in Specs \cup {NoSpec}, Open(c, p, v, s)
  PROVE /\ copyOf' \in [Clients -> Projects \cup {NoProject}]
        /\ copyVersion' \in [Clients -> Nat]
        /\ copySpec' \in [Clients -> Specs \cup {NoSpec}]
  BY DEF Open, TypeOK

LEMMA TypeStep == TypeOK /\ SavesHoldTheRow /\ CommittedOK /\ [Next]_vars => TypeOK'
  <1> SUFFICES ASSUME TypeOK, SavesHoldTheRow, CommittedOK, [Next]_vars PROVE TypeOK'
    OBVIOUS
  <1>1. CASE UNCHANGED vars
    BY <1>1 DEF vars, table, request, copy, run, TypeOK
  <1>2. ASSUME NEW c \in Clients, NEW p \in Projects, Fetch(c, p) PROVE TypeOK'
    <2>1. version[p] \in Nat /\ spec[p] \in Specs \cup {NoSpec}
      BY DEF TypeOK
    <2> QED
      BY <1>2, <2>1, OpenType DEF Fetch, table, request, run, TypeOK
  <1>3. ASSUME NEW c \in Clients, NEW p \in Projects, NEW s \in Specs, Create(c, p, s)
        PROVE TypeOK'
    BY <1>3 DEF Create, copy, run, TypeOK
  <1>4. ASSUME NEW c \in Clients, NEW p \in Projects, NEW s \in Specs,
               NEW e \in IfMatch(c), LockRow(c, p, s, e)
        PROVE TypeOK'
    <2>1. e \in Nat
      BY DEF IfMatch, TypeOK
    <2> QED
      BY <1>4, <2>1 DEF LockRow, table, copy, run, TypeOK
  <1>5. ASSUME NEW c \in Clients, Refuse(c) PROVE TypeOK'
    BY <1>5, OpenType DEF Refuse, Close, table, request, run, TypeOK
  <1>6. ASSUME NEW c \in Clients, Save(c) PROVE TypeOK'
    <2>1. target[c] \in Projects /\ draft[c] \in Specs /\ rowVersion[c] + 1 \in Nat
      BY <1>6 DEF Save, SavesHoldTheRow, TypeOK
    <2>2. history' \in [Projects -> Seq(Specs)]
      BY <1>6, <2>1, AppendFacts DEF Save, TypeOK
    <2> QED
      BY <1>6, <2>1, <2>2 DEF Save, copy, run, TypeOK
  <1>7. ASSUME NEW c \in Clients, Refresh(c) PROVE TypeOK'
    <2>1. target[c] \in Projects
      BY <1>7 DEF Refresh, CommittedOK
    <2>2. /\ version[target[c]] \in Nat
          /\ (IF c \in Adopting THEN spec[target[c]] ELSE draft[c]) \in Specs \cup {NoSpec}
      BY <2>1 DEF TypeOK
    <2> QED
      BY <1>7, <2>1, <2>2, OpenType, AnsweredType DEF Refresh, table, run, TypeOK
  <1>8. ASSUME NEW c \in Clients, RefreshFails(c) PROVE TypeOK'
    BY <1>8, OpenType, AnsweredType DEF RefreshFails, Close, table, run, TypeOK
  <1>9. ASSUME NEW c \in Clients, Lost(c) PROVE TypeOK'
    BY <1>9, AnsweredType DEF Lost, table, copy, run, TypeOK
  <1>10. ASSUME NEW p \in Projects, Delete(p) PROVE TypeOK'
    <2>1. <<>> \in Seq(Specs)
      OBVIOUS
    <2> QED
      BY <1>10, <2>1 DEF Delete, request, copy, TypeOK
  <1>11. ASSUME NEW r \in Runs, NEW p \in Projects, ReadForRun(r, p) PROVE TypeOK'
    BY <1>11 DEF ReadForRun, table, request, copy, TypeOK
  <1>12. ASSUME NEW r \in Runs, InsertRun(r) PROVE TypeOK'
    BY <1>12 DEF InsertRun, table, request, copy, TypeOK
  <1>13. ASSUME NEW r \in Runs, InsertRunFails(r) PROVE TypeOK'
    BY <1>13 DEF InsertRunFails, table, request, copy, TypeOK
  <1> QED
    BY <1>1, <1>2, <1>3, <1>4, <1>5, <1>6, <1>7, <1>8, <1>9, <1>10, <1>11, <1>12, <1>13
    DEF Next

-----------------------------------------------------------------------------
(* What the writers of the table do to it.                                 *)

\* A save adds one version to its project, and touches no other.
LEMMA SaveFacts ==
  ASSUME TypeOK, SavesHoldTheRow, VersionCountsSaves, NEW c \in Clients, Save(c)
  PROVE /\ target[c] \in Projects /\ draft[c] \in Specs
        /\ version[target[c]] \in Nat \ {0}
        /\ version'[target[c]] = version[target[c]] + 1
        /\ spec'[target[c]] = draft[c]
        /\ Len(history'[target[c]]) = version[target[c]] + 1
        /\ \A v \in 1..version[target[c]] :
             history'[target[c]][v] = history[target[c]][v]
        /\ history'[target[c]][version[target[c]] + 1] = draft[c]
        /\ \A q \in Projects \ {target[c]} :
             /\ version'[q] = version[q] /\ spec'[q] = spec[q]
             /\ history'[q] = history[q] /\ inputsVersion'[q] = inputsVersion[q]
  <1> DEFINE p == target[c]
  <1>1. /\ p \in Projects /\ draft[c] \in Specs /\ version[p] \in Nat \ {0}
        /\ rowVersion[c] = version[p]
    BY DEF Save, SavesHoldTheRow, TypeOK, Exists
  <1>2. history[p] \in Seq(Specs) /\ Len(history[p]) = version[p]
    BY <1>1 DEF TypeOK, VersionCountsSaves
  <1>3. history'[p] = Append(history[p], draft[c])
    BY <1>1 DEF Save, TypeOK
  <1>4. /\ Len(history'[p]) = version[p] + 1
        /\ \A v \in 1..version[p] : history'[p][v] = history[p][v]
        /\ history'[p][version[p] + 1] = draft[c]
    BY <1>1, <1>2, <1>3, AppendFacts
  <1>5. version'[p] = version[p] + 1 /\ spec'[p] = draft[c]
    BY <1>1 DEF Save, TypeOK
  <1>6. \A q \in Projects \ {p} :
          /\ version'[q] = version[q] /\ spec'[q] = spec[q]
          /\ history'[q] = history[q] /\ inputsVersion'[q] = inputsVersion[q]
    BY <1>1 DEF Save, TypeOK
  <1> QED
    BY <1>1, <1>4, <1>5, <1>6

\* Who writes the table of projects: a creation, a save or a deletion.
LEMMA TableWriters ==
  ASSUME [Next]_vars
  PROVE \/ UNCHANGED table
        \/ \E c \in Clients, p \in Projects, s \in Specs : Create(c, p, s)
        \/ \E c \in Clients : Save(c)
        \/ \E p \in Projects : Delete(p)
  BY DEF Next, vars, Fetch, LockRow, Refuse, Refresh, RefreshFails, Lost, ReadForRun,
         InsertRun, InsertRunFails

LEMMA CountStep ==
  TypeOK /\ SavesHoldTheRow /\ VersionCountsSaves /\ [Next]_vars => VersionCountsSaves'
  <1> SUFFICES ASSUME TypeOK, SavesHoldTheRow, VersionCountsSaves, [Next]_vars,
                      NEW p \in Projects
               PROVE version'[p] = Len(history'[p])
                     /\ (version'[p] > 0 => spec'[p] = history'[p][version'[p]])
    BY DEF VersionCountsSaves, Exists
  <1>0. version[p] = Len(history[p])
        /\ (version[p] > 0 => spec[p] = history[p][version[p]])
    BY DEF VersionCountsSaves, Exists
  <1>1. CASE UNCHANGED table
    BY <1>0, <1>1 DEF table
  <1>2. ASSUME NEW c \in Clients, NEW q \in Projects, NEW s \in Specs, Create(c, q, s)
        PROVE version'[p] = Len(history'[p])
              /\ (version'[p] > 0 => spec'[p] = history'[p][version'[p]])
    BY <1>0, <1>2 DEF Create, TypeOK
  <1>3. ASSUME NEW c \in Clients, Save(c)
        PROVE version'[p] = Len(history'[p])
              /\ (version'[p] > 0 => spec'[p] = history'[p][version'[p]])
    <2>1. CASE p = target[c]
      BY <1>3, <2>1, SaveFacts
    <2>2. CASE p # target[c]
      BY <1>0, <1>3, <2>2, SaveFacts
    <2> QED
      BY <2>1, <2>2
  <1>4. ASSUME NEW q \in Projects, Delete(q)
        PROVE version'[p] = Len(history'[p])
              /\ (version'[p] > 0 => spec'[p] = history'[p][version'[p]])
    BY <1>0, <1>4 DEF Delete, TypeOK
  <1> QED
    BY <1>1, <1>2, <1>3, <1>4, TableWriters

LEMMA MadeStep ==
  /\ TypeOK /\ SavesHoldTheRow /\ VersionCountsSaves /\ ExistingAreMade /\ [Next]_vars
  => ExistingAreMade' /\ made \subseteq made'
  <1> SUFFICES ASSUME TypeOK, SavesHoldTheRow, VersionCountsSaves, ExistingAreMade,
                      [Next]_vars
               PROVE ExistingAreMade' /\ made \subseteq made'
    OBVIOUS
  <1>1. CASE UNCHANGED table
    BY <1>1 DEF table, ExistingAreMade, Exists
  <1>2. ASSUME NEW c \in Clients, NEW q \in Projects, NEW s \in Specs, Create(c, q, s)
        PROVE ExistingAreMade' /\ made \subseteq made'
    BY <1>2 DEF Create, TypeOK, ExistingAreMade, Exists
  <1>3. ASSUME NEW c \in Clients, Save(c) PROVE ExistingAreMade' /\ made \subseteq made'
    <2>1. made' = made
      BY <1>3 DEF Save
    <2>2. version[target[c]] > 0 /\ target[c] \in Projects
      BY <1>3, SaveFacts
    <2>3. \A p \in Projects \ {target[c]} : version'[p] = version[p]
      BY <1>3, SaveFacts
    <2> QED
      BY <2>1, <2>2, <2>3 DEF ExistingAreMade, Exists
  <1>4. ASSUME NEW q \in Projects, Delete(q) PROVE ExistingAreMade' /\ made \subseteq made'
    BY <1>4 DEF Delete, TypeOK, ExistingAreMade, Exists
  <1> QED
    BY <1>1, <1>2, <1>3, <1>4, TableWriters

-----------------------------------------------------------------------------
(* The inputs version.                                                     *)

LEMMA InputsStep ==
  /\ TypeOK /\ SavesHoldTheRow /\ VersionCountsSaves /\ InputsVersionExact /\ [Next]_vars
  => InputsVersionExact'
  <1> SUFFICES ASSUME TypeOK, SavesHoldTheRow, VersionCountsSaves, InputsVersionExact,
                      [Next]_vars, NEW p \in Projects, version'[p] > 0
               PROVE /\ inputsVersion'[p] \in 1..version'[p]
                     /\ \A v \in inputsVersion'[p]..version'[p] :
                          Canon[history'[p][v]] = Canon[history'[p][version'[p]]]
                     /\ inputsVersion'[p] > 1 =>
                          Canon[history'[p][inputsVersion'[p]]]
                            # Canon[history'[p][inputsVersion'[p] - 1]]
    BY DEF InputsVersionExact, Exists
  <1> DEFINE Goal ==
        /\ inputsVersion'[p] \in 1..version'[p]
        /\ \A v \in inputsVersion'[p]..version'[p] :
             Canon[history'[p][v]] = Canon[history'[p][version'[p]]]
        /\ inputsVersion'[p] > 1 =>
             Canon[history'[p][inputsVersion'[p]]]
               # Canon[history'[p][inputsVersion'[p] - 1]]
  <1>0. version[p] > 0 =>
          /\ inputsVersion[p] \in 1..version[p]
          /\ \A v \in inputsVersion[p]..version[p] :
               Canon[history[p][v]] = Canon[history[p][version[p]]]
          /\ inputsVersion[p] > 1 =>
               Canon[history[p][inputsVersion[p]]] # Canon[history[p][inputsVersion[p] - 1]]
    BY DEF InputsVersionExact, Exists
  <1>1. CASE UNCHANGED table
    BY <1>0, <1>1 DEF table
  <1>2. ASSUME NEW c \in Clients, NEW q \in Projects, NEW s \in Specs, Create(c, q, s)
        PROVE Goal
    <2>1. CASE p = q
      <3>1. version'[p] = 1 /\ inputsVersion'[p] = 1
        BY <1>2, <2>1 DEF Create, TypeOK
      <3> QED
        BY <3>1
    <2>2. CASE p # q
      BY <1>0, <1>2, <2>2 DEF Create, TypeOK
    <2> QED
      BY <2>1, <2>2
  <1>3. ASSUME NEW c \in Clients, Save(c) PROVE Goal
    <2>1. CASE p # target[c]
      <3>1. version'[p] = version[p] /\ history'[p] = history[p]
            /\ inputsVersion'[p] = inputsVersion[p]
        BY <1>3, <2>1, SaveFacts
      <3> QED
        BY <1>0, <3>1
    <2>2. CASE p = target[c]
      <3> DEFINE n == version[p]
      <3>1. /\ n \in Nat \ {0} /\ version'[p] = n + 1
            /\ \A v \in 1..n : history'[p][v] = history[p][v]
            /\ history'[p][n + 1] = draft[c]
        BY <1>3, <2>2, SaveFacts
      <3>2. rowVersion[c] = n /\ rowSpec[c] = history[p][n]
        BY <1>3, <2>2, <3>1 DEF Save, SavesHoldTheRow, VersionCountsSaves, Exists
      <3>3. inputsVersion'[p] = IF InputsDiffer(c) THEN n + 1 ELSE inputsVersion[p]
        BY <1>3, <2>2, <3>2 DEF Save, TypeOK
      <3>4. CASE InputsDiffer(c)
        <4>1. Canon[history[p][n]] # Canon[draft[c]]
          BY <3>2, <3>4 DEF InputsDiffer
        <4>2. inputsVersion'[p] = n + 1
          BY <3>3, <3>4
        <4>3. history'[p][inputsVersion'[p] - 1] = history[p][n]
          BY <3>1, <4>2
        <4>4. \A v \in inputsVersion'[p]..version'[p] : v = version'[p]
          BY <3>1, <4>2
        <4> QED
          BY <3>1, <4>1, <4>2, <4>3, <4>4
      <3>5. CASE ~InputsDiffer(c)
        <4>1. Canon[history[p][n]] = Canon[draft[c]]
          BY <3>2, <3>5 DEF InputsDiffer
        <4>2. inputsVersion'[p] = inputsVersion[p] /\ inputsVersion[p] \in 1..n
          BY <1>0, <3>1, <3>3, <3>5
        <4>3. \A v \in inputsVersion[p]..n : Canon[history'[p][v]] = Canon[draft[c]]
          BY <1>0, <3>1, <4>1, <4>2
        <4>4. \A v \in inputsVersion[p]..(n + 1) : Canon[history'[p][v]] = Canon[draft[c]]
          BY <3>1, <4>2, <4>3
        <4>5. inputsVersion[p] > 1 =>
                /\ history'[p][inputsVersion[p]] = history[p][inputsVersion[p]]
                /\ history'[p][inputsVersion[p] - 1] = history[p][inputsVersion[p] - 1]
          BY <3>1, <4>2
        <4> QED
          BY <1>0, <3>1, <4>2, <4>4, <4>5
      <3> QED
        BY <3>4, <3>5
    <2> QED
      BY <2>1, <2>2
  <1>4. ASSUME NEW q \in Projects, Delete(q) PROVE Goal
    <2>1. p # q
      BY <1>4 DEF Delete, TypeOK
    <2> QED
      BY <1>0, <1>4, <2>1 DEF Delete, TypeOK
  <1> QED
    BY <1>1, <1>2, <1>3, <1>4, TableWriters

-----------------------------------------------------------------------------
(* Requests in progress.                                                   *)

\* Of the requests only c's own changes.
LEMMA OtherRequests ==
  ASSUME TypeOK, NEW c \in Clients,
         \/ \E p \in Projects, s \in Specs : Create(c, p, s)
         \/ \E p \in Projects, s \in Specs, e \in Nat : LockRow(c, p, s, e)
         \/ Save(c) \/ Refresh(c) \/ RefreshFails(c) \/ Lost(c),
         NEW d \in Clients, d # c
  PROVE /\ pc'[d] = pc[d] /\ target'[d] = target[d] /\ draft'[d] = draft[d]
        /\ expected'[d] = expected[d] /\ rowVersion'[d] = rowVersion[d]
        /\ rowSpec'[d] = rowSpec[d]
  BY DEF Create, LockRow, Save, Refresh, RefreshFails, Lost, Answered, TypeOK

LEMMA CommittedStep ==
  /\ TypeOK /\ SavesHoldTheRow /\ VersionCountsSaves /\ ExistingAreMade
  /\ CommittedOK /\ [Next]_vars
  => CommittedOK'
  <1> SUFFICES ASSUME TypeOK, SavesHoldTheRow, VersionCountsSaves, ExistingAreMade,
                      CommittedOK, [Next]_vars, NEW d \in Clients, pc'[d] = "committed"
               PROVE target'[d] \in Projects /\ target'[d] \in made' /\ draft'[d] \in Specs
    BY DEF CommittedOK
  <1> DEFINE Goal == target'[d] \in Projects /\ target'[d] \in made' /\ draft'[d] \in Specs
  <1>0. made \subseteq made'
    BY MadeStep
  <1>1. CASE UNCHANGED request
    BY <1>0, <1>1 DEF request, CommittedOK
  <1>2. ASSUME NEW c \in Clients, NEW p \in Projects, NEW s \in Specs, Create(c, p, s)
        PROVE Goal
    BY <1>0, <1>2 DEF Create, TypeOK, CommittedOK
  <1>3. ASSUME NEW c \in Clients, NEW p \in Projects, NEW s \in Specs,
               NEW e \in IfMatch(c), LockRow(c, p, s, e)
        PROVE Goal
    BY <1>0, <1>3 DEF LockRow, TypeOK, CommittedOK
  <1>4. ASSUME NEW c \in Clients, Save(c) PROVE Goal
    <2>1. /\ target[c] \in Projects /\ draft[c] \in Specs /\ target[c] \in made
          /\ target' = target /\ draft' = draft /\ \A x \in Clients : x # c => pc'[x] = pc[x]
      BY <1>4 DEF Save, SavesHoldTheRow, ExistingAreMade, TypeOK
    <2> QED
      BY <1>0, <2>1 DEF CommittedOK
  <1>5. ASSUME NEW c \in Clients, Refresh(c) \/ RefreshFails(c) \/ Lost(c) PROVE Goal
    <2>1. pc'[c] = "idle"
      BY <1>5 DEF Refresh, RefreshFails, Lost, Answered, TypeOK
    <2>2. d # c
      BY <2>1
    <2>3. pc'[d] = pc[d] /\ target'[d] = target[d] /\ draft'[d] = draft[d]
      BY <1>5, <2>2, OtherRequests
    <2> QED
      BY <1>0, <2>3 DEF CommittedOK
  <1>6. \/ UNCHANGED request
        \/ \E c \in Clients, p \in Projects, s \in Specs : Create(c, p, s)
        \/ \E c \in Clients, p \in Projects, s \in Specs :
             \E e \in IfMatch(c) : LockRow(c, p, s, e)
        \/ \E c \in Clients : Save(c) \/ Refresh(c) \/ RefreshFails(c) \/ Lost(c)
    BY DEF Next, vars, Fetch, Refuse, Delete, ReadForRun, InsertRun, InsertRunFails
  <1> QED
    BY <1>1, <1>2, <1>3, <1>4, <1>5, <1>6

LEMMA SavesStep ==
  /\ TypeOK /\ SavesHoldTheRow /\ VersionCountsSaves /\ ExistingAreMade /\ [Next]_vars
  => SavesHoldTheRow'
  <1> SUFFICES ASSUME TypeOK, SavesHoldTheRow, VersionCountsSaves, ExistingAreMade,
                      [Next]_vars, NEW d \in Clients, pc'[d] = "locked"
               PROVE /\ target'[d] \in Projects
                     /\ draft'[d] \in Specs
                     /\ version'[target'[d]] > 0
                     /\ rowVersion'[d] = version'[target'[d]]
                     /\ rowSpec'[d] = spec'[target'[d]]
                     /\ expected'[d] # 0 =>
                          expected'[d] = rowVersion'[d] /\ copyOf'[d] = target'[d]
                          /\ copyVersion'[d] = expected'[d]
                     /\ \A x \in Clients : pc'[x] = "locked" /\ target'[x] = target'[d] => x = d
    BY DEF SavesHoldTheRow, Exists
  <1> DEFINE Goal ==
        /\ target'[d] \in Projects
        /\ draft'[d] \in Specs
        /\ version'[target'[d]] > 0
        /\ rowVersion'[d] = version'[target'[d]]
        /\ rowSpec'[d] = spec'[target'[d]]
        /\ expected'[d] # 0 =>
             expected'[d] = rowVersion'[d] /\ copyOf'[d] = target'[d]
             /\ copyVersion'[d] = expected'[d]
        /\ \A x \in Clients : pc'[x] = "locked" /\ target'[x] = target'[d] => x = d
  <1>0. pc[d] = "locked" =>
          /\ target[d] \in Projects
          /\ draft[d] \in Specs
          /\ version[target[d]] > 0
          /\ rowVersion[d] = version[target[d]]
          /\ rowSpec[d] = spec[target[d]]
          /\ expected[d] # 0 =>
               expected[d] = rowVersion[d] /\ copyOf[d] = target[d]
               /\ copyVersion[d] = expected[d]
          /\ \A x \in Clients : pc[x] = "locked" /\ target[x] = target[d] => x = d
    BY DEF SavesHoldTheRow, Exists
  <1>1. CASE UNCHANGED <<version, spec, request, copy>>
    BY <1>0, <1>1 DEF request, copy
  <1>2. ASSUME NEW c \in Clients, NEW p \in Projects, Fetch(c, p) PROVE Goal
    <2>1. UNCHANGED <<table, request>> /\ pc[c] = "idle"
      BY <1>2 DEF Fetch
    <2>2. copyOf'[d] = copyOf[d] /\ copyVersion'[d] = copyVersion[d]
      BY <1>2, <2>1 DEF Fetch, Open, TypeOK, request
    <2> QED
      BY <1>0, <2>1, <2>2 DEF table, request
  <1>3. ASSUME NEW c \in Clients, Refuse(c) PROVE Goal
    <2>1. UNCHANGED <<table, request>> /\ pc[c] = "idle"
      BY <1>3 DEF Refuse
    <2>2. copyOf'[d] = copyOf[d] /\ copyVersion'[d] = copyVersion[d]
      BY <1>3, <2>1 DEF Refuse, Close, Open, TypeOK, request
    <2> QED
      BY <1>0, <2>1, <2>2 DEF table, request
  <1>4. ASSUME NEW c \in Clients, NEW p \in Projects, NEW s \in Specs, Create(c, p, s)
        PROVE Goal
    <2>1. d # c /\ pc'[c] = "committed" /\ UNCHANGED copy
      BY <1>4 DEF Create, TypeOK
    <2>2. \A x \in Clients \ {c} :
            /\ pc'[x] = pc[x] /\ target'[x] = target[x] /\ draft'[x] = draft[x]
            /\ expected'[x] = expected[x] /\ rowVersion'[x] = rowVersion[x]
            /\ rowSpec'[x] = rowSpec[x]
      BY <1>4, OtherRequests
    <2>3. target[d] # p
      BY <1>0, <1>4, <2>1, <2>2 DEF Create, ExistingAreMade, Exists
    <2>4. version'[target[d]] = version[target[d]] /\ spec'[target[d]] = spec[target[d]]
      BY <1>0, <1>4, <2>1, <2>2, <2>3 DEF Create, TypeOK
    <2> QED
      BY <1>0, <2>1, <2>2, <2>4 DEF copy
  <1>5. ASSUME NEW c \in Clients, NEW p \in Projects, NEW s \in Specs,
               NEW e \in IfMatch(c), LockRow(c, p, s, e)
        PROVE Goal
    <2>0. e \in Nat /\ (e # 0 => e = copyVersion[c])
      BY DEF IfMatch, TypeOK
    <2>1. \A x \in Clients \ {c} :
            /\ pc'[x] = pc[x] /\ target'[x] = target[x] /\ draft'[x] = draft[x]
            /\ expected'[x] = expected[x] /\ rowVersion'[x] = rowVersion[x]
            /\ rowSpec'[x] = rowSpec[x]
      BY <1>5, <2>0, OtherRequests
    <2>2. /\ pc'[c] = "locked" /\ target'[c] = p /\ draft'[c] = s /\ expected'[c] = e
          /\ rowVersion'[c] = version[p] /\ rowSpec'[c] = spec[p]
          /\ version' = version /\ spec' = spec /\ UNCHANGED copy
      BY <1>5 DEF LockRow, TypeOK, table
    <2>3. \A x \in Clients : pc[x] = "locked" => target[x] # p
      BY <1>5 DEF LockRow, Unlocked
    <2>4. version[p] > 0 /\ (e # 0 => copyOf[c] = p /\ e = version[p])
      BY <1>5 DEF LockRow, Exists
    <2>5. CASE d = c
      BY <2>0, <2>1, <2>2, <2>3, <2>4, <2>5 DEF copy
    <2>6. CASE d # c
      BY <1>0, <2>1, <2>2, <2>3, <2>6 DEF copy
    <2> QED
      BY <2>5, <2>6
  <1>6. ASSUME NEW c \in Clients, Save(c) PROVE Goal
    <2>1. /\ pc[c] = "locked" /\ pc'[c] = "committed" /\ d # c
          /\ \A x \in Clients \ {c} : pc'[x] = pc[x]
          /\ UNCHANGED <<target, draft, expected, rowVersion, rowSpec, copy>>
      BY <1>6 DEF Save, TypeOK
    <2>2. target[d] # target[c]
      BY <1>0, <2>1
    <2>3. version'[target[d]] = version[target[d]] /\ spec'[target[d]] = spec[target[d]]
      BY <1>0, <1>6, <2>1, <2>2, SaveFacts
    <2> QED
      BY <1>0, <2>1, <2>3 DEF copy
  <1>7. ASSUME NEW c \in Clients, Refresh(c) \/ RefreshFails(c) \/ Lost(c) PROVE Goal
    <2>1. pc'[c] = "idle" /\ version' = version /\ spec' = spec
      BY <1>7 DEF Refresh, RefreshFails, Lost, Answered, TypeOK, table
    <2>2. d # c
      BY <2>1
    <2>3. \A x \in Clients \ {c} :
            /\ pc'[x] = pc[x] /\ target'[x] = target[x] /\ draft'[x] = draft[x]
            /\ expected'[x] = expected[x] /\ rowVersion'[x] = rowVersion[x]
            /\ rowSpec'[x] = rowSpec[x]
      BY <1>7, OtherRequests
    <2>4. copyOf'[d] = copyOf[d] /\ copyVersion'[d] = copyVersion[d]
      BY <1>7, <2>2 DEF Refresh, RefreshFails, Lost, Close, Open, TypeOK, copy
    <2> QED
      BY <1>0, <2>1, <2>2, <2>3, <2>4
  <1>8. ASSUME NEW p \in Projects, Delete(p) PROVE Goal
    <2>1. UNCHANGED <<request, copy>>
      BY <1>8 DEF Delete
    <2>2. target[d] # p /\ pc[d] = "locked"
      BY <1>8, <2>1 DEF Delete, Unlocked, request
    <2>3. version'[target[d]] = version[target[d]] /\ spec'[target[d]] = spec[target[d]]
      BY <1>0, <1>8, <2>2 DEF Delete, TypeOK
    <2> QED
      BY <1>0, <2>1, <2>2, <2>3 DEF request, copy
  <1>9. \/ UNCHANGED <<version, spec, request, copy>>
        \/ \E c \in Clients, p \in Projects : Fetch(c, p)
        \/ \E c \in Clients : Refuse(c)
        \/ \E c \in Clients, p \in Projects, s \in Specs : Create(c, p, s)
        \/ \E c \in Clients, p \in Projects, s \in Specs :
             \E e \in IfMatch(c) : LockRow(c, p, s, e)
        \/ \E c \in Clients : Save(c) \/ Refresh(c) \/ RefreshFails(c) \/ Lost(c)
        \/ \E p \in Projects : Delete(p)
    BY DEF Next, vars, table, ReadForRun, InsertRun, InsertRunFails
  <1> QED
    BY <1>1, <1>2, <1>3, <1>4, <1>5, <1>6, <1>7, <1>8, <1>9

-----------------------------------------------------------------------------
(* What was read of a project stays one of its versions.                   *)

\* A version of a project in use is the same version after any step that leaves
\* the project there, and a new id is not one in use.
LEMMA VersionsStay ==
  ASSUME TypeOK, SavesHoldTheRow, VersionCountsSaves, ExistingAreMade, [Next]_vars,
         NEW p \in Projects, p \in made, version'[p] > 0
  PROVE /\ version[p] \in Nat /\ version[p] > 0
        /\ version'[p] \in Nat /\ version'[p] >= version[p]
        /\ \A v \in 1..version[p] : history'[p][v] = history[p][v]
  <1>0. version[p] \in Nat
    BY DEF TypeOK
  <1>1. CASE UNCHANGED table
    BY <1>0, <1>1 DEF table
  <1>2. ASSUME NEW c \in Clients, NEW q \in Projects, NEW s \in Specs, Create(c, q, s)
        PROVE version'[p] = version[p] /\ history'[p] = history[p]
    BY <1>2 DEF Create, TypeOK
  <1>3. ASSUME NEW c \in Clients, Save(c)
        PROVE /\ version[p] \in Nat /\ version[p] > 0
              /\ version'[p] \in Nat /\ version'[p] >= version[p]
              /\ \A v \in 1..version[p] : history'[p][v] = history[p][v]
    <2>1. CASE p = target[c]
      BY <1>0, <1>3, <2>1, SaveFacts
    <2>2. CASE p # target[c]
      BY <1>0, <1>3, <2>2, SaveFacts
    <2> QED
      BY <2>1, <2>2
  <1>4. ASSUME NEW q \in Projects, Delete(q)
        PROVE version'[p] = version[p] /\ history'[p] = history[p]
    BY <1>4 DEF Delete, TypeOK
  <1> QED
    BY <1>0, <1>1, <1>2, <1>3, <1>4, TableWriters

LEMMA RunsStep ==
  /\ TypeOK /\ SavesHoldTheRow /\ VersionCountsSaves /\ ExistingAreMade /\ RunsOK
  /\ [Next]_vars
  => RunsOK'
  <1> SUFFICES ASSUME TypeOK, SavesHoldTheRow, VersionCountsSaves, ExistingAreMade, RunsOK,
                      [Next]_vars, NEW r \in Runs
               PROVE /\ runState'[r] \in {"read", "inserted"} =>
                          /\ runProject'[r] \in Projects
                          /\ runProject'[r] \in made'
                          /\ version'[runProject'[r]] > 0 =>
                               /\ runVersion'[r] \in 1..version'[runProject'[r]]
                               /\ runSpec'[r] = history'[runProject'[r]][runVersion'[r]]
                     /\ runState'[r] = "inserted" => version'[runProject'[r]] > 0
    BY DEF RunsOK, Exists
  <1> DEFINE p == runProject[r]
  <1> DEFINE Known ==
        /\ runProject'[r] \in Projects
        /\ runProject'[r] \in made'
        /\ version'[runProject'[r]] > 0 =>
             /\ runVersion'[r] \in 1..version'[runProject'[r]]
             /\ runSpec'[r] = history'[runProject'[r]][runVersion'[r]]
  <1> DEFINE Goal ==
        /\ runState'[r] \in {"read", "inserted"} => Known
        /\ runState'[r] = "inserted" => version'[runProject'[r]] > 0
  <1>0. /\ runState[r] \in {"read", "inserted"} =>
             /\ p \in Projects /\ p \in made
             /\ version[p] > 0 =>
                  runVersion[r] \in 1..version[p] /\ runSpec[r] = history[p][runVersion[r]]
        /\ runState[r] = "inserted" => version[p] > 0
    BY DEF RunsOK, Exists
  <1>1. made \subseteq made'
    BY MadeStep
  \* A run that keeps what it knows.
  <1>2. ASSUME runState[r] \in {"read", "inserted"},
               UNCHANGED <<runProject, runVersion, runSpec>>
        PROVE Known
    <2>1. p \in Projects /\ p \in made /\ p \in made'
      BY <1>0, <1>1, <1>2
    <2>2. ASSUME version'[p] > 0
          PROVE runVersion[r] \in 1..version'[p] /\ runSpec[r] = history'[p][runVersion[r]]
      <3>1. /\ version[p] > 0 /\ version'[p] >= version[p]
            /\ \A v \in 1..version[p] : history'[p][v] = history[p][v]
        BY <2>1, <2>2, VersionsStay
      <3>2. version[p] \in Nat /\ version'[p] \in Nat
        BY <2>1, <2>2, VersionsStay
      <3> QED
        BY <1>0, <1>2, <3>1, <3>2
    <2> QED
      BY <1>2, <2>1, <2>2
  <1>3. CASE UNCHANGED run /\ UNCHANGED version
    BY <1>0, <1>2, <1>3 DEF run
  <1>4. ASSUME NEW c \in Clients, Save(c) PROVE Goal
    <2>1. UNCHANGED run
      BY <1>4 DEF Save
    <2>2. runState[r] = "inserted" => version'[p] > 0
      <3>1. CASE p = target[c]
        BY <1>4, <3>1, SaveFacts
      <3>2. CASE p # target[c]
        BY <1>0, <1>4, <3>2, SaveFacts
      <3> QED
        BY <3>1, <3>2
    <2> QED
      BY <1>2, <2>1, <2>2 DEF run
  <1>5. ASSUME NEW c \in Clients, NEW q \in Projects, NEW s \in Specs, Create(c, q, s)
        PROVE Goal
    <2>1. UNCHANGED run
      BY <1>5 DEF Create
    <2>2. runState[r] = "inserted" => version'[p] > 0
      BY <1>0, <1>5 DEF Create, TypeOK
    <2> QED
      BY <1>2, <2>1, <2>2 DEF run
  <1>6. ASSUME NEW q \in Projects, Delete(q) PROVE Goal
    <2>1. /\ UNCHANGED <<runProject, runVersion, runSpec>>
          /\ runState'[r] = IF runState[r] = "inserted" /\ p = q THEN "gone" ELSE runState[r]
      BY <1>6 DEF Delete
    <2>2. CASE runState[r] = "inserted" /\ p = q
      BY <2>1, <2>2
    <2>3. CASE ~(runState[r] = "inserted" /\ p = q)
      <3>1. runState'[r] = runState[r]
        BY <2>1, <2>3
      <3>2. runState[r] = "inserted" => version'[p] > 0
        BY <1>0, <1>6, <2>3 DEF Delete, TypeOK
      <3> QED
        BY <1>2, <2>1, <3>1, <3>2
    <2> QED
      BY <2>2, <2>3
  <1>7. ASSUME NEW t \in Runs, NEW q \in Projects, ReadForRun(t, q) PROVE Goal
    <2>1. UNCHANGED table
      BY <1>7 DEF ReadForRun
    <2>2. CASE t = r
      <3>1. /\ runState'[r] = "read" /\ runProject'[r] = q
            /\ runVersion'[r] = version[q] /\ runSpec'[r] = spec[q] /\ version[q] > 0
        BY <1>7, <2>2 DEF ReadForRun, TypeOK, Exists
      <3>2. q \in made /\ spec[q] = history[q][version[q]] /\ version[q] \in Nat
        BY <3>1 DEF ExistingAreMade, VersionCountsSaves, Exists, TypeOK
      <3> QED
        BY <2>1, <3>1, <3>2 DEF table
    <2>3. CASE t # r
      <3>1. /\ runState'[r] = runState[r] /\ runProject'[r] = runProject[r]
            /\ runVersion'[r] = runVersion[r] /\ runSpec'[r] = runSpec[r]
        BY <1>7, <2>3 DEF ReadForRun, TypeOK
      <3> QED
        BY <1>0, <2>1, <3>1 DEF table
    <2> QED
      BY <2>2, <2>3
  <1>8. ASSUME NEW t \in Runs, InsertRun(t) PROVE Goal
    <2>1. UNCHANGED <<table, runProject, runVersion, runSpec>>
      BY <1>8 DEF InsertRun
    <2>2. CASE t = r
      <3>1. runState[r] = "read" /\ version[p] > 0
        BY <1>8, <2>2 DEF InsertRun, Exists
      <3> QED
        BY <1>0, <2>1, <3>1 DEF table
    <2>3. CASE t # r
      <3>1. runState'[r] = runState[r]
        BY <1>8, <2>3 DEF InsertRun, TypeOK
      <3> QED
        BY <1>0, <2>1, <3>1 DEF table
    <2> QED
      BY <2>2, <2>3
  <1>9. ASSUME NEW t \in Runs, InsertRunFails(t) PROVE Goal
    <2>1. UNCHANGED <<table, runProject, runVersion, runSpec>>
      BY <1>9 DEF InsertRunFails
    <2>2. runState'[r] \in {"gone", runState[r]}
      BY <1>9 DEF InsertRunFails, TypeOK
    <2> QED
      BY <1>0, <2>1, <2>2 DEF table
  <1>10. \/ UNCHANGED run /\ UNCHANGED version
         \/ \E c \in Clients : Save(c)
         \/ \E c \in Clients, q \in Projects, s \in Specs : Create(c, q, s)
         \/ \E q \in Projects : Delete(q)
         \/ \E t \in Runs, q \in Projects : ReadForRun(t, q)
         \/ \E t \in Runs : InsertRun(t) \/ InsertRunFails(t)
    BY DEF Next, vars, table, Fetch, LockRow, Refuse, Refresh, RefreshFails, Lost
  <1> QED
    BY <1>3, <1>4, <1>5, <1>6, <1>7, <1>8, <1>9, <1>10

LEMMA CopiesStep ==
  /\ TypeOK /\ SavesHoldTheRow /\ VersionCountsSaves /\ ExistingAreMade /\ CommittedOK
  /\ CopiesAreVersions /\ Adopting = Clients /\ [Next]_vars
  => CopiesAreVersions'
  <1> SUFFICES ASSUME TypeOK, SavesHoldTheRow, VersionCountsSaves, ExistingAreMade,
                      CommittedOK, CopiesAreVersions, Adopting = Clients, [Next]_vars,
                      NEW d \in Clients, copyOf'[d] # NoProject
               PROVE /\ copyOf'[d] \in made'
                     /\ copyVersion'[d] > 0
                     /\ version'[copyOf'[d]] > 0 =>
                          /\ copyVersion'[d] <= version'[copyOf'[d]]
                          /\ copySpec'[d] = history'[copyOf'[d]][copyVersion'[d]]
    BY DEF CopiesAreVersions, Exists
  <1> DEFINE Goal ==
        /\ copyOf'[d] \in made'
        /\ copyVersion'[d] > 0
        /\ version'[copyOf'[d]] > 0 =>
             /\ copyVersion'[d] <= version'[copyOf'[d]]
             /\ copySpec'[d] = history'[copyOf'[d]][copyVersion'[d]]
  \* A client that keeps its copy.
  <1>1. ASSUME copyOf'[d] = copyOf[d], copyVersion'[d] = copyVersion[d],
               copySpec'[d] = copySpec[d]
        PROVE Goal
    <2> DEFINE p == copyOf[d]
    <2>1. /\ p \in Projects /\ p \in made /\ copyVersion[d] > 0 /\ copyVersion[d] \in Nat
          /\ version[p] > 0 =>
               copyVersion[d] <= version[p] /\ copySpec[d] = history[p][copyVersion[d]]
      BY <1>1 DEF CopiesAreVersions, Exists, TypeOK
    <2>2. p \in made'
      BY <2>1, MadeStep
    <2>3. ASSUME version'[p] > 0
          PROVE copyVersion[d] <= version'[p] /\ copySpec[d] = history'[p][copyVersion[d]]
      <3>1. /\ version[p] \in Nat /\ version[p] > 0
            /\ version'[p] \in Nat /\ version'[p] >= version[p]
            /\ \A v \in 1..version[p] : history'[p][v] = history[p][v]
        BY <2>1, <2>3, VersionsStay
      <3>2. copyVersion[d] \in 1..version[p]
        BY <2>1, <3>1
      <3> QED
        BY <2>1, <3>1, <3>2
    <2> QED
      BY <1>1, <2>1, <2>2, <2>3
  \* A client that is shown a project as it is.
  <1>2. ASSUME NEW p \in Projects, version[p] > 0, UNCHANGED table,
               copyOf'[d] = p, copyVersion'[d] = version[p], copySpec'[d] = spec[p]
        PROVE Goal
    <2>1. p \in made /\ spec[p] = history[p][version[p]] /\ version[p] \in Nat
      BY <1>2 DEF ExistingAreMade, VersionCountsSaves, Exists, TypeOK
    <2> QED
      BY <1>2, <2>1 DEF table
  <1>3. CASE UNCHANGED copy
    BY <1>1, <1>3 DEF copy
  <1>4. ASSUME NEW c \in Clients, NEW p \in Projects, Fetch(c, p) PROVE Goal
    <2>1. CASE d = c
      BY <1>2, <1>4, <2>1 DEF Fetch, Open, TypeOK, Exists
    <2>2. CASE d # c
      BY <1>1, <1>4, <2>2 DEF Fetch, Open, TypeOK
    <2> QED
      BY <2>1, <2>2
  <1>5. ASSUME NEW c \in Clients, Refuse(c) \/ RefreshFails(c) PROVE Goal
    <2>1. d # c
      BY <1>5 DEF Refuse, RefreshFails, Close, Open, TypeOK
    <2> QED
      BY <1>1, <1>5, <2>1 DEF Refuse, RefreshFails, Close, Open, TypeOK
  <1>6. ASSUME NEW c \in Clients, Refresh(c) PROVE Goal
    <2>1. target[c] \in Projects /\ version[target[c]] > 0 /\ UNCHANGED table
      BY <1>6 DEF Refresh, CommittedOK, Exists
    <2>2. Open(c, target[c], version[target[c]], spec[target[c]])
      BY <1>6 DEF Refresh
    <2>3. CASE d = c
      BY <1>2, <2>1, <2>2, <2>3 DEF Open, TypeOK
    <2>4. CASE d # c
      BY <1>1, <2>2, <2>4 DEF Open, TypeOK
    <2> QED
      BY <2>3, <2>4
  <1>7. \/ UNCHANGED copy
        \/ \E c \in Clients, p \in Projects : Fetch(c, p)
        \/ \E c \in Clients : Refuse(c) \/ RefreshFails(c)
        \/ \E c \in Clients : Refresh(c)
    BY DEF Next, vars, Create, LockRow, Save, Lost, Delete, ReadForRun, InsertRun,
           InsertRunFails
  <1> QED
    BY <1>3, <1>4, <1>5, <1>6, <1>7

-----------------------------------------------------------------------------
(* The theorems.                                                           *)

LEMMA InvStep == IInv /\ [Next]_vars => IInv'
  <1> SUFFICES ASSUME IInv, [Next]_vars PROVE IInv'
    OBVIOUS
  <1>1. /\ TypeOK /\ VersionCountsSaves /\ SavesHoldTheRow /\ CommittedOK
        /\ InputsVersionExact /\ RunsOK /\ ExistingAreMade
        /\ (Adopting = Clients => CopiesAreVersions)
    BY DEF IInv
  <1>2. TypeOK' /\ VersionCountsSaves' /\ SavesHoldTheRow' /\ CommittedOK'
    BY <1>1, TypeStep, CountStep, SavesStep, CommittedStep
  <1>3. InputsVersionExact' /\ RunsOK' /\ ExistingAreMade'
    BY <1>1, InputsStep, RunsStep, MadeStep
  <1>4. Adopting = Clients => CopiesAreVersions'
    BY <1>1, CopiesStep
  <1> QED
    BY <1>2, <1>3, <1>4 DEF IInv

\* The inductive invariant holds in every behaviour of update_project, submit_run
\* and delete_project among any number of clients.
THEOREM Invariance == Spec => []IInv
  BY InitInv, InvStep, PTL DEF Spec

\* Every variable keeps its type.
THEOREM TypeCorrect == Spec => []TypeOK
  <1>1. IInv => TypeOK
    BY DEF IInv
  <1> QED
    BY <1>1, Invariance, PTL

\* The version column counts the saves, and the row is what the last one wrote:
\* the row lock of update_project loses none.
THEOREM NoSaveIsLost == Spec => []VersionCountsSaves
  <1>1. IInv => VersionCountsSaves
    BY DEF IInv
  <1> QED
    BY <1>1, Invariance, PTL

\* A run's snapshot is the project at the project_version that the run names.
THEOREM SnapshotsAreVersions == Spec => []SnapshotIsItsVersion
  <1>1. IInv => SnapshotIsItsVersion
    BY DEF IInv, RunsOK, SnapshotIsItsVersion
  <1> QED
    BY <1>1, Invariance, PTL

\* A run that its version does not show to be out of date has the simulation inputs
\* that the project has now.
THEOREM FreshRunsAreCurrent == Spec => []FreshRunsMatch
  <1>1. ASSUME IInv, NEW r \in Runs, runState[r] = "inserted",
               runVersion[r] >= inputsVersion[runProject[r]]
        PROVE Canon[runSpec[r]] = Canon[spec[runProject[r]]]
    <2> DEFINE p == runProject[r]
    <2>1. /\ p \in Projects /\ version[p] > 0 /\ runVersion[r] \in 1..version[p]
          /\ runSpec[r] = history[p][runVersion[r]]
      BY <1>1 DEF IInv, RunsOK, Exists
    <2>2. version[p] \in Nat /\ inputsVersion[p] \in Nat
      BY <1>1, <2>1 DEF IInv, TypeOK
    <2>3. runVersion[r] \in inputsVersion[p]..version[p]
      BY <1>1, <2>1, <2>2
    <2>4. Canon[history[p][runVersion[r]]] = Canon[history[p][version[p]]]
      BY <1>1, <2>1, <2>3 DEF IInv, InputsVersionExact, Exists
    <2>5. spec[p] = history[p][version[p]]
      BY <1>1, <2>1 DEF IInv, VersionCountsSaves, Exists
    <2> QED
      BY <2>1, <2>4, <2>5
  <1>2. IInv => FreshRunsMatch
    BY <1>1 DEF FreshRunsMatch
  <1> QED
    BY <1>2, Invariance, PTL

\* A run is shown to be out of date only if the inputs were edited after it.
THEOREM OutdatedRunsAreOld == Spec => []OutdatedRunsWereEdited
  <1>1. ASSUME IInv, NEW r \in Runs, runState[r] = "inserted",
               runVersion[r] < inputsVersion[runProject[r]]
        PROVE \E v \in (runVersion[r] + 1)..Len(history[runProject[r]]) :
                Canon[history[runProject[r]][v]] # Canon[history[runProject[r]][v - 1]]
    <2> DEFINE p == runProject[r]
    <2>1. p \in Projects /\ version[p] > 0 /\ runVersion[r] \in 1..version[p]
      BY <1>1 DEF IInv, RunsOK, Exists
    <2>2. version[p] \in Nat /\ inputsVersion[p] \in 1..version[p]
          /\ version[p] = Len(history[p])
      BY <1>1, <2>1 DEF IInv, TypeOK, InputsVersionExact, VersionCountsSaves, Exists
    <2>3. inputsVersion[p] > 1 /\ inputsVersion[p] \in (runVersion[r] + 1)..Len(history[p])
      BY <1>1, <2>1, <2>2
    <2>4. Canon[history[p][inputsVersion[p]]] # Canon[history[p][inputsVersion[p] - 1]]
      BY <1>1, <2>1, <2>3 DEF IInv, InputsVersionExact, Exists
    <2> QED
      BY <2>3, <2>4
  <1>2. IInv => OutdatedRunsWereEdited
    BY <1>1 DEF OutdatedRunsWereEdited
  <1> QED
    BY <1>2, Invariance, PTL

\* Of clients that take over the answers they get, none that sends the version it
\* was told replaces content that it has not seen.
THEOREM SavesOverwriteWhatWasSeen ==
  ASSUME Adopting = Clients PROVE Spec => NoSilentOverwrite
  <1>1. ASSUME IInv, [Next]_vars, NEW c \in Clients, pc[c] = "locked", expected[c] # 0
        PROVE spec[target[c]] = copySpec[c]
    <2> DEFINE p == target[c]
    <2>1. /\ p \in Projects /\ version[p] > 0 /\ rowVersion[c] = version[p]
          /\ copyOf[c] = p /\ copyVersion[c] = version[p]
      BY <1>1 DEF IInv, SavesHoldTheRow, Exists
    <2>2. copySpec[c] = history[p][version[p]]
      BY <1>1, <2>1, ProjectsAssumption DEF IInv, CopiesAreVersions, Exists
    <2> QED
      BY <1>1, <2>1, <2>2 DEF IInv, VersionCountsSaves, Exists
  <1>2. IInv /\ [Next]_vars =>
          [\A c \in Clients :
             pc[c] = "locked" /\ pc'[c] = "committed" /\ expected[c] # 0 =>
               spec[target[c]] = copySpec[c]]_vars
    BY <1>1
  <1> QED
    BY <1>2, Invariance, PTL DEF Spec, NoSilentOverwrite

-----------------------------------------------------------------------------
(* Recursion over JSON.                                                    *)

\* Among naturals there is a least.  The inductions below are on the least depth
\* of a counterexample.
LEMMA NatMin ==
  ASSUME NEW T \in SUBSET Nat, T # {}
  PROVE  \E n \in T : \A m \in T : n <= m
  <1> DEFINE R == {ss \in Nat \X Nat : ss[1] < ss[2]}
  <1>1. IsWellFoundedOn(R, Nat)
    BY NatLessThanWellFounded DEF OpToRel
  <1> HIDE DEF R
  <1>2. PICK n \in T : \A m \in T : <<m, n>> \notin R
    BY <1>1, WFMin
  <1>3. ASSUME NEW m \in T PROVE n <= m
    <2>1. <<m, n>> \notin R
      BY <1>2
    <2>2. m \in Nat /\ n \in Nat
      OBVIOUS
    <2>3. ~ (m < n)
      BY <2>1, <2>2 DEF R
    <2> QED
      BY <2>2, <2>3
  <1> QED
    BY <1>3

\* The parts of v that a recursion over it asks for; a key left out is null.
Parts(v) ==
  CASE v.type = "object" -> {Null} \cup { v.at[k] : k \in DOMAIN v.at }
    [] v.type = "list"   -> { v.items[i] : i \in DOMAIN v.items }
    [] OTHER             -> {}

\* The three recursions, and that f is one of them on S.
StepOf(kind, v, f) ==
  CASE kind = "clean" -> Cleaned(v, f)
    [] kind = "fill"  -> Completed(v, f)
    [] OTHER          -> Alike(v, f)

Recurs(kind, S, f) == f = [v \in S |-> StepOf(kind, v, f)]

Below(n) == { v \in Values : Depth[v] < n }

LEMMA PartsAreBelow ==
  ASSUME NEW v \in Values, NEW y \in Parts(v)
  PROVE  y \in Values /\ Depth[y] < Depth[v]
  <1>1. CASE v.type = "object"
    <2>1. v # Null /\ v.type # "list" /\ v.type # "atom"
      BY <1>1 DEF Null
    <2> QED
      BY <1>1, <2>1, ValuesAssumption DEF Parts
  <1>2. CASE v.type = "list"
    <2>1. v # Null /\ v.type # "object" /\ v.type # "atom"
      BY <1>2 DEF Null
    <2>2. PICK i \in DOMAIN v.items : y = v.items[i]
      BY <1>2 DEF Parts
    <2>3. v.items \in Seq(Values) /\ Depth[v.items[i]] < Depth[v]
      BY <2>1, ValuesAssumption
    <2> QED
      BY <2>2, <2>3
  <1> QED
    BY <1>1, <1>2 DEF Parts

\* What is made of v depends on what is made of its parts only.
LEMMA PartsDecide ==
  ASSUME NEW v \in Values, NEW kind, NEW f, NEW g,
         \A y \in Parts(v) : f[y] = g[y]
  PROVE  StepOf(kind, v, f) = StepOf(kind, v, g)
  <1>1. CASE v.type = "object"
    <2>1. \A k \in DOMAIN v.at : f[v.at[k]] = g[v.at[k]]
      BY <1>1 DEF Parts
    <2>2. \A k : f[Get(v.at, k)] = g[Get(v.at, k)]
      BY <1>1, <2>1 DEF Parts, Get
    <2>3. Cleaned(v, f) = Cleaned(v, g)
      BY <1>1, <2>1 DEF Cleaned, Written
    <2>4. Completed(v, f) = Completed(v, g)
      BY <1>1, <2>2 DEF Completed
    <2>5. Alike(v, f) = Alike(v, g)
      BY <1>1, <2>2 DEF Alike
    <2> QED
      BY <2>3, <2>4, <2>5 DEF StepOf
  <1>2. CASE v.type = "list"
    <2>1. \A i \in DOMAIN v.items : f[v.items[i]] = g[v.items[i]]
      BY <1>2 DEF Parts
    <2>3. Cleaned(v, f) = Cleaned(v, g)
      BY <1>2, <2>1 DEF Cleaned
    <2>4. Completed(v, f) = Completed(v, g)
      BY <1>2, <2>1 DEF Completed
    <2>5. Alike(v, f) = Alike(v, g)
      BY <1>2, <2>1 DEF Alike
    <2> QED
      BY <2>3, <2>4, <2>5 DEF StepOf
  <1>3. CASE v.type # "object" /\ v.type # "list"
    BY <1>3 DEF StepOf, Cleaned, Completed, Alike
  <1> QED
    BY <1>1, <1>2, <1>3

\* Two of them agree wherever both are defined.
LEMMA RecursionIsUnique ==
  ASSUME NEW kind, NEW m \in Nat, NEW n \in Nat, NEW f, NEW g,
         Recurs(kind, Below(m), f), Recurs(kind, Below(n), g)
  PROVE  \A v \in Below(m) \cap Below(n) : f[v] = g[v]
  <1> DEFINE Both == Below(m) \cap Below(n)
             T == { d \in Nat : \E v \in Both : Depth[v] = d /\ f[v] # g[v] }
  <1>1. ASSUME T # {} PROVE FALSE
    <2>1. PICK d \in T : \A e \in T : d <= e
      BY <1>1, NatMin, T \in SUBSET Nat
    <2>2. PICK v \in Both : Depth[v] = d /\ f[v] # g[v]
      OBVIOUS
    <2>3. v \in Values /\ Depth[v] \in Nat
      BY ValuesAssumption DEF Below
    <2>4. ASSUME NEW y \in Parts(v) PROVE f[y] = g[y]
      <3>1. y \in Values /\ Depth[y] < Depth[v] /\ Depth[y] \in Nat
        BY <2>3, PartsAreBelow, ValuesAssumption
      <3>2. y \in Both
        BY <2>3, <3>1 DEF Below
      <3>3. Depth[y] \notin T
        BY <2>1, <2>2, <2>3, <3>1
      <3> QED
        BY <3>1, <3>2, <3>3
    <2>5. StepOf(kind, v, f) = StepOf(kind, v, g)
      BY <2>3, <2>4, PartsDecide
    <2>6. f[v] = StepOf(kind, v, f)
      BY DEF Recurs
    <2>7. g[v] = StepOf(kind, v, g)
      BY DEF Recurs
    <2> QED
      BY <2>2, <2>5, <2>6, <2>7
  <1> QED
    <2>1. ASSUME NEW v \in Both, f[v] # g[v] PROVE FALSE
      <3>1. Depth[v] \in Nat
        BY ValuesAssumption DEF Below
      <3> QED
        BY <1>1, <2>1, <3>1
    <2> QED
      BY <2>1

\* It exists on the values of a depth below n, and so on all of them.
LEMMA RecursionExistsBelow ==
  ASSUME NEW kind, NEW n \in Nat
  PROVE  \E f : Recurs(kind, Below(n), f)
  <1> DEFINE T == { d \in Nat : ~ \E f : Recurs(kind, Below(d), f) }
  <1>1. ASSUME T # {} PROVE FALSE
    <2>1. PICK d \in T : \A e \in T : d <= e
      BY <1>1, NatMin, T \in SUBSET Nat
    <2>2. CASE d = 0
      <3>1. Below(d) = {}
        BY <2>2, ValuesAssumption DEF Below
      <3> DEFINE f == [v \in Below(d) |-> StepOf(kind, v, 0)]
      <3>2. f = [v \in Below(d) |-> StepOf(kind, v, f)]
        BY <3>1
      <3> QED
        BY <3>2 DEF Recurs
    <2>3. CASE d # 0
      <3>1. d - 1 \in Nat /\ d - 1 \notin T
        BY <2>1, <2>3
      <3>2. PICK f : Recurs(kind, Below(d - 1), f)
        BY <3>1
      <3> DEFINE g == [v \in Below(d) |-> StepOf(kind, v, f)]
      <3>3. ASSUME NEW v \in Below(d) PROVE StepOf(kind, v, f) = StepOf(kind, v, g)
        <4>1. v \in Values /\ Depth[v] \in Nat /\ Depth[v] < d
          BY ValuesAssumption DEF Below
        <4>2. ASSUME NEW y \in Parts(v) PROVE f[y] = g[y]
          <5>1. y \in Values /\ Depth[y] < Depth[v] /\ Depth[y] \in Nat
            BY <4>1, PartsAreBelow, ValuesAssumption
          <5>2. y \in Below(d - 1) /\ y \in Below(d)
            BY <4>1, <5>1 DEF Below
          <5>3. f[y] = StepOf(kind, y, f)
            BY <3>2, <5>2 DEF Recurs
          <5> QED
            BY <5>2, <5>3
        <4> HIDE DEF g
        <4> QED
          BY <4>1, <4>2, PartsDecide
      <3>4. g = [v \in Below(d) |-> StepOf(kind, v, g)]
        BY <3>3
      <3> QED
        BY <3>4 DEF Recurs
    <2> QED
      BY <2>2, <2>3
  <1> QED
    BY <1>1

LEMMA RecursionExists ==
  ASSUME NEW kind
  PROVE  \E f : Recurs(kind, Values, f)
  <1> DEFINE At(n) == CHOOSE f : Recurs(kind, Below(n), f)
             f == [v \in Values |-> At(Depth[v] + 1)[v]]
  <1>1. ASSUME NEW n \in Nat PROVE Recurs(kind, Below(n), At(n))
    BY RecursionExistsBelow
  <1>2. ASSUME NEW v \in Values PROVE f[v] = StepOf(kind, v, f)
    <2> DEFINE n == Depth[v] + 1
    <2>1. Depth[v] \in Nat /\ n \in Nat /\ v \in Below(n)
      BY ValuesAssumption DEF Below
    <2>2. Recurs(kind, Below(n), At(n))
      BY <1>1, <2>1
    <2>3. At(n)[v] = StepOf(kind, v, At(n))
      <3> HIDE DEF At, n
      <3> QED
        BY <2>1, <2>2 DEF Recurs
    <2>4. ASSUME NEW y \in Parts(v) PROVE At(n)[y] = f[y]
      <3>1. y \in Values /\ Depth[y] < Depth[v] /\ Depth[y] \in Nat
        BY PartsAreBelow, ValuesAssumption
      <3>2. y \in Below(n) \cap Below(Depth[y] + 1) /\ Depth[y] + 1 \in Nat
        BY <2>1, <3>1 DEF Below
      <3>3. Recurs(kind, Below(Depth[y] + 1), At(Depth[y] + 1))
        BY <1>1, <3>2
      <3>4. At(n)[y] = At(Depth[y] + 1)[y]
        <4> HIDE DEF At, n
        <4> QED
          BY <2>1, <2>2, <3>2, <3>3, RecursionIsUnique
      <3> QED
        BY <3>1, <3>4
    <2>5. StepOf(kind, v, At(n)) = StepOf(kind, v, f)
      <3> HIDE DEF At, n, f
      <3> QED
        BY <2>4, PartsDecide
    <2>6. f[v] = At(n)[v]
      OBVIOUS
    <2> QED
      BY <2>3, <2>5, <2>6
  <1>3. f = [v \in Values |-> StepOf(kind, v, f)]
    BY <1>2
  <1> QED
    BY <1>3 DEF Recurs

LEMMA WithoutNullsIs == WithoutNulls = [v \in Values |-> Cleaned(v, WithoutNulls)]
  <1>1. PICK f : Recurs("clean", Values, f)
    BY RecursionExists
  <1>2. f = [v \in Values |-> Cleaned(v, f)]
    BY <1>1 DEF Recurs, StepOf
  <1> QED
    BY <1>2 DEF WithoutNulls

LEMMA FilledIs == Filled = [v \in Values |-> Completed(v, Filled)]
  <1>1. PICK f : Recurs("fill", Values, f)
    BY RecursionExists
  <1>2. f = [v \in Values |-> Completed(v, f)]
    BY <1>1 DEF Recurs, StepOf
  <1> QED
    BY <1>2 DEF Filled

LEMMA SameToSpurIs == SameToSpur = [v \in Values |-> Alike(v, SameToSpur)]
  <1>1. PICK f : Recurs("same", Values, f)
    BY RecursionExists
  <1>2. f = [v \in Values |-> Alike(v, f)]
    BY <1>1 DEF Recurs, StepOf
  <1> QED
    BY <1>2 DEF SameToSpur

-----------------------------------------------------------------------------
(* What the comparison sees.                                               *)

LEMMA Kinds ==
  ASSUME NEW v \in Values
  PROVE  /\ v.type \in {"null", "atom", "list", "object"}
         /\ v.type = "null" <=> v = Null
         /\ v.type = "atom" => v = Atom(v.value)
         /\ v.type = "list" => v = List(v.items) /\ v.items \in Seq(Values)
         /\ v.type = "object" => /\ v = Object(v.at)
                                 /\ \A k : Get(v.at, k) \in Values
                                 /\ \A k : Depth[Get(v.at, k)] < Depth[v]
  <1>1. Null \in Values /\ Null.type = "null"
    BY ValuesAssumption DEF Null
  <1>2. CASE v = Null
    BY <1>1, <1>2
  <1>3. CASE v.type = "atom"
    <2>1. v # Null
      BY <1>1, <1>3
    <2> QED
      BY <1>3, <2>1, ValuesAssumption
  <1>4. CASE v.type = "list"
    <2>1. v # Null
      BY <1>1, <1>4
    <2> QED
      BY <1>4, <2>1, ValuesAssumption
  <1>5. CASE v.type = "object"
    <2>1. v # Null
      BY <1>1, <1>5
    <2>2. /\ v = Object(v.at)
          /\ \A k \in DOMAIN v.at : v.at[k] \in Values /\ Depth[v.at[k]] < Depth[v]
          /\ Depth[Null] < Depth[v]
      BY <1>5, <2>1, ValuesAssumption
    <2> QED
      BY <1>1, <1>5, <2>1, <2>2 DEF Get
  <1> QED
    BY <1>2, <1>3, <1>4, <1>5, ValuesAssumption

\* The kind of a value is seen, and null is seen as null only.
LEMMA KindsAreSeen ==
  ASSUME NEW v \in Values
  PROVE  /\ WithoutNulls[v].type = v.type
         /\ WithoutNulls[v] = Null <=> v = Null
  <1>1. WithoutNulls[v] = Cleaned(v, WithoutNulls)
    BY WithoutNullsIs
  <1>2. WithoutNulls[v].type = v.type
    BY <1>1, Kinds DEF Cleaned, Object, List
  <1>3. v = Null => WithoutNulls[v] = Null
    BY <1>1 DEF Cleaned, Null
  <1>4. Null.type = "null"
    BY DEF Null
  <1> QED
    BY <1>2, <1>3, <1>4, Kinds

LEMMA SameIs ==
  ASSUME NEW v \in Values, NEW w \in Values
  PROVE  SameToSpur[v][w] <=>
           /\ v.type = w.type
           /\ v.type = "atom" => v.value = w.value
           /\ v.type = "list" => /\ Len(v.items) = Len(w.items)
                                 /\ \A i \in DOMAIN v.items : SameToSpur[v.items[i]][w.items[i]]
           /\ v.type = "object" => \A k \in DOMAIN v.at \cup DOMAIN w.at :
                                     SameToSpur[Get(v.at, k)][Get(w.at, k)]
  <1>1. SameToSpur[v] = Alike(v, SameToSpur)
    BY SameToSpurIs
  <1> QED
    BY <1>1 DEF Alike

LEMMA ListsAreTheSame ==
  ASSUME NEW v \in Values, NEW w \in Values, v.type = "list", w.type = "list",
         Len(v.items) = Len(w.items),
         \A i \in DOMAIN v.items : SameToSpur[v.items[i]][w.items[i]]
  PROVE  SameToSpur[v][w]
  BY SameIs

LEMMA ObjectsAreTheSame ==
  ASSUME NEW v \in Values, NEW w \in Values, v.type = "object", w.type = "object",
         \A k \in DOMAIN v.at \cup DOMAIN w.at : SameToSpur[Get(v.at, k)][Get(w.at, k)]
  PROVE  SameToSpur[v][w]
  BY SameIs

LEMMA ListsAreSeen ==
  ASSUME NEW v \in Values, NEW w \in Values, v.type = "list", w.type = "list",
         \A i \in DOMAIN v.items, y \in Values :
           WithoutNulls[v.items[i]] = WithoutNulls[y] <=> SameToSpur[v.items[i]][y]
  PROVE  WithoutNulls[v] = WithoutNulls[w] <=> SameToSpur[v][w]
  <1> DEFINE cv == [i \in DOMAIN v.items |-> WithoutNulls[v.items[i]]]
             cw == [i \in DOMAIN w.items |-> WithoutNulls[w.items[i]]]
  <1>1. v.items \in Seq(Values) /\ w.items \in Seq(Values)
    BY Kinds
  <1>2. /\ DOMAIN v.items = 1..Len(v.items) /\ Len(v.items) \in Nat
        /\ DOMAIN w.items = 1..Len(w.items) /\ Len(w.items) \in Nat
    BY <1>1
  <1>3. WithoutNulls[v] = List(cv) /\ WithoutNulls[w] = List(cw)
    BY WithoutNullsIs DEF Cleaned
  <1>4. WithoutNulls[v] = WithoutNulls[w] <=> cv = cw
    <2> HIDE DEF cv, cw
    <2> QED
      BY <1>3 DEF List
  <1>5. cv = cw <=> /\ DOMAIN v.items = DOMAIN w.items
                    /\ \A i \in DOMAIN v.items : WithoutNulls[v.items[i]] = WithoutNulls[w.items[i]]
    <2>1. ASSUME cv = cw
          PROVE  /\ DOMAIN v.items = DOMAIN w.items
                 /\ \A i \in DOMAIN v.items : WithoutNulls[v.items[i]] = WithoutNulls[w.items[i]]
      <3>1. DOMAIN cv = DOMAIN v.items /\ DOMAIN cw = DOMAIN w.items
        OBVIOUS
      <3>2. /\ \A i \in DOMAIN v.items : cv[i] = WithoutNulls[v.items[i]]
            /\ \A i \in DOMAIN w.items : cw[i] = WithoutNulls[w.items[i]]
        OBVIOUS
      <3> HIDE DEF cv, cw
      <3> QED
        BY <2>1, <3>1, <3>2
    <2>2. ASSUME /\ DOMAIN v.items = DOMAIN w.items
                 /\ \A i \in DOMAIN v.items : WithoutNulls[v.items[i]] = WithoutNulls[w.items[i]]
          PROVE  cv = cw
      BY <2>2
    <2> QED
      BY <2>1, <2>2
  <1>6. DOMAIN v.items = DOMAIN w.items <=> Len(v.items) = Len(w.items)
    BY <1>2
  <1>7. SameToSpur[v][w] <=>
          /\ Len(v.items) = Len(w.items)
          /\ \A i \in DOMAIN v.items : SameToSpur[v.items[i]][w.items[i]]
    BY SameIs
  <1>8. ASSUME NEW i \in DOMAIN v.items, Len(v.items) = Len(w.items)
        PROVE  WithoutNulls[v.items[i]] = WithoutNulls[w.items[i]]
                 <=> SameToSpur[v.items[i]][w.items[i]]
    <2>1. w.items[i] \in Values
      BY <1>1, <1>2, <1>8
    <2> QED
      BY <2>1
  <1> HIDE DEF cv, cw
  <1> QED
    BY <1>4, <1>5, <1>6, <1>7, <1>8

LEMMA ObjectsAreSeen ==
  ASSUME NEW v \in Values, NEW w \in Values, v.type = "object", w.type = "object",
         \A k : \A y \in Values :
           WithoutNulls[Get(v.at, k)] = WithoutNulls[y] <=> SameToSpur[Get(v.at, k)][y]
  PROVE  WithoutNulls[v] = WithoutNulls[w] <=> SameToSpur[v][w]
  <1> DEFINE cv == [k \in Written(v.at) |-> WithoutNulls[v.at[k]]]
             cw == [k \in Written(w.at) |-> WithoutNulls[w.at[k]]]
  <1>1. WithoutNulls[v] = Object(cv) /\ WithoutNulls[w] = Object(cw)
    BY WithoutNullsIs DEF Cleaned
  <1>2. WithoutNulls[v] = WithoutNulls[w] <=> cv = cw
    <2> HIDE DEF cv, cw
    <2> QED
      BY <1>1 DEF Object
  <1>3. /\ \A k : Get(v.at, k) \in Values
        /\ \A k : Get(w.at, k) \in Values
    BY Kinds
  <1>4. /\ \A k : k \in Written(v.at) <=> Get(v.at, k) # Null
        /\ \A k : k \in Written(w.at) <=> Get(w.at, k) # Null
        /\ \A k \in Written(v.at) : v.at[k] = Get(v.at, k)
        /\ \A k \in Written(w.at) : w.at[k] = Get(w.at, k)
    BY DEF Written, Get
  <1>5. ASSUME cv = cw, NEW k PROVE WithoutNulls[Get(v.at, k)] = WithoutNulls[Get(w.at, k)]
    <2>1. Written(v.at) = Written(w.at)
      <3>1. DOMAIN cv = Written(v.at) /\ DOMAIN cw = Written(w.at)
        OBVIOUS
      <3> HIDE DEF cv, cw
      <3> QED
        BY <1>5, <3>1
    <2>2. CASE k \in Written(v.at)
      <3>1. cv[k] = WithoutNulls[v.at[k]] /\ cw[k] = WithoutNulls[w.at[k]]
        BY <2>1, <2>2
      <3> HIDE DEF cv, cw
      <3> QED
        BY <1>4, <1>5, <2>1, <2>2, <3>1
    <2>3. CASE k \notin Written(v.at)
      BY <1>4, <2>1, <2>3
    <2> QED
      BY <2>2, <2>3
  <1>6. ASSUME \A k \in DOMAIN v.at \cup DOMAIN w.at :
                 WithoutNulls[Get(v.at, k)] = WithoutNulls[Get(w.at, k)]
        PROVE  cv = cw
    <2>1. ASSUME NEW k \in DOMAIN v.at \cup DOMAIN w.at
          PROVE  k \in Written(v.at) <=> k \in Written(w.at)
      BY <1>3, <1>4, <1>6, KindsAreSeen
    <2>2. Written(v.at) = Written(w.at)
      BY <2>1 DEF Written
    <2>3. ASSUME NEW k \in Written(v.at) PROVE WithoutNulls[v.at[k]] = WithoutNulls[w.at[k]]
      <3>1. k \in DOMAIN v.at
        BY DEF Written
      <3> QED
        BY <1>4, <1>6, <2>2, <3>1
    <2> QED
      BY <2>2, <2>3
  <1>7. SameToSpur[v][w] <=> \A k \in DOMAIN v.at \cup DOMAIN w.at :
                               SameToSpur[Get(v.at, k)][Get(w.at, k)]
    BY SameIs
  <1>8. \A k : WithoutNulls[Get(v.at, k)] = WithoutNulls[Get(w.at, k)]
                 <=> SameToSpur[Get(v.at, k)][Get(w.at, k)]
    BY <1>3
  <1> HIDE DEF cv, cw
  <1> QED
    BY <1>2, <1>5, <1>6, <1>7, <1>8

\* What _without_nulls leaves of two values is the same exactly when they mean
\* the same to spur: no null at any depth makes a difference, and nothing else
\* is lost, not even the place of a null in a list.
THEOREM ComparisonIsExact ==
  ASSUME NEW v \in Values, NEW w \in Values
  PROVE  WithoutNulls[v] = WithoutNulls[w] <=> SameToSpur[v][w]
  <1> DEFINE Exact(x) == \A y \in Values : WithoutNulls[x] = WithoutNulls[y] <=> SameToSpur[x][y]
             T == { d \in Nat : \E x \in Values : Depth[x] = d /\ ~ Exact(x) }
  <1>1. ASSUME T # {} PROVE FALSE
    <2>1. PICK d \in T : \A e \in T : d <= e
      BY <1>1, NatMin, T \in SUBSET Nat
    <2>2. PICK x \in Values : Depth[x] = d /\ ~ Exact(x)
      OBVIOUS
    <2>3. ASSUME NEW z \in Values, Depth[z] < Depth[x] PROVE Exact(z)
      <3>1. Depth[z] \in Nat /\ Depth[x] \in Nat
        BY ValuesAssumption
      <3>2. Depth[z] \notin T
        BY <2>1, <2>2, <2>3, <3>1
      <3> HIDE DEF Exact
      <3> QED
        BY <3>1, <3>2
    <2>4. ASSUME NEW y \in Values
          PROVE  WithoutNulls[x] = WithoutNulls[y] <=> SameToSpur[x][y]
      <3>1. CASE x.type # y.type
        BY <3>1, KindsAreSeen, SameIs
      <3>2. CASE x.type = y.type /\ x.type = "null"
        BY <3>2, Kinds, SameIs
      <3>3. CASE x.type = y.type /\ x.type = "atom"
        <4>1. WithoutNulls[x] = x /\ WithoutNulls[y] = y
          BY <3>3, WithoutNullsIs DEF Cleaned
        <4>2. x = Atom(x.value) /\ y = Atom(y.value)
          BY <3>3, Kinds
        <4>3. SameToSpur[x][y] <=> x.value = y.value
          BY <3>3, SameIs
        <4> QED
          BY <4>1, <4>2, <4>3
      <3>4. CASE x.type = y.type /\ x.type = "list"
        <4>1. ASSUME NEW i \in DOMAIN x.items PROVE Exact(x.items[i])
          <5>1. x.items[i] \in Parts(x)
            BY <3>4 DEF Parts
          <5> HIDE DEF Exact
          <5> QED
            BY <2>3, <5>1, PartsAreBelow
        <4> QED
          BY <3>4, <4>1, ListsAreSeen
      <3>5. CASE x.type = y.type /\ x.type = "object"
        <4>1. ASSUME NEW k PROVE Exact(Get(x.at, k))
          <5> HIDE DEF Exact
          <5> QED
            BY <2>3, <3>5, Kinds
        <4> QED
          BY <3>5, <4>1, ObjectsAreSeen
      <3> QED
        BY <3>1, <3>2, <3>3, <3>4, <3>5, Kinds
    <2> QED
      BY <2>2, <2>4
  <1>2. Depth[v] \in Nat
    BY ValuesAssumption
  <1>3. Exact(v)
    <2> HIDE DEF Exact
    <2> QED
      BY <1>1, <1>2
  <1> QED
    BY <1>3

\* What the API answers with for a stored value means the same to spur.
LEMMA FilledIsTheSame ==
  ASSUME NEW v \in Values
  PROVE  SameToSpur[v][Filled[v]]
  <1> DEFINE T == { d \in Nat : \E x \in Values : Depth[x] = d /\ ~ SameToSpur[x][Filled[x]] }
  <1>1. ASSUME T # {} PROVE FALSE
    <2>1. PICK d \in T : \A e \in T : d <= e
      BY <1>1, NatMin, T \in SUBSET Nat
    <2>2. PICK x \in Values : Depth[x] = d /\ ~ SameToSpur[x][Filled[x]]
      OBVIOUS
    <2>3. ASSUME NEW z \in Values, Depth[z] < Depth[x] PROVE SameToSpur[z][Filled[z]]
      <3>1. Depth[z] \in Nat /\ Depth[x] \in Nat
        BY ValuesAssumption
      <3>2. Depth[z] \notin T
        BY <2>1, <2>2, <2>3, <3>1
      <3> QED
        BY <3>1, <3>2
    <2> DEFINE y == Filled[x]
    <2>4. /\ y = Completed(x, Filled)
          /\ y \in Values
      BY FilledIs, TextsAssumption
    <2>5. CASE x.type \in {"null", "atom"}
      <3>1. y = x
        BY <2>4, <2>5 DEF Completed
      <3>2. SameToSpur[x][x]
        BY <2>5, SameIs
      <3> QED
        BY <2>2, <3>1, <3>2
    <2>6. CASE x.type = "list"
      <3>1. y = List([i \in DOMAIN x.items |-> Filled[x.items[i]]])
        BY <2>4, <2>6 DEF Completed
      <3>2. /\ y.type = "list"
            /\ y.items = [i \in DOMAIN x.items |-> Filled[x.items[i]]]
        BY <3>1 DEF List
      <3>3. x.items \in Seq(Values) /\ y.items \in Seq(Values)
        BY <2>4, <2>6, <3>2, Kinds
      <3>4. Len(x.items) = Len(y.items)
        <4>1. DOMAIN y.items = DOMAIN x.items
          BY <3>2
        <4> QED
          BY <3>3, <4>1
      <3>5. ASSUME NEW i \in DOMAIN x.items PROVE SameToSpur[x.items[i]][y.items[i]]
        <4>1. x.items[i] \in Parts(x)
          BY <2>6 DEF Parts
        <4> QED
          BY <2>3, <3>2, <4>1, PartsAreBelow
      <3>6. SameToSpur[x][y]
        BY <2>4, <2>6, <3>2, <3>4, <3>5, ListsAreTheSame
      <3> QED
        BY <2>2, <3>6
    <2>7. CASE x.type = "object"
      <3>1. y = Object([k \in DOMAIN x.at \cup Optional |-> Filled[Get(x.at, k)]])
        BY <2>4, <2>7 DEF Completed
      <3>2. /\ y.type = "object"
            /\ y.at = [k \in DOMAIN x.at \cup Optional |-> Filled[Get(x.at, k)]]
        BY <3>1 DEF Object
      <3>3. ASSUME NEW k \in DOMAIN x.at \cup DOMAIN y.at
            PROVE  SameToSpur[Get(x.at, k)][Get(y.at, k)]
        <4>1. Get(y.at, k) = Filled[Get(x.at, k)]
          BY <3>2 DEF Get
        <4> QED
          BY <2>3, <2>7, <4>1, Kinds
      <3>4. SameToSpur[x][y]
        BY <2>4, <2>7, <3>2, <3>3, ObjectsAreTheSame
      <3> QED
        BY <2>2, <3>4
    <2> QED
      BY <2>5, <2>6, <2>7, Kinds
  <1>2. Depth[v] \in Nat
    BY ValuesAssumption
  <1> QED
    BY <1>1, <1>2

\* The sections of two texts differ, to the comparison, exactly where a
\* simulation reads them otherwise.
LEMMA SectionsAreSeen ==
  ASSUME NEW old, NEW new,
         \A s \in Inputs : Get(old, s) \in Values /\ Get(new, s) \in Values
  PROVE  /\ SectionsDiffer(old, new) <=> ReadsOtherwise(old, new)
         /\ Sections(old) # Sections(new) <=> ReadsOtherwise(old, new)
  <1>1. \A s \in Inputs : WithoutNulls[Get(old, s)] # WithoutNulls[Get(new, s)]
                            <=> ~ SameToSpur[Get(old, s)][Get(new, s)]
    BY ComparisonIsExact
  <1>2. SectionsDiffer(old, new) <=> ReadsOtherwise(old, new)
    BY <1>1 DEF SectionsDiffer, ReadsOtherwise
  <1>3. Sections(old) = Sections(new)
          <=> \A s \in Inputs : WithoutNulls[Get(old, s)] = WithoutNulls[Get(new, s)]
    <2>1. ASSUME Sections(old) = Sections(new), NEW s \in Inputs
          PROVE  WithoutNulls[Get(old, s)] = WithoutNulls[Get(new, s)]
      <3>1. /\ Sections(old)[s] = WithoutNulls[Get(old, s)]
            /\ Sections(new)[s] = WithoutNulls[Get(new, s)]
        BY DEF Sections
      <3> QED
        BY <2>1, <3>1
    <2>2. ASSUME \A s \in Inputs : WithoutNulls[Get(old, s)] = WithoutNulls[Get(new, s)]
          PROVE  Sections(old) = Sections(new)
      BY <2>2 DEF Sections
    <2> QED
      BY <2>1, <2>2
  <1> QED
    BY <1>1, <1>2, <1>3 DEF ReadsOtherwise

\* A project that is fetched and saved back as it came, with the nulls that the
\* response model writes into it at any depth, is not seen as edited, so the runs
\* it has stay up to date (_without_nulls, "a project fetched from the API and
\* saved back carries its optional keys as null").
THEOREM FetchingChangesNothing ==
  ASSUME NEW text \in Texts
  PROVE  ~ SectionsDiffer(text, Fetched(text))
  <1>1. ASSUME NEW s \in Inputs
        PROVE  SameToSpur[Get(text, s)][Get(Fetched(text), s)]
    <2>1. Get(text, s) \in Values
      BY TextsAssumption
    <2>2. CASE s \in DOMAIN text
      <3>1. Get(Fetched(text), s) = Filled[Get(text, s)]
        BY <2>2 DEF Fetched, Get
      <3> QED
        BY <2>1, <3>1, FilledIsTheSame
    <2>3. CASE s \notin DOMAIN text
      <3>1. s # "name"
        BY DEF Inputs
      <3>2. Get(text, s) = Null /\ Get(Fetched(text), s) = Null
        BY <2>3, <3>1 DEF Fetched, Get
      <3>3. SameToSpur[Null][Null]
        BY ValuesAssumption, SameIs DEF Null
      <3> QED
        BY <3>2, <3>3
    <2> QED
      BY <2>2, <2>3
  <1>2. \A s \in Inputs : Get(text, s) \in Values /\ Get(Fetched(text), s) \in Values
    BY TextsAssumption
  <1>3. SectionsDiffer(text, Fetched(text)) <=> ReadsOtherwise(text, Fetched(text))
    BY <1>2, SectionsAreSeen
  <1> QED
    BY <1>1, <1>3 DEF ReadsOtherwise

LEMMA NothingIsMisjudged == Misjudged = {}
  <1>1. ASSUME NEW old \in Texts, NEW new \in Texts \cup { Fetched(text) : text \in Texts }
        PROVE  SectionsDiffer(old, new) <=> ReadsOtherwise(old, new)
    <2>1. \A s \in Inputs : Get(old, s) \in Values /\ Get(new, s) \in Values
      BY TextsAssumption
    <2> QED
      BY <2>1, SectionsAreSeen
  <1>2. \A old \in Texts : Judged[old]
    BY <1>1 DEF Judged
  <1> QED
    BY <1>2 DEF Misjudged

\* _inputs_differ finds a difference between what a project holds and what is
\* saved exactly where a simulation would read something else, at any depth.
THEOREM TheComparisonIsAsMeant == Spec => []ComparisonAsMeant
  <1>1. ComparisonAsMeant
    BY NothingIsMisjudged DEF ComparisonAsMeant
  <1> QED
    BY <1>1, PTL

LEMMA EditsChangeCanon ==
  ASSUME NEW s \in Specs, NEW t \in Specs
  PROVE  Edit[s][t] <=> Canon[s] # Canon[t]
  <1>1. Text[s] \in Texts /\ Text[t] \in Texts
    BY DEF Texts
  <1>2. \A x \in Inputs : Get(Text[s], x) \in Values /\ Get(Text[t], x) \in Values
    BY <1>1, TextsAssumption
  <1>3. Canon[s] = Sections(Text[s]) /\ Canon[t] = Sections(Text[t])
    BY TextsAssumption
  <1>4. Canon[s] # Canon[t] <=> ReadsOtherwise(Text[s], Text[t])
    BY <1>2, <1>3, SectionsAreSeen
  <1>5. Edit[s][t] <=> ReadsOtherwise(Text[s], Text[t])
    BY DEF Edit
  <1> QED
    BY <1>4, <1>5

LEMMA RaisedByTheLastEdit == IInv => RaisedByEditsOnly
  <1> SUFFICES ASSUME IInv, NEW p \in Projects, Exists(p)
               PROVE  inputsVersion[p] = Max({1} \cup EditsOf(p))
    BY DEF RaisedByEditsOnly
  <1> DEFINE h == history[p]
             last == inputsVersion[p]
             S == {1} \cup EditsOf(p)
  <1>1. /\ h \in Seq(Specs)
        /\ version[p] = Len(h)
        /\ Len(h) \in Nat
        /\ last \in 1..Len(h)
        /\ \A v \in last..Len(h) : Canon[h[v]] = Canon[h[Len(h)]]
        /\ last > 1 => Canon[h[last]] # Canon[h[last - 1]]
    BY DEF IInv, TypeOK, VersionCountsSaves, InputsVersionExact
  <1> HIDE DEF h, last
  <1>2. \A v \in 2..Len(h) : v \in EditsOf(p) <=> Canon[h[v - 1]] # Canon[h[v]]
    <2>1. ASSUME NEW v \in 2..Len(h)
          PROVE  Edit[h[v - 1]][h[v]] <=> Canon[h[v - 1]] # Canon[h[v]]
      <3>1. v - 1 \in 1..Len(h) /\ v \in 1..Len(h)
        BY <1>1
      <3>2. h[v - 1] \in Specs /\ h[v] \in Specs
        BY <1>1, <3>1
      <3> QED
        BY <3>2, EditsChangeCanon
    <2> QED
      BY <2>1 DEF EditsOf, h
  <1>3. last \in S
    <2>1. CASE last = 1
      BY <2>1
    <2>2. CASE last # 1
      <3>1. last \in 2..Len(h) /\ last > 1
        BY <1>1, <2>2
      <3> QED
        BY <1>1, <1>2, <3>1
    <2> QED
      BY <2>1, <2>2
  <1>4. ASSUME NEW v \in S PROVE v \in Nat /\ v <= last
    <2>1. CASE v = 1
      BY <1>1, <2>1
    <2>2. CASE v # 1
      <3>1. v \in 2..Len(h) /\ v \in EditsOf(p)
        BY <2>2 DEF EditsOf, h
      <3>2. ASSUME v > last PROVE FALSE
        <4>1. v \in last..Len(h) /\ v - 1 \in last..Len(h)
          BY <1>1, <3>1, <3>2
        <4>2. Canon[h[v]] = Canon[h[v - 1]]
          BY <1>1, <4>1
        <4> QED
          BY <1>2, <3>1, <4>2
      <3> QED
        BY <1>1, <3>1, <3>2
    <2> QED
      BY <2>1, <2>2
  <1> HIDE DEF S
  <1>5. last \in Nat
    BY <1>1
  <1>6. /\ Max(S) \in S
        /\ \A y \in S : Max(S) >= y
    BY <1>3, <1>4, <1>5 DEF Max
  <1> QED
    <2>1. Max(S) \in Nat /\ Max(S) <= last
      BY <1>4, <1>6
    <2>2. Max(S) >= last
      BY <1>3, <1>6
    <2>3. Max(S) = last
      BY <1>5, <2>1, <2>2
    <2> QED
      BY <2>3 DEF S, last

\* inputs_version is the last save after which a simulation reads something
\* else: saving back what was fetched, writing nulls out and saving at once with
\* others do not move it, and no edit is missed (update_project).
THEOREM OnlyEditsRaiseIt == Spec => []RaisedByEditsOnly
  BY Invariance, RaisedByTheLastEdit, PTL
=============================================================================
