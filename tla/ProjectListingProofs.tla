------------------------- MODULE ProjectListingProofs -------------------------
(***************************************************************************)
(* Proofs about ProjectFamilies and about the pages that ProjectListing    *)
(* cuts out of it, for any number of projects and any limit.               *)
(***************************************************************************)
EXTENDS ProjectListing, FiniteSetTheorems, TLAPS

(* Families *)

LEMMA InitInv == FamiliesInit => FamiliesInv
  BY FamiliesAssumption
  DEF FamiliesInit, FamiliesInv, FamiliesTypeOK, BaseIsRoot, SameFamily, PendingOK, Stored

LEMMA TypeStep == FamiliesTypeOK /\ [FamiliesNext]_familyVars => FamiliesTypeOK'
  BY DEF FamiliesTypeOK, FamiliesNext, familyVars, CreateAlone, ReadBase, BaseOf, Insert, InsertFails, Delete,
         Lost, Stored

LEMMA RootStep == FamiliesInv /\ [FamiliesNext]_familyVars => BaseIsRoot'
  <1> SUFFICES ASSUME FamiliesInv, [FamiliesNext]_familyVars PROVE BaseIsRoot'
    OBVIOUS
  <1>0. FamiliesTypeOK /\ BaseIsRoot /\ PendingOK
    BY DEF FamiliesInv
  <1>1. CASE UNCHANGED familyVars
    BY <1>0, <1>1 DEF familyVars, BaseIsRoot, Stored
  <1>2. ASSUME NEW p \in Projects, CreateAlone(p) PROVE BaseIsRoot'
    BY <1>0, <1>2, FamiliesAssumption
    DEF CreateAlone, FamiliesTypeOK, BaseIsRoot, PendingOK, Stored
  <1>3. ASSUME NEW p \in Projects, NEW b \in Projects, ReadBase(p, b) PROVE BaseIsRoot'
    BY <1>0, <1>3, FamiliesAssumption
    DEF ReadBase, BaseOf, FamiliesTypeOK, BaseIsRoot, PendingOK, Stored
  <1>4. ASSUME NEW p \in Projects, Insert(p) PROVE BaseIsRoot'
    BY <1>0, <1>4, FamiliesAssumption DEF Insert, FamiliesTypeOK, BaseIsRoot, PendingOK, Stored
  <1>5. ASSUME NEW p \in Projects, InsertFails(p) \/ Lost(p) PROVE BaseIsRoot'
    BY <1>0, <1>5, FamiliesAssumption
    DEF InsertFails, Lost, FamiliesTypeOK, BaseIsRoot, PendingOK, Stored
  <1>6. ASSUME NEW p \in Projects, Delete(p) PROVE BaseIsRoot'
    BY <1>0, <1>6, FamiliesAssumption DEF Delete, FamiliesTypeOK, BaseIsRoot, PendingOK, Stored
  <1> QED
    BY <1>1, <1>2, <1>3, <1>4, <1>5, <1>6 DEF FamiliesNext

LEMMA FamilyStep == FamiliesInv /\ [FamiliesNext]_familyVars => SameFamily'
  <1> SUFFICES ASSUME FamiliesInv, [FamiliesNext]_familyVars PROVE SameFamily'
    OBVIOUS
  <1>0. FamiliesTypeOK /\ BaseIsRoot /\ PendingOK /\ SameFamily
    BY DEF FamiliesInv
  <1>1. CASE UNCHANGED familyVars
    BY <1>0, <1>1 DEF familyVars, SameFamily, Stored
  <1>2. ASSUME NEW p \in Projects, CreateAlone(p) PROVE SameFamily'
    BY <1>0, <1>2, FamiliesAssumption
    DEF CreateAlone, FamiliesTypeOK, SameFamily, PendingOK, Stored
  <1>3. ASSUME NEW p \in Projects, NEW b \in Projects, ReadBase(p, b) PROVE SameFamily'
    BY <1>0, <1>3, FamiliesAssumption
    DEF ReadBase, BaseOf, FamiliesTypeOK, SameFamily, PendingOK, Stored
  <1>4. ASSUME NEW p \in Projects, Insert(p) PROVE SameFamily'
    BY <1>0, <1>4, FamiliesAssumption
    DEF Insert, BaseOf, FamiliesTypeOK, SameFamily, PendingOK, Stored
  <1>5. ASSUME NEW p \in Projects, InsertFails(p) \/ Lost(p) PROVE SameFamily'
    BY <1>0, <1>5, FamiliesAssumption
    DEF InsertFails, Lost, FamiliesTypeOK, SameFamily, PendingOK, Stored
  <1>6. ASSUME NEW p \in Projects, Delete(p) PROVE SameFamily'
    BY <1>0, <1>6, FamiliesAssumption DEF Delete, FamiliesTypeOK, SameFamily, PendingOK, Stored
  <1> QED
    BY <1>1, <1>2, <1>3, <1>4, <1>5, <1>6 DEF FamiliesNext

LEMMA PendingStep == FamiliesInv /\ [FamiliesNext]_familyVars => PendingOK'
  <1> SUFFICES ASSUME FamiliesInv, [FamiliesNext]_familyVars PROVE PendingOK'
    OBVIOUS
  <1>0. FamiliesTypeOK /\ BaseIsRoot /\ PendingOK /\ SameFamily
    BY DEF FamiliesInv
  <1>1. CASE UNCHANGED familyVars
    BY <1>0, <1>1 DEF familyVars, PendingOK, Stored, BaseOf
  <1>2. ASSUME NEW p \in Projects, CreateAlone(p) PROVE PendingOK'
    BY <1>0, <1>2, FamiliesAssumption
    DEF CreateAlone, FamiliesTypeOK, BaseOf, PendingOK, Stored
  <1>3. ASSUME NEW p \in Projects, NEW b \in Projects, ReadBase(p, b) PROVE PendingOK'
    BY <1>0, <1>3, FamiliesAssumption
    DEF ReadBase, BaseOf, FamiliesTypeOK, BaseIsRoot, PendingOK, Stored
  <1>4. ASSUME NEW p \in Projects, Insert(p) PROVE PendingOK'
    BY <1>0, <1>4, FamiliesAssumption DEF Insert, BaseOf, FamiliesTypeOK, PendingOK, Stored
  <1>5. ASSUME NEW p \in Projects, InsertFails(p) \/ Lost(p) PROVE PendingOK'
    BY <1>0, <1>5, FamiliesAssumption
    DEF InsertFails, Lost, BaseOf, FamiliesTypeOK, BaseIsRoot, PendingOK, Stored
  <1>6. ASSUME NEW p \in Projects, Delete(p) PROVE PendingOK'
    BY <1>0, <1>6, FamiliesAssumption DEF Delete, BaseOf, FamiliesTypeOK, PendingOK, Stored
  <1> QED
    BY <1>1, <1>2, <1>3, <1>4, <1>5, <1>6 DEF FamiliesNext

LEMMA InvStep == FamiliesInv /\ [FamiliesNext]_familyVars => FamiliesInv'
  BY TypeStep, RootStep, FamilyStep, PendingStep DEF FamiliesInv

\* The inductive invariant holds however creations and deletions are interleaved.
THEOREM Invariance == FamiliesSpec => []FamiliesInv
  BY InitInv, InvStep, PTL DEF FamiliesSpec

\* A family is one base and its scenarios: nothing points at a scenario, or at a
\* project that is gone.
THEOREM BasesAreRoots == FamiliesSpec => []BaseIsRoot
  <1>1. FamiliesInv => BaseIsRoot
    BY DEF FamiliesInv
  <1> QED
    BY <1>1, Invariance, PTL

\* A scenario is of the family of the project it was made from.
THEOREM ScenariosKeepToTheFamily == FamiliesSpec => []SameFamily
  <1>1. FamiliesInv => SameFamily
    BY DEF FamiliesInv
  <1> QED
    BY <1>1, Invariance, PTL

\* A project goes only by its own deletion, and leaves its family only when its
\* base goes.
THEOREM FamiliesChangeByDeletion == FamiliesSpec => ScenariosOutliveBases
  <1> DEFINE Step ==
        \A p \in Projects :
          Stored(p) =>
            /\ status'[p] # "stored" => \A q \in Projects \ {p} : status'[q] = status[q]
            /\ status'[p] = "stored" /\ base'[p] # base[p] =>
                 base'[p] = NoProject /\ status'[base[p]] # "stored"
  <1>1. ASSUME FamiliesTypeOK, FamiliesNext PROVE Step
    <2>1. ASSUME NEW p \in Projects, CreateAlone(p) \/ Insert(p) \/ InsertFails(p) \/ Lost(p)
          PROVE Step
      BY <1>1, <2>1 DEF CreateAlone, Insert, InsertFails, Lost, FamiliesTypeOK, Stored
    <2>2. ASSUME NEW p \in Projects, NEW b \in Projects, ReadBase(p, b) PROVE Step
      BY <1>1, <2>2 DEF ReadBase, FamiliesTypeOK, Stored
    <2>3. ASSUME NEW p \in Projects, Delete(p) PROVE Step
      BY <1>1, <2>3 DEF Delete, FamiliesTypeOK, Stored
    <2> QED
      BY <1>1, <2>1, <2>2, <2>3 DEF FamiliesNext
  <1>2. FamiliesTypeOK /\ [FamiliesNext]_familyVars => [Step]_familyVars
    BY <1>1
  <1>3. FamiliesInv => FamiliesTypeOK
    BY DEF FamiliesInv
  <1> HIDE DEF Step
  <1>4. FamiliesSpec => [][Step]_familyVars
    BY <1>2, <1>3, Invariance, PTL DEF FamiliesSpec
  <1> QED
    BY <1>4 DEF Step, ScenariosOutliveBases

-----------------------------------------------------------------------------
(* Counting *)

\* A set of numbers has a least one.
LEMMA NatMin ==
  ASSUME NEW T \in SUBSET Nat, T # {}
  PROVE  \E n \in T : \A m \in T : n <= m
  <1> DEFINE R == {ss \in Nat \X Nat : ss[1] < ss[2]}
  <1>1. IsWellFoundedOn(R, Nat)
    BY NatLessThanWellFounded DEF OpToRel
  <1> HIDE DEF R
  <1>2. PICK n \in T : \A m \in T : <<m, n>> \notin R
    BY <1>1, WFMin
  <1>3. ASSUME NEW m \in T PROVE n <= m
    <2>1. <<m, n>> \notin R
      BY <1>2
    <2>2. m \in Nat /\ n \in Nat
      OBVIOUS
    <2>3. ~ (m < n)
      BY <2>1, <2>2 DEF R
    <2> QED
      BY <2>2, <2>3
  <1> QED
    BY <1>3

-----------------------------------------------------------------------------
(* ORDER BY: the first n of a set *)

Ages == [Projects -> Nat]

\* ORDER BY created_at DESC, id leaves no two projects unordered.
LEMMA BeforeIsTotal ==
  ASSUME createdAt \in Ages
  PROVE  /\ \A p \in Projects : ~ Before(p, p)
         /\ \A p, q \in Projects : p # q => Before(p, q) \/ Before(q, p)
         /\ \A p, q \in Projects : ~ (Before(p, q) /\ Before(q, p))
         /\ \A p, q, r \in Projects : Before(p, q) /\ Before(q, r) => Before(p, r)
  BY ListingAssumption DEF Ages, Before

\* A project listed before all others.
LEMMA FirstExists ==
  ASSUME createdAt \in Ages, NEW S \in SUBSET Projects, S # {}
  PROVE  \E p \in S : \A q \in S \ {p} : Before(p, q)
  <1> DEFINE Ahead(p) == { q \in S : Before(q, p) }
             T == { Cardinality(Ahead(p)) : p \in S }
  <1>0. IsFiniteSet(S)
    BY FS_Subset, ListingAssumption
  <1>1. \A p \in S : IsFiniteSet(Ahead(p)) /\ Cardinality(Ahead(p)) \in Nat
    BY <1>0, FS_Subset, FS_CardinalityType
  <1>2. PICK p \in S : \A q \in S : Cardinality(Ahead(p)) <= Cardinality(Ahead(q))
    <2>1. T \in SUBSET Nat /\ T # {}
      BY <1>1
    <2>2. PICK n \in T : \A m \in T : n <= m
      BY <2>1, NatMin
    <2> QED
      BY <2>2
  <1>3. ASSUME NEW q \in S \ {p} PROVE Before(p, q)
    <2>1. SUFFICES ASSUME Before(q, p) PROVE FALSE
      BY BeforeIsTotal
    <2>2. Ahead(q) \in SUBSET Ahead(p) /\ q \in Ahead(p) /\ q \notin Ahead(q)
      BY <2>1, BeforeIsTotal
    <2>3. Cardinality(Ahead(q)) <= Cardinality(Ahead(p))
             /\ (Cardinality(Ahead(p)) = Cardinality(Ahead(q)) => Ahead(p) = Ahead(q))
      BY <2>2, <1>1, FS_Subset
    <2> HIDE DEF Ahead
    <2>4. Cardinality(Ahead(q)) < Cardinality(Ahead(p))
      BY <2>2, <2>3, <1>1
    <2> QED
      BY <2>4, <1>1, <1>2
  <1> QED
    BY <1>3

LEMMA FirstsFinite ==
  ASSUME NEW S \in SUBSET Projects, NEW n \in Nat, NEW F \in Firsts(S, n)
  PROVE  /\ IsFiniteSet(S) /\ Cardinality(S) \in Nat
         /\ F \in SUBSET S /\ IsFiniteSet(F) /\ Cardinality(F) \in Nat
         /\ Cardinality(F) <= n
         /\ F # S => Cardinality(F) = n
  <1>1. IsFiniteSet(S) /\ Cardinality(S) \in Nat
    BY FS_Subset, FS_CardinalityType, ListingAssumption
  <1>2. F \in SUBSET S
    BY DEF Firsts
  <1>3. /\ IsFiniteSet(F) /\ Cardinality(F) \in Nat
        /\ Cardinality(S) = Cardinality(F) => S = F
    BY <1>1, <1>2, FS_Subset, FS_CardinalityType
  <1>4. Cardinality(F) = IF n <= Cardinality(S) THEN n ELSE Cardinality(S)
    BY DEF Firsts
  <1> QED
    BY <1>1, <1>2, <1>3, <1>4

\* Longer beginnings contain the shorter ones.
LEMMA FirstsNested ==
  ASSUME createdAt \in Ages, NEW S \in SUBSET Projects,
         NEW m \in Nat, NEW n \in Nat, m <= n,
         NEW D \in Firsts(S, m), NEW E \in Firsts(S, n)
  PROVE  D \subseteq E
  <1>1. SUFFICES ASSUME NEW d \in D, d \notin E PROVE FALSE
    OBVIOUS
  <1>2. /\ D \in SUBSET S /\ IsFiniteSet(D) /\ Cardinality(D) \in Nat /\ Cardinality(D) <= m
        /\ E \in SUBSET S /\ Cardinality(E) \in Nat
        /\ E # S => Cardinality(E) = n
    BY FirstsFinite
  <1>3. E \in SUBSET D
    <2>1. ASSUME NEW e \in E PROVE e \in D
      <3>1. Before(e, d)
        BY <1>1, <1>2, BeforeIsTotal DEF Firsts
      <3> QED
        BY <1>2, <3>1 DEF Firsts
    <2> QED
      BY <2>1
  <1>4. Cardinality(E) <= Cardinality(D) /\ (Cardinality(D) = Cardinality(E) => D = E)
    BY <1>2, <1>3, FS_Subset
  <1>5. E # S /\ D # E
    BY <1>1, <1>2
  <1> QED
    BY <1>2, <1>4, <1>5

LEMMA FirstsUnique ==
  ASSUME createdAt \in Ages, NEW S \in SUBSET Projects, NEW n \in Nat,
         NEW D \in Firsts(S, n), NEW E \in Firsts(S, n)
  PROVE  D = E
  BY FirstsNested

LEMMA FirstsExist ==
  ASSUME createdAt \in Ages, NEW S \in SUBSET Projects
  PROVE  \A n \in Nat : Firsts(S, n) # {}
  <1> DEFINE Without == { n \in Nat : Firsts(S, n) = {} }
  <1> SUFFICES ASSUME Without # {} PROVE FALSE
    OBVIOUS
  <1>0. IsFiniteSet(S) /\ Cardinality(S) \in Nat
    BY FS_Subset, FS_CardinalityType, ListingAssumption
  <1>1. PICK n \in Without : \A m \in Without : n <= m
    <2>1. Without \in SUBSET Nat
      OBVIOUS
    <2> HIDE DEF Without
    <2> QED
      BY <2>1, NatMin
  <1>2. {} \in Firsts(S, 0)
    BY <1>0, FS_EmptySet DEF Firsts
  <1>3. n \in Nat /\ n # 0 /\ n - 1 \in Nat /\ n - 1 \notin Without
    BY <1>1, <1>2
  <1>4. PICK F : F \in Firsts(S, n - 1)
    BY <1>3
  <1>5. /\ F \in SUBSET S /\ IsFiniteSet(F) /\ Cardinality(F) \in Nat
        /\ Cardinality(F) = IF n - 1 <= Cardinality(S) THEN n - 1 ELSE Cardinality(S)
        /\ \A q \in F : \A p \in S : Before(p, q) => p \in F
        /\ F # S => Cardinality(F) = n - 1
    <2>1. /\ F \in SUBSET S /\ IsFiniteSet(F) /\ Cardinality(F) \in Nat
          /\ F # S => Cardinality(F) = n - 1
      BY <1>3, <1>4, FirstsFinite
    <2> QED
      BY <1>4, <2>1 DEF Firsts
  <1>6. CASE F = S
    <2>1. F \in Firsts(S, n)
      BY <1>0, <1>3, <1>5, <1>6 DEF Firsts
    <2> QED
      BY <1>1, <2>1
  <1>7. CASE F # S
    <2>1. PICK p \in S \ F : \A q \in (S \ F) \ {p} : Before(p, q)
      <3>1. S \ F \in SUBSET Projects /\ S \ F # {}
        BY <1>5, <1>7
      <3> QED
        BY <3>1, FirstExists
    <2> DEFINE G == F \cup {p}
    <2>2. Cardinality(G) = n
      <3>1. IsFiniteSet(F) /\ p \notin F
        BY <1>5
      <3>2. Cardinality(G) = Cardinality(F) + 1
        BY <3>1, FS_AddElement
      <3> QED
        BY <1>3, <1>5, <1>7, <3>2
    <2>3. G \in SUBSET S
      BY <1>5, <2>1
    <2>4. Cardinality(G) <= Cardinality(S)
      BY <1>0, <2>3, FS_Subset
    <2>5. ASSUME NEW q \in G, NEW r \in S, Before(r, q) PROVE r \in G
      <3>1. CASE q \in F
        BY <1>5, <2>5, <3>1
      <3>2. CASE q = p
        BY <1>5, <2>1, <2>5, <3>2, BeforeIsTotal
      <3> QED
        BY <3>1, <3>2
    <2>6. G \in Firsts(S, n)
      BY <1>0, <1>3, <2>2, <2>3, <2>4, <2>5 DEF Firsts
    <2> QED
      BY <1>1, <2>6
  <1> QED
    BY <1>6, <1>7

\* What is before a cut and stays listed is before it again, up to as many
\* projects as left the listing (from the one side) or came into it (from the other).
LEMMA CutsMoveLittle ==
  ASSUME NEW n \in Nat, NEW L, IsFiniteSet(L), NEW M, IsFiniteSet(M),
         NEW F \in SUBSET L, Cardinality(F) = n \/ F = L,
         NEW G \in SUBSET M, Cardinality(G) <= n,
         \A y \in F \cap M : \A x \in (L \cap G) \ F : y \in G
  PROVE  Cardinality((L \cap G) \ F) <= Cardinality(L \ M)
  <1> DEFINE X == (L \cap G) \ F
             K == F \cap M
  <1>1. /\ IsFiniteSet(F) /\ Cardinality(F) \in Nat /\ IsFiniteSet(G) /\ Cardinality(G) \in Nat
        /\ IsFiniteSet(L \ M) /\ Cardinality(L \ M) \in Nat
    BY FS_Subset, FS_Difference, FS_CardinalityType
  <1>2. IsFiniteSet(X) /\ Cardinality(X) \in Nat /\ IsFiniteSet(K) /\ Cardinality(K) \in Nat
    <2>1. X \in SUBSET G /\ K \in SUBSET F
      OBVIOUS
    <2> QED
      BY <1>1, <2>1, FS_Subset, FS_CardinalityType
  <1>3. CASE X = {}
    BY <1>1, <1>3, FS_EmptySet
  <1>4. CASE X # {}
    <2>1. Cardinality(F) = n
      BY <1>4
    <2>2. K \in SUBSET G
      BY <1>4
    <2>3. Cardinality(K \cup X) = Cardinality(K) + Cardinality(X)
      <3>1. K \cap X = {}
        OBVIOUS
      <3> HIDE DEF K, X
      <3>2. Cardinality(K \cup X) = Cardinality(K) + Cardinality(X) - Cardinality(K \cap X)
        BY <1>2, FS_Union
      <3> QED
        BY <1>2, <3>1, <3>2, FS_EmptySet
    <2>4. Cardinality(K \cup X) <= Cardinality(G)
      <3>1. K \cup X \in SUBSET G
        BY <2>2
      <3> QED
        BY <1>1, <3>1, FS_Subset
    <2>5. Cardinality(F \ M) = n - Cardinality(K)
      BY <1>1, <2>1, FS_Difference
    <2>6. Cardinality(F \ M) <= Cardinality(L \ M)
      <3>1. F \ M \in SUBSET (L \ M)
        OBVIOUS
      <3> QED
        BY <1>1, <3>1, FS_Subset
    <2> HIDE DEF K, X
    <2>7. Cardinality(X) <= Cardinality(L \ M)
      BY <1>1, <1>2, <2>3, <2>4, <2>5, <2>6
    <2> QED
      BY <2>7 DEF X
  <1> QED
    BY <1>3, <1>4

-----------------------------------------------------------------------------
(* The listing *)

\* Every variable of the listing stays within its type.
ListingTypeOK ==
  /\ createdAt \in Ages
  /\ clock \in Nat
  /\ listing \in {"idle", "reading", "done"}
  /\ filter \in Projects \cup {NoProject}
  /\ offset \in Nat
  /\ seen \in SUBSET Projects
  /\ constant \in SUBSET Projects
  /\ left \in Nat /\ came \in Nat /\ repeats \in Nat

SeenWereStored == \A p \in seen : status[p] \in {"stored", "gone"}

\* Before the first page nothing was shown. While the client reads, what it missed
\* of the projects before its offset is paid for, and what it will see again
\* of those behind its offset is paid in advance.
Paid ==
  /\ listing = "idle" => offset = 0 /\ seen = {} /\ repeats = 0
  /\ listing = "reading" =>
       /\ constant \subseteq Listed
       /\ \A F \in Firsts(Listed, offset) :
            /\ Cardinality((constant \cap F) \ seen) <= left
            /\ repeats + Cardinality((Listed \cap seen) \ F) <= came
  /\ listing = "done" => Cardinality(constant \ seen) <= left /\ repeats <= came

ListingIInv == ListingTypeOK /\ FamiliesTypeOK /\ SeenWereStored /\ Paid

LEMMA SubsetsAreFinite ==
  ASSUME NEW S \in SUBSET Projects
  PROVE  IsFiniteSet(S) /\ Cardinality(S) \in Nat
  BY FS_Subset, FS_CardinalityType, ListingAssumption

LEMMA InitListing == ListingInit => ListingIInv
  <1> SUFFICES ASSUME ListingInit PROVE ListingIInv
    OBVIOUS
  <1>1. ListingTypeOK /\ FamiliesTypeOK /\ SeenWereStored
    BY DEF ListingInit, ListingTypeOK, FamiliesInit, FamiliesTypeOK, SeenWereStored, Ages
  <1>2. Paid
    BY DEF ListingInit, Paid
  <1> QED
    BY <1>1, <1>2 DEF ListingIInv

\* What a step of the store leaves of the listing and of the order of its projects.
LEMMA StoreKeeps ==
  ASSUME ListingTypeOK, FamiliesTypeOK, SeenWereStored, StoreStep
  PROVE  /\ [FamiliesNext]_familyVars
         /\ createdAt' \in Ages
         /\ \A p \in Listed : createdAt'[p] = createdAt[p]
         /\ SeenWereStored'
         /\ \A p \in seen : p \in Listed' => p \in Listed
  <1> USE DEF Listed, Stored
  <1>0. UNCHANGED <<seen, filter>>
    BY DEF StoreStep, client
  <1>1. ASSUME NEW p \in Projects, CreateAlone(p), NEW t \in 0 .. clock, Stamped(p, t)
        PROVE  /\ [FamiliesNext]_familyVars
               /\ createdAt' \in Ages
               /\ \A q \in Listed : createdAt'[q] = createdAt[q]
               /\ SeenWereStored'
               /\ \A q \in seen : q \in Listed' => q \in Listed
    <2>1. [FamiliesNext]_familyVars
      BY <1>1 DEF FamiliesNext
    <2>2. createdAt' \in Ages
      BY <1>1 DEF ListingTypeOK, Ages, Stamped
    <2> QED
      BY <1>0, <1>1, <2>1, <2>2
      DEF ListingTypeOK, Ages, FamiliesTypeOK, SeenWereStored, CreateAlone, Stamped
  <1>2. ASSUME NEW p \in Projects, NEW b \in Projects, ReadBase(p, b), Stamped(p, clock)
        PROVE  /\ [FamiliesNext]_familyVars
               /\ createdAt' \in Ages
               /\ \A q \in Listed : createdAt'[q] = createdAt[q]
               /\ SeenWereStored'
               /\ \A q \in seen : q \in Listed' => q \in Listed
    BY <1>0, <1>2
    DEF ListingTypeOK, Ages, FamiliesTypeOK, SeenWereStored, ReadBase, Stamped, FamiliesNext
  <1>3. ASSUME NEW p \in Projects, Insert(p) \/ InsertFails(p) \/ Delete(p) \/ Lost(p),
               UNCHANGED createdAt
        PROVE  /\ [FamiliesNext]_familyVars
               /\ createdAt' \in Ages
               /\ \A q \in Listed : createdAt'[q] = createdAt[q]
               /\ SeenWereStored'
               /\ \A q \in seen : q \in Listed' => q \in Listed
    <2>1. [FamiliesNext]_familyVars /\ createdAt' = createdAt
      BY <1>3 DEF FamiliesNext
    <2>2. CASE Insert(p) \/ InsertFails(p) \/ Lost(p)
      BY <1>0, <2>1, <2>2
      DEF ListingTypeOK, FamiliesTypeOK, SeenWereStored, Insert, InsertFails, Lost
    <2>3. CASE Delete(p)
      BY <1>0, <2>1, <2>3
      DEF ListingTypeOK, FamiliesTypeOK, SeenWereStored, Delete
    <2> QED
      BY <1>3, <2>2, <2>3
  <1> QED
    BY <1>1, <1>2, <1>3 DEF StoreStep

LEMMA StoreStepPaid ==
  ASSUME ListingIInv, StoreStep
  PROVE  Paid'
  <1>0. ListingTypeOK /\ FamiliesTypeOK /\ SeenWereStored /\ Paid
    BY DEF ListingIInv
  <1>1. UNCHANGED client
    BY DEF StoreStep
  <1>2. CASE listing # "reading"
    BY <1>0, <1>1, <1>2 DEF Paid, StoreStep, Account, client
  <1>3. CASE listing = "reading"
    <2> DEFINE L == Listed
               M == Listed'
    <2>1. /\ constant' = constant \cap M
          /\ left' = left + Cardinality(L \ M)
          /\ came' = came + Cardinality(M \ L)
          /\ UNCHANGED <<listing, filter, offset, seen, repeats>>
      BY <1>1, <1>3 DEF StoreStep, Account, client
    <2>2. L \in SUBSET Projects /\ M \in SUBSET Projects
      BY DEF Listed
    <2>3. /\ createdAt \in Ages /\ offset \in Nat /\ left \in Nat /\ came \in Nat /\ repeats \in Nat
          /\ constant \in SUBSET L /\ seen \in SUBSET Projects
      BY <1>0, <1>3 DEF ListingTypeOK, Paid
    <2>4. PICK F \in Firsts(L, offset) : TRUE
      BY <2>2, <2>3, FirstsExist
    <2>5. SUFFICES ASSUME NEW G \in Firsts(Listed, offset)'
                   PROVE  /\ Cardinality((constant' \cap G) \ seen) <= left'
                          /\ repeats + Cardinality((M \cap seen) \ G) <= came'
      BY <1>3, <2>1 DEF Paid
    <2>6. /\ F \in SUBSET L /\ Cardinality(F) <= offset
          /\ Cardinality(F) = offset \/ F = L
          /\ \A q \in F : \A p \in L : Before(p, q) => p \in F
      <3>1. F \in SUBSET L /\ Cardinality(F) <= offset /\ (F # L => Cardinality(F) = offset)
        BY <2>2, <2>3, <2>4, FirstsFinite
      <3> QED
        BY <2>4, <3>1 DEF Firsts
    <2>7. /\ G \in SUBSET M /\ Cardinality(G) <= offset
          /\ Cardinality(G) = offset \/ G = M
          /\ \A q \in G : \A p \in M : Before(p, q)' => p \in G
      <3>1. /\ G \in SUBSET M
            /\ Cardinality(G) = IF offset <= Cardinality(M) THEN offset ELSE Cardinality(M)
            /\ \A q \in G : \A p \in M : Before(p, q)' => p \in G
        BY <2>1, <2>5 DEF Firsts
      <3>2. IsFiniteSet(M) /\ Cardinality(M) \in Nat
        BY <2>2, SubsetsAreFinite
      <3>3. Cardinality(G) \in Nat /\ (Cardinality(M) = Cardinality(G) => M = G)
        BY <3>1, <3>2, FS_Subset, FS_CardinalityType
      <3> QED
        BY <2>3, <3>1, <3>2, <3>3
    <2>8. \A p, q \in L \cap M : Before(p, q) <=> Before(p, q)'
      BY <1>0, StoreKeeps DEF Before
    <2>9. \A p, q \in L \cap M : p = q \/ Before(p, q) \/ Before(q, p)
      BY <2>2, <2>3, BeforeIsTotal
    <2>10. /\ IsFiniteSet(L) /\ IsFiniteSet(M)
           /\ IsFiniteSet(L \ M) /\ Cardinality(L \ M) \in Nat
           /\ IsFiniteSet(M \ L) /\ Cardinality(M \ L) \in Nat
      BY <2>2, SubsetsAreFinite
    <2> HIDE DEF L, M
    <2>11. Cardinality((L \cap G) \ F) <= Cardinality(L \ M)
      <3>1. \A y \in F \cap M : \A x \in (L \cap G) \ F : y \in G
        BY <2>6, <2>7, <2>8, <2>9
      <3> QED
        BY <2>3, <2>6, <2>7, <2>10, <3>1, CutsMoveLittle
    <2>12. Cardinality((M \cap F) \ G) <= Cardinality(M \ L)
      <3>1. \A y \in G \cap L : \A x \in (M \cap F) \ G : y \in F
        BY <2>6, <2>7, <2>8, <2>9
      <3> QED
        BY <2>3, <2>6, <2>7, <2>10, <3>1, CutsMoveLittle
    <2>13. Cardinality((constant' \cap G) \ seen) <= left'
      <3> DEFINE A == (constant' \cap G) \ seen
                 B == (constant \cap F) \ seen
                 C == (L \cap G) \ F
      <3>1. A \in SUBSET (B \cup C)
        BY <2>1, <2>3
      <3>2. /\ A \in SUBSET Projects /\ B \in SUBSET Projects /\ C \in SUBSET Projects
            /\ B \cup C \in SUBSET Projects /\ B \cap C \in SUBSET Projects
        BY <2>1, <2>2, <2>3 DEF L, M
      <3>3. Cardinality(B) <= left
        BY <1>0, <1>3, <2>4 DEF Paid, L
      <3> HIDE DEF A, B, C
      <3>4. /\ IsFiniteSet(A) /\ IsFiniteSet(B) /\ IsFiniteSet(C) /\ IsFiniteSet(B \cup C)
            /\ Cardinality(A) \in Nat /\ Cardinality(B) \in Nat /\ Cardinality(C) \in Nat
            /\ Cardinality(B \cap C) \in Nat
        BY <3>2, SubsetsAreFinite
      <3>5. Cardinality(B \cup C) = Cardinality(B) + Cardinality(C) - Cardinality(B \cap C)
        BY <3>4, FS_Union
      <3>6. Cardinality(A) <= Cardinality(B \cup C)
        BY <3>1, <3>4, FS_Subset
      <3>7. Cardinality(C) <= Cardinality(L \ M)
        BY <2>11 DEF C
      <3>8. Cardinality(A) <= left'
        BY <2>1, <2>3, <2>10, <3>3, <3>4, <3>5, <3>6, <3>7 DEF L, M
      <3> QED
        BY <3>8 DEF A
    <2>14. repeats + Cardinality((M \cap seen) \ G) <= came'
      <3> DEFINE A == (M \cap seen) \ G
                 B == (L \cap seen) \ F
                 C == (M \cap F) \ G
      <3>1. A \in SUBSET (B \cup C)
        <4>1. \A p \in seen : p \in M => p \in L
          BY <1>0, StoreKeeps DEF L, M
        <4> QED
          BY <4>1
      <3>2. /\ A \in SUBSET Projects /\ B \in SUBSET Projects /\ C \in SUBSET Projects
            /\ B \cup C \in SUBSET Projects /\ B \cap C \in SUBSET Projects
        BY <2>2, <2>3 DEF L, M
      <3>3. repeats + Cardinality(B) <= came
        BY <1>0, <1>3, <2>4 DEF Paid, L
      <3> HIDE DEF A, B, C
      <3>4. /\ IsFiniteSet(A) /\ IsFiniteSet(B) /\ IsFiniteSet(C) /\ IsFiniteSet(B \cup C)
            /\ Cardinality(A) \in Nat /\ Cardinality(B) \in Nat /\ Cardinality(C) \in Nat
            /\ Cardinality(B \cap C) \in Nat
        BY <3>2, SubsetsAreFinite
      <3>5. Cardinality(B \cup C) = Cardinality(B) + Cardinality(C) - Cardinality(B \cap C)
        BY <3>4, FS_Union
      <3>6. Cardinality(A) <= Cardinality(B \cup C)
        BY <3>1, <3>4, FS_Subset
      <3>7. Cardinality(C) <= Cardinality(M \ L)
        BY <2>12 DEF C
      <3>8. repeats + Cardinality(A) <= came'
        BY <2>1, <2>3, <2>10, <3>3, <3>4, <3>5, <3>6, <3>7 DEF L, M
      <3> QED
        BY <3>8 DEF A
    <2> QED
      BY <2>13, <2>14
  <1> QED
    BY <1>2, <1>3

LEMMA ListPagePaid ==
  ASSUME ListingIInv, ListPage
  PROVE  ListingIInv'
  <1>0. ListingTypeOK /\ FamiliesTypeOK /\ SeenWereStored /\ Paid
    BY DEF ListingIInv
  <1>1. PICK page \in Pages :
          /\ seen' = seen \cup page
          /\ repeats' = repeats + Cardinality(page \cap seen)
          /\ offset' = offset + Limit
          /\ listing' = IF Cardinality(page) < Limit THEN "done" ELSE listing
    BY DEF ListPage
  <1>2. PICK D \in Firsts(Listed, offset), E \in Firsts(Listed, offset + Limit) : page = E \ D
    BY DEF Pages
  <1>3. /\ listing = "reading" /\ UNCHANGED <<store, filter, constant, left, came>>
        /\ offset \in Nat /\ Limit \in Nat /\ offset + Limit \in Nat /\ Limit > 0
        /\ createdAt \in Ages /\ left \in Nat /\ came \in Nat /\ repeats \in Nat
        /\ seen \in SUBSET Projects /\ constant \in SUBSET Listed
    BY <1>0, ListingAssumption DEF ListPage, ListingTypeOK, Paid
  <1>4. Listed \in SUBSET Projects
    BY DEF Listed
  <1>5. /\ D \in SUBSET Listed /\ E \in SUBSET Listed /\ D \subseteq E
        /\ page \in SUBSET Projects
    <2>1. D \in SUBSET Listed /\ E \in SUBSET Listed
      BY DEF Firsts
    <2>2. D \subseteq E
      BY <1>3, <1>4, FirstsNested
    <2> QED
      BY <1>2, <1>4, <2>1, <2>2
  <1>6. Listed' = Listed /\ Firsts(Listed, offset)' = Firsts(Listed, offset + Limit)
    BY <1>1, <1>3 DEF store, familyVars, Listed, Stored, Firsts, Before
  <1>7. Cardinality((constant \cap E) \ seen') <= left
    <2> DEFINE A == (constant \cap E) \ seen'
               B == (constant \cap D) \ seen
    <2>1. Cardinality(B) <= left
      BY <1>0, <1>3 DEF Paid
    <2>2. A \in SUBSET B /\ B \in SUBSET Projects
      BY <1>1, <1>2, <1>3, <1>4
    <2> HIDE DEF A, B
    <2>3. Cardinality(A) <= Cardinality(B) /\ Cardinality(A) \in Nat /\ Cardinality(B) \in Nat
      BY <2>2, SubsetsAreFinite, FS_Subset
    <2>4. Cardinality(A) <= left
      BY <1>3, <2>1, <2>3
    <2> QED
      BY <2>4 DEF A
  <1>8. repeats' + Cardinality((Listed \cap seen') \ E) <= came
    <2> DEFINE A == (Listed \cap seen') \ E
               B == (Listed \cap seen) \ D
               C == page \cap seen
    <2>1. repeats + Cardinality(B) <= came
      BY <1>0, <1>3 DEF Paid
    <2>2. A \cup C \subseteq B /\ A \cap C = {} /\ B \in SUBSET Projects
      BY <1>1, <1>2, <1>3, <1>5
    <2>3. repeats' = repeats + Cardinality(C)
      BY <1>1
    <2> HIDE DEF A, B, C
    <2>4. /\ A \in SUBSET Projects /\ C \in SUBSET Projects /\ A \cup C \in SUBSET Projects
          /\ A \cup C \in SUBSET B
      BY <2>2
    <2>5. /\ IsFiniteSet(A) /\ IsFiniteSet(B) /\ IsFiniteSet(C)
          /\ Cardinality(A) \in Nat /\ Cardinality(B) \in Nat /\ Cardinality(C) \in Nat
      BY <2>2, <2>4, SubsetsAreFinite
    <2>6. Cardinality(A \cup C) = Cardinality(A) + Cardinality(C)
      <3>1. Cardinality(A \cup C) = Cardinality(A) + Cardinality(C) - Cardinality(A \cap C)
        BY <2>5, FS_Union
      <3>2. Cardinality(A \cap C) = 0
        BY <2>2, FS_EmptySet
      <3> QED
        BY <2>5, <3>1, <3>2
    <2>7. Cardinality(A \cup C) <= Cardinality(B)
      BY <2>4, <2>5, FS_Subset
    <2>8. repeats' + Cardinality(A) <= came
      BY <1>3, <2>1, <2>3, <2>5, <2>6, <2>7
    <2> QED
      BY <2>8 DEF A
  <1>9. Paid'
    <2>1. CASE listing' = "reading"
      <3>1. ASSUME NEW F \in Firsts(Listed, offset)' PROVE F = E
        BY <1>3, <1>4, <1>6, FirstsUnique
      <3> QED
        BY <1>3, <1>6, <1>7, <1>8, <2>1, <3>1 DEF Paid
    <2>2. CASE listing' # "reading"
      <3>1. listing' = "done" /\ Cardinality(page) < Limit
        BY <1>1, <1>3, <2>2
      <3>2. E = Listed
        <4> SUFFICES ASSUME E # Listed PROVE FALSE
          OBVIOUS
        <4>1. Cardinality(E) = offset + Limit
          BY <1>3, <1>4, FirstsFinite
        <4>2. IsFiniteSet(E) /\ IsFiniteSet(D) /\ Cardinality(D) \in Nat /\ Cardinality(D) <= offset
          BY <1>3, <1>4, FirstsFinite
        <4>3. E \cap D = D
          BY <1>5
        <4>4. Cardinality(E \ D) = Cardinality(E) - Cardinality(D)
          BY <4>2, <4>3, FS_Difference
        <4>5. Cardinality(page) >= Limit
          BY <1>2, <1>3, <4>1, <4>2, <4>4
        <4>6. Cardinality(page) \in Nat
          BY <1>5, SubsetsAreFinite
        <4> QED
          BY <1>3, <3>1, <4>5, <4>6
      <3>3. constant \cap E = constant
        BY <1>3, <3>2
      <3>4. repeats' <= came
        <4> DEFINE A == (Listed \cap seen') \ E
        <4>1. A \in SUBSET Projects
          BY <1>4
        <4>2. Cardinality(A) \in Nat /\ Cardinality(page \cap seen) \in Nat
          BY <1>3, <4>1, SubsetsAreFinite
        <4> HIDE DEF A
        <4>3. repeats' \in Nat
          BY <1>1, <1>3, <4>2
        <4>4. repeats' + Cardinality(A) <= came
          BY <1>8 DEF A
        <4> QED
          BY <1>3, <4>2, <4>3, <4>4
      <3> QED
        BY <1>3, <1>7, <3>1, <3>3, <3>4 DEF Paid
    <2> QED
      BY <2>1, <2>2
  <1>10. ListingTypeOK' /\ FamiliesTypeOK' /\ SeenWereStored'
    <2>1. ListingTypeOK'
      <3>1. Cardinality(page \cap seen) \in Nat
        BY <1>3, SubsetsAreFinite
      <3> QED
        BY <1>0, <1>1, <1>3, <1>5, <3>1 DEF ListingTypeOK, store, familyVars
    <2>2. FamiliesTypeOK'
      BY <1>0, <1>3 DEF FamiliesTypeOK, store, familyVars
    <2>3. SeenWereStored'
      BY <1>0, <1>1, <1>2, <1>3, <1>5 DEF SeenWereStored, store, familyVars, Listed, Stored
    <2> QED
      BY <2>1, <2>2, <2>3
  <1> QED
    BY <1>9, <1>10 DEF ListingIInv

LEMMA OpenPaid ==
  ASSUME ListingIInv, NEW b \in Projects \cup {NoProject}, Open(b)
  PROVE  ListingIInv'
  <1>0. ListingTypeOK /\ FamiliesTypeOK /\ SeenWereStored /\ Paid
    BY DEF ListingIInv
  <1>1. ListingTypeOK' /\ FamiliesTypeOK' /\ SeenWereStored'
    BY <1>0 DEF Open, ListingTypeOK, FamiliesTypeOK, SeenWereStored, store, familyVars, Listed
  <1>2. /\ listing' = "reading" /\ offset' = 0 /\ seen' = {} /\ repeats' = 0
        /\ constant' = Listed' /\ left' \in Nat /\ came' \in Nat
    BY <1>0, <1>1 DEF Open, Paid, ListingTypeOK
  <1>3. ASSUME NEW F \in Firsts(Listed, offset)' PROVE F = {}
    <2>1. Listed' \in SUBSET Projects /\ F \in SUBSET Listed'
      BY DEF Listed, Firsts
    <2>2. IsFiniteSet(F) /\ Cardinality(Listed') \in Nat
      BY <2>1, SubsetsAreFinite
    <2>3. Cardinality(F) = 0
      BY <1>2, <2>2 DEF Firsts
    <2> QED
      BY <2>2, <2>3, FS_EmptySet
  <1>4. Paid'
    <2>1. ASSUME NEW F \in Firsts(Listed, offset)'
          PROVE  /\ Cardinality((constant' \cap F) \ seen') <= left'
                 /\ repeats' + Cardinality((Listed' \cap seen') \ F) <= came'
      <3>1. (constant' \cap F) \ seen' = {} /\ (Listed' \cap seen') \ F = {}
        BY <1>2, <1>3
      <3> QED
        BY <1>2, <3>1, FS_EmptySet
    <2> QED
      BY <1>2, <2>1 DEF Paid
  <1> QED
    BY <1>1, <1>4 DEF ListingIInv

LEMMA ListingStep == ListingIInv /\ [ListingNext]_listingVars => ListingIInv'
  <1> SUFFICES ASSUME ListingIInv, [ListingNext]_listingVars PROVE ListingIInv'
    OBVIOUS
  <1>0. ListingTypeOK /\ FamiliesTypeOK /\ SeenWereStored /\ Paid
    BY DEF ListingIInv
  <1>1. CASE StoreStep
    <2>1. FamiliesTypeOK'
      BY <1>0, <1>1, StoreKeeps, TypeStep
    <2>2. ListingTypeOK'
      <3>1. createdAt' \in Ages
        BY <1>0, <1>1, StoreKeeps
      <3>2. /\ Listed \ Listed' \in SUBSET Projects /\ Listed' \ Listed \in SUBSET Projects
        BY DEF Listed
      <3>3. Cardinality(Listed \ Listed') \in Nat /\ Cardinality(Listed' \ Listed) \in Nat
        BY <3>2, SubsetsAreFinite
      <3> QED
        BY <1>0, <1>1, <3>1, <3>3 DEF StoreStep, Account, ListingTypeOK, client
    <2> QED
      BY <1>0, <1>1, <2>1, <2>2, StoreKeeps, StoreStepPaid DEF ListingIInv
  <1>2. CASE Tick \/ UNCHANGED listingVars
    <2>1. ListingTypeOK' /\ FamiliesTypeOK' /\ SeenWereStored'
      BY <1>0, <1>2
      DEF Tick, listingVars, store, familyVars, client, ListingTypeOK, FamiliesTypeOK, SeenWereStored
    <2>2. Paid'
      BY <1>0, <1>2
      DEF Tick, listingVars, store, familyVars, client, Paid, Listed, Stored, Firsts, Before
    <2> QED
      BY <2>1, <2>2 DEF ListingIInv
  <1>3. CASE ListPage
    BY <1>3, ListPagePaid
  <1>4. CASE \E b \in Projects \cup {NoProject} : Open(b)
    BY <1>4, OpenPaid
  <1> QED
    BY <1>1, <1>2, <1>3, <1>4 DEF ListingNext

\* At every request of list_projects, what a client missed below its offset is paid
\* by what left the listing, and what it will see again from its offset on by what
\* came into it: the offset counts places in an order that moves under it.
THEOREM ListingInvariance == ListingSpec => []ListingIInv
  BY InitListing, ListingStep, PTL DEF ListingSpec

\* Reading all pages (OFFSET, LIMIT, ORDER BY created_at, id) misses no more of the
\* projects that were there all the time than were deleted meanwhile.
THEOREM MissesAreExplained == ListingSpec => []MissesArePaid
  <1>1. ListingIInv => MissesArePaid
    BY DEF ListingIInv, Paid, MissesArePaid
  <1> QED
    BY <1>1, ListingInvariance, PTL

\* It shows a project again at most as often as one was made meanwhile.
THEOREM RepeatsAreExplained == ListingSpec => []RepeatsArePaid
  <1>1. ListingIInv => RepeatsArePaid
    <2> SUFFICES ASSUME ListingIInv PROVE RepeatsArePaid
      OBVIOUS
    <2>0. ListingTypeOK /\ Paid
      BY DEF ListingIInv
    <2>1. CASE listing = "reading"
      <3>1. Listed \in SUBSET Projects
        BY DEF Listed
      <3>2. PICK F \in Firsts(Listed, offset) : TRUE
        BY <2>0, <3>1, FirstsExist DEF ListingTypeOK
      <3>3. repeats + Cardinality((Listed \cap seen) \ F) <= came
        BY <2>0, <2>1, <3>2 DEF Paid
      <3>4. (Listed \cap seen) \ F \in SUBSET Projects
        BY <3>1
      <3>5. Cardinality((Listed \cap seen) \ F) \in Nat
        BY <3>4, SubsetsAreFinite
      <3> QED
        BY <2>0, <3>3, <3>5 DEF ListingTypeOK, RepeatsArePaid
    <2>2. CASE listing # "reading"
      BY <2>0, <2>2 DEF ListingTypeOK, Paid, RepeatsArePaid
    <2> QED
      BY <2>1, <2>2
  <1> QED
    BY <1>1, ListingInvariance, PTL

\* Under a listing, projects are created and deleted as ProjectFamilies says
\* (create_project, delete_project), so what is proved of it holds here.
THEOREM ListingKeepsTheStore == ListingSpec => FamiliesSpec
  <1>1. ListingInit => FamiliesInit
    BY DEF ListingInit
  <1>2. [ListingNext]_listingVars => [FamiliesNext]_familyVars
    BY DEF ListingNext, listingVars, store, StoreStep, FamiliesNext, Tick, ListPage, Open
  <1> QED
    BY <1>1, <1>2, PTL DEF ListingSpec, FamiliesSpec
===============================================================================
