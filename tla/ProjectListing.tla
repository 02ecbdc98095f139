---------------------------- MODULE ProjectListing ----------------------------
(***************************************************************************)
(* GET /v1/projects page by page while projects come and go: list_projects *)
(* (services/projects_service.py) newest first, cut with OFFSET and LIMIT, *)
(* all of them or the scenarios of one base.                               *)
(*                                                                         *)
(* created_at is the time at which the creating transaction began, so      *)
(* projects need not appear in its order, and two can have the same; the   *)
(* id decides then.  The store is that of ProjectFamilies.                 *)
(***************************************************************************)
EXTENDS ProjectFamilies, FiniteSets

CONSTANTS
  Instants,  \* the times that created_at tells apart, 0 .. n
  Limit      \* the limit the client sends

ASSUME ListingAssumption ==
  /\ Projects \subseteq Nat /\ IsFiniteSet(Projects)  \* in the order of the ids
  /\ Limit \in Nat \ {0}

VARIABLES
  createdAt,  \* createdAt[p]: created_at
  clock,
  \* a client that lists, page after page:
  listing,    \* "idle", "reading", "done"
  filter,     \* the base_project_id it sends
  offset,
  seen,       \* what its pages showed
  \* to compare with:
  constant,   \* the listed projects that have been so since its first page
  left, came, \* how many stopped and began to be listed since
  repeats     \* how often a page showed a project again

store == <<familyVars, createdAt, clock>>
client == <<listing, filter, offset, seen, repeats>>
listingVars == <<store, client, constant, left, came>>

ListingInit ==
  /\ FamiliesInit
  /\ createdAt = [p \in Projects |-> 0]
  /\ clock = 0
  /\ listing = "idle" /\ filter = NoProject /\ offset = 0
  /\ seen = {} /\ constant = {}
  /\ left = 0 /\ came = 0 /\ repeats = 0

\* WHERE: what the client's filter lets through.
Listed ==
  { p \in Projects : Stored(p) /\ filter \in {NoProject, base[p]} }

\* What a step of the store does to the listing.
Account ==
  IF listing = "reading"
  THEN /\ constant' = constant \cap Listed'
       /\ left' = left + Cardinality(Listed \ Listed')
       /\ came' = came + Cardinality(Listed' \ Listed)
  ELSE UNCHANGED <<constant, left, came>>

-----------------------------------------------------------------------------
(* The store                                                               *)

\* The transaction that creates a project began when its base was read, or, if
\* it has none, at some time before its commit.
Stamped(p, t) == createdAt' = [createdAt EXCEPT ![p] = t]

StoreStep ==
  /\ \E p \in Projects :
       \/ CreateAlone(p) /\ \E t \in 0 .. clock : Stamped(p, t)
       \/ \E b \in Projects : ReadBase(p, b) /\ Stamped(p, clock)
       \/ /\ Insert(p) \/ InsertFails(p) \/ Delete(p) \/ Lost(p)
          /\ UNCHANGED createdAt
  /\ UNCHANGED <<clock, client>>
  /\ Account

Tick ==
  /\ clock + 1 \in Instants
  /\ clock' = clock + 1
  /\ UNCHANGED <<familyVars, createdAt, client, constant, left, came>>

-----------------------------------------------------------------------------
(* The listing                                                             *)

\* Mutant: projects created at the same instant are in no order.
BeforeUntied(p, q) == createdAt[p] > createdAt[q]

\* ORDER BY created_at DESC, id
Before(p, q) ==
  \/ createdAt[p] > createdAt[q]
  \/ createdAt[p] = createdAt[q] /\ p < q

\* The first n of S in some order that keeps to ORDER BY.
Firsts(S, n) ==
  { F \in SUBSET S :
      /\ Cardinality(F) = IF n <= Cardinality(S) THEN n ELSE Cardinality(S)
      /\ \A q \in F : \A p \in S : Before(p, q) => p \in F }

\* Mutant: a page begins with the last of the one before it.
PagesOverlapping ==
  { E \ D : D \in Firsts(Listed, IF offset = 0 THEN 0 ELSE offset - 1),
            E \in Firsts(Listed, offset + Limit) }

\* What OFFSET and LIMIT may cut out of it.
Pages ==
  { E \ D : D \in Firsts(Listed, offset), E \in Firsts(Listed, offset + Limit) }

Open(b) ==
  /\ listing = "idle"
  /\ listing' = "reading"
  /\ filter' = b
  /\ UNCHANGED <<store, offset, seen, repeats, left, came>>
  /\ constant' = Listed'

\* A page shorter than the limit is the last one.
ListPage ==
  /\ listing = "reading"
  /\ \E page \in Pages :
       /\ seen' = seen \cup page
       /\ repeats' = repeats + Cardinality(page \cap seen)
       /\ offset' = offset + Limit
       /\ listing' = IF Cardinality(page) < Limit THEN "done" ELSE listing
  /\ UNCHANGED <<store, filter, constant, left, came>>

ListingNext ==
  \/ StoreStep \/ Tick \/ ListPage
  \/ \E b \in Projects \cup {NoProject} : Open(b)

ListingSpec == ListingInit /\ [][ListingNext]_listingVars

-----------------------------------------------------------------------------
\* A client that has read all pages has missed no more of the projects that were
\* there all the time than have left the listing meanwhile: none, if none left.
MissesArePaid ==
  listing = "done" => Cardinality(constant \ seen) <= left

\* It was shown a project again at most as often as one came into the listing.
RepeatsArePaid == repeats <= came
=============================================================================
