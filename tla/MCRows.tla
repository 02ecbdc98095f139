-------------------------------- MODULE MCRows --------------------------------
(* Small instances for TLC of how the rows of runs are filled, written to and *)
(* read, and those of projects: ChunkLoop, SeedBatch, RunRecord, RunResults   *)
(* and ProjectListing with ProjectFamilies.                                   *)
EXTENDS ChunkLoop, SeedBatch, RunRecord, RunResults, ProjectListing, TLC

\* Values on both sides of what the columns hold, and of zero.
SmallUntils == -2 .. 13
SmallChunkSizes == {-10, -2, -1, 0, 1, 2, 3, 5, 12, 13}
SmallTours == {{}, {4}, {2, 7}, {-1, 11}, {5, 14}}

\* Every seed there is, and one beyond each end.
AllSeeds == -1 .. MaxSeed + 1
AllCounts == 0 .. MaxSeeds + 1

CONSTANTS rename1, rename2, cancel1, delete1, submit1, worker1, s1, s2, r1, r2, q1

\* rename1 gives another name, rename2 the one the run already has.
NamesAsked == rename1 :> "renamed" @@ rename2 :> "first"
First == "first"

\* r1 emits five events and ends, r2 raises after three; the reader leaves out
\* every second of them and reads pages of two.
LengthOfEach == r1 :> 5 @@ r2 :> 3
EverySecond == q1 :> {1, 3, 5}
PagesOfTwo == q1 :> 2

\* The order of the projects' ids decides between those of one instant.
ThreeProjects == 1 .. 3
TwoInstants == 0 .. 1

\* The five share no state, so each is explored while the others have not begun.
NoLoop == LoopInit /\ UNCHANGED loopVars
NoSeeds == SeedInit /\ UNCHANGED seedVars
NoWrites == Init /\ UNCHANGED vars
NoReads == ResultsInit /\ of[q1] = r1 /\ UNCHANGED resultsVars
NoListing == ListingInit /\ UNCHANGED listingVars

\* Bound: the rename that may change nothing and the submission that goes on are
\* not both in one behaviour.
OneOfThem == pc[rename2] = "new" \/ pc[submit1] = "new"

RowsInit == LoopInit /\ SeedInit /\ Init /\ ResultsInit /\ ListingInit
RowsNext ==
  \/ NoSeeds /\ NoWrites /\ NoReads /\ NoListing /\ LoopNext
  \/ NoLoop /\ NoWrites /\ NoReads /\ NoListing /\ SeedNext
  \/ NoLoop /\ NoSeeds /\ NoReads /\ NoListing /\ Next /\ OneOfThem'
  \/ NoLoop /\ NoSeeds /\ NoWrites /\ NoListing /\ ResultsNext
  \/ NoLoop /\ NoSeeds /\ NoWrites /\ NoReads /\ ListingNext
RowsSpec ==
  RowsInit /\ [][RowsNext]_<<loopVars, seedVars, vars, resultsVars, listingVars>>
=============================================================================
