------------------------------ MODULE RunResults ------------------------------
(***************************************************************************)
(* Reading the results of a run while it is being executed: the pages of   *)
(* GET /runs/{id}/events and the metrics of GET /runs/{id}/summary         *)
(* (services/runs_service.py).                                             *)
(*                                                                         *)
(* A request reads the row of the run first and its events in a second     *)
(* statement, and each statement sees what is committed by then; a client  *)
(* takes several requests to read all pages.  The run lives on meanwhile   *)
(* as RunLifecycle describes, which RunExecution implements.  The events   *)
(* of a run are known by their place in its stream.                        *)
(***************************************************************************)
EXTENDS Naturals, FiniteSets, Sequences, SequencesExt

CONSTANTS
  Runs, Length, Endable,  \* as in RunLifecycle
  Readers,                \* clients, each with one request at a time
  Wanted,                 \* Wanted[q]: the places whose events pass q's filters
  PageSize                \* PageSize[q]: the limit that q sends with each page

ASSUME ReadersAssumption ==
  /\ Length \in [Runs -> Nat]
  /\ Wanted \in [Readers -> SUBSET Nat]
  /\ PageSize \in [Readers -> Nat \ {0}]

VARIABLES
  state, stored, asked,  \* the runs, as in RunLifecycle
  step,        \* step[q]: "idle"; "page" and "analyse": the row was found, the events
             \* are not read yet; "ended": the last page was short, or 404
  of,        \* of[q]: the run q reads
  polled,    \* polled[q]: the status q has last seen of it
  got,       \* got[q]: the events of its pages so far, one after the other
  report     \* report[q]: the status and the number of events of its summary

Life == INSTANCE RunLifecycle

lifeVars == <<state, stored, asked>>
resultsVars == <<lifeVars, step, of, polled, got, report>>

Terminal == {"completed", "failed", "cancelled"}
Found(r) == state[r] \notin {"unborn", "deleted"}
NoReport == [status |-> "none", count |-> 0]

ResultsInit ==
  /\ Life!Init
  /\ step = [q \in Readers |-> "idle"]
  /\ of \in [Readers -> Runs]
  /\ polled = [q \in Readers |-> "none"]
  /\ got = [q \in Readers |-> <<>>]
  /\ report = [q \in Readers |-> NoReport]

\* get_run
Poll(q) ==
  /\ step[q] = "idle"
  /\ Found(of[q])
  /\ polled' = [polled EXCEPT ![q] = state[of[q]]]
  /\ UNCHANGED <<lifeVars, step, of, got, report>>

-----------------------------------------------------------------------------
(* get_run_events                                                          *)

FindRun(q) ==
  /\ step[q] = "idle"
  /\ Found(of[q])
  /\ step' = [step EXCEPT ![q] = "page"]
  /\ UNCHANGED <<lifeVars, of, polled, got, report>>

\* Those of the first n events that pass q's filters.
Upto(q, n) == Wanted[q] \cap 1..n

\* ORDER BY seq: the i-th of them is the one at which i have passed.
Matching(q, n) ==
  [i \in 1..Cardinality(Upto(q, n)) |->
    CHOOSE e \in Upto(q, n) : Cardinality(Upto(q, e)) = i]

\* Mutant: newest events first.
PageNewestFirst(q) ==
  LET matching == Reverse(Matching(q, stored[of[q]]))
      last == Len(got[q]) + PageSize[q]
  IN  SubSeq(matching, Len(got[q]) + 1, IF last < Len(matching) THEN last ELSE Len(matching))

\* Mutant: a limit that is one short.
PageOneShort(q) ==
  LET matching == Matching(q, stored[of[q]])
      last == Len(got[q]) + PageSize[q] - 1
  IN  SubSeq(matching, Len(got[q]) + 1, IF last < Len(matching) THEN last ELSE Len(matching))

\* The events stored now, in order, filtered; then OFFSET and LIMIT.  The offset
\* is what the client has got so far.
Page(q) ==
  LET matching == Matching(q, stored[of[q]])
      last == Len(got[q]) + PageSize[q]
  IN  SubSeq(matching, Len(got[q]) + 1, IF last < Len(matching) THEN last ELSE Len(matching))

\* A short page tells the client that there are no more for now.
ReadPage(q) ==
  /\ step[q] = "page"
  /\ got' = [got EXCEPT ![q] = @ \o Page(q)]
  /\ step' = [step EXCEPT ![q] = IF Len(Page(q)) < PageSize[q] THEN "ended" ELSE "idle"]
  /\ UNCHANGED <<lifeVars, of, polled, report>>

\* A client that follows a run goes on from the offset it has reached.
Follow(q) ==
  /\ step[q] = "ended"
  /\ polled[q] \notin Terminal
  /\ step' = [step EXCEPT ![q] = "idle"]
  /\ UNCHANGED <<lifeVars, of, polled, got, report>>

-----------------------------------------------------------------------------
(* _analyze_run, get_run_summary                                           *)

\* A queued run has no results: 409, and nothing is read.
ReadStatus(q) ==
  /\ step[q] = "idle"
  /\ Found(of[q])
  /\ state[of[q]] # "queued"
  /\ report' = [report EXCEPT ![q].status = state[of[q]]]
  /\ step' = [step EXCEPT ![q] = "analyse"]
  /\ UNCHANGED <<lifeVars, of, polled, got>>

\* Mutant: an analysis is kept for the next request.
AnalyseOnce(q) ==
  /\ step[q] = "analyse"
  /\ report' = [report EXCEPT ![q].count = IF @ > 0 THEN @ ELSE stored[of[q]]]
  /\ step' = [step EXCEPT ![q] = "idle"]
  /\ UNCHANGED <<lifeVars, of, polled, got>>

\* analyze() over whatever events there are by then.
Analyse(q) ==
  /\ step[q] = "analyse"
  /\ report' = [report EXCEPT ![q].count = stored[of[q]]]
  /\ step' = [step EXCEPT ![q] = "idle"]
  /\ UNCHANGED <<lifeVars, of, polled, got>>

-----------------------------------------------------------------------------

\* 404, from whichever request.
NotFound(q) ==
  /\ step[q] = "idle"
  /\ state[of[q]] = "deleted"
  /\ step' = [step EXCEPT ![q] = "ended"]
  /\ UNCHANGED <<lifeVars, of, polled, got, report>>

Read(q) ==
  Poll(q) \/ FindRun(q) \/ ReadPage(q) \/ Follow(q) \/ ReadStatus(q) \/ Analyse(q)
    \/ NotFound(q)

Live == Life!Next /\ UNCHANGED <<step, of, polled, got, report>>

ResultsNext == Live \/ \E q \in Readers : Read(q)

ResultsSpec == ResultsInit /\ [][ResultsNext]_resultsVars

-----------------------------------------------------------------------------

\* The pages that a client has put together are the beginning of the run's
\* (filtered) stream, nothing skipped or repeated, although the run stored more
\* events between one page and the next (ORDER BY seq, OFFSET, LIMIT).
PagesAreContiguous ==
  \A q \in Readers :
    got[q] = SubSeq(Matching(q, Length[of[q]]), 1, Len(got[q]))

\* "poll until it reaches completed, ... then read the events" (README.md): a client
\* that saw the run completed and then read to a short page has all of its events,
\* unless the run was deleted meanwhile.
ReadToTheEnd ==
  \A q \in Readers :
    /\ step[q] = "ended"
    /\ polled[q] = "completed"
    /\ state[of[q]] # "deleted"
    => \A e \in 1..Length[of[q]] : e \in Wanted[q] => \E i \in 1..Len(got[q]) : got[q][i] = e

\* A summary that gives a verdict covers every event the run has, now and later:
\* the row is read before the events, and nothing is stored after a verdict.
VerdictsAreSummarised ==
  \A q \in Readers :
    /\ step[q] = "idle"
    /\ report[q].status \in Terminal
    /\ state[of[q]] # "deleted"
    => report[q].count = stored[of[q]]

=============================================================================
