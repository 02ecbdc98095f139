------------------------------ MODULE SeedBatch ------------------------------
(***************************************************************************)
(* The seeds of submitted runs: RunCreate and its validator                *)
(* (schemas/run.py), the draw and the rows of submit_run                   *)
(* (services/runs_service.py).                                             *)
(*                                                                         *)
(* MaxSeed stands for 2^63 - 1, the largest value of the seed column, and  *)
(* of the field.  A submission stands for its own batch_id, a fresh UUID.  *)
(***************************************************************************)
EXTENDS Integers

CONSTANTS
  MaxSeed, MaxSeeds,  \* MAX_SEED, MAX_SEEDS
  Submissions,        \* POST /v1/projects/{id}/runs, one after the other
  Seeds, Counts,      \* the values of `seed` and `seeds` that clients send
  Absent                \* a seed that was left out; no batch

ASSUME SeedBatchAssumption ==
  /\ MaxSeeds \in Nat \ {0}
  /\ MaxSeed \in Nat /\ MaxSeeds <= MaxSeed + 1
  /\ Seeds \subseteq Int
  /\ Counts \subseteq Int
  /\ Absent \notin Int \cup Submissions

VARIABLES
  rows,     \* the stored runs: of which submission, which one of it, seed, batch_id
  outcome,  \* outcome[s]: "unsent", "stored"; "refused" by validation, "overflow"
            \* by the column
  given,    \* given[s]: the seed the client sent
  count,    \* count[s]: seeds
  answer    \* answer[s]: the seed of the run that was answered, the first

seedVars == <<rows, outcome, given, count, answer>>

Row(s, i, seed, batch) == [of |-> s, nth |-> i, seed |-> seed, batch |-> batch]

SeedInit ==
  /\ rows = {}
  /\ outcome = [s \in Submissions |-> "unsent"]
  /\ given = [s \in Submissions |-> Absent]
  /\ count = [s \in Submissions |-> 1]
  /\ answer = [s \in Submissions |-> Absent]

\* Mutant: the validator looks at the first seed only.
ValidFirst(seed, n) ==
  /\ 1 <= n /\ n <= MaxSeeds
  /\ seed # Absent => 0 <= seed /\ seed <= MaxSeed

\* Mutant: the validator counts one seed too many.
ValidOneLess(seed, n) ==
  /\ 1 <= n /\ n <= MaxSeeds
  /\ seed # Absent => 0 <= seed /\ seed + n <= MaxSeed

Valid(seed, n) ==
  /\ 1 <= n /\ n <= MaxSeeds
  /\ seed # Absent => 0 <= seed /\ seed <= MaxSeed /\ seed + n - 1 <= MaxSeed

\* randbelow(k) draws from 0 .. k - 1.
Drawn(n) == 0 .. MaxSeed + 2 - n - 1

RowsOf(s, first, n) ==
  { Row(s, i, first + i, IF n > 1 THEN s ELSE Absent) : i \in 0 .. n - 1 }

SubmitSeeds(s, seed, n) ==
  /\ outcome[s] = "unsent"
  /\ given' = [given EXCEPT ![s] = seed]
  /\ count' = [count EXCEPT ![s] = n]
  /\ \/ /\ ~ Valid(seed, n)
        /\ outcome' = [outcome EXCEPT ![s] = "refused"]
        /\ UNCHANGED <<rows, answer>>
     \/ /\ Valid(seed, n)
        /\ \E first \in IF seed # Absent THEN {seed} ELSE Drawn(n) :
             IF \E r \in RowsOf(s, first, n) : r.seed > MaxSeed
               THEN /\ outcome' = [outcome EXCEPT ![s] = "overflow"]
                    /\ UNCHANGED <<rows, answer>>
               ELSE /\ outcome' = [outcome EXCEPT ![s] = "stored"]
                    /\ rows' = rows \cup RowsOf(s, first, n)
                    /\ answer' = [answer EXCEPT ![s] = first]

DeleteRow(r) ==
  /\ rows' = rows \ {r}
  /\ UNCHANGED <<outcome, given, count, answer>>

SeedNext ==
  \/ \E s \in Submissions, seed \in Seeds \cup {Absent}, n \in Counts : SubmitSeeds(s, seed, n)
  \/ \E r \in rows : DeleteRow(r)

SeedSpec == SeedInit /\ [][SeedNext]_seedVars

-----------------------------------------------------------------------------
\* What list_runs finds for a batch_id.
InBatch(b) == { r \in rows : r.batch = b }

SeedTypeOK ==
  /\ \A r \in rows : /\ r.of \in Submissions /\ r.nth \in Nat /\ r.seed \in Int
                     /\ r = Row(r.of, r.nth, r.seed, r.batch)
  /\ outcome \in [Submissions -> {"unsent", "refused", "stored", "overflow"}]
  /\ given \in [Submissions -> Seeds \cup {Absent}]
  /\ count \in [Submissions -> Counts \cup {1}]
  /\ answer \in [Submissions -> Int \cup {Absent}]

\* What the validator lets through fits the column, also when the server draws
\* the seed: the answer is 202 or 422, never a failed insertion.
AcceptedFits ==
  \A s \in Submissions :
    /\ outcome[s] # "overflow"
    /\ outcome[s] = "stored" => Valid(given[s], count[s])

\* Sending back the seed of the answer, with as many seeds, is accepted, and any
\* run of the first submission that is still there is one of the second's.
Replayable ==
  \A s, t \in Submissions :
    /\ outcome[s] = "stored"
    /\ given[t] = answer[s] /\ count[t] = count[s]
    => /\ outcome[t] = "stored"
       /\ answer[t] = answer[s]
       /\ \A r \in rows : r.of = s => /\ r.seed >= answer[t]
                                      /\ r.seed < answer[t] + count[t]

\* The runs of a batch have different seeds, and are what one submission of
\* several seeds made; a run made on its own is in none.
BatchesAreSubmissions ==
  \A q, r \in rows :
    /\ q.of = r.of /\ q.seed = r.seed => q = r
    /\ q.batch # Absent /\ r \in InBatch(q.batch) => q.of = r.of
    /\ q.of = r.of /\ q # r => r \in InBatch(q.batch) /\ q.batch # Absent

\* A seed that was drawn could have been sent.
DrawnIsValid ==
  \A s \in Submissions :
    outcome[s] = "stored" => answer[s] # Absent /\ Valid(answer[s], count[s])

\* A row is the one its place in its submission says.
RowsExact ==
  \A r \in rows :
    /\ outcome[r.of] = "stored"
    /\ r \in RowsOf(r.of, answer[r.of], count[r.of])

\* The inductive invariant.
SeedIInv ==
  /\ SeedTypeOK
  /\ DrawnIsValid
  /\ RowsExact
  /\ \A s \in Submissions :
       CASE outcome[s] = "stored"   -> given[s] \in {Absent, answer[s]}
         [] outcome[s] = "refused"  -> ~ Valid(given[s], count[s])
         [] outcome[s] = "unsent"   -> given[s] = Absent
         [] outcome[s] = "overflow" -> FALSE
=============================================================================
