--------------------------- MODULE RunRecordProofs ---------------------------
(***************************************************************************)
(* Cancellations survive every other commit, for any number of requests    *)
(* and attempts.                                                           *)
(***************************************************************************)
EXTENDS RunRecord, TLAPS

\* The type of rows under the assignments of the handlers.
LEMMA AssignType ==
  ASSUME NEW s \in Sessions, NEW r \in RowType
  PROVE  /\ Assign(s, r) \in RowType
         /\ r.cancel_requested => Assign(s, r).cancel_requested
         /\ Assign(s, r).status = r.status
<1>1. CASE s \in Renamers
  BY <1>1, RunRecordAssumption DEF Assign, RowType
<1>2. CASE s \notin Renamers /\ s \in Cancellers
  BY <1>2 DEF Assign, RowType
<1>3. CASE s \notin Renamers \cup Cancellers /\ s \in Enqueuers
  BY <1>3 DEF Assign, RowType
<1>4. CASE s \notin Renamers \cup Cancellers \cup Enqueuers
  BY <1>4 DEF Assign
<1> QED
  BY <1>1, <1>2, <1>3, <1>4

\* An UPDATE keeps the type of the row, and a cancellation.
LEMMA FlushKeeps ==
  ASSUME IInv, NEW s \in Sessions
  PROVE  /\ Flush(s) \in RowType
         /\ row.cancel_requested => Flush(s).cancel_requested
         /\ Flush(s).status = "cancelled" => row.cancel_requested
<1>1. /\ row \in RowType /\ mine[s] \in RowType /\ loaded[s] \in RowType
      /\ loaded[s].cancel_requested => mine[s].cancel_requested
      /\ mine[s].status = "cancelled" => row.cancel_requested
      /\ row.status = "cancelled" => row.cancel_requested
  BY DEF IInv, TypeOK
<1> QED
  BY <1>1 DEF Flush, RowType

LEMMA FirstRowType == FirstRow \in RowType /\ ~ FirstRow.cancel_requested
BY RunRecordAssumption DEF FirstRow, RowType

LEMMA InitIInv == Init => IInv
<1> SUFFICES ASSUME Init PROVE IInv
  OBVIOUS
<1>1. \A s \in Sessions : /\ loaded[s] = FirstRow /\ mine[s] = FirstRow
                          /\ pc[s] = "new"
  BY DEF Init
<1>2. FirstRow.status = "queued"
  BY DEF FirstRow
<1>3. TypeOK
  BY <1>1, FirstRowType DEF Init, TypeOK, Sessions
<1> QED
  BY <1>1, <1>2, <1>3, FirstRowType DEF Init, IInv, Sessions

\* What is to be shown of a step that changes the copy of at most one session.
LEMMA OneSession ==
  ASSUME IInv, NEW s \in Sessions, NEW L \in RowType, NEW M \in RowType, NEW place,
         loaded' = [loaded EXCEPT ![s] = L], mine' = [mine EXCEPT ![s] = M],
         pc' = [pc EXCEPT ![s] = place],
         s \in Requests => place \in {"loaded", "committed", "answered", "failed"},
         s \in Workers => place \in {"commit", "chunk", "last", "over"},
         present' \in BOOLEAN, row' \in RowType, turn' \in [Workers -> Nat],
         row.cancel_requested => row'.cancel_requested,
         row'.status = "cancelled" => row'.cancel_requested,
         L.cancel_requested => row'.cancel_requested,
         L.cancel_requested => M.cancel_requested,
         M.status = "cancelled" => row'.cancel_requested,
         s \in Requests /\ place = "loaded" => M = Assign(s, L),
         s \in Workers => /\ M.name = L.name
                          /\ M.cancel_requested = L.cancel_requested
                          /\ M.arq_job_id = L.arq_job_id
  PROVE  IInv'
<1>1. /\ loaded' \in [Sessions -> RowType] /\ mine' \in [Sessions -> RowType]
      /\ \A t \in Sessions :
           /\ t = s => loaded'[t] = L /\ mine'[t] = M /\ pc'[t] = place
           /\ t # s => loaded'[t] = loaded[t] /\ mine'[t] = mine[t] /\ pc'[t] = pc[t]
  BY DEF IInv, TypeOK
<1>2. s \in Requests \/ s \in Workers
  BY DEF Sessions
<1>3. pc' \in [Sessions -> {"new", "loaded", "committed", "answered", "failed",
                            "commit", "chunk", "last", "over"}]
  BY <1>2 DEF IInv, TypeOK
<1>4. TypeOK'
  BY <1>1, <1>3 DEF IInv, TypeOK, Sessions
<1>5. \A t \in Sessions :
        /\ loaded'[t].cancel_requested => row'.cancel_requested
        /\ loaded'[t].cancel_requested => mine'[t].cancel_requested
        /\ mine'[t].status = "cancelled" => row'.cancel_requested
  BY <1>1 DEF IInv
<1>6. \A t \in Requests : pc'[t] = "loaded" => mine'[t] = Assign(t, loaded'[t])
  BY <1>1 DEF IInv, Sessions
<1>7. \A w \in Workers : /\ mine'[w].name = loaded'[w].name
                         /\ mine'[w].cancel_requested = loaded'[w].cancel_requested
                         /\ mine'[w].arq_job_id = loaded'[w].arq_job_id
  BY <1>1 DEF IInv, Sessions
<1> QED
  BY <1>4, <1>5, <1>6, <1>7 DEF IInv, Assign

\* The facts about a session that its steps use.
LEMMA SessionFacts ==
  ASSUME IInv, NEW s \in Sessions
  PROVE  /\ row \in RowType /\ present \in BOOLEAN
         /\ loaded[s] \in RowType /\ mine[s] \in RowType
         /\ row.cancel_requested \in BOOLEAN /\ mine[s].cancel_requested \in BOOLEAN
         /\ loaded[s].cancel_requested => row.cancel_requested
         /\ loaded[s].cancel_requested => mine[s].cancel_requested
         /\ mine[s].status = "cancelled" => row.cancel_requested
         /\ row.status = "cancelled" => row.cancel_requested
BY DEF IInv, TypeOK, RowType

\* Only a worker's next chunk changes turn.
LEMMA TurnKeeps == IInv /\ turn' = turn => turn' \in [Workers -> Nat]
BY DEF IInv, TypeOK

\* What is to be shown of a step that changes nothing but the place of a session.
LEMMA OnlyPlace ==
  ASSUME IInv, NEW s \in Sessions, NEW place,
         pc' = [pc EXCEPT ![s] = place],
         s \in Requests => place \in {"committed", "answered", "failed"},
         s \in Workers => place \in {"commit", "chunk", "last", "over"},
         UNCHANGED <<present, row, loaded, mine, turn>>
  PROVE  IInv'
<1>1. \A t \in Sessions : /\ t = s => pc'[t] = place
                          /\ t # s => pc'[t] = pc[t]
  BY DEF IInv, TypeOK
<1>2. TypeOK'
  <2>1. s \in Requests \/ s \in Workers
    BY DEF Sessions
  <2>2. pc' \in [Sessions -> {"new", "loaded", "committed", "answered", "failed",
                              "commit", "chunk", "last", "over"}]
    BY <2>1 DEF IInv, TypeOK
  <2> QED
    BY <1>1, <2>2 DEF IInv, TypeOK, Sessions
<1>3. \A t \in Requests : pc'[t] = "loaded" => mine'[t] = Assign(t, loaded'[t])
  BY <1>1 DEF IInv, Sessions
<1> QED
  BY <1>2, <1>3 DEF IInv, Assign

LEMMA RequestsAreNotWorkers == \A s \in Requests : s \notin Workers
BY RunRecordAssumption DEF Requests

LEMMA LoadKeepsIInv ==
  ASSUME IInv, NEW s \in Requests, Load(s)
  PROVE  IInv' /\ row' = row
<1>1. s \in Sessions /\ s \notin Workers
  BY RequestsAreNotWorkers DEF Sessions
<1>2. CASE present
  <2>1. /\ loaded' = [loaded EXCEPT ![s] = row]
        /\ mine' = [mine EXCEPT ![s] = Assign(s, row)]
        /\ pc' = [pc EXCEPT ![s] = "loaded"]
        /\ present' = present /\ row' = row /\ turn' = turn
    BY <1>2 DEF Load, Goto
  <2>2. /\ Assign(s, row) \in RowType
        /\ row.cancel_requested => Assign(s, row).cancel_requested
        /\ Assign(s, row).status = row.status
    BY <1>1, SessionFacts, AssignType
  <2> QED
    BY <1>1, <2>1, <2>2, SessionFacts, TurnKeeps, OneSession
<1>3. CASE ~ present
  <2>1. /\ pc' = [pc EXCEPT ![s] = "failed"]
        /\ loaded' = loaded /\ mine' = mine /\ present' = present /\ row' = row
        /\ turn' = turn
    BY <1>3 DEF Load, Goto
  <2> QED
    BY <1>1, <2>1, OnlyPlace
<1> QED
  BY <1>2, <1>3

LEMMA CommitKeepsIInv ==
  ASSUME IInv, NEW s \in Requests, Commit(s)
  PROVE  IInv' /\ (row.cancel_requested => row'.cancel_requested)
<1>1. s \in Sessions /\ s \notin Workers
  BY RequestsAreNotWorkers DEF Sessions
<1>2. /\ loaded' = [loaded EXCEPT ![s] = FirstRow]
      /\ mine' = [mine EXCEPT ![s] = FirstRow]
      /\ FirstRow \in RowType /\ ~ FirstRow.cancel_requested
      /\ FirstRow.status = "queued"
  BY FirstRowType DEF Commit, Forget, FirstRow
<1>3. PICK place \in {"committed", "failed"} : pc' = [pc EXCEPT ![s] = place]
  BY DEF Commit, Goto
<1>4. row' = row \/ row' = Flush(s)
  BY DEF Commit
<1>5. present' \in BOOLEAN /\ turn' = turn
  BY DEF Commit, IInv, TypeOK
<1>6. /\ row' \in RowType
      /\ row.cancel_requested => row'.cancel_requested
      /\ row'.status = "cancelled" => row'.cancel_requested
  BY <1>1, <1>4, SessionFacts, FlushKeeps
<1> QED
  BY <1>1, <1>2, <1>3, <1>5, <1>6, TurnKeeps, OneSession

LEMMA ReplyKeepsIInv ==
  ASSUME IInv, NEW s \in Requests, Reply(s)
  PROVE  IInv' /\ row' = row
<1>1. s \in Sessions
  BY DEF Sessions
<1>2. PICK place \in {"answered", "failed"} :
        /\ pc' = [pc EXCEPT ![s] = place]
        /\ loaded' = loaded /\ mine' = mine /\ present' = present /\ row' = row
        /\ turn' = turn
  BY DEF Reply, Goto
<1> QED
  BY <1>1, <1>2, RequestsAreNotWorkers, OnlyPlace

LEMMA BeginKeepsIInv ==
  ASSUME IInv, NEW w \in Workers, Begin(w)
  PROVE  IInv' /\ row' = row
<1>1. w \in Sessions /\ w \notin Requests
  BY RequestsAreNotWorkers DEF Sessions
<1>2. CASE present
  <2> DEFINE M == [row EXCEPT !.status = "running"]
  <2>1. /\ loaded' = [loaded EXCEPT ![w] = row]
        /\ mine' = [mine EXCEPT ![w] = M]
        /\ pc' = [pc EXCEPT ![w] = "commit"]
        /\ present' = present /\ row' = row /\ turn' = turn
    BY <1>2 DEF Begin, Goto
  <2>2. /\ M \in RowType /\ M.status = "running" /\ M.name = row.name
        /\ M.cancel_requested = row.cancel_requested /\ M.arq_job_id = row.arq_job_id
    BY <1>1, SessionFacts DEF RowType
  <2> HIDE DEF M
  <2> QED
    BY <1>1, <2>1, <2>2, SessionFacts, TurnKeeps, OneSession
<1>3. CASE ~ present
  <2>1. /\ pc' = [pc EXCEPT ![w] = "over"]
        /\ loaded' = loaded /\ mine' = mine /\ present' = present /\ row' = row
        /\ turn' = turn
    BY <1>3 DEF Begin, Goto
  <2> QED
    BY <1>1, <2>1, OnlyPlace
<1> QED
  BY <1>2, <1>3

LEMMA CommitOwnKeepsIInv ==
  ASSUME IInv, NEW w \in Workers, CommitOwn(w)
  PROVE  IInv' /\ (row.cancel_requested => row'.cancel_requested)
<1>1. w \in Sessions /\ w \notin Requests
  BY RequestsAreNotWorkers DEF Sessions
<1>2. PICK place \in {"over", "chunk"} : pc' = [pc EXCEPT ![w] = place]
  BY DEF CommitOwn, Goto
<1>3. /\ loaded' = [loaded EXCEPT ![w] = mine[w]]
      /\ mine' = [mine EXCEPT ![w] = mine[w]]
      /\ present' = present /\ turn' = turn
      /\ row' = row \/ (present /\ row' = Flush(w))
  BY <1>1 DEF CommitOwn, IInv, TypeOK
<1>4. /\ row' \in RowType
      /\ row.cancel_requested => row'.cancel_requested
      /\ row'.status = "cancelled" => row'.cancel_requested
  BY <1>1, <1>3, SessionFacts, FlushKeeps
<1>5. mine[w].cancel_requested => row'.cancel_requested
  BY <1>1, <1>4, SessionFacts DEF IInv
<1> QED
  BY <1>1, <1>2, <1>3, <1>4, <1>5, SessionFacts, TurnKeeps, OneSession

\* Deciding on a verdict changes the attempt's own columns of its own copy.
LEMMA DecideKeepsIInv ==
  ASSUME IInv, NEW w \in Workers, NEW copy \in RowType, NEW time \in Nat,
         NEW verdict \in {"completed", "failed", "cancelled"},
         verdict = "cancelled" => row.cancel_requested,
         copy.cancel_requested => row.cancel_requested,
         Decide(w, copy, time, verdict), UNCHANGED <<present, row>>
  PROVE  IInv'
<1> DEFINE M == [copy EXCEPT !.sim_time_now = time, !.status = verdict]
<1>1. w \in Sessions /\ w \notin Requests
  BY RequestsAreNotWorkers DEF Sessions
<1>2. /\ loaded' = [loaded EXCEPT ![w] = copy]
      /\ mine' = [mine EXCEPT ![w] = M]
      /\ pc' = [pc EXCEPT ![w] = "last"]
      /\ turn' = turn
  BY DEF Decide, Goto
<1>3. /\ M \in RowType /\ M.status = verdict /\ M.name = copy.name
      /\ M.cancel_requested = copy.cancel_requested /\ M.arq_job_id = copy.arq_job_id
  BY DEF RowType
<1> HIDE DEF M
<1>4. turn' \in [Workers -> Nat]
  BY <1>2 DEF IInv, TypeOK
<1> QED
  BY <1>1, <1>2, <1>3, <1>4, SessionFacts, OneSession

\* The copy of an attempt, as it is and with what is_cancelled refreshes.
LEMMA CopyFacts ==
  ASSUME IInv, NEW w \in Workers
  PROVE  /\ mine[w] \in RowType /\ turn[w] \in Nat /\ mine[w].sim_time_now \in Nat
         /\ mine[w].cancel_requested => row.cancel_requested
         /\ mine[w].status = "cancelled" => row.cancel_requested
         /\ Refreshed(w) \in RowType /\ Refreshed(w).sim_time_now \in Nat
         /\ Refreshed(w).cancel_requested = row.cancel_requested
         /\ Refreshed(w).status = mine[w].status
<1>1. w \in Sessions /\ mine[w].cancel_requested = loaded[w].cancel_requested
  BY DEF Sessions, IInv
<1>2. mine[w] \in RowType /\ row.cancel_requested \in BOOLEAN
  BY <1>1, SessionFacts
<1>3. /\ Refreshed(w) \in RowType /\ Refreshed(w).status = mine[w].status
      /\ Refreshed(w).cancel_requested = row.cancel_requested
  BY <1>2 DEF Refreshed, RowType
<1>4. mine[w].sim_time_now \in Nat /\ Refreshed(w).sim_time_now \in Nat
  BY <1>2, <1>3 DEF RowType
<1> QED
  BY <1>1, <1>2, <1>3, <1>4, SessionFacts DEF IInv, TypeOK

LEMMA NextChunkKeepsIInv ==
  ASSUME IInv, NEW w \in Workers, NextChunk(w)
  PROVE  IInv' /\ row' = row
<1>1. w \in Sessions /\ w \notin Requests
  BY RequestsAreNotWorkers DEF Sessions
<1>2. present' = present /\ row' = row
  BY DEF NextChunk
<1>3. CASE Decide(w, Refreshed(w), turn[w], "cancelled") /\ row.cancel_requested
  BY <1>2, <1>3, CopyFacts, DecideKeepsIInv
<1>4. CASE FailWith(w, Refreshed(w))
  BY <1>2, <1>4, CopyFacts, DecideKeepsIInv DEF FailWith
<1>5. CASE /\ loaded' = [loaded EXCEPT ![w] = Refreshed(w)]
           /\ mine' = [mine EXCEPT ![w] = [Refreshed(w) EXCEPT !.sim_time_now = turn[w] + 1]]
           /\ turn' = [turn EXCEPT ![w] = @ + 1]
           /\ Goto(w, "commit")
  <2> DEFINE C == Refreshed(w)
             M == [C EXCEPT !.sim_time_now = turn[w] + 1]
  <2>1. /\ loaded' = [loaded EXCEPT ![w] = C]
        /\ mine' = [mine EXCEPT ![w] = M]
        /\ pc' = [pc EXCEPT ![w] = "commit"]
    BY <1>5 DEF Goto
  <2>2. /\ C \in RowType /\ C.cancel_requested = row.cancel_requested
        /\ C.status = "cancelled" => row.cancel_requested
        /\ turn[w] + 1 \in Nat
    BY CopyFacts
  <2>3. turn' \in [Workers -> Nat]
    BY <1>5, <2>2 DEF IInv, TypeOK
  <2> HIDE DEF C
  <2>4. /\ M \in RowType /\ M.status = C.status /\ M.name = C.name
        /\ M.cancel_requested = C.cancel_requested /\ M.arq_job_id = C.arq_job_id
    BY <2>2 DEF RowType
  <2> HIDE DEF M
  <2> QED
    BY <1>1, <1>2, <2>1, <2>2, <2>3, <2>4, SessionFacts, OneSession
<1>6. CASE Goto(w, "over") /\ UNCHANGED <<loaded, mine, turn>>
  BY <1>1, <1>2, <1>6, OnlyPlace DEF Goto
<1> QED
  BY <1>2, <1>3, <1>4, <1>5, <1>6 DEF NextChunk

\* The two other verdicts.
LEMMA VerdictKeepsIInv ==
  ASSUME IInv, NEW w \in Workers, CannotBuild(w) \/ Finish(w)
  PROVE  IInv' /\ row' = row
<1>1. present' = present /\ row' = row
  BY DEF CannotBuild, Finish
<1>2. CASE FailWith(w, mine[w])
  BY <1>1, <1>2, CopyFacts, DecideKeepsIInv DEF FailWith
<1>3. CASE Decide(w, mine[w], turn[w], "completed")
  BY <1>1, <1>3, CopyFacts, DecideKeepsIInv
<1> QED
  BY <1>1, <1>2, <1>3 DEF CannotBuild, Finish

LEMMA NextIInv ==
  IInv /\ [Next]_vars => IInv' /\ (row.cancel_requested => row'.cancel_requested)
<1> SUFFICES ASSUME IInv, [Next]_vars
             PROVE  IInv' /\ (row.cancel_requested => row'.cancel_requested)
  OBVIOUS
<1>1. CASE UNCHANGED vars
  BY <1>1 DEF vars, IInv, TypeOK, Assign
<1> QED
  BY <1>1, LoadKeepsIInv, CommitKeepsIInv, ReplyKeepsIInv, BeginKeepsIInv,
     CommitOwnKeepsIInv, NextChunkKeepsIInv, VerdictKeepsIInv DEF Next, Work

\* Every reachable state satisfies the inductive invariant.
THEOREM Invariance == Spec => []IInv
<1> QED
  BY InitIInv, NextIInv, PTL DEF Spec

\* request_cancel is not undone by rename_run, submit_run or a worker that loaded
\* the row before it.
THEOREM CancellationsStay == Spec => CancelStays
<1>1. IInv /\ [Next]_vars => [row.cancel_requested => row'.cancel_requested]_vars
  BY NextIInv
<1> QED
  BY <1>1, Invariance, PTL DEF Spec, CancelStays

\* A run with the verdict cancelled carries the request for it.
THEOREM CancelledRunsWereAsked == Spec => []CancelledWasAsked
<1>1. IInv => CancelledWasAsked
  BY DEF IInv, CancelledWasAsked
<1> QED
  BY <1>1, Invariance, PTL

-----------------------------------------------------------------------------
(* The refinement                                                          *)

LEMMA EffectiveCases ==
  ASSUME NEW s, NEW L, NEW M
  PROVE  /\ Effective(s, "new", L, M) = "asked"
         /\ Effective(s, "loaded", L, M) =
              IF s \notin Deleters /\ M = L THEN "done" ELSE "asked"
         /\ Effective(s, "committed", L, M) = "done"
         /\ Effective(s, "answered", L, M) = "answered"
         /\ Effective(s, "failed", L, M) = "failed"
BY DEF Effective

\* A step of one request moves its place in the mapping and no other.
LEMMA OpOfOne ==
  ASSUME IInv, NEW s \in Requests, NEW L, NEW M, NEW place,
         loaded' = [loaded EXCEPT ![s] = L], mine' = [mine EXCEPT ![s] = M],
         pc' = [pc EXCEPT ![s] = place]
  PROVE  Op' = [Op EXCEPT ![s] = Effective(s, place, L, M)]
<1>1. \A t \in Requests :
        /\ t = s => loaded'[t] = L /\ mine'[t] = M /\ pc'[t] = place
        /\ t # s => loaded'[t] = loaded[t] /\ mine'[t] = mine[t] /\ pc'[t] = pc[t]
  BY DEF IInv, TypeOK, Sessions
<1>2. \A t \in Requests :
        /\ Op'[t] = Effective(t, pc'[t], loaded'[t], mine'[t])
        /\ Op[t] = Effective(t, pc[t], loaded[t], mine[t])
  BY DEF Op, Effective
<1>3. /\ Op' = [t \in Requests |-> Op'[t]]
      /\ Op = [t \in Requests |-> Op[t]]
  BY DEF Op
<1> QED
  BY <1>1, <1>2, <1>3

\* An UPDATE, column by column.
LEMMA FlushColumns ==
  ASSUME NEW s \in Sessions, row \in RowType, mine[s] \in RowType, loaded[s] \in RowType
  PROVE  Flush(s) =
           [name |-> IF mine[s].name # loaded[s].name THEN mine[s].name ELSE row.name,
            cancel_requested |->
              IF mine[s].cancel_requested # loaded[s].cancel_requested
              THEN mine[s].cancel_requested ELSE row.cancel_requested,
            arq_job_id |-> IF mine[s].arq_job_id # loaded[s].arq_job_id
                           THEN mine[s].arq_job_id ELSE row.arq_job_id,
            status |-> IF mine[s].status # loaded[s].status
                       THEN mine[s].status ELSE row.status,
            sim_time_now |-> IF mine[s].sim_time_now # loaded[s].sim_time_now
                             THEN mine[s].sim_time_now ELSE row.sim_time_now]
BY DEF Flush, RowType

LEMMA RowFields ==
  ASSUME NEW r \in RowType
  PROVE  r = [name |-> r.name, cancel_requested |-> r.cancel_requested,
              arq_job_id |-> r.arq_job_id, status |-> r.status,
              sim_time_now |-> r.sim_time_now]
BY DEF RowType

LEMMA WithCancelRequested ==
  ASSUME NEW r \in RowType, NEW b
  PROVE  [r EXCEPT !.cancel_requested = b] =
           [name |-> r.name, cancel_requested |-> b, arq_job_id |-> r.arq_job_id,
            status |-> r.status, sim_time_now |-> r.sim_time_now]
BY DEF RowType

\* What each kind of request assigns.
LEMMA AssignCases ==
  ASSUME NEW s \in Requests, NEW r
  PROVE  /\ s \in Renamers => Assign(s, r) = [r EXCEPT !.name = NewName[s]]
         /\ s \in Cancellers => Assign(s, r) = [r EXCEPT !.cancel_requested = TRUE]
         /\ s \in Enqueuers => Assign(s, r) = [r EXCEPT !.arq_job_id = s]
BY RunRecordAssumption, Zenon DEF Assign

\* An UPDATE after a net change sets the column of its request and no other.
LEMMA FlushAssigns ==
  ASSUME IInv, NEW s \in Requests, s \notin Deleters, pc[s] = "loaded"
  PROVE  /\ mine[s] # loaded[s] => Flush(s) = Assign(s, row)
         /\ mine[s] = loaded[s] => Flush(s) = row
<1>1. /\ s \in Sessions /\ mine[s] = Assign(s, loaded[s])
      /\ row \in RowType /\ loaded[s] \in RowType /\ mine[s] \in RowType
  BY SessionFacts DEF Sessions, IInv
<1>2. mine[s] = loaded[s] => Flush(s) = row
  <2> SUFFICES ASSUME mine[s] = loaded[s] PROVE Flush(s) = row
    OBVIOUS
  <2> QED
    BY <1>1, FlushColumns, RowFields
<1>3. ASSUME mine[s] # loaded[s] PROVE Flush(s) = Assign(s, row)
  <2>1. CASE s \in Renamers
    <3>1. /\ mine[s] = [loaded[s] EXCEPT !.name = NewName[s]]
          /\ Assign(s, row) = [row EXCEPT !.name = NewName[s]]
      BY <1>1, <2>1, AssignCases
    <3>2. loaded[s].name # NewName[s]
      <4>1. ASSUME loaded[s].name = NewName[s] PROVE FALSE
        <5>1. [loaded[s] EXCEPT !.name = NewName[s]] = loaded[s]
          BY <1>1, <4>1 DEF RowType
        <5> QED
          BY <1>3, <3>1, <5>1
      <4> QED
        BY <4>1
    <3>3. /\ mine[s].name = NewName[s]
          /\ \A c \in {"name", "cancel_requested", "arq_job_id", "status",
                       "sim_time_now"} \ {"name"} : mine[s][c] = loaded[s][c]
      BY <1>1, <3>1 DEF RowType
    <3>4. Flush(s) = [row EXCEPT !.name = NewName[s]]
      BY <1>1, <3>2, <3>3, FlushColumns DEF RowType
    <3> QED
      BY <3>1, <3>4
  <2>2. CASE s \in Cancellers /\ s \notin Renamers
    <3>1. /\ mine[s] = [loaded[s] EXCEPT !.cancel_requested = TRUE]
          /\ Assign(s, row) = [row EXCEPT !.cancel_requested = TRUE]
      BY <1>1, <2>2, AssignCases
    <3>2. loaded[s].cancel_requested # TRUE
      <4>1. ASSUME loaded[s].cancel_requested = TRUE PROVE FALSE
        <5>1. [loaded[s] EXCEPT !.cancel_requested = TRUE] = loaded[s]
          BY <1>1, <4>1 DEF RowType
        <5> QED
          BY <1>3, <3>1, <5>1
      <4> QED
        BY <4>1
    <3>3. /\ mine[s].cancel_requested = TRUE
          /\ \A c \in {"name", "cancel_requested", "arq_job_id", "status",
                       "sim_time_now"} \ {"cancel_requested"} : mine[s][c] = loaded[s][c]
      BY <1>1, <3>1 DEF RowType
    <3>4. mine[s].cancel_requested # loaded[s].cancel_requested
      BY <3>2, <3>3
    <3>5. Flush(s) = [name |-> row.name, cancel_requested |-> TRUE,
                      arq_job_id |-> row.arq_job_id, status |-> row.status,
                      sim_time_now |-> row.sim_time_now]
      <4>1. /\ mine[s].name = loaded[s].name
            /\ mine[s].arq_job_id = loaded[s].arq_job_id
            /\ mine[s].status = loaded[s].status
            /\ mine[s].sim_time_now = loaded[s].sim_time_now
        BY <3>3
      <4> DEFINE new(c) == IF mine[s][c] # loaded[s][c] THEN mine[s][c] ELSE row[c]
      <4>2. /\ new("name") = row.name /\ new("arq_job_id") = row.arq_job_id
            /\ new("status") = row.status /\ new("sim_time_now") = row.sim_time_now
        BY <4>1
      <4>3. new("cancel_requested") = TRUE
        BY <3>3, <3>4
      <4>4. Flush(s) = [name |-> new("name"), cancel_requested |-> new("cancel_requested"),
                        arq_job_id |-> new("arq_job_id"), status |-> new("status"),
                        sim_time_now |-> new("sim_time_now")]
        BY <1>1, FlushColumns
      <4> HIDE DEF new
      <4> QED
        BY <4>2, <4>3, <4>4
    <3>6. [row EXCEPT !.cancel_requested = TRUE] = Flush(s)
      BY <1>1, <3>5, WithCancelRequested, Zenon
    <3> QED
      BY <3>1, <3>6
  <2>3. CASE s \in Enqueuers /\ s \notin Renamers /\ s \notin Cancellers
    <3>1. /\ mine[s] = [loaded[s] EXCEPT !.arq_job_id = s]
          /\ Assign(s, row) = [row EXCEPT !.arq_job_id = s]
      BY <1>1, <2>3, AssignCases
    <3>2. loaded[s].arq_job_id # s
      <4>1. ASSUME loaded[s].arq_job_id = s PROVE FALSE
        <5>1. [loaded[s] EXCEPT !.arq_job_id = s] = loaded[s]
          BY <1>1, <4>1 DEF RowType
        <5> QED
          BY <1>3, <3>1, <5>1
      <4> QED
        BY <4>1
    <3>3. /\ mine[s].arq_job_id = s
          /\ \A c \in {"name", "cancel_requested", "arq_job_id", "status",
                       "sim_time_now"} \ {"arq_job_id"} : mine[s][c] = loaded[s][c]
      BY <1>1, <3>1 DEF RowType
    <3>4. Flush(s) = [row EXCEPT !.arq_job_id = s]
      BY <1>1, <3>2, <3>3, FlushColumns DEF RowType
    <3> QED
      BY <3>1, <3>4
  <2> QED
    BY <2>1, <2>2, <2>3 DEF Requests
<1> QED
  BY <1>2, <1>3

\* A step of a request is one of the registers', or none.
LEMMA RequestRefines ==
  ASSUME IInv, NEW s \in Requests, Load(s) \/ Commit(s) \/ Reply(s)
  PROVE  [Registers!Next]_(Registers!vars)
<1> USE DEF Registers!vars
<1>1. /\ s \in Sessions /\ Op[s] = Effective(s, pc[s], loaded[s], mine[s])
      /\ present \in BOOLEAN
  BY DEF Sessions, Op, IInv, TypeOK
<1>2. CASE Load(s) /\ present
  <2>1. /\ present' = present /\ row' = row
        /\ Op' = [Op EXCEPT ![s] = Effective(s, "loaded", row, Assign(s, row))]
        /\ Op[s] = "asked"
    BY <1>1, <1>2, OpOfOne, EffectiveCases DEF Load, Goto
  <2>2. CASE s \notin Deleters /\ Assign(s, row) = row
    <3>1. Op' = [Op EXCEPT ![s] = "done"]
      <4>1. Effective(s, "loaded", row, Assign(s, row)) = "done"
        BY <2>2, EffectiveCases
      <4> QED
        BY <2>1, <4>1, Zenon
    <3> QED
      BY <1>2, <2>1, <2>2, <3>1 DEF Registers!Next, Registers!Effect
  <2>3. CASE ~ (s \notin Deleters /\ Assign(s, row) = row)
    <3>1. Op' = [Op EXCEPT ![s] = Op[s]]
      <4>1. Effective(s, "loaded", row, Assign(s, row)) = Op[s]
        BY <2>1, <2>3, EffectiveCases
      <4> QED
        BY <2>1, <4>1, Zenon
    <3>2. Op' = Op
      BY <3>1 DEF Op
    <3> QED
      BY <2>1, <3>2
  <2> QED
    BY <2>2, <2>3
<1>3. CASE Load(s) /\ ~ present
  <2>1. /\ present' = present /\ row' = row /\ Op[s] = "asked"
        /\ loaded' = [loaded EXCEPT ![s] = loaded[s]]
        /\ mine' = [mine EXCEPT ![s] = mine[s]]
        /\ pc' = [pc EXCEPT ![s] = "failed"]
    BY <1>1, <1>3, EffectiveCases DEF Load, Goto, IInv, TypeOK
  <2>2. Op' = [Op EXCEPT ![s] = "failed"]
    <3> DEFINE L == loaded[s]  M == mine[s]
    <3>1. loaded' = [loaded EXCEPT ![s] = L] /\ mine' = [mine EXCEPT ![s] = M]
      BY <2>1
    <3> HIDE DEF L, M
    <3>2. Op' = [Op EXCEPT ![s] = Effective(s, "failed", L, M)]
      <4>1. pc' = [pc EXCEPT ![s] = "failed"]
        BY <2>1
      <4> QED
        BY <3>1, <4>1, OpOfOne
    <3>3. Effective(s, "failed", L, M) = "failed"
      BY EffectiveCases
    <3> QED
      BY <3>2, <3>3
  <2> QED
    BY <1>3, <2>1, <2>2 DEF Registers!Next, Registers!Fail
<1>4. CASE Commit(s)
  <2>1. /\ loaded' = [loaded EXCEPT ![s] = FirstRow]
        /\ mine' = [mine EXCEPT ![s] = FirstRow]
        /\ pc[s] = "loaded"
    BY <1>4 DEF Commit, Forget
  <2>2. \A place \in {"committed", "failed"} :
          pc' = [pc EXCEPT ![s] = place] =>
            Op' = [Op EXCEPT ![s] = IF place = "committed" THEN "done" ELSE "failed"]
    <3>1. ASSUME NEW place, pc' = [pc EXCEPT ![s] = place]
          PROVE  Op' = [Op EXCEPT ![s] = Effective(s, place, FirstRow, FirstRow)]
      <4>1. /\ loaded' = [loaded EXCEPT ![s] = FirstRow]
            /\ mine' = [mine EXCEPT ![s] = FirstRow]
        BY <2>1
      <4> QED
        BY <3>1, <4>1, OpOfOne
    <3>2. /\ Effective(s, "committed", FirstRow, FirstRow) = "done"
          /\ Effective(s, "failed", FirstRow, FirstRow) = "failed"
      BY EffectiveCases
    <3> QED
      BY <3>1, <3>2
  <2>3. CASE s \in Deleters
    <3>1. present' = FALSE /\ row' = row /\ pc' = [pc EXCEPT ![s] = "committed"]
      BY <1>4, <2>3 DEF Commit, Goto
    <3>2. Op[s] = "asked" /\ Op' = [Op EXCEPT ![s] = "done"]
      BY <1>1, <2>1, <2>2, <2>3, <3>1, EffectiveCases
    <3>3. CASE present
      BY <2>3, <3>1, <3>2, <3>3 DEF Registers!Next, Registers!Effect
    <3>4. CASE ~ present
      BY <1>1, <2>3, <3>1, <3>2, <3>4 DEF Registers!Next, Registers!DeleteAgain
    <3> QED
      BY <3>3, <3>4
  <2>4. CASE s \notin Deleters /\ mine[s] = loaded[s]
    <3>1. /\ present' = present /\ row' = row
          /\ pc' = [pc EXCEPT ![s] = "committed"]
      BY <1>4, <2>1, <2>4, FlushAssigns DEF Commit, Goto
    <3>2. Op[s] = "done" /\ Op' = [Op EXCEPT ![s] = "done"]
      BY <1>1, <2>1, <2>2, <2>4, <3>1, EffectiveCases
    <3>3. Op' = Op
      BY <3>2 DEF Op
    <3> QED
      BY <3>1, <3>3
  <2>5. CASE s \notin Deleters /\ mine[s] # loaded[s]
    <3>1. Op[s] = "asked"
      BY <1>1, <2>1, <2>5, EffectiveCases
    <3>2. CASE present
      <4>1. /\ present' = present /\ row' = Assign(s, row)
            /\ pc' = [pc EXCEPT ![s] = "committed"]
        BY <1>4, <2>1, <2>5, <3>2, FlushAssigns DEF Commit, Goto
      <4>2. Op' = [Op EXCEPT ![s] = "done"]
        BY <2>2, <4>1
      <4> QED
        BY <2>5, <3>1, <3>2, <4>1, <4>2 DEF Registers!Next, Registers!Effect
    <3>3. CASE ~ present
      <4>1. /\ present' = present /\ row' = row
            /\ pc' = [pc EXCEPT ![s] = "failed"]
        BY <1>4, <2>1, <2>5, <3>3 DEF Commit, Goto
      <4>2. Op' = [Op EXCEPT ![s] = "failed"]
        BY <2>2, <4>1
      <4> QED
        BY <3>1, <3>3, <4>1, <4>2 DEF Registers!Next, Registers!Fail
    <3> QED
      BY <3>2, <3>3
  <2> QED
    BY <2>3, <2>4, <2>5
<1>5. CASE Reply(s)
  <2>1. /\ present' = present /\ row' = row /\ Op[s] = "done"
        /\ loaded' = [loaded EXCEPT ![s] = loaded[s]]
        /\ mine' = [mine EXCEPT ![s] = mine[s]]
    BY <1>1, <1>5, EffectiveCases DEF Reply, IInv, TypeOK
  <2>2. CASE s \in Deleters \/ present
    <3>1. pc' = [pc EXCEPT ![s] = "answered"]
      BY <1>5, <2>2 DEF Reply, Goto
    <3>2. Op' = [Op EXCEPT ![s] = "answered"]
      <4> DEFINE L == loaded[s]  M == mine[s]
      <4>1. loaded' = [loaded EXCEPT ![s] = L] /\ mine' = [mine EXCEPT ![s] = M]
        BY <2>1
      <4> HIDE DEF L, M
      <4>2. Op' = [Op EXCEPT ![s] = Effective(s, "answered", L, M)]
        BY <3>1, <4>1, OpOfOne
      <4>3. Effective(s, "answered", L, M) = "answered"
        BY EffectiveCases
      <4> QED
        BY <4>2, <4>3
    <3> QED
      BY <2>1, <2>2, <3>2 DEF Registers!Next, Registers!Answer
  <2>3. CASE ~ (s \in Deleters \/ present)
    <3>1. pc' = [pc EXCEPT ![s] = "failed"]
      BY <1>5, <2>3 DEF Reply, Goto
    <3>2. Op' = [Op EXCEPT ![s] = "failed"]
      <4> DEFINE L == loaded[s]  M == mine[s]
      <4>1. loaded' = [loaded EXCEPT ![s] = L] /\ mine' = [mine EXCEPT ![s] = M]
        BY <2>1
      <4> HIDE DEF L, M
      <4>2. Op' = [Op EXCEPT ![s] = Effective(s, "failed", L, M)]
        BY <3>1, <4>1, OpOfOne
      <4>3. Effective(s, "failed", L, M) = "failed"
        BY EffectiveCases
      <4> QED
        BY <4>2, <4>3
    <3> QED
      BY <2>1, <2>3, <3>2 DEF Registers!Next, Registers!Fail
  <2> QED
    BY <2>2, <2>3
<1> QED
  BY <1>2, <1>3, <1>4, <1>5

\* A step of a worker changes its own columns, and no request's place.
LEMMA WorkerRefines ==
  ASSUME IInv, NEW w \in Workers, Work(w)
  PROVE  [Registers!Next]_(Registers!vars)
<1> USE DEF Registers!vars
<1>1. w \in Sessions
  BY DEF Sessions
<1>2. \A t \in Requests :
        loaded'[t] = loaded[t] /\ mine'[t] = mine[t] /\ pc'[t] = pc[t]
  <2> TAKE t \in Requests
  <2>1. t # w /\ t \in Sessions
    BY RequestsAreNotWorkers DEF Sessions
  <2>2. /\ \A L : [loaded EXCEPT ![w] = L][t] = loaded[t]
        /\ \A M : [mine EXCEPT ![w] = M][t] = mine[t]
        /\ \A place : [pc EXCEPT ![w] = place][t] = pc[t]
    BY <2>1 DEF IInv, TypeOK
  <2>3. CASE Begin(w)
    BY <2>2, <2>3 DEF Begin, Goto
  <2>4. CASE CommitOwn(w)
    BY <2>2, <2>4 DEF CommitOwn, Goto
  <2>5. CASE NextChunk(w) \/ CannotBuild(w) \/ Finish(w)
    BY <2>2, <2>5 DEF NextChunk, CannotBuild, Finish, FailWith, Decide, Goto
  <2> QED
    BY <2>3, <2>4, <2>5 DEF Work
<1>3. Op' = Op
  BY <1>2 DEF Op, Effective
<1>4. CASE Begin(w) \/ NextChunk(w) \/ CannotBuild(w) \/ Finish(w)
  BY <1>3, <1>4 DEF Begin, NextChunk, CannotBuild, Finish
<1>5. CASE CommitOwn(w)
  <2>1. present' = present /\ (row' = row \/ (present /\ row' = Flush(w)))
    BY <1>5 DEF CommitOwn
  <2>2. CASE row' = row
    BY <1>3, <2>1, <2>2
  <2>3. CASE present /\ row' = Flush(w)
    <3>1. /\ mine[w].name = loaded[w].name
          /\ mine[w].cancel_requested = loaded[w].cancel_requested
          /\ mine[w].arq_job_id = loaded[w].arq_job_id
          /\ row \in RowType
      BY DEF IInv, TypeOK
    <3>2. DOMAIN row = {"name", "cancel_requested", "arq_job_id", "status",
                        "sim_time_now"}
      BY <3>1 DEF RowType
    <3>3. \A c \in DOMAIN row \ WorkerColumns : mine[w][c] = loaded[w][c]
      BY <3>1, <3>2 DEF WorkerColumns
    <3>4. \A c \in DOMAIN row \ WorkerColumns : row'[c] = row[c]
      BY <2>3, <3>3 DEF Flush
    <3> QED
      BY <1>3, <2>1, <2>3, <3>4 DEF Registers!Next, Registers!WorkerWrites
  <2> QED
    BY <2>1, <2>2, <2>3
<1> QED
  BY <1>4, <1>5 DEF Work

\* Handlers that load, change and commit one row at the same time behave as
\* requests that take effect at one instant each (RunRegisters).
THEOREM RecordImplementsRegisters == Spec => ImplementsRegisters
<1>1. Init => Registers!Init
  <2> SUFFICES ASSUME Init PROVE Registers!Init
    OBVIOUS
  <2>1. \A s \in Requests : pc[s] = "new"
    BY DEF Init, Sessions
  <2>2. Op = [s \in Requests |-> "asked"]
    BY <2>1 DEF Op, Effective
  <2> QED
    BY <2>2 DEF Init, Registers!Init
<1>2. IInv /\ [Next]_vars => [Registers!Next]_(Registers!vars)
  <2> SUFFICES ASSUME IInv, [Next]_vars PROVE [Registers!Next]_(Registers!vars)
    OBVIOUS
  <2>1. CASE UNCHANGED vars
    BY <2>1 DEF vars, Op, Registers!vars
  <2> QED
    BY <2>1, RequestRefines, WorkerRefines DEF Next
<1> QED
  BY <1>1, <1>2, Invariance, PTL DEF Spec, ImplementsRegisters, Registers!Spec
=============================================================================
