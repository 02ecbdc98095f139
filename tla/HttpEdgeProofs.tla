--------------------------- MODULE HttpEdgeProofs ---------------------------
(***************************************************************************)
(* What HttpEdge promises for any number of origins and keys.  The steps   *)
(* of one request follow each other in one order, so the invariant only    *)
(* has to remember what the key check and the middleware have left behind. *)
(***************************************************************************)
EXTENDS HttpEdge, TLAPS

\* A key that compare_digest cannot take, sent or in the settings.
NotComparable ==
  /\ answer.cause = "TypeError" /\ conf.auth
  /\ req.credential \notin Ascii \/ ~ (conf.keys \subseteq Ascii)

\* The request is one of Requests; a guarded request that was let in has a
\* principal; an answer has the header of its origin, unless it is the
\* server error that only an unforeseen exception gives, or a key that is not ASCII.
IInv ==
  /\ conf \in Confs /\ req \in Requests
  /\ stage \in {"let in", "handling"} /\ req.route \in Guarded => principal \in Principals
  /\ stage = "answered" =>
       /\ answer.status # 500 => answer.header = AllowOrigin(req.origin)
       /\ answer.status = 500 => answer.cause = "Unexpected" \/ NotComparable

\* A request keeps its type and its origin is Here or one of the pages.
LEMMA RequestType ==
  ASSUME NEW r \in Requests
  PROVE  r.origin \in {Here} \cup Pages /\ r.route \in DOMAIN Routes
BY DEF Requests

Raised == {"NotFoundError", "StaleProjectError", "ProjectInvalidError",
           "RunNotReadyError", "RunAnalysisError"}

\* What the handlers raise.
LEMMA RaisedType ==
  ASSUME NEW t \in DOMAIN Routes, NEW e \in Routes[t].raises
  PROVE  e \in Raised \cup {"Unexpected"}
<1>1. CASE t \in DOMAIN RunRoutes
  <2>1. Routes[t] = RunRoutes[t]
    BY <1>1 DEF Routes
  <2>. QED  BY <1>1, <2>1 DEF RunRoutes, Route, Raised
<1>2. CASE t \notin DOMAIN RunRoutes /\ t \in DOMAIN ProjectRoutes
  <2>1. Routes[t] = ProjectRoutes[t]
    BY <1>2 DEF Routes
  <2>. QED  BY <1>2, <2>1 DEF ProjectRoutes, Route, Raised
<1>3. CASE t \notin DOMAIN RunRoutes /\ t \notin DOMAIN ProjectRoutes
  <2>1. CASE t \in DOMAIN ToolRoutes
    <3>1. Routes[t] = ToolRoutes[t]
      BY <1>3, <2>1 DEF Routes
    <3>. QED  BY <2>1, <3>1 DEF ToolRoutes, Route
  <2>2. CASE t \notin DOMAIN ToolRoutes /\ t \in DOMAIN DocsRoutes
    <3>1. Routes[t] = DocsRoutes[t]
      BY <1>3, <2>2 DEF Routes
    <3>. QED  BY <2>2, <3>1 DEF DocsRoutes, Route
  <2>3. CASE t \notin DOMAIN ToolRoutes /\ t \notin DOMAIN DocsRoutes
    <3>1. t \in DOMAIN ProbeRoutes /\ Routes[t] = ProbeRoutes[t]
      BY <1>3, <2>3 DEF Routes
    <3>. QED  BY <3>1 DEF ProbeRoutes, Route
  <2>. QED  BY <2>1, <2>2, <2>3
<1>. QED  BY <1>1, <1>2, <1>3

\* Every exception a route raises on purpose is a registered one.
LEMMA RaisedAreRegistered ==
  ASSUME NEW t \in DOMAIN Routes, NEW e \in Routes[t].raises, e # "Unexpected"
  PROVE  StatusOf(e) # 500
BY RaisedType DEF Raised, StatusOf, Registered

\* Whatever handler an exception comes from, its answer keeps to IInv.
LEMMA AnswerKeeps ==
  ASSUME IInv, NEW s, NEW c, Answer(s, c), UNCHANGED <<conf, req>>,
         s = 500 => \/ c = "Unexpected"
                    \/ /\ c = "TypeError" /\ conf.auth
                       /\ req.credential \notin Ascii \/ ~ (conf.keys \subseteq Ascii)
  PROVE  IInv'
<1>1. AllowOrigin(req.origin)' = AllowOrigin(req.origin)
  BY DEF AllowOrigin, Allowed
<1>. QED  BY <1>1 DEF IInv, Answer, NotComparable

LEMMA Initially == Init => IInv
BY DEF Init, IInv

LEMMA StepKeepsIInv == IInv /\ [Next]_vars => IInv'
<1>. SUFFICES ASSUME IInv, [Next]_vars PROVE IInv'
  OBVIOUS
<1>1. CASE Preflight
  BY <1>1 DEF Preflight, IInv
<1>2. CASE ReadBody
  <2>1. CASE req.body = "unparsable"
    BY <1>2, <2>1, AnswerKeeps DEF ReadBody
  <2>2. CASE req.body # "unparsable"
    BY <1>2, <2>2 DEF ReadBody, IInv
  <2>. QED  BY <2>1, <2>2
<1>3. CASE CurrentPrincipal
  <2>0. UNCHANGED <<conf, req>>
    BY <1>3 DEF CurrentPrincipal
  <2>1. CASE Answer(401, "key")
    BY <2>0, <2>1, AnswerKeeps
  <2>2. CASE conf.auth /\ ComparisonRaises /\ Answer(500, "TypeError")
    BY <2>0, <2>2, AnswerKeeps DEF ComparisonRaises
  <2>3. CASE stage' = "let in" /\ UNCHANGED answer
    BY <1>3, <2>0, <2>3 DEF CurrentPrincipal, KeyHolds, IInv, Principals, Answer
  <2>. QED  BY <1>3, <2>1, <2>2, <2>3 DEF CurrentPrincipal
<1>4. CASE Validate
  <2>1. CASE req.body = "invalid"
    <3>1. UNCHANGED <<conf, req>> /\ Answer(422, "invalid")
      BY <1>4, <2>1 DEF Validate
    <3>. QED  BY <3>1, AnswerKeeps
  <2>2. CASE req.body # "invalid"
    BY <1>4, <2>2 DEF Validate, IInv, Principals
  <2>. QED  BY <2>1, <2>2
<1>5. CASE Handle
  <2>1. CASE \E s \in {200, 400, 503}, c \in {"none", "If-Match"} : Answer(s, c)
    <3>1. PICK s \in {200, 400, 503}, c \in {"none", "If-Match"} : Answer(s, c)
      BY <2>1
    <3>. QED  BY <1>5, <3>1, AnswerKeeps DEF Handle
  <2>2. CASE \E e \in Routes[req.route].raises : Answer(StatusOf(e), e)
    <3>1. PICK e \in Routes[req.route].raises : Answer(StatusOf(e), e)
      BY <2>2
    <3>2. req.route \in DOMAIN Routes
      BY RequestType DEF IInv
    <3>3. StatusOf(e) = 500 => e = "Unexpected"
      BY <3>2, RaisedAreRegistered
    <3>4. UNCHANGED <<conf, req>>
      BY <1>5 DEF Handle
    <3>. QED  BY <3>1, <3>3, <3>4, AnswerKeeps
  <2>. QED  BY <1>5, <2>1, <2>2 DEF Handle
<1>6. CASE UNCHANGED vars
  BY <1>6 DEF vars, IInv, Principals, AllowOrigin, Allowed, NotComparable
<1>. QED  BY <1>1, <1>2, <1>3, <1>4, <1>5, <1>6 DEF Next, Serve

\* The invariant holds in every behaviour, for any origins and any keys.
THEOREM Invariance == Spec => []IInv
BY Initially, StepKeepsIInv, PTL DEF Spec

\* Whatever the settings, the handlers of projects, runs, validate and the catalog
\* serve a principal, and a holder of a configured key where keys are asked for.
\* The probes and FastAPI's documentation routes are named in the property as open.
THEOREM OnlyPrincipalsAreServed == Spec => []HandlersServePrincipals
<1>1. IInv => HandlersServePrincipals
  <2> SUFFICES ASSUME IInv, stage = "handling", principal \notin Principals
               PROVE  req.route \in {"healthz", "readyz", "openapi", "docs",
                                     "oauth2_redirect", "redoc"}
    BY DEF HandlersServePrincipals
  <2>1. req.route \in DOMAIN Routes /\ req.route \notin Guarded
    BY RequestType DEF IInv
  <2>2. req.route \in DOMAIN ProbeRoutes \cup DOMAIN DocsRoutes
    BY <2>1 DEF Routes, Guarded
  <2>. QED  BY <2>2 DEF ProbeRoutes, DocsRoutes
<1>. QED  BY <1>1, Invariance, PTL

\* Every answer but a server error reaches the pages of the allowed origins,
\* and no other page.
THEOREM AllowedPagesReadAnswers == Spec => []AnswersReachAllowedPages
<1>1. IInv => AnswersReachAllowedPages
  BY RequestType, OriginsAssumption
     DEF IInv, AnswersReachAllowedPages, Readable, AllowOrigin, Allowed
<1>. QED  BY <1>1, Invariance, PTL

\* A server error is an exception nobody raised on purpose; the key check gives one
\* only when a key that was sent or configured is not ASCII.
THEOREM ServerErrorsAreUnforeseen == Spec => []RefusalsAreExplained
<1>1. IInv => RefusalsAreExplained
  BY DEF IInv, RefusalsAreExplained, NotComparable
<1>. QED  BY <1>1, Invariance, PTL
-----------------------------------------------------------------------------
(* A welcome request is not turned away.                                   *)

\* A sound request of an allowed page, or of no page, with a valid key where one
\* is asked for, all keys being ASCII, and without If-Match: Welcome, before any
\* step or after.
Invited ==
  /\ req.origin = Here \/ Allowed(req.origin)
  /\ req.body = "sound" /\ req.ifmatch = "none"
  /\ conf.auth => req.credential \in conf.keys /\ conf.keys \subseteq Ascii

\* Neither its preflight bars it, nor does what comes before the handler answer.
NotTurnedAway ==
  Invited => /\ stage # "barred"
             /\ stage = "answered" => answer.cause \notin {"key", "TypeError", "invalid", "If-Match"}

\* Only a page's request is announced.
PagesAsk == stage = "asking" => req.origin # Here

LEMMA StepAsks == PagesAsk /\ [Next]_vars => PagesAsk'
BY DEF PagesAsk, Next, Preflight, Serve, ReadBody, CurrentPrincipal, Validate, Handle, Answer,
       vars

LEMMA StepLetsIn == IInv /\ PagesAsk /\ NotTurnedAway /\ [Next]_vars => NotTurnedAway'
<1>. SUFFICES ASSUME IInv, PagesAsk, NotTurnedAway, [Next]_vars, Invited'
              PROVE  /\ stage' # "barred"
                     /\ stage' = "answered" => answer'.cause \notin {"key", "TypeError", "invalid", "If-Match"}
  BY DEF NotTurnedAway
<1>1. UNCHANGED <<conf, req>>
  BY DEF Next, Preflight, Serve, ReadBody, CurrentPrincipal, Validate, Handle, vars
<1>2. Invited
  BY <1>1 DEF Invited, Allowed
<1>3. CASE Preflight
  <2>1. Allowed(req.origin)
    BY <1>2, <1>3 DEF Invited, PagesAsk, Preflight
  <2>2. Headers(req) \subseteq AllowedHeaders
    BY <1>2 DEF Invited, Headers, AllowedHeaders
  <2>. QED  BY <1>3, <2>1, <2>2 DEF Preflight
<1>4. CASE ReadBody
  BY <1>2, <1>4 DEF ReadBody, Invited
<1>5. CASE CurrentPrincipal
  BY <1>2, <1>5 DEF CurrentPrincipal, KeyHolds, ComparisonRaises, Invited
<1>6. CASE Validate
  BY <1>2, <1>6 DEF Validate, Invited
<1>7. CASE Handle
  <2>1. PICK s, c : Answer(s, c) /\ c \in {"none"} \cup Routes[req.route].raises
    BY <1>2, <1>7 DEF Handle, Invited
  <2>2. c \in {"none", "Unexpected"} \cup Raised
    BY <2>1, RequestType, RaisedType DEF IInv
  <2>. QED  BY <2>1, <2>2 DEF Answer, Raised
<1>8. CASE UNCHANGED vars
  BY <1>2, <1>8 DEF vars, NotTurnedAway
<1>. QED  BY <1>3, <1>4, <1>5, <1>6, <1>7, <1>8 DEF Next, Serve

\* Whatever the settings, an invited request is answered by its handler or by
\* nobody: no preflight, no missing key and no validation is in its way.
THEOREM InvitedRequestsAreLetIn == Spec => []NotTurnedAway
<1>1. Init => PagesAsk /\ NotTurnedAway
  BY DEF Init, Announced, PagesAsk, NotTurnedAway
<1>. QED  BY <1>1, Initially, StepKeepsIInv, StepAsks, StepLetsIn, PTL DEF Spec
=============================================================================
