------------------------------ MODULE HttpEdge ------------------------------
(***************************************************************************)
(* The way of one request into the API and of its answer back to the page  *)
(* that sent it: the browser's preflight, the CORS middleware, the body's  *)
(* parsing, the key, the handler, and what its exceptions become.          *)
(*                                                                         *)
(* main.py stacks, from the outside in: Starlette's ServerErrorMiddleware  *)
(* (500), CORSMiddleware if cors_origins is set, ExceptionMiddleware (the  *)
(* registered exceptions and HTTPException), the routers.  FastAPI parses  *)
(* a JSON body before it solves the dependencies, runs current_principal   *)
(* first among them, and reports invalid fields after it.                  *)
(***************************************************************************)
EXTENDS Naturals

CONSTANTS
  Pages,        \* the other origins a page can come from
  Keys,         \* the API keys a client may hold
  Ascii,        \* those of ASCII characters only
  Here,         \* the origin of a client that is no browser, or of the API itself
  Any,          \* "*" in cors_origins
  NoOne,        \* no principal, no header
  Anonymous     \* the principal when keys are not asked for

ASSUME OriginsAssumption == {Here, Any, NoOne} \cap Pages = {} /\ Any # NoOne
ASSUME KeysAssumption    == {NoOne, Anonymous} \cap Keys = {} /\ Ascii \subseteq Keys

VARIABLES
  conf,         \* the settings: cors_origins, auth_enabled and api_keys
  req,          \* the request
  stage,        \* how far it is
  principal,    \* whom the handler serves
  answer        \* what came back

vars == <<conf, req, stage, principal, answer>>

-----------------------------------------------------------------------------
(* What is served: the method, whether a JSON body is read, and the        *)
(* exceptions of this service the handler can raise.                       *)

Route(method, json, raises) == [method |-> method, json |-> json, raises |-> raises]

\* health; what FastAPI(...) adds itself; validate and catalog; projects; runs.
ProbeRoutes == [
  healthz         |-> Route("GET",   FALSE, {}),
  readyz          |-> Route("GET",   FALSE, {})]

DocsRoutes == [
  openapi         |-> Route("GET",   FALSE, {}),
  docs            |-> Route("GET",   FALSE, {}),
  oauth2_redirect |-> Route("GET",   FALSE, {}),
  redoc           |-> Route("GET",   FALSE, {})]

ToolRoutes == [
  catalog        |-> Route("GET",    FALSE, {}),
  validate       |-> Route("POST",   TRUE,  {})]

ProjectRoutes == [
  list_projects  |-> Route("GET",    FALSE, {"Unexpected"}),
  get_project    |-> Route("GET",    FALSE, {"NotFoundError", "Unexpected"}),
  create_project |-> Route("POST",   TRUE,  {"NotFoundError", "Unexpected"}),
  update_project |-> Route("PUT",    TRUE,
                       {"NotFoundError", "StaleProjectError", "Unexpected"}),
  delete_project |-> Route("DELETE", FALSE, {"NotFoundError", "Unexpected"})]

RunRoutes == [
  submit_run     |-> Route("POST",   TRUE,
                       {"NotFoundError", "ProjectInvalidError", "Unexpected"}),
  rename_run     |-> Route("PATCH",  TRUE,  {"NotFoundError", "Unexpected"}),
  cancel_run     |-> Route("POST",   FALSE, {"NotFoundError", "Unexpected"}),
  get_run        |-> Route("GET",    FALSE, {"NotFoundError", "Unexpected"}),
  list_runs      |-> Route("GET",    FALSE, {"Unexpected"}),
  delete_run     |-> Route("DELETE", FALSE, {"NotFoundError", "Unexpected"}),
  get_run_events |-> Route("GET",    FALSE, {"NotFoundError", "Unexpected"}),
  get_run_visits |-> Route("GET",    FALSE, {"NotFoundError", "RunNotReadyError",
                                             "RunAnalysisError", "Unexpected"}),
  get_run_summary |-> Route("GET",   FALSE, {"NotFoundError", "RunNotReadyError",
                                             "RunAnalysisError", "Unexpected"})]

Routes ==
  [r \in UNION {DOMAIN ProbeRoutes, DOMAIN DocsRoutes, DOMAIN ToolRoutes,
                DOMAIN ProjectRoutes, DOMAIN RunRoutes} |->
     IF r \in DOMAIN RunRoutes THEN RunRoutes[r]
     ELSE IF r \in DOMAIN ProjectRoutes THEN ProjectRoutes[r]
     ELSE IF r \in DOMAIN ToolRoutes THEN ToolRoutes[r]
     ELSE IF r \in DOMAIN DocsRoutes THEN DocsRoutes[r]
     ELSE ProbeRoutes[r]]

\* Mutant: validate is included as the probes are.
GuardedButValidate == DOMAIN ProjectRoutes \cup DOMAIN RunRoutes \cup {"catalog"}

\* The routers that are included with Depends(current_principal).
Guarded == DOMAIN ProjectRoutes \cup DOMAIN RunRoutes \cup DOMAIN ToolRoutes

\* @app.exception_handler, and FastAPI's own for HTTPException.
Registered ==
  [NotFoundError |-> 404, StaleProjectError |-> 412, InvalidProjectError |-> 422,
   ProjectInvalidError |-> 422, RunNotReadyError |-> 409, RunAnalysisError |-> 422]

StatusOf(e) == IF e \in DOMAIN Registered THEN Registered[e] ELSE 500

-----------------------------------------------------------------------------
(* A request.  Its credential is no header, one that is not a bearer's, or *)
(* a key; the If-Match of a save is none, a version, or no number.         *)

Credentials == {"none", "malformed"} \cup Keys

Requests ==
  {r \in [origin : {Here} \cup Pages, route : DOMAIN Routes, credential : Credentials,
          ifmatch : {"none", "version", "other"}, body : {"sound", "unparsable", "invalid"}] :
     /\ r.ifmatch # "none" => r.route = "update_project"
     /\ r.body = "unparsable" => Routes[r.route].json
     \* fields, path and query; only projects and runs have any that are
     \* checked: validate takes any JSON there is
     /\ r.body = "invalid" => r.route \in DOMAIN ProjectRoutes \cup DOMAIN RunRoutes}

Headers(r) == (IF r.credential = "none" THEN {} ELSE {"Authorization"})
              \cup (IF r.ifmatch = "none" THEN {} ELSE {"If-Match"})
              \cup (IF Routes[r.route].json THEN {"Content-Type"} ELSE {})

\* A page's request is announced unless a form could have sent it.
Announced(r) == r.origin # Here
                /\ (Routes[r.route].method \notin {"GET", "POST"} \/ Headers(r) # {})

\* allow_headers; Starlette always adds Content-Type and the languages.
AllowedHeaders == {"Authorization", "Content-Type"}

Allowed(origin) == Any \in conf.cors \/ origin \in conf.cors

\* What the middleware writes on every answer that passes through it.
AllowOriginOfAll(origin) == IF conf.cors = {} \/ origin = Here THEN NoOne ELSE Any
AllowOrigin(origin) ==
  CASE origin = Here \/ ~ Allowed(origin) -> NoOne
    [] Any \in conf.cors                  -> Any
    [] OTHER                              -> origin

\* Only ServerErrorMiddleware answers 500, outside of the CORS middleware.
Answer(status, cause) ==
  /\ stage' = "answered"
  /\ answer' = [status |-> status, cause |-> cause,
                header |-> IF status = 500 THEN NoOne ELSE AllowOrigin(req.origin)]

Readable == req.origin = Here \/ answer.header \in {Any, req.origin}

-----------------------------------------------------------------------------
NoAnswer == [status |-> 0, cause |-> "none", header |-> NoOne]

Confs == [cors : (SUBSET Pages) \cup {{Any}}, auth : BOOLEAN, keys : SUBSET Keys]

Init ==
  /\ conf \in Confs
  /\ req \in Requests
  /\ stage = IF Announced(req) THEN "asking" ELSE "sent"
  /\ principal = NoOne
  /\ answer = NoAnswer

\* OPTIONS with Access-Control-Request-*: the middleware answers it; without
\* one it reaches a router, which knows no such method.
PreflightWithKey ==
  /\ stage = "asking"
  /\ stage' = IF /\ Allowed(req.origin) /\ Headers(req) \subseteq AllowedHeaders
                 /\ ~ conf.auth
              THEN "sent" ELSE "barred"
  /\ UNCHANGED <<conf, req, principal, answer>>
Preflight ==
  /\ stage = "asking"
  /\ stage' = IF Allowed(req.origin) /\ Headers(req) \subseteq AllowedHeaders
              THEN "sent" ELSE "barred"
  /\ UNCHANGED <<conf, req, principal, answer>>

\* get_request_handler: request.json() before solve_dependencies.
ReadBody ==
  /\ stage = "sent"
  /\ IF req.body = "unparsable" THEN Answer(422, "invalid")
     ELSE stage' = "parsed" /\ UNCHANGED answer
  /\ UNCHANGED <<conf, req, principal>>

\* any(compare_digest(token, k) for k in api_keys) ends at the first key that
\* is equal; compare_digest raises at a token or a key that is not ASCII.
KeyHolds == req.credential \in conf.keys \cap Ascii
ComparisonRaises ==
  /\ req.credential \in Keys /\ conf.keys # {}
  /\ req.credential \notin Ascii \/ ~ (conf.keys \subseteq Ascii)

\* current_principal; the open routes have no such dependency.  A key that
\* holds may stand before or after one that is not ASCII in the list.
CurrentPrincipal ==
  /\ stage = "parsed"
  /\ LET asked == req.route \in Guarded /\ conf.auth IN
     \/ /\ asked => KeyHolds
        /\ stage' = "let in"
        /\ principal' = IF req.route \notin Guarded THEN NoOne
                        ELSE IF conf.auth THEN req.credential ELSE Anonymous
        /\ UNCHANGED answer
     \/ /\ asked /\ ~ KeyHolds /\ ~ ComparisonRaises
        /\ Answer(401, "key")
        /\ UNCHANGED principal
     \/ /\ asked /\ ComparisonRaises
        /\ Answer(500, "TypeError")
        /\ UNCHANGED principal
  /\ UNCHANGED <<conf, req>>

\* The models of the request: RunCreate, RunUpdate, ProjectSpec, Query(...).
Validate ==
  /\ stage = "let in"
  /\ IF req.body = "invalid" THEN Answer(422, "invalid")
     ELSE stage' = "handling" /\ UNCHANGED answer
  /\ UNCHANGED <<conf, req, principal>>

\* The handler returns, or raises what its service raised.  _version_from
\* runs before the service, and a save without If-Match is never stale.
Handle ==
  /\ stage = "handling"
  /\ IF req.ifmatch = "other" THEN Answer(400, "If-Match")
     ELSE \/ Answer(200, "none")
          \/ req.route = "readyz" /\ Answer(503, "none")
          \/ \E e \in Routes[req.route].raises :
               /\ e = "StaleProjectError" => req.ifmatch = "version"
               /\ Answer(StatusOf(e), e)
  /\ UNCHANGED <<conf, req, principal>>

Serve == ReadBody \/ CurrentPrincipal \/ Validate \/ Handle

Next == Preflight \/ Serve

Spec == Init /\ [][Next]_vars
\* The server goes on with what it has received, a browser with its preflight.
FairSpec == Spec /\ WF_vars(Next)

-----------------------------------------------------------------------------
(* Properties.                                                             *)

Principals == IF conf.auth THEN conf.keys ELSE {Anonymous}

\* Whatever is wrong with a request and whatever its origin, nothing that
\* concerns projects and runs is done for anybody but a principal, and if keys
\* are asked for that is one of them: without one there are only the probes
\* and the documentation that FastAPI serves (main.py:30, 45-49).
HandlersServePrincipals ==
  stage = "handling" /\ principal \notin Principals =>
    req.route \in {"healthz", "readyz", "openapi", "docs", "oauth2_redirect", "redoc"}

\* README: with auth_enabled, a key is required on every endpoint except /healthz
\* and /readyz; main.py: everything else requires a principal.
OnlyProbesAreOpen ==
  conf.auth /\ stage = "handling" /\ principal \notin conf.keys =>
    req.route \in {"healthz", "readyz"}

\* Whoever is turned away, refused or served can read why exactly if it is
\* not a page or is a page of an allowed origin (the CORS middleware wraps
\* the answers of the exception handlers too); a 500, which is written outside
\* of it, is the exception.
AnswersReachAllowedPages ==
  stage = "answered" /\ answer.status # 500 =>
    (Readable <=> (req.origin = Here \/ Allowed(req.origin)))

\* Each exception the services raise on purpose has its own answer; a server
\* error is an unforeseen one, or the comparison of keys that are not all ASCII.
RefusalsAreExplained ==
  stage = "answered" /\ answer.status = 500 =>
    \/ answer.cause = "Unexpected"
    \/ /\ answer.cause = "TypeError" /\ conf.auth
       /\ req.credential \notin Ascii \/ ~ (conf.keys \subseteq Ascii)

\* A sound request of an allowed page with a valid key, or none where none
\* is asked for, gets to its handler: neither its preflight, which browsers
\* send without the key, nor what follows gets in its way.  Saves with
\* If-Match are left out, see PagesCanSaveTheirVersion, and so are settings
\* with a key that is not ASCII, which is in the way of those after it.
Welcome ==
  /\ stage \in {"asking", "sent"}
  /\ req.origin = Here \/ Allowed(req.origin)
  /\ req.body = "sound" /\ req.ifmatch = "none"
  /\ conf.auth => req.credential \in conf.keys /\ conf.keys \subseteq Ascii
WelcomeRequestsAreHandled == Welcome ~> stage = "handling"

\* README: an allowed page sends the version it loaded as If-Match.
PagesCanSaveTheirVersion ==
  stage = "barred" => ~ (Allowed(req.origin) /\ req.route = "update_project"
                         /\ req.ifmatch = "version")
=============================================================================
