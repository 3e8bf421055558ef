------------------------------- MODULE Routes -------------------------------
(***************************************************************************)
(* What a request is answered with: the C backend behind its two HTTP      *)
(* servers (backend.c, user_routes.c, peer_routes.c, cors.c,               *)
(* static_routes.c, static_sites.c, api_error.c, http_common.c) and the    *)
(* reference backend (server/app.ts, userRoutes.ts, peerRoutes.ts,         *)
(* staticRoutes.ts, corsPlugin of main.ts).                                *)
(*                                                                         *)
(* A path is a sequence of byte runs, SLASH among them; a request carries  *)
(* what the code looks at.  Elysia, its cors plugin and h2o are external.  *)
(***************************************************************************)
EXTENDS FieldRules, FiniteSets, TLC

CONSTANTS
    Sites,      \* records: base, index, and files, the sequence a build sorts
    FieldRule   \* the rule of each field

SLASH == 0
NOBODY == [none |-> TRUE]
NOTHING == <<>>
kFields == <<"firstName", "lastName", "email">>

\* Routes as backend_run registers them.
HEALTH == <<SLASH, 7>>
CREATE == <<SLASH, 8, SLASH, 9>>
BOOTSTRAP == <<SLASH, 5, SLASH, 6>>

\* An answer that may be left to somebody else.
Or(answer, other) == IF answer # NOBODY THEN answer ELSE other

IsUnder(path, base) == IsPrefix(base, path) /\ (Len(path) = Len(base) \/ path[Len(base) + 1] = SLASH)

-----------------------------------------------------------------------------
(* Answers.                                                                  *)

\* kErrors of api_error.c.
ErrorEntry(name) ==
    CASE name = "VALIDATION_FAILED" -> [code |-> 2003, status |-> 400]
      [] name = "ROUTE_NOT_IMPLEMENTED" -> [code |-> 3008, status |-> 501]
      [] name = "SERVICE_BUSY" -> [code |-> 3009, status |-> 503]
      [] name = "PEER_NETWORK_UNAVAILABLE" -> [code |-> 3010, status |-> 503]
      [] OTHER -> [code |-> 3001, status |-> 500]

\* ERROR_STATUS and ErrorCode of packages/shared/src/errors.
errorStatus == ("VALIDATION_FAILED" :> 400) @@ ("UNKNOWN" :> 500) @@ ("SERVICE_BUSY" :> 503)
               @@ ("ROUTE_NOT_IMPLEMENTED" :> 501) @@ ("PEER_NETWORK_UNAVAILABLE" :> 503)
ErrorCode == ("VALIDATION_FAILED" :> 2003) @@ ("UNKNOWN" :> 3001) @@ ("SERVICE_BUSY" :> 3009)
             @@ ("ROUTE_NOT_IMPLEMENTED" :> 3008) @@ ("PEER_NETWORK_UNAVAILABLE" :> 3010)

\* An answer: its status, what its body is, and the headers a client acts on.
Answer(status, body, headers) == [status |-> status, body |-> body, headers |-> headers]

\* reply of api_error.c.
Failed(name, detail) ==
    Answer(ErrorEntry(name).status, <<ErrorEntry(name).code, detail>>, {})
Busy == [Failed("SERVICE_BUSY", "") EXCEPT !.headers = {<<"retry-after">>}]

sc_http_status_omits_body(status) == status \in {204, 304}

\* begin_reply of http_h2o.c, respond of http_fallback.c: a status that has no body sends none.
Framed(answer) ==
    IF sc_http_status_omits_body(answer.status) THEN [answer EXCEPT !.body = <<>>] ELSE answer

\* errorBody, under the status the handler sets.
Error(name, detail) == Answer(errorStatus[name], <<ErrorCode[name], detail>>, {})

-----------------------------------------------------------------------------
(* Who may call from a browser.                                              *)

Hosts == {"localhost", "127.0.0.1", "[::1]"}

\* Nothing, or a colon and digits.
PortOrNothing(rest) ==
    \/ rest = <<>>
    \/ rest[1] = ":" /\ Len(rest) >= 2 /\ \A d \in 2..Len(rest) : rest[d] = "digit"

is_loopback_origin(origin) ==
    /\ origin[1] \in {"https://", "http://"} /\ Len(origin) > 1
    /\ origin[2] \in Hosts
    /\ PortOrNothing(SubSeq(origin, 3, Len(origin)))

\* LOOPBACK_ORIGIN: scheme, host, and perhaps a port, from the first character to the last.
LOOPBACK_ORIGIN ==
    {<<s, h>> \o p : s \in {"http://", "https://"}, h \in Hosts,
                     p \in {<<>>} \cup {<<":">> \o [i \in 1..n |-> "digit"] : n \in 1..2}}

\* backend_cors: the headers every answer carries; a preflight is answered here.
backend_cors(req) ==
    LET origin == IF req.origin # NOTHING /\ (req.development \/ is_loopback_origin(req.origin))
                  THEN {<<"allow-origin", req.origin>>}
                  ELSE IF req.origin = NOTHING /\ req.development THEN {<<"allow-origin", "*">>}
                  ELSE {}
        common == {<<"allow-credentials">>, <<"vary", IF req.development THEN "*" ELSE "origin">>,
                   <<"allow-methods">>} \cup origin
    IN  IF req.method # "OPTIONS" THEN [answered |-> FALSE, headers |-> common]
        ELSE [answered |-> TRUE,
              headers |-> common \cup {<<"max-age">>}
                          \cup (IF req.asks # NOTHING THEN {<<"allow-headers", req.asks>>} ELSE {})]

\* corsPlugin, with what @elysiajs/cors makes of it.
corsPlugin(req) ==
    LET reflected == req.development \/ req.origin \in LOOPBACK_ORIGIN
        origin == IF ~reflected THEN {}
                  ELSE IF req.origin = NOTHING THEN {<<"allow-origin", "*">>}
                  ELSE {<<"allow-origin", req.origin>>}
        common == {<<"allow-credentials">>, <<"vary", IF req.development THEN "*" ELSE "origin">>,
                   <<"allow-methods">>} \cup origin
    IN  IF req.method # "OPTIONS" THEN common
        ELSE common \cup {<<"max-age">>}
             \cup (IF req.asks # NOTHING THEN {<<"allow-headers", req.asks>>} ELSE {})

-----------------------------------------------------------------------------
(* Pages.                                                                    *)

\* memcmp over the shorter of the two, then the lengths.
Before(a, b) ==
    \/ \E i \in DOMAIN a \cap DOMAIN b : a[i] < b[i] /\ \A j \in 1..(i - 1) : a[j] = b[j]
    \/ Len(a) < Len(b) /\ IsPrefix(a, b)

\* backend_static_site_for: the longest base that the path is at or under.
backend_static_site_for(path) ==
    LET claims == {s \in Sites : IsUnder(path, s.base)}
    IN  IF claims = {} THEN NOBODY
        ELSE CHOOSE s \in claims : \A o \in claims : Len(o.base) <= Len(s.base)

\* Mutant: the file before the middle is never looked at.
NarrowedShort(low, middle, high, before) ==
    IF before THEN [low |-> middle + 1, high |-> high] ELSE [low |-> low, high |-> middle - 1]

\* One turn of the search: [low, high) without the middle.
Narrowed(low, middle, high, before) ==
    IF before THEN [low |-> middle + 1, high |-> high] ELSE [low |-> low, high |-> middle]

\* backend_static_file_find: a binary search, as indices from 0.
RECURSIVE SearchFile(_, _, _, _)
SearchFile(files, path, low, high) ==
    LET middle == low + (high - low) \div 2
        file == files[middle + 1]
        next == Narrowed(low, middle, high, Before(file.path, path))
    IN  IF low >= high THEN NOBODY
        ELSE IF file.path = path THEN file
        ELSE SearchFile(files, path, next.low, next.high)

backend_static_file_find(site, path) == SearchFile(site.files, path, 0, Len(site.files))

\* send_file.
send_file(req, file) ==
    LET headers == {<<"cache-control", file.immutable>>, <<"etag", file.etag>>}
    IN  IF req.if_none_match = file.etag THEN Answer(304, <<>>, headers)
        ELSE Answer(200, <<file.path>>, headers)

\* backend_static_serve, and NOBODY where it hands the request back.
backend_static_serve(req) ==
    LET site == backend_static_site_for(req.path)
        below == SubSeq(req.path, Len(site.base) + 1, Len(req.path))
        names == {i \in DOMAIN below : below[i] # SLASH}
        relative == IF names = {} THEN <<>> ELSE SubSeq(below, Min(names), Len(below))
        file == backend_static_file_find(site, relative)
    IN  IF req.method # "GET" \/ site = NOBODY THEN NOBODY
        ELSE IF relative = <<>> THEN send_file(req, site.index)
        ELSE IF file # NOBODY THEN send_file(req, file)
        ELSE IF ~req.wants_html THEN NOBODY ELSE send_file(req, site.index)

backend_route_not_implemented(req) == Failed("ROUTE_NOT_IMPLEMENTED", req.path)

backend_route_default(req) ==
    Or(backend_static_serve(req), backend_route_not_implemented(req))

\* send of staticRoutes.ts.
send(req, file) ==
    LET headers == {<<"cache-control", file.immutable>>, <<"etag", file.etag>>}
    IN  Answer(IF req.if_none_match = file.etag THEN 304 ELSE 200,
               IF req.if_none_match = file.etag THEN <<>> ELSE <<file.path>>, headers)

\* respond of staticRoutes.ts: a file, the app for a browser, or NotFoundError.
respondSite(site, req, relative) ==
    LET found == {f \in Range(site.files) : f.path = relative}
    IN  IF found # {} THEN send(req, CHOOSE f \in found : TRUE)
        ELSE IF ~req.wants_html THEN NOBODY ELSE send(req, site.index)

\* siteRoutes: a site's own path, and everything under it; the router takes the longer one.
siteRoutes(req) ==
    LET here == {s \in Sites : IsUnder(req.path, s.base)}
        site == CHOOSE s \in here : \A o \in here : Len(o.base) <= Len(s.base)
    IN  IF req.method # "GET" \/ here = {} THEN NOBODY
        ELSE IF req.path \in {site.base, site.base \o <<SLASH>>} THEN send(req, site.index)
        ELSE respondSite(site, req, SubSeq(req.path, Len(site.base) + 2, Len(req.path)))

-----------------------------------------------------------------------------
(* POST /user/create.                                                        *)

\* What valibot's _stringify names a value that is no string, found by asking for each type in
\* turn; the digits of a number are left out.
render_member(member) == member.type

\* What is said of one field, or "none".
FieldRefusal(key, member) ==
    IF member.type = "absent" THEN <<"Invalid key", key>>
    ELSE IF member.type # "string" THEN <<"Expected string", render_member(member)>>
    ELSE LET Said(refusal) == IF refusal = "none" THEN NOTHING ELSE <<refusal>>
         IN  Said(apply_field_rule(FieldRule[key], Utf8(member.text)).refusal)

\* registration_done: what the unit's end is answered with.
registration_done(outcome) ==
    CASE outcome = "queue full" -> Busy
      [] outcome \in {"failed", "unavailable"} -> Failed("UNKNOWN", "")
      [] OTHER -> Answer(204, <<>>, {})

\* backend_user_create: the order of the fields decides which failure a client is told about.
backend_user_create(req) ==
    LET body == req.body
        refusals == [i \in 1..3 |-> FieldRefusal(kFields[i], body.members[kFields[i]])]
        Held(said) ==
            LET refused == {i \in 1..3 : said[i] # NOTHING}
            IN  IF refused = {} THEN registration_done(req.outcome)
                ELSE Failed("VALIDATION_FAILED", <<kFields[Min(refused)], said[Min(refused)]>>)
    IN  CASE req.method # "POST" -> backend_route_not_implemented(req)
          [] req.method = "POST" /\ body.type = "none" ->
               Failed("VALIDATION_FAILED", <<"body", <<"Expected Object", "undefined">>>>)
          [] req.method = "POST" /\ body.type = "not JSON" -> Failed("UNKNOWN", "")
          [] req.method = "POST" /\ body.type = "array" ->
               Failed("VALIDATION_FAILED", <<kFields[1], <<"Invalid key", kFields[1]>>>>)
          [] req.method = "POST" /\ body.type = "scalar" ->
               Failed("VALIDATION_FAILED", <<"body", <<"Expected Object", "scalar">>>>)
          [] req.method = "POST" /\ body.type = "object" -> Held(refusals)

\* userCreateRequestSchema: the issues valibot collects, entry by entry.
Issues(body) ==
    LET Of(key, member) ==
            IF member.type = "absent" THEN <<<<key, <<"Invalid key", key>>>>>>
            ELSE IF member.type # "string" THEN <<<<key, <<"Expected string", member.type>>>>>>
            ELSE LET said == Schema(FieldRule[key], member.text).issues
                 IN  [i \in DOMAIN said |-> <<key, <<said[i]>>>>]
        Absent == [key \in Range(kFields) |-> [type |-> "absent"]]
        members == IF body.type = "object" THEN body.members ELSE Absent
    IN  IF body.type = "none" THEN <<<<"body", <<"Expected Object", "undefined">>>>>>
        ELSE IF body.type = "scalar" THEN <<<<"body", <<"Expected Object", "scalar">>>>>>
        ELSE FlattenSeq([i \in 1..3 |-> Of(kFields[i], members[kFields[i]])])

\* validationDetail: the first issue is the one that is told.
validationDetail(issues) == issues[1]

\* onError of createBackendApp.
onError(code, detail) ==
    CASE code = "VALIDATION" -> Error("VALIDATION_FAILED", detail)
      [] code = "NOT_FOUND" -> Error("ROUTE_NOT_IMPLEMENTED", detail)
      [] code = "DatabaseBusy" ->
           [Error("SERVICE_BUSY", "") EXCEPT !.headers = {<<"retry-after">>}]
      [] OTHER -> Error("UNKNOWN", "")

\* userRoutes.
userRoutes(req) ==
    IF req.body.type = "not JSON" THEN onError("PARSE", "")
    ELSE LET Held(issues) ==
                 CASE issues # <<>> -> onError("VALIDATION", validationDetail(issues))
                   [] issues = <<>> /\ req.outcome = "queue full" -> onError("DatabaseBusy", "")
                   [] issues = <<>> /\ req.outcome \in {"failed", "unavailable"} ->
                        onError("UNKNOWN", "")
                   [] OTHER -> Answer(204, <<>>, {})
         IN  Held(Issues(req.body))

-----------------------------------------------------------------------------
(* GET /peer/bootstrap, GET /health.                                         *)

backend_peer_bootstrap(req) ==
    CASE req.method # "GET" -> backend_route_not_implemented(req)
      [] req.method = "GET" /\ req.node = "running" -> Answer(200, <<"peers">>, {})
      [] req.method = "GET" /\ req.node = "none" -> Failed("PEER_NETWORK_UNAVAILABLE", "")
      [] req.method = "GET" /\ req.node = "failing" -> Failed("UNKNOWN", "")

\* peerRoutes.
peerRoutes(req) ==
    CASE req.node = "running" -> Answer(200, <<"peers">>, {})
      [] req.node = "none" -> Error("PEER_NETWORK_UNAVAILABLE", "")
      [] req.node = "failing" -> onError("UNKNOWN", "")

sc_http_health(req) == IF req.method # "GET" THEN NOBODY ELSE Answer(200, <<"ok">>, {})

-----------------------------------------------------------------------------
(* The two servers and the reference.                                        *)

Handler(path, req) ==
    CASE path = HEALTH -> sc_http_health(req)
      [] path = CREATE -> backend_user_create(req)
      [] path = BOOTSTRAP -> backend_peer_bootstrap(req)

NotFound == Answer(404, <<>>, {})
With(answer, headers) == Framed([answer EXCEPT !.headers = @ \cup headers])

\* route_request of http_fallback.c: the hook, the route of this path, the default.
route_request(req) ==
    LET hook == backend_cors(req)
        handled == IF req.path \in {HEALTH, CREATE, BOOTSTRAP} THEN Handler(req.path, req)
                   ELSE NOBODY
    IN  IF hook.answered THEN With(Answer(204, <<>>, {}), hook.headers)
        ELSE With(Or(handled, backend_route_default(req)), hook.headers)

\* on_request of http_h2o.c, in the path h2o bound the request to.
on_request(req) ==
    LET hook == backend_cors(req)
        handled == IF req.path \in {HEALTH, CREATE, BOOTSTRAP} THEN Handler(req.path, req)
                   ELSE backend_route_default(req)
    IN  IF hook.answered THEN With(Answer(204, <<>>, {}), hook.headers)
        ELSE With(Or(handled, NotFound), hook.headers)

\* createBackendApp with its plugins, as Elysia routes: a path of a method, a site, NOT_FOUND.
createBackendApp(req) ==
    LET routed == CASE req.path = CREATE /\ req.method = "POST" -> userRoutes(req)
                    [] req.path = BOOTSTRAP /\ req.method = "GET" -> peerRoutes(req)
                    [] OTHER -> Or(siteRoutes(req), onError("NOT_FOUND", req.path))
    IN  IF req.method = "OPTIONS" THEN [Answer(204, <<>>, {}) EXCEPT !.headers = corsPlugin(req)]
        ELSE [routed EXCEPT !.headers = @ \cup corsPlugin(req)]

-----------------------------------------------------------------------------

\* A client cannot tell which implementation answered: status, error code, the field and the rule
\* it names, the page and its validators, and who may read it from a browser are the same.  Two
\* cases are apart in the code: /health exists on the fast path only, and a browser that navigates
\* to a route of another method gets the app from the reference and 501 from the fast path.
AnswersAlike(req) ==
    \/ req.path = HEALTH
    \/ req.path = CREATE /\ req.method = "GET" /\ req.wants_html
    \/ createBackendApp(req) = route_request(req)

\* Whichever HTTP server was built in answers alike, but for a route that passes a request on
\* (http_fallback.c offers it to the default, h2o does not): only /health does.
ServersAlike(req) ==
    (req.path = HEALTH => req.method \in {"GET", "OPTIONS"}) => on_request(req) = route_request(req)
=============================================================================
