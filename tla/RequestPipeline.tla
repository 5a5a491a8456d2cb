--------------------------- MODULE RequestPipeline ---------------------------
(***************************************************************************)
(* One admitted request on its way through the middleware of create_app(): *)
(* each layer either passes control inwards, rewriting the scope, or       *)
(* answers; an answer collects the header fields of the wrappers outside   *)
(* the layer that sent it.  Between two awaits the stack runs without       *)
(* interruption, so the deadline, a broken send and a failing handler are  *)
(* met only where the code awaits: in the handler and while sending.       *)
(*                                                                         *)
(* A header is [name, value, hosts, size]; `hosts' is the parsed           *)
(* X-Forwarded-For chain, "bad" standing for what ip_address() refuses.    *)
(* The headers of a scope keep the positions that the server gave them.    *)
(* A path is a route family and a spelling: the declared path ("exact"),   *)
(* another case or slash ("alias"), or a longer path under it ("below").   *)
(***************************************************************************)
EXTENDS Integers, FiniteSets, SequencesExt

CONSTANTS Requests,       \* the requests considered
          Trusted,        \* TRUST_PROXY: hosts inside a trusted network
          Exposed,        \* the enabled ones of "docs", "info", "metrics"
          AllowedMethods, \* HTTP_ALLOWED_METHODS
          CorsMethods,    \* CORS_METHODS
          MaxCount, MaxSingle, MaxTotal,  \* header budgets
          MaxBody         \* HTTP_MAX_BODY_BYTES

ASSUME BudgetAssumption ==
    /\ {MaxCount, MaxSingle, MaxTotal, MaxBody} \subseteq Nat \ {0}
    /\ MaxSingle =< MaxTotal
ASSUME MethodsAssumption == CorsMethods \subseteq AllowedMethods
ASSUME RequestsAssumption ==
    \A r \in Requests :
        /\ r.peer # "nobody"
        /\ r.headers \in Seq(ToSet(r.headers)) /\ r.chunks \in Seq(Nat)
        /\ \A h \in ToSet(r.headers) :
            /\ h.hosts \in Seq(ToSet(h.hosts)) /\ "nobody" \notin ToSet(h.hosts)
            /\ h.name = "x-forwarded-for" => h.hosts # <<>>

VARIABLES request,     \* the request as the server delivered it
          at,          \* the layer about to run, or where control waits
          scope,       \* what the layers rewrite: headers, client, scheme
          cors,        \* scope[_RESPONSE_HEADERS]: "unset" or the fields
          context,     \* RequestContext: the bound client, or "unbound"
          charged,     \* identity whose quota admit() took, or "nobody"
          verdict,     \* of the rate limiter
          routed,      \* the router has set scope["route"]
          total,       \* body bytes limited_receive has counted
          unread,      \* chunks the handler has not asked for
          given,       \* history: body bytes the handler was given
          response,    \* the reply being sent: status, layer and fields
          accepted,    \* RequestObservation.status; 0 is None
          finished,    \* history: the server accepted the final body message
          left,        \* history: the reader has seen the peer leave
          outcome,     \* RequestObservation.result
          subscribers, \* RequestObservation.subscribers
          records      \* what the subscribers were told, in order

vars == <<request, at, scope, cors, context, charged, verdict, routed, total,
          unread, given, response, accepted, finished, left, outcome,
          subscribers, records>>

Layers == <<"proxy", "context", "logging", "metrics", "security", "rate",
            "sanitize", "limits", "timeout", "content", "method", "cors",
            "body", "error", "exposure", "route", "handler">>
\* "starting" and "sending": the start, then the body, is with the server;
\* "joined": the response is over and run() awaits the handler's work.
Waits == {"starting", "sending", "joined", "unwind", "fallback", "gone"}
Index(l) == CHOOSE i \in DOMAIN Layers : Layers[i] = l
Inside(inner, outer) == Index(inner) > Index(outer)
\* The layers that run in the work task of the timeout layer.
Worked == {"content", "method", "cors", "body", "error", "exposure", "route", "handler"}

Forbidden == {"x-forwarded-for", "x-forwarded-proto", "forwarded",
              "transfer-encoding"}
Kept == {"origin", "content-type", "content-length", "idempotency-key",
         "access-control-request-method", "access-control-request-headers"}

Routes == [root |-> {"GET"}, health |-> {"GET"}, info |-> {"GET"},
           metrics |-> {"GET"}, docs |-> {"GET", "HEAD"},
           favicon |-> {"GET", "HEAD"}, items |-> {"GET", "POST"}]
Methods == {"GET", "POST", "HEAD", "OPTIONS"}

\* Values of the headers called n, in order.
Values(hs, n) == {hs[i].value : i \in {j \in DOMAIN hs : hs[j].name = n}}
Has(hs, n) == Values(hs, n) # {}
Bytes(hs) == MapThenSumSet(LAMBDA i : hs[i].size, DOMAIN hs)

TypeOK ==
    /\ at \in {Layers[i] : i \in DOMAIN Layers} \cup Waits
    /\ DOMAIN scope = {"headers", "client", "scheme"}
    /\ scope.scheme \in {"http", "https"}
    /\ cors \in {{"unset"}} \cup SUBSET {"vary", "allow-origin", "policy"}
    /\ verdict \in {"none", "exempt", "accepted", "rejected"}
    /\ routed \in BOOLEAN
    /\ total \in Nat
    /\ response.status \in 0..504 /\ accepted \in 0..504
    /\ finished \in BOOLEAN /\ left \in BOOLEAN
    /\ outcome \in {"none", "completed", "aborted"}
    /\ subscribers \subseteq {"logging", "metrics"}
    /\ Len(records) =< 2

Init ==
    /\ request \in Requests
    /\ at = "proxy"
    /\ scope = [headers |-> request.headers, client |-> request.peer,
                scheme |-> "http"]
    /\ cors = {"unset"} /\ context = "unbound"
    /\ charged = "nobody" /\ verdict = "none" /\ routed = FALSE
    /\ total = 0 /\ unread = request.chunks /\ given = 0
    /\ response = [status |-> 0, from |-> "none", fields |-> {}, remaining |-> 0]
    /\ accepted = 0 /\ finished = FALSE /\ left = FALSE
    /\ outcome = "none" /\ subscribers = {} /\ records = <<>>

-----------------------------------------------------------------------------
(* Answers.                                                                *)

\* SecurityHeadersMiddleware looks for the prefix in any case.
DocsPage == "docs" \in Exposed /\ request.family = "docs"

\* Fields appended by the wrapper of layer l.
Wrapper(l) ==
    CASE l = "context"  -> {"x-request-id"}
      [] l = "security" -> IF DocsPage THEN {} ELSE {"security"}
      [] l = "rate"     -> IF verdict = "accepted" THEN {"accepted"} ELSE {}
      [] l = "cors"     -> cors \ {"unset"}
      [] l = "body"     -> {"x-body-limit"}
      [] OTHER          -> {}

Fields(from) == UNION {Wrapper(l) : l \in {m \in {Layers[i] : i \in DOMAIN Layers} :
                                               Inside(from, m)}}

\* Variant: the reply goes out past the wrappers.
ReplyBare(from, status, own) ==
    /\ response' = [status |-> status, from |-> from, fields |-> own,
                    remaining |-> Max({MaxBody - total, 0})]
    /\ at' = "starting"

\* http_exception_handler and its response, sent from inside layer `from'
\* when `read' bytes of the body were counted.
Respond(from, status, own, read) ==
    /\ response' = [status |-> status, from |-> from,
                    fields |-> own \cup Fields(from),
                    remaining |-> Max({MaxBody - read, 0})]
    /\ at' = "starting"

Reply(from, status, own) == Respond(from, status, own, total)

Pass(l) == at' = Layers[Index(l) + 1] /\ UNCHANGED response

\* The layer answers with `status' when it refuses, and passes otherwise.
Gate(l, refuses, status) ==
    /\ at = l
    /\ IF refuses THEN Reply(l, status, {}) ELSE Pass(l)

route == <<routed, total, unread, given>>
sent == <<accepted, finished, left>>
told == <<outcome, records>>
observed == <<sent, told, subscribers>>
limiter == <<charged, verdict>>

-----------------------------------------------------------------------------
(* TrustedProxyASGIMiddleware.                                             *)

\* Variant: the leftmost address is believed.
ForwardedClientLeft(hosts) == hosts[1]

\* The rightmost host that is not trusted, or the leftmost one.
ForwardedClient(hosts) ==
    LET strangers == {i \in DOMAIN hosts : hosts[i] \notin Trusted}
    IN  hosts[IF strangers = {} THEN 1 ELSE Max(strangers)]

OverBudget(hs) ==
    \/ Cardinality(DOMAIN hs) > MaxCount
    \/ Bytes(hs) > MaxTotal
    \/ \E i \in DOMAIN hs : hs[i].size > MaxSingle

Forwarding(hs) == {i \in DOMAIN hs :
                       hs[i].name \in {"x-forwarded-for", "x-forwarded-proto"}}

\* apply_forwarding returns early, and leaves the headers, on anything else.
Usable(hs) ==
    /\ \A i, j \in Forwarding(hs) : hs[i].name = hs[j].name => i = j
    /\ \A i \in Forwarding(hs) :
        /\ hs[i].value \notin {"nonascii", "crlf", "control"}
        /\ IF hs[i].name = "x-forwarded-for"
             THEN \A k \in DOMAIN hs[i].hosts : hs[i].hosts[k] # "bad"
             ELSE hs[i].value \in {"http", "https"}

Consumes ==
    /\ scope.client \in Trusted
    /\ ~OverBudget(scope.headers)
    /\ Usable(scope.headers)

TrustedProxy ==
    /\ at = "proxy"
    /\ Pass("proxy")
    /\ scope' = IF Consumes THEN
                  LET hs == scope.headers
                      for == {i \in Forwarding(hs) : hs[i].name = "x-forwarded-for"}
                      proto == Values(hs, "x-forwarded-proto")
                  IN  [headers |-> Restrict(hs, DOMAIN hs \ Forwarding(hs)),
                       client |-> IF for = {} THEN scope.client
                                  ELSE ForwardedClient(hs[CHOOSE i \in for : TRUE].hosts),
                       scheme |-> IF proto = {} THEN scope.scheme
                                  ELSE CHOOSE p \in proto : TRUE]
                ELSE scope
    /\ UNCHANGED <<request, cors, context, limiter, route, observed>>

-----------------------------------------------------------------------------
(* Context, logging, metrics, security headers.                            *)

\* scope["client"] is None without a peer: None[0] raises, and the error
\* leaves through cleanup to Starlette's fallback.
Context ==
    /\ at = "context"
    /\ IF scope.client = "none"
         THEN at' = "fallback" /\ UNCHANGED <<response, context>>
         ELSE Pass("context") /\ context' = scope.client
    /\ UNCHANGED <<request, scope, cors, limiter, route, observed>>

\* ServerErrorMiddleware around the whole stack: no wrapper is left.
Fallback ==
    /\ at = "fallback"
    /\ response' = [status |-> 500, from |-> "fallback", fields |-> {},
                    remaining |-> MaxBody]
    /\ at' = "starting"
    /\ context' = "unbound"
    /\ UNCHANGED <<request, scope, cors, limiter, route, observed>>

Logging ==
    /\ at = "logging"
    /\ Pass("logging")
    /\ subscribers' = subscribers \cup {"logging"}
    /\ UNCHANGED <<request, scope, cors, context, limiter, route, sent, told>>

\* The excluded paths are compared as they are written.
Excluded == request.family \in {"health", "info", "metrics"}
            /\ request.spelling = "exact"

Metrics ==
    /\ at = "metrics"
    /\ Pass("metrics")
    /\ subscribers' = IF Excluded THEN subscribers ELSE subscribers \cup {"metrics"}
    /\ UNCHANGED <<request, scope, cors, context, limiter, route, sent, told>>

Security ==
    /\ at = "security"
    /\ Pass("security")
    /\ UNCHANGED <<request, scope, cors, context, limiter, route, observed>>

-----------------------------------------------------------------------------
(* RateLimitASGIMiddleware; RateLimiter itself is any limiter here.        *)

Exempt == /\ request.family = "favicon" /\ request.spelling # "below"
          /\ request.method \in {"GET", "HEAD"}

\* get_client_ip.
Identity == IF scope.client = "none" THEN "unknown" ELSE scope.client

RateExempt ==
    /\ at = "rate" /\ Exempt
    /\ Pass("rate")
    /\ verdict' = "exempt"
    /\ UNCHANGED <<request, scope, cors, context, charged, route, observed>>

RateAccept ==
    /\ at = "rate" /\ ~Exempt
    /\ Pass("rate")
    /\ verdict' = "accepted" /\ charged' = Identity
    /\ UNCHANGED <<request, scope, cors, context, route, observed>>

RateReject(status) ==
    /\ at = "rate" /\ ~Exempt
    /\ Reply("rate", status, {"rejected", "retry-after"})
    /\ verdict' = "rejected"
    /\ UNCHANGED <<request, scope, cors, context, charged, route, observed>>

-----------------------------------------------------------------------------
(* Header, content and method policy.                                      *)

\* Variant: duplicates are let through.
DirtyButOnce(hs) ==
    \E i \in DOMAIN hs :
        \/ hs[i].value \in {"nonascii", "crlf"}
        \/ hs[i].name \in Forbidden \cup {"bad_name"}

\* HeaderSanitizationASGIMiddleware._run raises 400 at the first of these.
Dirty(hs) ==
    \E i \in DOMAIN hs :
        \/ hs[i].value \in {"nonascii", "crlf"}
        \/ hs[i].name \in Forbidden \cup {"bad_name"}
        \/ \E j \in DOMAIN hs : j < i /\ hs[j].name = hs[i].name

Sanitize ==
    /\ Gate("sanitize", Dirty(scope.headers), 400)
    /\ scope' = IF Dirty(scope.headers) THEN scope
                ELSE [scope EXCEPT !.headers =
                          Restrict(@, {i \in DOMAIN @ : @[i].name \in Kept})]
    /\ UNCHANGED <<request, cors, context, limiter, route, observed>>

HeaderLimit ==
    /\ Gate("limits", OverBudget(scope.headers) \/ Has(scope.headers, "transfer-encoding"),
            IF OverBudget(scope.headers) THEN 431 ELSE 501)
    /\ UNCHANGED <<request, scope, cors, context, limiter, route, observed>>

\* run() starts the deadline and the work task; see RequestDeadline.
Timeout ==
    /\ Gate("timeout", FALSE, 408)
    /\ UNCHANGED <<request, scope, cors, context, limiter, route, observed>>

WrongType(hs) ==
    IF request.method = "POST" THEN Values(hs, "content-type") # {"json"}
    ELSE request.method \in Methods /\ Has(hs, "content-type")

ContentType ==
    /\ Gate("content", WrongType(scope.headers), 415)
    /\ UNCHANGED <<request, scope, cors, context, limiter, route, observed>>

MethodCheck ==
    /\ Gate("method", request.method \notin AllowedMethods, 405)
    /\ UNCHANGED <<request, scope, cors, context, limiter, route, observed>>

-----------------------------------------------------------------------------
(* CustomCORSASGIMiddleware.  An empty Origin counts as none.              *)

Origin == Values(scope.headers, "origin") \ {"empty"}
Preflight == request.method = "OPTIONS" /\ Origin # {}
             /\ Has(scope.headers, "access-control-request-method")

\* The fields set before a refusal: none for an unknown origin.
Permission == IF Origin = {"known"} THEN {"allow-origin"} ELSE {}

CorsRefuses ==
    \/ ~(Origin \subseteq {"known"})
    \/ /\ Preflight
       /\ \/ ~(Values(scope.headers, "access-control-request-method") \subseteq CorsMethods)
          \/ ~(Values(scope.headers, "access-control-request-headers") \subseteq {"allowed"})

Cors ==
    /\ at = "cors"
    /\ cors' = {"vary"} \cup Permission \cup (IF CorsRefuses THEN {} ELSE {"policy"})
    /\ IF CorsRefuses \/ request.method = "OPTIONS"
         THEN Reply("cors", IF CorsRefuses THEN 403 ELSE 204, cors')
         ELSE Pass("cors")
    /\ UNCHANGED <<request, scope, context, limiter, route, observed>>

-----------------------------------------------------------------------------
(* Body limit, error boundary, exposure, routing.                          *)

\* An unparsable, negative or too large Content-Length.
BodyLimit ==
    /\ Gate("body", ~(Values(scope.headers, "content-length") \subseteq {"fits"}), 413)
    /\ UNCHANGED <<request, scope, cors, context, limiter, route, observed>>

\* RequestErrorASGIMiddleware tracks the start; HandlerRaises uses it.
ErrorBoundary ==
    /\ Gate("error", FALSE, 500)
    /\ UNCHANGED <<request, scope, cors, context, limiter, route, observed>>

Hidden == request.family \in {"docs", "info", "metrics"} \ Exposed

Exposure ==
    /\ Gate("exposure", Hidden, 404)
    /\ UNCHANGED <<request, scope, cors, context, limiter, route, observed>>

\* create_router leaves the hidden families out; FlexibleRoute takes any
\* case, either slash, and HEAD through GET.
Matches == request.family \in DOMAIN Routes /\ ~Hidden /\ request.spelling # "below"
Serves == \/ request.method \in Routes[request.family]
          \/ request.method = "HEAD" /\ "GET" \in Routes[request.family]

Route ==
    /\ Gate("route", ~Matches \/ ~Serves, IF Matches THEN 405 ELSE 404)
    /\ routed' = Matches
    /\ UNCHANGED <<request, scope, cors, context, limiter, total, unread, given,
                   observed>>

-----------------------------------------------------------------------------
(* The handler.  A route with a body reads all of it before it answers.    *)

Reads == request.method = "POST"

\* Variant: bytes are counted after they were handed over.
TooLongLate == total > MaxBody
TooLong == total + Head(unread) > MaxBody

\* limited_receive: the 413 is raised into the handler and rendered by the
\* router, inside every wrapper.
ReadChunk ==
    /\ at = "handler" /\ Reads /\ unread # <<>>
    /\ IF TooLong
         THEN Respond("handler", 413, {}, total + Head(unread)) /\ UNCHANGED <<unread, given>>
         ELSE /\ unread' = Tail(unread) /\ given' = given + Head(unread)
              /\ UNCHANGED <<at, response>>
    /\ total' = total + Head(unread)
    /\ UNCHANGED <<request, scope, cors, context, limiter, routed, observed>>

HandlerResponds ==
    /\ at = "handler" /\ (Reads => unread = <<>>)
    /\ Reply("handler", 200, {})
    /\ UNCHANGED <<request, scope, cors, context, limiter, route, observed>>

\* Before the start the error boundary answers, inside the header wrappers.
HandlerRaises ==
    /\ at = "handler"
    /\ Reply("error", 500, {})
    /\ UNCHANGED <<request, scope, cors, context, limiter, route, observed>>

\* Variant: the deadline's reply forgets the browser policy.
DeadlineFieldsPlain == {}

\* send_timeout reuses the CORS policy the request has reached.
DeadlineFields == cors \ {"unset"}


Deadline ==
    /\ at = "handler"
    /\ Reply("timeout", 408, DeadlineFields)
    /\ UNCHANGED <<request, scope, cors, context, limiter, route, observed>>

-----------------------------------------------------------------------------
(* RequestObservation.                                                     *)

Label == IF routed THEN request.family ELSE "<unmatched>"
MethodLabel == IF request.method \in Methods THEN request.method ELSE "<other>"

\* RequestLoggingASGIMiddleware's level; the metrics count by outcome.
Level(result, code) ==
    IF code >= 500 THEN "error"
    ELSE IF result = "aborted" \/ code >= 400 THEN "warning" ELSE "debug"

\* A RequestOutcome with this status, as subscriber `key' hears it.
Telling(key, result, code) ==
    [key |-> key, outcome |-> result, status |-> code, route |-> Label,
     method |-> MethodLabel, level |-> Level(result, code)]

\* Variant: the status of the reply that is being sent.
ToldAttempt(key, result) == Telling(key, result, response.status)

Told(key, result) == Telling(key, result, accepted)

\* Variant: a late result is delivered again.
SettleAgain(result) ==
    /\ outcome' = result
    /\ records' = records \o SetToSeq({Told(k, result) : k \in subscribers})
    /\ UNCHANGED subscribers

\* settle(): the first result stays and every callback hears it once.
Settle(result) ==
    /\ outcome' = IF outcome = "none" THEN result ELSE outcome
    /\ records' = IF outcome # "none" THEN records
                  ELSE records \o SetToSeq({Told(k, result) : k \in subscribers})
    /\ UNCHANGED subscribers

-----------------------------------------------------------------------------
(* Sending: send_observed around the server's channel.                     *)

Sending == at \in {"starting", "sending"}

\* After the final body message run() awaits the work, however long the
\* handler, its dependencies and its background tasks go on.
Ended == IF response.from = "handler" THEN "joined" ELSE "unwind"

\* response.start was accepted.
StartAccepted ==
    /\ at = "starting"
    /\ at' = "sending"
    /\ accepted' = response.status
    /\ UNCHANGED <<request, scope, cors, context, limiter, route, response, finished,
                   left, told, subscribers>>

\* The final body message was accepted.
SendEnds ==
    /\ at = "sending"
    /\ at' = Ended
    /\ finished' = TRUE
    /\ Settle("completed")
    /\ UNCHANGED <<request, scope, cors, context, limiter, route, response, accepted, left>>

\* send() raises OSError: the peer is gone.
SendBreaks ==
    /\ Sending
    /\ at' = "unwind"
    /\ Settle("aborted")
    /\ UNCHANGED <<request, scope, cors, context, limiter, route, response, sent>>

\* send() raises TimeoutError, or the handler fails after its start: the error
\* is raised to the server and only the outermost finally tells of it.
SendRaises ==
    /\ Sending
    /\ at' = "unwind"
    /\ UNCHANGED <<request, scope, cors, context, limiter, route, response, observed>>

\* The deadline of a response that was started, or is just being started.
StreamDeadline ==
    /\ Sending /\ response.from \in Worked
    /\ at' = "unwind"
    /\ Settle("aborted")
    /\ UNCHANGED <<request, scope, cors, context, limiter, route, response, sent>>

\* The reader sees the peer leave: run() gives the request up.  A message that
\* the server has in its hands may still count as accepted; with the final one
\* run() finds the response completed and joins the work.
Disconnect ==
    /\ at = "handler" \/ (Sending /\ response.from \in Worked)
    /\ left' = TRUE
    /\ Settle("aborted")
    /\ \E inflight \in BOOLEAN :
        /\ inflight => at # "handler"
        /\ accepted' = IF inflight THEN response.status ELSE accepted
        /\ finished' = (inflight /\ at = "sending")
        /\ at' = IF inflight /\ at = "sending" THEN Ended ELSE "unwind"
    /\ UNCHANGED <<request, scope, cors, context, limiter, route, response>>

\* The peer leaves while run() sends its own 408: that goes on.
LateDisconnect ==
    /\ Sending /\ response.from = "timeout"
    /\ left' = TRUE
    /\ Settle("aborted")
    /\ UNCHANGED <<request, at, scope, cors, context, limiter, route, response, accepted,
                   finished>>

\* The work that outlived its response returns, or raises to the server.
WorkEnds ==
    /\ at = "joined"
    /\ at' = "unwind"
    /\ UNCHANGED <<request, scope, cors, context, limiter, route, response, observed>>

\* RequestCleanupASGIMiddleware, then the finally of the outermost layer.
Unwind ==
    /\ at = "unwind"
    /\ at' = "gone"
    /\ context' = "unbound"
    /\ Settle("aborted")
    /\ UNCHANGED <<request, scope, cors, limiter, route, response, sent>>

-----------------------------------------------------------------------------
\* What runs without the handler's or the peer's help.
Stack ==
    \/ TrustedProxy \/ Context \/ Fallback \/ Logging \/ Metrics \/ Security
    \/ RateExempt \/ RateAccept \/ (\E status \in {429, 503} : RateReject(status))
    \/ Sanitize \/ HeaderLimit \/ Timeout \/ ContentType \/ MethodCheck \/ Cors
    \/ BodyLimit \/ ErrorBoundary \/ Exposure \/ Route \/ Unwind

Next ==
    \/ Stack
    \/ ReadChunk \/ HandlerResponds \/ HandlerRaises \/ Deadline
    \/ StartAccepted \/ SendEnds \/ SendBreaks \/ SendRaises \/ StreamDeadline
    \/ Disconnect \/ LateDisconnect \/ WorkEnds

Spec == Init /\ [][Next]_vars

\* A short reply of the stack itself is accepted by the server or fails.
OwnReply == response.from \notin Worked /\ (StartAccepted \/ SendEnds \/ SendBreaks)

\* The stack runs from await to await, the deadline's timer fires, and the
\* server takes or refuses the replies no deadline is set for; nothing is
\* assumed of the handler, nor of the sending of what it streams.
FairSpec == Spec /\ WF_vars(Stack) /\ WF_vars(Deadline) /\ WF_vars(StreamDeadline)
                 /\ WF_vars(OwnReply)

-----------------------------------------------------------------------------
(* Properties.                                                             *)

\* The client the layers act on is the peer, or an address of the chain to
\* whose right every hop, the peer included, is a trusted proxy (trusted_proxy
\* apply_forwarding).  Context and limiter use that same identity.
IdentityIsEarned ==
    /\ scope.client # request.peer =>
        /\ request.peer \in Trusted
        /\ \E i \in DOMAIN request.headers :
            LET hosts == request.headers[i].hosts IN
            \E k \in DOMAIN hosts :
                /\ hosts[k] = scope.client
                /\ \A m \in DOMAIN hosts : m > k => hosts[m] \in Trusted
                /\ k > 1 => hosts[k] \notin Trusted
    /\ scope.scheme # "http" => request.peer \in Trusted
    /\ charged # "nobody" => charged = scope.client
    /\ context \in {"unbound", scope.client}

\* What the handler may rely on, whatever the peer sent: no forwarding or
\* duplicate header, every budget kept, an open route family, an allowed
\* method with the right content type, and quota paid unless it is the icon.
HandlerIsGuarded ==
    at = "handler" =>
        /\ \A i \in DOMAIN scope.headers : scope.headers[i].name \notin Forbidden
        /\ \A i, j \in DOMAIN scope.headers :
               scope.headers[i].name = scope.headers[j].name => i = j
        /\ ~OverBudget(scope.headers)
        /\ request.family \notin {"docs", "info", "metrics"} \ Exposed
        /\ request.method \in AllowedMethods
        /\ Reads => Values(request.headers, "content-type") = {"json"}
        /\ charged # "nobody" \/ request.family = "favicon"

\* A browser is given access only by a reply to a known origin whose request
\* passed the limiter and every header and method policy; refusals of those
\* layers, the limiter's included, carry no CORS field, and the late replies
\* (408, 413, 500) keep the permission the request had reached.
PermissionFollowsPolicy ==
    response.status # 0 =>
        /\ "allow-origin" \in response.fields =>
            /\ Values(request.headers, "origin") = {"known"}
            /\ verdict \in {"accepted", "exempt"}
            /\ ~Dirty(scope.headers) /\ ~OverBudget(scope.headers)
            /\ request.method \in AllowedMethods
        /\ response.status \in {400, 405, 415, 429, 431, 501, 503} /\ ~routed
             => response.fields \cap {"allow-origin", "policy", "vary"} = {}
        /\ response.status \in {200, 408, 500} /\ Origin = {"known"}
             /\ response.from # "fallback" => "allow-origin" \in response.fields

\* Every reply from inside the stack can be correlated and is hardened, and it
\* tells the limiter's verdict; only the icon goes without one.
ReplyIsWrapped ==
    response.status # 0 /\ response.from # "fallback" =>
        /\ "x-request-id" \in response.fields
        /\ "security" \in response.fields \/ request.family = "docs"
        /\ ("accepted" \in response.fields) = (verdict = "accepted")
        /\ ("rejected" \in response.fields) = (verdict = "rejected")
        /\ verdict = "exempt" => request.family = "favicon"

\* However the body is cut into chunks, the handler is never given more than
\* the limit, not even the chunk that crosses it, and a reply of the handler
\* advertises what it could still have read: nothing after a 413.
BodyStaysBounded ==
    /\ given =< MaxBody
    /\ response.from = "handler" =>
          response.remaining = IF response.status = 413 THEN 0 ELSE MaxBody - given

\* Once the observation is settled each subscriber was told exactly once and
\* all the same thing (settle, request_outcome).  Completed is told only of a
\* reply whose last message the server accepted, and with its status; a reply
\* that was cut, refused or given up is an abort, told with a status only if
\* its start was accepted, and never at debug level.  Both are late only when
\* the peer was seen to leave first.  A refusal before routing is labelled
\* <unmatched>.
RecordsAgree ==
    /\ at \in {"joined", "gone"} => outcome # "none"
    /\ finished /\ outcome # "completed" => left
    /\ outcome # "none" =>
        /\ {records[i].key : i \in DOMAIN records} = subscribers
        /\ Len(records) = Cardinality(subscribers)
        /\ \A i \in DOMAIN records :
            /\ records[i].outcome = outcome
            /\ outcome = "completed" =>
                   finished /\ records[i].status = response.status /\ response.status # 0
            /\ outcome = "aborted" => records[i].level # "debug"
            /\ records[i].status # accepted => left /\ records[i].status = 0
            /\ response.from \in {Layers[k] : k \in 1..Index("exposure")} \ {"error", "timeout"}
                 => records[i].route = "<unmatched>"

\* Whatever the handler does the subscribers are told, and the request is
\* released: the one place where it may stay is the join of a handler that
\* never returns although its response is over (request_timeout run()).
EveryRequestIsReleased ==
    <>[](/\ outcome # "none"
         /\ \/ at = "gone" /\ context = "unbound"
            \/ at = "joined" /\ finished)

\* A request reaches the handler only as the guards let it, under the identity
\* its peer has earned.
GuardsHold == TypeOK /\ IdentityIsEarned /\ HandlerIsGuarded /\ BodyStaysBounded

\* Whichever layer replies, the reply has the fields of the layers around it
\* and the permissions of the policies before it.
ReplyFollowsPolicy == PermissionFollowsPolicy /\ ReplyIsWrapped


=============================================================================
