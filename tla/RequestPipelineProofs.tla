------------------------ MODULE RequestPipelineProofs ------------------------
(***************************************************************************)
(* The middleware stack, for any requests, proxies, budgets and exposure.  *)
(* The argument: a layer that is passed leaves its fact behind, because    *)
(* inside it nothing rewrites what it looked at; so the layer that is      *)
(* about to run says which facts hold, and a reply is judged when it is    *)
(* made, with the facts of the place it is made at.                        *)
(***************************************************************************)
EXTENDS RequestPipeline, FiniteSetTheorems, WellFoundedInduction, TLAPS

-----------------------------------------------------------------------------
(* The inductive invariant. *)

\* The layers inside another one, from the innermost outwards.
InsideExposure == {"route", "handler"}
InsideCors == {"body", "error", "exposure"} \cup InsideExposure
InsideMethod == {"cors"} \cup InsideCors
InsideContent == {"method"} \cup InsideMethod
InsideLimits == {"timeout", "content"} \cup InsideContent
InsideSanitize == {"limits"} \cup InsideLimits
InsideRate == {"sanitize"} \cup InsideSanitize
InsideContext == {"logging", "metrics", "security", "rate"} \cup InsideRate
Running == {"proxy", "context"} \cup InsideContext
\* The layers that reply before the router has run.
Refusing == Running \ {"error", "timeout", "route", "handler"}

\* What the passed layers have established for the layer about to run.
StageInv ==
    /\ at = "proxy" => scope = [headers |-> request.headers, client |-> request.peer,
                                scheme |-> "http"]
    /\ at \in InsideContext => scope.client # "none" /\ context = scope.client
    /\ at = "proxy" => context = "unbound"
    /\ at \in Running \ InsideRate => verdict = "none" /\ charged = "nobody"
    /\ at \in InsideRate => /\ verdict \in {"accepted", "exempt"}
                            /\ verdict = "accepted" => charged # "nobody"
                            /\ verdict = "exempt" => request.family = "favicon"
    /\ at \in InsideLimits => ~OverBudget(scope.headers)
    /\ at \in InsideContent => ~WrongType(scope.headers)
    /\ at \in InsideMethod => request.method \in AllowedMethods
    /\ at \in InsideExposure => ~Hidden
    /\ at \in Running \ {"handler"} => ~routed

\* The header fields a layer sees are those the server delivered: all of them
\* but the forwarding ones, and after sanitizing the kept ones, each once.
HeaderInv ==
    /\ DOMAIN scope.headers \subseteq DOMAIN request.headers
    /\ \A i \in DOMAIN scope.headers : scope.headers[i] = request.headers[i]
    /\ at \in Running => \A n \in Kept : Values(scope.headers, n) = Values(request.headers, n)
    /\ at \in InsideSanitize => ~Dirty(scope.headers)

\* The browser policy a request has reached.
CorsInv ==
    /\ at \in Running \ InsideCors => cors = {"unset"}
    /\ at \in InsideCors => cors = {"vary", "policy"} \cup Permission
    /\ at \in InsideCors => Origin \subseteq {"known"}

\* Nothing is sent before a layer replies, and the bytes counted are the bytes
\* given to the handler as long as it runs.
ReplyInv ==
    /\ at \in Running => response.status = 0 /\ response.from = "none" /\ total = given
    /\ at = "fallback" => response.status = 0 /\ response.from = "none"
    /\ unread \in Seq(Nat) /\ given \in Nat
    /\ response.from \in Refusing => ~routed

\* The status the subscribers were told: that of the accepted start, or none
\* when the peer left before it was accepted.
ToldStatus(code) ==
    /\ records = SetToSeq({Telling(k, outcome, code) : k \in subscribers})
    /\ code = accepted \/ (left /\ code = 0)
    /\ outcome = "completed" => code = accepted

\* What the server has accepted, where control is and what was observed.
SentInv ==
    /\ at \in Running \cup {"fallback"} => ~left /\ ~finished /\ accepted = 0
    /\ at \in {"starting", "sending"} =>
           response.status # 0 /\ ~finished /\ (~left => outcome = "none")
    /\ at = "starting" => accepted = 0
    /\ at = "sending" => accepted = response.status
    /\ at \in {"joined", "gone"} => outcome # "none"
    /\ finished => accepted = response.status /\ response.status # 0 /\ outcome # "none"
    /\ finished /\ outcome # "completed" => left
    /\ outcome = "completed" => finished
    /\ left => outcome # "none"

\* The subscribers are told once, what the observation then says.
RecordInv ==
    /\ SentInv
    /\ at \in Running \cup {"fallback"} => outcome = "none"
    /\ outcome = "none" => records = <<>>
    /\ outcome # "none" => \E code \in 0..504 : ToldStatus(code)

TypeInv ==
    /\ at \in Running \cup Waits
    /\ request \in Requests
    /\ DOMAIN scope = {"headers", "client", "scheme"}
    /\ scope.scheme \in {"http", "https"} /\ scope.client # "nobody"
    /\ cors \in {{"unset"}} \cup SUBSET {"vary", "allow-origin", "policy"}
    /\ verdict \in {"none", "exempt", "accepted", "rejected"}
    /\ routed \in BOOLEAN
    /\ total \in Nat
    /\ response.status \in 0..504 /\ accepted \in 0..504
    /\ finished \in BOOLEAN /\ left \in BOOLEAN
    /\ outcome \in {"none", "completed", "aborted"}
    /\ subscribers \subseteq {"logging", "metrics"}

Inv ==
    /\ TypeInv /\ StageInv /\ HeaderInv /\ CorsInv /\ ReplyInv /\ RecordInv
    /\ IdentityIsEarned /\ BodyStaysBounded
    /\ PermissionFollowsPolicy /\ ReplyIsWrapped

-----------------------------------------------------------------------------
(* The order of the layers. *)
Place(l, n) == Index(l) = n /\ Layers[n] = l

LEMMA Places ==
    /\ DOMAIN Layers = 1 .. 17
    /\ Place("proxy", 1) /\ Place("context", 2) /\ Place("logging", 3)
    /\ Place("metrics", 4) /\ Place("security", 5) /\ Place("rate", 6)
    /\ Place("sanitize", 7) /\ Place("limits", 8) /\ Place("timeout", 9)
    /\ Place("content", 10) /\ Place("method", 11) /\ Place("cors", 12)
    /\ Place("body", 13) /\ Place("error", 14) /\ Place("exposure", 15)
    /\ Place("route", 16) /\ Place("handler", 17)
  <1>1. DOMAIN Layers = 1 .. 17
    BY DEF Layers
  <1>2. /\ Layers[1] = "proxy" /\ Layers[2] = "context" /\ Layers[3] = "logging"
        /\ Layers[4] = "metrics" /\ Layers[5] = "security" /\ Layers[6] = "rate"
        /\ Layers[7] = "sanitize" /\ Layers[8] = "limits" /\ Layers[9] = "timeout"
        /\ Layers[10] = "content" /\ Layers[11] = "method" /\ Layers[12] = "cors"
        /\ Layers[13] = "body" /\ Layers[14] = "error" /\ Layers[15] = "exposure"
        /\ Layers[16] = "route" /\ Layers[17] = "handler"
    BY DEF Layers
  <1>3. \A i, j \in 1 .. 17 : Layers[i] = Layers[j] => i = j
    <2> SUFFICES ASSUME NEW i \in 1 .. 17, NEW j \in 1 .. 17, Layers[i] = Layers[j]
                 PROVE  i = j
      OBVIOUS
    <2>1. \/ i = 1 \/ i = 2 \/ i = 3 \/ i = 4 \/ i = 5 \/ i = 6 \/ i = 7 \/ i = 8
          \/ i = 9 \/ i = 10 \/ i = 11 \/ i = 12 \/ i = 13 \/ i = 14 \/ i = 15
          \/ i = 16 \/ i = 17
      OBVIOUS
    <2>2. \/ j = 1 \/ j = 2 \/ j = 3 \/ j = 4 \/ j = 5 \/ j = 6 \/ j = 7 \/ j = 8
          \/ j = 9 \/ j = 10 \/ j = 11 \/ j = 12 \/ j = 13 \/ j = 14 \/ j = 15
          \/ j = 16 \/ j = 17
      OBVIOUS
    <2> QED BY <1>2, <2>1, <2>2
  <1>4. ASSUME NEW n \in 1 .. 17, NEW l, Layers[n] = l
        PROVE  Place(l, n)
    BY <1>1, <1>3, <1>4 DEF Place, Index
  <1> QED BY <1>1, <1>2, <1>4

LEMMA LayerSet == {Layers[i] : i \in DOMAIN Layers} = Running
  <1>1. ASSUME NEW l \in Running PROVE \E i \in DOMAIN Layers : Layers[i] = l
    BY Places DEF Place, Running, InsideContext, InsideRate, InsideSanitize, InsideLimits,
                  InsideContent, InsideMethod, InsideCors, InsideExposure
  <1>2. ASSUME NEW i \in 1 .. 17 PROVE Layers[i] \in Running
    <2>1. \/ i = 1 \/ i = 2 \/ i = 3 \/ i = 4 \/ i = 5 \/ i = 6 \/ i = 7 \/ i = 8
          \/ i = 9 \/ i = 10 \/ i = 11 \/ i = 12 \/ i = 13 \/ i = 14 \/ i = 15
          \/ i = 16 \/ i = 17
      OBVIOUS
    <2> QED BY <2>1, Places
            DEF Place, Running, InsideContext, InsideRate, InsideSanitize, InsideLimits,
                InsideContent, InsideMethod, InsideCors, InsideExposure
  <1> QED BY <1>1, <1>2, Places

\* Pass hands control to the next layer.
LEMMA Passes ==
    /\ Pass("proxy") => at' = "context"
    /\ Pass("context") => at' = "logging"
    /\ Pass("logging") => at' = "metrics"
    /\ Pass("metrics") => at' = "security"
    /\ Pass("security") => at' = "rate"
    /\ Pass("rate") => at' = "sanitize"
    /\ Pass("sanitize") => at' = "limits"
    /\ Pass("limits") => at' = "timeout"
    /\ Pass("timeout") => at' = "content"
    /\ Pass("content") => at' = "method"
    /\ Pass("method") => at' = "cors"
    /\ Pass("cors") => at' = "body"
    /\ Pass("body") => at' = "error"
    /\ Pass("error") => at' = "exposure"
    /\ Pass("exposure") => at' = "route"
    /\ Pass("route") => at' = "handler"
  BY Places DEF Place, Pass

-----------------------------------------------------------------------------
(* What the operators of the model say. *)

\* A reply carries what the wrappers outside the replying layer append.
LEMMA FieldSet ==
    ASSUME NEW from \in Running \ {"proxy", "context", "logging", "metrics", "security"},
           cors \in {{"unset"}} \cup SUBSET {"vary", "allow-origin", "policy"}
    PROVE  /\ "x-request-id" \in Fields(from)
           /\ "security" \in Fields(from) \/ request.family = "docs"
           /\ "accepted" \in Fields(from) <=> verdict = "accepted" /\ from # "rate"
           /\ "rejected" \notin Fields(from)
           /\ from \in InsideCors => \A x \in {"vary", "allow-origin", "policy"} :
                                         x \in Fields(from) <=> x \in cors
           /\ from \notin InsideCors => Fields(from) \cap {"vary", "allow-origin", "policy"} = {}
  <1> DEFINE outside == {m \in Running : Inside(from, m)}
  <1>1. \A x : x \in Fields(from) <=> \E m \in outside : x \in Wrapper(m)
    BY LayerSet DEF Fields
  <1>2. "context" \in outside /\ "security" \in outside
    BY Places DEF Place, Inside, Running, InsideContext, InsideRate, InsideSanitize,
                  InsideLimits, InsideContent, InsideMethod, InsideCors, InsideExposure
  <1>3. "rate" \in outside <=> from # "rate"
    BY Places DEF Place, Inside, Running, InsideContext, InsideRate, InsideSanitize,
                  InsideLimits, InsideContent, InsideMethod, InsideCors, InsideExposure
  <1>4. "cors" \in outside <=> from \in InsideCors
    BY Places DEF Place, Inside, Running, InsideContext, InsideRate, InsideSanitize,
                  InsideLimits, InsideContent, InsideMethod, InsideCors, InsideExposure
  <1>5. ASSUME NEW m, NEW x \in Wrapper(m),
               x \in {"x-request-id", "security", "accepted", "rejected", "vary",
                      "allow-origin", "policy"}
        PROVE  \/ m = "context" /\ x = "x-request-id"
               \/ m = "security" /\ x = "security"
               \/ m = "rate" /\ x = "accepted" /\ verdict = "accepted"
               \/ m = "cors" /\ x \in cors /\ x \in {"vary", "allow-origin", "policy"}
    BY <1>5 DEF Wrapper
  <1>6. "x-request-id" \in Fields(from)
    BY <1>1, <1>2 DEF Wrapper
  <1>7. "security" \in Fields(from) \/ request.family = "docs"
    <2>1. ~DocsPage => "security" \in Wrapper("security")
      BY DEF Wrapper
    <2> QED BY <1>1, <1>2, <2>1 DEF DocsPage
  <1>8. "accepted" \in Fields(from) <=> verdict = "accepted" /\ from # "rate"
    <2>1. verdict = "accepted" => "accepted" \in Wrapper("rate")
      BY DEF Wrapper
    <2> QED BY <1>1, <1>3, <1>5, <2>1
  <1>9. "rejected" \notin Fields(from)
    BY <1>1, <1>5
  <1>10. ASSUME NEW x \in {"vary", "allow-origin", "policy"}
         PROVE  x \in Fields(from) <=> from \in InsideCors /\ x \in cors
    <2>1. x \in cors => x \in Wrapper("cors")
      BY DEF Wrapper
    <2>2. x \in Fields(from) => from \in InsideCors /\ x \in cors
      BY <1>1, <1>4, <1>5
    <2> QED BY <1>1, <1>4, <2>1, <2>2
  <1> HIDE DEF outside
  <1> QED BY <1>6, <1>7, <1>8, <1>9, <1>10

\* Once sanitized, a header name has one value.
LEMMA CleanMeansOnce ==
    ASSUME NEW hs, DOMAIN hs \subseteq Nat, ~Dirty(hs)
    PROVE  /\ \A i \in DOMAIN hs : hs[i].name \notin Forbidden
           /\ \A i, j \in DOMAIN hs : hs[i].name = hs[j].name => i = j
           /\ \A n : \A v, w \in Values(hs, n) : v = w
  <1>1. \A i \in DOMAIN hs : hs[i].name \notin Forbidden
    BY DEF Dirty
  <1>2. \A i, j \in DOMAIN hs : hs[i].name = hs[j].name => ~(j < i)
    BY DEF Dirty
  <1>3. \A i, j \in DOMAIN hs : hs[i].name = hs[j].name => i = j
    BY <1>2
  <1>4. ASSUME NEW n, NEW v \in Values(hs, n), NEW w \in Values(hs, n)
        PROVE  v = w
    <2>1. PICK i \in DOMAIN hs : hs[i].name = n /\ v = hs[i].value
      BY DEF Values
    <2>2. PICK j \in DOMAIN hs : hs[j].name = n /\ w = hs[j].value
      BY DEF Values
    <2> QED BY <1>3, <2>1, <2>2
  <1> QED BY <1>1, <1>3, <1>4

\* Only the names of the dropped headers lose a value.
LEMMA KeptValues ==
    ASSUME NEW hs, NEW S \in SUBSET DOMAIN hs, NEW n,
           \A i \in DOMAIN hs : hs[i].name = n => i \in S
    PROVE  Values(Restrict(hs, S), n) = Values(hs, n)
  <1> DEFINE kept == Restrict(hs, S)
  <1>1. DOMAIN kept = S /\ \A i \in S : kept[i] = hs[i]
    BY DEF Restrict
  <1>2. \A j : j \in DOMAIN kept /\ kept[j].name = n <=> j \in DOMAIN hs /\ hs[j].name = n
    BY <1>1
  <1>3. \A v : v \in Values(kept, n) <=> \E j \in DOMAIN kept : kept[j].name = n /\ v = kept[j].value
    BY DEF Values
  <1>4. \A v : v \in Values(hs, n) <=> \E j \in DOMAIN hs : hs[j].name = n /\ v = hs[j].value
    BY DEF Values
  <1> HIDE DEF kept
  <1>5. \A v : v \in Values(kept, n) <=> v \in Values(hs, n)
    BY <1>1, <1>2, <1>3, <1>4
  <1> QED BY <1>5 DEF kept

LEMMA RestrictIsPart ==
    ASSUME NEW hs, NEW S \in SUBSET DOMAIN hs
    PROVE  DOMAIN Restrict(hs, S) = S /\ \A i \in S : Restrict(hs, S)[i] = hs[i]
  BY DEF Restrict

\* The operators that read the request or the scope.
LEMMA SameReading ==
    ASSUME UNCHANGED <<request, scope>>
    PROVE  /\ Origin' = Origin /\ Permission' = Permission /\ Hidden' = Hidden
           /\ Dirty(scope.headers)' = Dirty(scope.headers)
           /\ OverBudget(scope.headers)' = OverBudget(scope.headers)
           /\ WrongType(scope.headers)' = WrongType(scope.headers)
  <1>1. Origin' = Origin
    BY DEF Origin, Values
  <1>2. Permission' = Permission
    BY <1>1 DEF Permission
  <1>3. Hidden' = Hidden
    BY DEF Hidden
  <1>4. Dirty(scope.headers)' = Dirty(scope.headers)
    BY DEF Dirty
  <1>5. OverBudget(scope.headers)' = OverBudget(scope.headers)
    BY DEF OverBudget
  <1>6. WrongType(scope.headers)' = WrongType(scope.headers)
    BY DEF WrongType
  <1> QED BY <1>1, <1>2, <1>3, <1>4, <1>5, <1>6

\* A finite set is told in some order, each member once.
LEMMA Listed ==
    ASSUME NEW S, IsFiniteSet(S)
    PROVE  /\ Cardinality(S) \in Nat
           /\ SetToSeq(S) \in Seq(S) /\ Len(SetToSeq(S)) = Cardinality(S)
           /\ \A x \in S : \E i \in DOMAIN SetToSeq(S) : SetToSeq(S)[i] = x
  <1> DEFINE n == Cardinality(S)
             f == SetToSeq(S)
  <1>1. n \in Nat /\ ExistsBijection(1 .. n, S)
    BY FS_CardinalityType
  <1>2. \E g \in [1 .. n -> S] : IsInjective(g)
    BY <1>1 DEF ExistsBijection, Bijection, Injection
  <1>3. f \in [1 .. n -> S] /\ IsInjective(f)
    BY <1>2 DEF SetToSeq
  <1>4. f \in Injection(1 .. n, S)
    BY <1>3 DEF Injection
  <1>5. Cardinality(1 .. n) = n
    BY <1>1, FS_Interval
  <1>6. f \in Surjection(1 .. n, S)
    BY <1>4, <1>5, FS_Injection
  <1>7. f \in Seq(S) /\ Len(f) = n
    BY <1>1, <1>3
  <1> HIDE DEF n, f
  <1> QED BY <1>1, <1>3, <1>6, <1>7 DEF n, f, Surjection

-----------------------------------------------------------------------------
(* The initial state, and the frames of the three kinds of step. *)

LEMMA HeadersAreIndexed ==
    ASSUME NEW r \in Requests PROVE DOMAIN r.headers \subseteq Nat
  BY RequestsAssumption

LEMMA Initial == Init => Inv
  <1> SUFFICES ASSUME Init PROVE Inv
    OBVIOUS
  <1> USE DEF Running, InsideContext, InsideRate, InsideSanitize, InsideLimits,
              InsideContent, InsideMethod, InsideCors, InsideExposure, Refusing
  <1>1. TypeInv
    <2>1. request \in Requests /\ request.peer # "nobody"
      BY RequestsAssumption DEF Init
    <2>2. /\ response.status = 0 /\ routed \in BOOLEAN /\ accepted = 0
          /\ finished \in BOOLEAN /\ left \in BOOLEAN
      BY DEF Init
    <2>3. /\ DOMAIN scope = {"headers", "client", "scheme"}
          /\ scope.scheme = "http" /\ scope.client # "nobody"
      BY <2>1 DEF Init
    <2> QED BY <2>1, <2>2, <2>3 DEF Init, TypeInv
  <1>2. StageInv
    BY DEF Init, StageInv
  <1>3. HeaderInv
    BY DEF Init, HeaderInv
  <1>4. CorsInv
    BY DEF Init, CorsInv
  <1>5. ReplyInv
    BY RequestsAssumption DEF Init, ReplyInv
  <1>6. RecordInv
    BY DEF Init, RecordInv, SentInv
  <1>7. IdentityIsEarned
    BY DEF Init, IdentityIsEarned
  <1>8. BodyStaysBounded
    BY BudgetAssumption DEF Init, BodyStaysBounded
  <1>9. PermissionFollowsPolicy /\ ReplyIsWrapped
    BY DEF Init, PermissionFollowsPolicy, ReplyIsWrapped
  <1> QED BY <1>1, <1>2, <1>3, <1>4, <1>5, <1>6, <1>7, <1>8, <1>9 DEF Inv

\* The identity outlives whatever leaves the scope and the limiter alone.
LEMMA SameIdentity ==
    ASSUME IdentityIsEarned, UNCHANGED <<request, scope, charged>>,
           context' \in {"unbound", context}
    PROVE  IdentityIsEarned'
  BY DEF IdentityIsEarned

\* No judgement of a reply before there is one.
LEMMA NoReplyYet ==
    ASSUME response.status = 0, response.from = "none", UNCHANGED response, given' =< MaxBody
    PROVE  PermissionFollowsPolicy' /\ ReplyIsWrapped' /\ BodyStaysBounded'
  BY DEF PermissionFollowsPolicy, ReplyIsWrapped, BodyStaysBounded

\* Nothing is told before a layer replies.
LEMMA NothingTold ==
    ASSUME Inv, at \in Running \cup {"fallback"}, at' \in Running \cup {"fallback"},
           UNCHANGED <<sent, told>>
    PROVE  RecordInv'
  <1>1. at' \notin {"starting", "sending", "joined", "gone"}
    BY DEF Running, InsideContext, InsideRate, InsideSanitize, InsideLimits,
           InsideContent, InsideMethod, InsideCors, InsideExposure
  <1>2. ~left' /\ ~finished' /\ accepted' = 0 /\ outcome' = "none" /\ records' = <<>>
    BY DEF Inv, RecordInv, SentInv, sent, told
  <1> QED BY <1>1, <1>2 DEF RecordInv, SentInv

\* A layer passes control on and does not touch the scope.
LEMMA PassFrame ==
    ASSUME Inv, at \in Running, at' \in Running, StageInv', routed' \in BOOLEAN,
           UNCHANGED <<request, scope, cors, context, total, unread, given, response,
                       sent, told>>,
           charged' \in {charged, scope.client},
           verdict' \in {"none", "exempt", "accepted", "rejected"},
           subscribers' \subseteq {"logging", "metrics"},
           at' \in InsideSanitize <=> at \in InsideSanitize,
           at' \in InsideCors <=> at \in InsideCors
    PROVE  Inv'
  <1>a. at \in Running => at \notin Waits /\ "none" \notin Running
    BY DEF Running, InsideContext, InsideRate, InsideSanitize, InsideLimits,
           InsideContent, InsideMethod, InsideCors, InsideExposure, Waits
  <1>b. at' \notin {"gone", "fallback"}
    BY DEF Running, InsideContext, InsideRate, InsideSanitize, InsideLimits,
           InsideContent, InsideMethod, InsideCors, InsideExposure
  <1>1. TypeInv' /\ ReplyInv'
    <2>1. TypeInv'
      BY DEF Inv, TypeInv, sent, told
    <2>2. ReplyInv'
      BY <1>a, <1>b DEF Inv, ReplyInv, Refusing
    <2> QED BY <2>1, <2>2
  <1>2. HeaderInv'
    BY DEF Inv, HeaderInv, Values, Dirty
  <1>3. CorsInv'
    BY SameReading DEF Inv, CorsInv
  <1>4. RecordInv'
    BY NothingTold
  <1>5. IdentityIsEarned'
    BY DEF Inv, IdentityIsEarned
  <1>6. PermissionFollowsPolicy' /\ ReplyIsWrapped' /\ BodyStaysBounded'
    BY NoReplyYet DEF Inv, ReplyInv, BodyStaysBounded
  <1> QED BY <1>1, <1>2, <1>3, <1>4, <1>5, <1>6 DEF Inv

\* A reply is sent: what remains to be judged is the reply.
LEMMA ReplyFrame ==
    ASSUME Inv, at \in Running \cup {"fallback"}, at' = "starting",
           UNCHANGED <<request, scope, charged, unread, given, observed>>,
           context' \in {"unbound", context},
           cors' \in {{"unset"}} \cup SUBSET {"vary", "allow-origin", "policy"},
           verdict' \in {"none", "exempt", "accepted", "rejected"},
           routed' \in BOOLEAN, total' \in Nat, response'.status \in 1..504,
           response'.from \in Refusing => ~routed',
           PermissionFollowsPolicy', ReplyIsWrapped', BodyStaysBounded'
    PROVE  Inv'
  <1> USE DEF Running, InsideContext, InsideRate, InsideSanitize, InsideLimits,
              InsideContent, InsideMethod, InsideCors, InsideExposure, Waits
  <1>1. TypeInv'
    BY DEF Inv, TypeInv, observed, sent, told
  <1>2. StageInv' /\ CorsInv'
    BY DEF StageInv, CorsInv
  <1>3. HeaderInv'
    BY DEF Inv, HeaderInv
  <1>4. ReplyInv'
    BY DEF Inv, ReplyInv
  <1>5. RecordInv'
    <2>1. ~left' /\ ~finished' /\ accepted' = 0 /\ outcome' = "none" /\ records' = <<>>
      BY DEF Inv, RecordInv, SentInv, observed, sent, told
    <2>2. response'.status # 0 /\ at' \notin Running \cup {"fallback", "sending", "joined", "gone"}
      OBVIOUS
    <2> QED BY <2>1, <2>2 DEF RecordInv, SentInv
  <1>6. IdentityIsEarned'
    BY SameIdentity DEF Inv
  <1> QED BY <1>1, <1>2, <1>3, <1>4, <1>5, <1>6 DEF Inv

\* After the reply, or instead of one, only the observation and the context move.
LEMMA WaitFrame ==
    ASSUME Inv, at' \in Waits, at' = "fallback" => at \in Running,
           UNCHANGED <<request, scope, cors, limiter, route, response, subscribers>>,
           context' \in {"unbound", context},
           accepted' \in {accepted, response.status}, finished' \in BOOLEAN, left' \in BOOLEAN,
           outcome' \in {"none", "completed", "aborted"}, RecordInv'
    PROVE  Inv'
  <1> USE DEF Running, InsideContext, InsideRate, InsideSanitize, InsideLimits,
              InsideContent, InsideMethod, InsideCors, InsideExposure, Waits
  <1>1. TypeInv'
    BY DEF Inv, TypeInv, limiter, route
  <1>2. StageInv' /\ CorsInv'
    BY DEF StageInv, CorsInv
  <1>3. HeaderInv'
    BY DEF Inv, HeaderInv
  <1>4. ReplyInv'
    BY DEF Inv, ReplyInv, route
  <1>5. IdentityIsEarned'
    BY SameIdentity DEF Inv, limiter
  <1>6. BodyStaysBounded'
    BY DEF Inv, BodyStaysBounded, route
  <1>7. ReplyIsWrapped'
    BY DEF Inv, ReplyIsWrapped, limiter
  <1>8. PermissionFollowsPolicy'
    BY SameReading DEF Inv, PermissionFollowsPolicy, limiter, route, Values
  <1> QED BY <1>1, <1>2, <1>3, <1>4, <1>5, <1>6, <1>7, <1>8 DEF Inv

-----------------------------------------------------------------------------
(* The ends of a request. *)

\* What there is to tell two subscribers at most.
LEMMA FiniteNews ==
    ASSUME NEW S \in SUBSET {"logging", "metrics"}, NEW o, NEW code
    PROVE  LET news == {Telling(k, o, code) : k \in S} IN
           /\ IsFiniteSet(S) /\ IsFiniteSet(news)
           /\ Cardinality(news) = Cardinality(S) /\ Cardinality(S) =< 2
  <1> DEFINE news == {Telling(k, o, code) : k \in S}
             tell == [k \in S |-> Telling(k, o, code)]
  <1>1. IsFiniteSet({"logging", "metrics"}) /\ Cardinality({"logging", "metrics"}) = 2
    <2>1. IsFiniteSet({"logging"}) /\ Cardinality({"logging"}) = 1
      BY FS_Singleton
    <2>2. IsFiniteSet({"logging"} \cup {"metrics"}) /\ Cardinality({"logging"} \cup {"metrics"}) = 2
      BY <2>1, FS_AddElement
    <2>3. {"logging"} \cup {"metrics"} = {"logging", "metrics"}
      OBVIOUS
    <2> QED BY <2>2, <2>3
  <1>2. IsFiniteSet(S) /\ Cardinality(S) =< 2
    BY <1>1, FS_Subset
  <1>3. tell \in [S -> news]
    OBVIOUS
  <1>4. \A k, l \in S : tell[k] = tell[l] => k = l
    <2>1. \A k \in S : tell[k].key = k
      BY DEF Telling
    <2> QED BY <2>1
  <1>5. \A x \in news : \E k \in S : tell[k] = x
    OBVIOUS
  <1>6. tell \in Bijection(S, news)
    BY <1>3, <1>4, <1>5 DEF Bijection, Injection, Surjection, IsInjective
  <1> HIDE DEF tell, news
  <1>7. ExistsBijection(S, news)
    BY <1>6 DEF ExistsBijection
  <1>8. IsFiniteSet(news) /\ Cardinality(news) = Cardinality(S)
    BY <1>2, <1>7, FS_Bijection
  <1> QED BY <1>2, <1>8 DEF news

\* What the records hold does not depend on what was sent since.
LEMMA SameTelling ==
    ASSUME UNCHANGED <<request, routed>>, NEW k, NEW o, NEW code
    PROVE  Telling(k, o, code)' = Telling(k, o, code)
  BY DEF Telling, Label, MethodLabel, Level

\* settle() when nothing was told: what there is to tell now is what was told.
LEMMA FirstSettle ==
    ASSUME Inv, outcome = "none", NEW result \in {"completed", "aborted"}, Settle(result),
           UNCHANGED <<request, routed>>,
           accepted' = accepted \/ (left' /\ accepted = 0 /\ result = "aborted")
    PROVE  /\ outcome' = result /\ UNCHANGED subscribers
           /\ \E code \in 0..504 : ToldStatus(code)'
  <1> DEFINE news == {Telling(k, result, accepted) : k \in subscribers}
  <1>1. outcome' = result /\ UNCHANGED subscribers
    BY DEF Settle
  <1>2. IsFiniteSet(news)
    BY FiniteNews DEF Inv, TypeInv
  <1>3. records' = <<>> \o SetToSeq(news)
    BY DEF Settle, Inv, RecordInv, Told
  <1>4. SetToSeq(news) \in Seq(news)
    BY <1>2, Listed
  <1>5. <<>> \o SetToSeq(news) = SetToSeq(news)
    <2> HIDE DEF news
    <2> QED BY <1>4
  <1>6. \A code : {Telling(k, outcome, code)' : k \in subscribers'}
                     = {Telling(k, outcome', code) : k \in subscribers}
    <2>1. \A k, code : Telling(k, outcome, code)' = Telling(k, outcome', code)
      BY DEF Telling, Label, MethodLabel, Level
    <2> QED BY <1>1, <2>1
  <1>7. news = {Telling(k, outcome', accepted) : k \in subscribers}
    BY <1>1
  <1> HIDE DEF news
  <1>8. \A code : ToldStatus(code)' <=>
            /\ records' = SetToSeq({Telling(k, outcome', code) : k \in subscribers})
            /\ code = accepted' \/ (left' /\ code = 0)
            /\ outcome' = "completed" => code = accepted'
    BY <1>6 DEF ToldStatus
  <1>9. /\ records' = SetToSeq({Telling(k, outcome', accepted) : k \in subscribers})
        /\ accepted \in 0..504
    BY <1>3, <1>5, <1>7 DEF Inv, TypeInv
  <1>10. PICK code \in 0..504 : code = accepted
    BY <1>9
  <1>11. ToldStatus(code)'
    BY <1>1, <1>8, <1>9, <1>10
  <1> QED BY <1>1, <1>11

\* Once something was told, a status may still be accepted after the peer left.
LEMMA ToldBefore ==
    ASSUME Inv, outcome # "none", UNCHANGED <<request, routed, subscribers, told>>,
           accepted' = accepted \/ (left' /\ accepted = 0 /\ outcome = "aborted"),
           left => left'
    PROVE  \E code \in 0..504 : ToldStatus(code)'
  <1>1. PICK code \in 0..504 : ToldStatus(code)
    BY DEF Inv, RecordInv
  <1>2. \A k : Telling(k, outcome, code)' = Telling(k, outcome, code)
    BY SameTelling DEF told, Telling, Label, MethodLabel, Level
  <1>3. {Telling(k, outcome, code)' : k \in subscribers'} = {Telling(k, outcome, code) : k \in subscribers}
    BY <1>2
  <1>4. ToldStatus(code)'
    BY <1>1, <1>3 DEF ToldStatus, told
  <1> QED BY <1>4

\* What settle() leaves of the records, whether or not something was told.
LEMMA Settles ==
    ASSUME Inv, NEW result \in {"completed", "aborted"}, Settle(result),
           UNCHANGED <<request, routed>>, left => left',
           accepted' = accepted \/ (left' /\ accepted = 0 /\ result = "aborted" /\ outcome # "completed")
    PROVE  /\ UNCHANGED subscribers
           /\ outcome' = IF outcome = "none" THEN result ELSE outcome
           /\ \E code \in 0..504 : ToldStatus(code)'
  <1>1. CASE outcome = "none"
    BY <1>1, FirstSettle
  <1>2. CASE outcome # "none"
    <2>1. UNCHANGED <<subscribers, told>> /\ outcome \in {"completed", "aborted"}
      BY <1>2 DEF Settle, Inv, TypeInv, told
    <2> QED BY <1>2, <2>1, ToldBefore DEF told
  <1> QED BY <1>1, <1>2

\* A step at the end of a request: what it settles and where it goes decide.
LEMMA EndFrame ==
    ASSUME Inv, at \in Waits \cup {"handler"}, at' \in Waits \ {"fallback"},
           UNCHANGED <<request, scope, cors, limiter, route, response>>,
           context' \in {"unbound", context},
           NEW result \in {"completed", "aborted"}, Settle(result), left => left',
           accepted' = accepted \/ (left' /\ accepted = 0 /\ result = "aborted" /\ outcome # "completed"),
           accepted' \in {accepted, response.status},
           finished' \in BOOLEAN, left' \in BOOLEAN, SentInv'
    PROVE  Inv'
  <1>1. /\ UNCHANGED subscribers
        /\ outcome' \in {"completed", "aborted"}
        /\ \E code \in 0..504 : ToldStatus(code)'
    BY Settles DEF route, Inv, TypeInv
  <1>2. at' \notin Running \cup {"fallback"}
    BY DEF Waits, Running, InsideContext, InsideRate, InsideSanitize, InsideLimits,
           InsideContent, InsideMethod, InsideCors, InsideExposure
  <1>3. RecordInv'
    BY <1>1, <1>2 DEF RecordInv
  <1> QED BY <1>1, <1>2, <1>3, WaitFrame

\* A step that tells nobody.
LEMMA SilentFrame ==
    ASSUME Inv, at' \in Waits \ {"fallback"},
           UNCHANGED <<request, scope, cors, context, limiter, route, response, finished, left,
                       told, subscribers>>,
           accepted' = accepted \/ (accepted = 0 /\ (outcome = "none" \/ (left /\ outcome = "aborted"))),
           accepted' \in {accepted, response.status}, SentInv'
    PROVE  Inv'
  <1>1. at' \notin Running \cup {"fallback"}
    BY DEF Waits, Running, InsideContext, InsideRate, InsideSanitize, InsideLimits,
           InsideContent, InsideMethod, InsideCors, InsideExposure
  <1>2. outcome # "none" => \E code \in 0..504 : ToldStatus(code)'
    BY ToldBefore DEF route
  <1>3. RecordInv'
    BY <1>1, <1>2 DEF RecordInv, told, Inv
  <1> QED BY <1>1, <1>3, WaitFrame DEF Inv, TypeInv, told

\* The ends of a reply, and of a request without one.
LEMMA SendSteps ==
    ASSUME Inv, StartAccepted \/ SendRaises \/ WorkEnds PROVE Inv'
  <1> USE DEF Waits, Running, InsideContext, InsideRate, InsideSanitize, InsideLimits,
              InsideContent, InsideMethod, InsideCors, InsideExposure
  <1>1. CASE StartAccepted
    <2>1. /\ at = "starting" /\ at' = "sending" /\ accepted' = response.status
          /\ UNCHANGED <<request, scope, cors, context, limiter, route, response, finished, left,
                         told, subscribers>>
      BY <1>1 DEF StartAccepted
    <2>2. accepted = 0 /\ (outcome = "none" \/ (left /\ outcome = "aborted"))
      BY <2>1 DEF Inv, TypeInv, RecordInv, SentInv
    <2>3. SentInv'
      BY <2>1, <2>2 DEF Inv, RecordInv, SentInv, told
    <2> QED BY <2>1, <2>2, <2>3, SilentFrame
  <1>2. CASE SendRaises \/ WorkEnds
    <2>1. /\ at' = "unwind"
          /\ UNCHANGED <<request, scope, cors, context, limiter, route, response, accepted, finished,
                         left, told, subscribers>>
      BY <1>2 DEF SendRaises, WorkEnds, observed, sent
    <2>2. SentInv'
      BY <2>1 DEF Inv, RecordInv, SentInv, told
    <2> QED BY <2>1, <2>2, SilentFrame
  <1> QED BY <1>1, <1>2

LEMMA SettlingSteps ==
    ASSUME Inv, SendEnds \/ SendBreaks \/ StreamDeadline \/ LateDisconnect \/ Unwind PROVE Inv'
  <1> USE DEF Waits, Running, InsideContext, InsideRate, InsideSanitize, InsideLimits,
              InsideContent, InsideMethod, InsideCors, InsideExposure
  <1>1. CASE SendEnds
    <2>1. /\ at = "sending" /\ at' \in {"joined", "unwind"} /\ finished' = TRUE
          /\ Settle("completed")
          /\ UNCHANGED <<request, scope, cors, context, limiter, route, response, accepted, left>>
      BY <1>1 DEF SendEnds, Ended
    <2>2. outcome' = IF outcome = "none" THEN "completed" ELSE outcome
      BY <2>1 DEF Settle
    <2>3. SentInv'
      BY <2>1, <2>2 DEF Inv, RecordInv, SentInv
    <2> QED BY <2>1, <2>3, EndFrame DEF Inv, TypeInv
  <1>2. CASE SendBreaks \/ StreamDeadline \/ Unwind
    <2>1. /\ at \in {"starting", "sending", "unwind"} /\ at' \in {"unwind", "gone"}
          /\ Settle("aborted") /\ context' \in {"unbound", context}
          /\ UNCHANGED <<request, scope, cors, limiter, route, response, accepted, finished, left>>
      BY <1>2 DEF SendBreaks, StreamDeadline, Unwind, Sending, sent
    <2>2. outcome' = IF outcome = "none" THEN "aborted" ELSE outcome
      BY <2>1 DEF Settle
    <2>3. SentInv'
      BY <2>1, <2>2 DEF Inv, RecordInv, SentInv
    <2> QED BY <2>1, <2>3, EndFrame DEF Inv, TypeInv
  <1>3. CASE LateDisconnect
    <2>1. /\ at \in {"starting", "sending"} /\ at' = at /\ left' = TRUE /\ Settle("aborted")
          /\ UNCHANGED <<request, scope, cors, context, limiter, route, response, accepted, finished>>
      BY <1>3 DEF LateDisconnect, Sending
    <2>2. outcome' = IF outcome = "none" THEN "aborted" ELSE outcome
      BY <2>1 DEF Settle
    <2>3. SentInv'
      BY <2>1, <2>2 DEF Inv, RecordInv, SentInv
    <2> QED BY <2>1, <2>3, EndFrame DEF Inv, TypeInv
  <1> QED BY <1>1, <1>2, <1>3

LEMMA DisconnectStep == ASSUME Inv, Disconnect PROVE Inv'
  <1> USE DEF Waits, Running, InsideContext, InsideRate, InsideSanitize, InsideLimits,
              InsideContent, InsideMethod, InsideCors, InsideExposure
  <1>1. /\ at \in {"handler", "starting", "sending"} /\ left' = TRUE /\ Settle("aborted")
        /\ UNCHANGED <<request, scope, cors, context, limiter, route, response>>
    BY DEF Disconnect, Sending
  <1>2. PICK inflight \in BOOLEAN :
            /\ inflight => at # "handler"
            /\ accepted' = IF inflight THEN response.status ELSE accepted
            /\ finished' = (inflight /\ at = "sending")
            /\ at' = IF inflight /\ at = "sending" THEN Ended ELSE "unwind"
    BY DEF Disconnect
  <1>3. at' \in {"joined", "unwind"} /\ (at' = "joined" => finished') /\ finished' \in BOOLEAN
    BY <1>2 DEF Ended
  <1>4. outcome' = IF outcome = "none" THEN "aborted" ELSE outcome
    BY <1>1 DEF Settle
  <1>5. accepted' = accepted \/ (accepted = 0 /\ outcome # "completed")
    BY <1>1, <1>2 DEF Inv, RecordInv, SentInv
  <1>6. SentInv'
    <2>1. outcome # "completed"
      BY <1>1 DEF Inv, RecordInv, SentInv
    <2>2. finished' => accepted' = response.status /\ response.status # 0
      BY <1>1, <1>2 DEF Inv, RecordInv, SentInv
    <2> QED BY <1>1, <1>3, <1>4, <2>1, <2>2 DEF SentInv, Inv, TypeInv
  <1> QED BY <1>1, <1>2, <1>3, <1>5, <1>6, EndFrame

LEMMA FallbackStep == Inv /\ Fallback => Inv'
  <1> SUFFICES ASSUME Inv, Fallback PROVE Inv'
    OBVIOUS
  <1>1. response'.status = 500 /\ response'.from = "fallback" /\ response'.fields = {}
    BY DEF Fallback
  <1>2. PermissionFollowsPolicy' /\ ReplyIsWrapped'
    BY <1>1 DEF PermissionFollowsPolicy, ReplyIsWrapped
  <1>3. BodyStaysBounded'
    BY <1>1 DEF Fallback, Inv, BodyStaysBounded, route
  <1>4. response'.from \notin Refusing
    BY <1>1 DEF Refusing, Running, InsideContext, InsideRate, InsideSanitize, InsideLimits,
                InsideContent, InsideMethod, InsideCors, InsideExposure
  <1>5. /\ at = "fallback" /\ at' = "starting"
        /\ UNCHANGED <<request, scope, charged, unread, given, observed, cors, verdict, routed, total>>
        /\ context' \in {"unbound", context}
    BY DEF Fallback, limiter, route
  <1>6. /\ cors' \in {{"unset"}} \cup SUBSET {"vary", "allow-origin", "policy"}
        /\ verdict' \in {"none", "exempt", "accepted", "rejected"}
        /\ routed' \in BOOLEAN /\ total' \in Nat /\ response'.status \in 1..504
    BY <1>1, <1>5 DEF Inv, TypeInv
  <1> QED BY <1>2, <1>3, <1>4, <1>5, <1>6, ReplyFrame

-----------------------------------------------------------------------------
(* From the peer to the limiter. *)

\* The last of several places in a chain.
LEMMA Rightmost ==
    ASSUME NEW n \in Nat, NEW S \in SUBSET (1 .. n), S # {}
    PROVE  Max(S) \in S /\ \A j \in S : j =< Max(S)
  <1> DEFINE T == {n - i : i \in S}
  <1>1. T \in SUBSET Nat /\ T # {}
    <2>1. \A i \in S : n - i \in Nat
      <3> SUFFICES ASSUME NEW i \in S PROVE n - i \in Nat
        OBVIOUS
      <3>1. i \in 1 .. n
        OBVIOUS
      <3> QED BY <3>1
    <2>2. PICK i \in S : TRUE
      OBVIOUS
    <2>3. n - i \in T
      OBVIOUS
    <2> QED BY <2>1, <2>3
  <1>2. IsWellFoundedOn(OpToRel(<, Nat), Nat)
    BY NatLessThanWellFounded
  <1>3. PICK d \in T : \A e \in T : ~(<<e, d>> \in OpToRel(<, Nat))
    BY <1>1, <1>2, WFMin
  <1>4. \A e \in T : ~(e < d)
    BY <1>1, <1>3 DEF OpToRel
  <1>5. PICK i \in S : d = n - i
    OBVIOUS
  <1>6. \A j \in S : i >= j
    <2> SUFFICES ASSUME NEW j \in S PROVE i >= j
      OBVIOUS
    <2>1. n - j \in T
      OBVIOUS
    <2>2. ~(n - j < n - i)
      BY <1>4, <1>5, <2>1
    <2> QED BY <2>2
  <1> HIDE DEF T
  <1>7. Max(S) \in S /\ \A j \in S : Max(S) >= j
    BY <1>6 DEF Max
  <1> QED BY <1>7

\* The forwarded client is a host of the chain with trusted hosts to its right.
LEMMA Forwarded ==
    ASSUME NEW hosts, hosts \in Seq(ToSet(hosts)), hosts # <<>>
    PROVE  \E k \in DOMAIN hosts :
               /\ hosts[k] = ForwardedClient(hosts)
               /\ \A m \in DOMAIN hosts : m > k => hosts[m] \in Trusted
               /\ k > 1 => hosts[k] \notin Trusted
  <1> DEFINE strangers == {i \in DOMAIN hosts : hosts[i] \notin Trusted}
  <1>1. DOMAIN hosts = 1 .. Len(hosts) /\ Len(hosts) \in Nat \ {0}
    OBVIOUS
  <1>2. CASE strangers = {}
    <2>1. ForwardedClient(hosts) = hosts[1]
      BY <1>2 DEF ForwardedClient
    <2>2. 1 \in DOMAIN hosts /\ \A m \in DOMAIN hosts : hosts[m] \in Trusted
      BY <1>1, <1>2
    <2> QED BY <2>1, <2>2
  <1>3. CASE strangers # {}
    <2>1. ForwardedClient(hosts) = hosts[Max(strangers)]
      BY <1>3 DEF ForwardedClient
    <2>2. strangers \subseteq 1 .. Len(hosts)
      BY <1>1
    <2>3. Max(strangers) \in strangers /\ \A j \in strangers : j =< Max(strangers)
      BY <1>1, <1>3, <2>2, Rightmost
    <2>4. PICK k : k = Max(strangers)
      OBVIOUS
    <2>5. k \in DOMAIN hosts /\ hosts[k] \notin Trusted /\ k \in Nat
      BY <1>1, <2>3, <2>4
    <2>6. ASSUME NEW m \in DOMAIN hosts, m > k PROVE hosts[m] \in Trusted
      <3>1. m \in strangers => m =< k
        BY <2>3, <2>4
      <3>2. m \notin strangers
        BY <1>1, <2>5, <2>6, <3>1
      <3> QED BY <3>2
    <2> QED BY <2>1, <2>4, <2>5, <2>6
  <1> QED BY <1>2, <1>3

\* Only a trusted peer's chain moves the client, to where the trust ends.
LEMMA ProxyStep == Inv /\ TrustedProxy => Inv'
  <1> SUFFICES ASSUME Inv, TrustedProxy PROVE Inv'
    OBVIOUS
  <1> USE DEF Running, InsideContext, InsideRate, InsideSanitize, InsideLimits,
              InsideContent, InsideMethod, InsideCors, InsideExposure
  <1> DEFINE hs == request.headers
  <1>1. /\ at = "proxy" /\ at' = "context"
        /\ UNCHANGED <<request, cors, context, limiter, route, observed, response>>
    BY Passes DEF TrustedProxy, Pass
  <1>2. /\ scope = [headers |-> hs, client |-> request.peer, scheme |-> "http"]
        /\ context = "unbound" /\ verdict = "none" /\ charged = "nobody" /\ ~routed
    BY <1>1 DEF Inv, StageInv
  <1>3. scope.headers = hs /\ scope.client = request.peer /\ scope.scheme = "http"
    BY <1>2
  <1>4. StageInv'
    BY <1>1, <1>2 DEF StageInv, limiter, route
  <1>5. CASE ~Consumes
    <2>1. scope' = scope
      BY <1>5 DEF TrustedProxy
    <2>2. /\ at \in Running /\ at' \in Running /\ routed' \in BOOLEAN
          /\ at' \in InsideSanitize <=> at \in InsideSanitize
          /\ at' \in InsideCors <=> at \in InsideCors
          /\ UNCHANGED <<total, unread, given, sent, told, charged>>
          /\ verdict' \in {"none", "exempt", "accepted", "rejected"}
          /\ subscribers' \subseteq {"logging", "metrics"}
      BY <1>1 DEF Inv, TypeInv, limiter, route, observed, sent, told
    <2> QED BY <1>1, <1>4, <2>1, <2>2, PassFrame
  <1>6. CASE Consumes
    <2> DEFINE for == {i \in Forwarding(hs) : hs[i].name = "x-forwarded-for"}
               proto == Values(hs, "x-forwarded-proto")
               client == IF for = {} THEN request.peer
                         ELSE ForwardedClient(hs[CHOOSE i \in for : TRUE].hosts)
               scheme == IF proto = {} THEN "http" ELSE CHOOSE p \in proto : TRUE
    <2>1. request.peer \in Trusted /\ Usable(hs) /\ request \in Requests
      BY <1>3, <1>6 DEF Consumes, Inv, TypeInv
    <2>2. scope' = [headers |-> Restrict(hs, DOMAIN hs \ Forwarding(hs)),
                    client |-> client, scheme |-> scheme]
      BY <1>3, <1>6 DEF TrustedProxy
    <2>3. /\ DOMAIN scope' = {"headers", "client", "scheme"}
          /\ scope'.headers = Restrict(hs, DOMAIN hs \ Forwarding(hs))
          /\ scope'.client = client /\ scope'.scheme = scheme
      BY <2>2
    <2>4. scheme \in {"http", "https"}
      <3>1. ASSUME NEW p \in proto PROVE p \in {"http", "https"}
        <4>1. PICK i \in DOMAIN hs : hs[i].name = "x-forwarded-proto" /\ p = hs[i].value
          BY DEF Values
        <4>2. i \in Forwarding(hs)
          BY <4>1 DEF Forwarding
        <4> QED BY <2>1, <4>1, <4>2 DEF Usable
      <3> QED BY <3>1
    <2>5. ASSUME for # {}
          PROVE  \E i \in DOMAIN hs : \E k \in DOMAIN hs[i].hosts :
                    /\ hs[i].hosts[k] = client
                    /\ \A m \in DOMAIN hs[i].hosts : m > k => hs[i].hosts[m] \in Trusted
                    /\ k > 1 => hs[i].hosts[k] \notin Trusted
                    /\ client # "nobody"
      <3>1. PICK i : i = CHOOSE j \in for : TRUE
        OBVIOUS
      <3>2. i \in for /\ client = ForwardedClient(hs[i].hosts)
        BY <2>5, <3>1
      <3>3. i \in DOMAIN hs /\ hs[i].name = "x-forwarded-for"
        BY <3>2 DEF Forwarding
      <3>4. hs[i] \in ToSet(hs)
        BY <3>3 DEF ToSet
      <3>5. /\ hs[i].hosts \in Seq(ToSet(hs[i].hosts)) /\ hs[i].hosts # <<>>
            /\ "nobody" \notin ToSet(hs[i].hosts)
        BY <2>1, <3>3, <3>4, RequestsAssumption
      <3>6. PICK k \in DOMAIN hs[i].hosts :
                /\ hs[i].hosts[k] = client
                /\ \A m \in DOMAIN hs[i].hosts : m > k => hs[i].hosts[m] \in Trusted
                /\ k > 1 => hs[i].hosts[k] \notin Trusted
        BY <3>2, <3>5, Forwarded
      <3>7. client # "nobody"
        BY <3>5, <3>6 DEF ToSet
      <3> QED BY <3>3, <3>6, <3>7
    <2>6. for = {} => client = request.peer
      OBVIOUS
    <2> HIDE DEF for, proto, client, scheme
    <2>7. client # "nobody"
      BY <2>1, <2>5, <2>6, RequestsAssumption
    <2>8. TypeInv'
      BY <1>1, <2>3, <2>4, <2>7 DEF Inv, TypeInv, limiter, route, observed, sent, told
    <2>9. HeaderInv'
      <3>1. /\ DOMAIN scope'.headers = DOMAIN hs \ Forwarding(hs)
            /\ \A i \in DOMAIN hs \ Forwarding(hs) : scope'.headers[i] = hs[i]
        BY <2>3, RestrictIsPart
      <3>2. ASSUME NEW n \in Kept PROVE Values(scope'.headers, n) = Values(hs, n)
        <4>1. \A i \in DOMAIN hs : hs[i].name = n => i \in DOMAIN hs \ Forwarding(hs)
          BY DEF Forwarding, Kept
        <4> QED BY <2>3, <4>1, KeptValues
      <3> QED BY <1>1, <3>1, <3>2 DEF HeaderInv, Values
    <2>10. CorsInv' /\ ReplyInv' /\ RecordInv'
      <3>1. CorsInv' /\ ReplyInv'
        BY <1>1 DEF Inv, CorsInv, ReplyInv, Refusing, route
      <3>2. RecordInv'
        BY <1>1, NothingTold DEF observed
      <3> QED BY <3>1, <3>2
    <2>11. IdentityIsEarned'
      <3>1. ASSUME scope'.client # request.peer
            PROVE  \E i \in DOMAIN hs : LET hosts == hs[i].hosts IN
                     \E k \in DOMAIN hosts :
                       /\ hosts[k] = scope'.client
                       /\ \A m \in DOMAIN hosts : m > k => hosts[m] \in Trusted
                       /\ k > 1 => hosts[k] \notin Trusted
        BY <2>3, <2>5, <2>6, <3>1
      <3> QED BY <1>1, <1>2, <2>1, <3>1 DEF IdentityIsEarned, limiter
    <2>12. PermissionFollowsPolicy' /\ ReplyIsWrapped' /\ BodyStaysBounded'
      BY <1>1, NoReplyYet DEF Inv, ReplyInv, BodyStaysBounded, route
    <2> QED BY <1>4, <2>8, <2>9, <2>10, <2>11, <2>12 DEF Inv
  <1> QED BY <1>5, <1>6

LEMMA ContextStep == Inv /\ Context => Inv'
  <1> SUFFICES ASSUME Inv, Context PROVE Inv'
    OBVIOUS
  <1> USE DEF Running, InsideContext, InsideRate, InsideSanitize, InsideLimits,
              InsideContent, InsideMethod, InsideCors, InsideExposure
  <1>1. at = "context" /\ UNCHANGED <<request, scope, cors, limiter, route, observed, response>>
    BY DEF Context, Pass
  <1>2. CASE scope.client = "none"
    <2>1. at' = "fallback" /\ at' \in Waits /\ UNCHANGED context
      BY <1>2 DEF Context, Waits
    <2>2. RecordInv'
      BY <1>1, <2>1, NothingTold DEF observed
    <2> QED BY <1>1, <2>1, <2>2, WaitFrame DEF Inv, TypeInv, observed, sent, told
  <1>3. CASE scope.client # "none"
    <2>1. at' = "logging" /\ context' = scope.client
      BY <1>3, Passes DEF Context
    <2>2. TypeInv' /\ ReplyInv' /\ RecordInv'
      <3>1. TypeInv'
        BY <1>1, <2>1 DEF Inv, TypeInv, limiter, route, observed, sent, told
      <3>2. ReplyInv'
        BY <1>1, <2>1 DEF Inv, ReplyInv, Refusing, route
      <3>3. RecordInv'
        BY <1>1, <2>1, NothingTold DEF observed
      <3> QED BY <3>1, <3>2, <3>3
    <2>3. StageInv' /\ CorsInv'
      BY <1>1, <1>3, <2>1 DEF Inv, StageInv, CorsInv, limiter, route
    <2>4. HeaderInv'
      BY <1>1, <2>1 DEF Inv, HeaderInv, Values
    <2>5. IdentityIsEarned'
      BY <1>1, <2>1 DEF Inv, IdentityIsEarned, limiter
    <2>6. PermissionFollowsPolicy' /\ ReplyIsWrapped' /\ BodyStaysBounded'
      BY <1>1, NoReplyYet DEF Inv, ReplyInv, BodyStaysBounded, route
    <2> QED BY <2>2, <2>3, <2>4, <2>5, <2>6 DEF Inv
  <1> QED BY <1>2, <1>3

LEMMA ObserverSteps == Inv /\ (Logging \/ Metrics \/ Security) => Inv'
  <1> SUFFICES ASSUME Inv, Logging \/ Metrics \/ Security PROVE Inv'
    OBVIOUS
  <1> USE DEF Running, InsideContext, InsideRate, InsideSanitize, InsideLimits,
              InsideContent, InsideMethod, InsideCors, InsideExposure
  <1>1. /\ at \in {"logging", "metrics", "security"} /\ at' \in {"metrics", "security", "rate"}
        /\ UNCHANGED <<request, scope, cors, context, total, unread, given, response,
                       sent, told, charged, verdict, routed>>
    BY Passes DEF Logging, Metrics, Security, Pass, limiter, route, observed, sent, told
  <1>2. subscribers' \subseteq {"logging", "metrics"}
    BY DEF Logging, Metrics, Security, observed, sent, told, Inv, TypeInv
  <1>3. StageInv'
    BY <1>1, SameReading DEF Inv, StageInv
  <1>4. /\ at \in Running /\ at' \in Running /\ routed' \in BOOLEAN
        /\ verdict' \in {"none", "exempt", "accepted", "rejected"}
        /\ at' \in InsideSanitize <=> at \in InsideSanitize
        /\ at' \in InsideCors <=> at \in InsideCors
    BY <1>1 DEF Inv, TypeInv
  <1> QED BY <1>1, <1>2, <1>3, <1>4, PassFrame

LEMMA RatePassSteps == Inv /\ (RateExempt \/ RateAccept) => Inv'
  <1> SUFFICES ASSUME Inv, RateExempt \/ RateAccept PROVE Inv'
    OBVIOUS
  <1> USE DEF Running, InsideContext, InsideRate, InsideSanitize, InsideLimits,
              InsideContent, InsideMethod, InsideCors, InsideExposure
  <1>1. /\ at = "rate" /\ at' = "sanitize"
        /\ UNCHANGED <<request, scope, cors, context, total, unread, given, response,
                       sent, told, subscribers, routed>>
    BY Passes DEF RateExempt, RateAccept, Pass, route, observed, sent, told
  <1>2. scope.client \notin {"none", "nobody"} /\ context = scope.client
    BY <1>1 DEF Inv, TypeInv, StageInv
  <1>3. \/ verdict' = "exempt" /\ charged' = charged /\ request.family = "favicon"
        \/ verdict' = "accepted" /\ charged' = scope.client
    BY <1>2 DEF RateExempt, RateAccept, Exempt, Identity
  <1>4. StageInv'
    BY <1>1, <1>2, <1>3 DEF Inv, StageInv
  <1>5. /\ at \in Running /\ at' \in Running /\ routed' \in BOOLEAN
        /\ verdict' \in {"none", "exempt", "accepted", "rejected"}
        /\ charged' \in {charged, scope.client}
        /\ subscribers' \subseteq {"logging", "metrics"}
        /\ at' \in InsideSanitize <=> at \in InsideSanitize
        /\ at' \in InsideCors <=> at \in InsideCors
    BY <1>1, <1>3 DEF Inv, TypeInv
  <1> QED BY <1>1, <1>4, <1>5, PassFrame

-----------------------------------------------------------------------------
(* Replies. *)

\* What a request has passed when the browser policy looks at it.
LEMMA Granted ==
    ASSUME Inv, at \in InsideMethod, Origin = {"known"}
    PROVE  /\ Values(request.headers, "origin") = {"known"}
           /\ verdict \in {"accepted", "exempt"}
           /\ ~Dirty(scope.headers) /\ ~OverBudget(scope.headers)
           /\ request.method \in AllowedMethods
  <1> USE DEF Running, InsideContext, InsideRate, InsideSanitize, InsideLimits,
              InsideContent, InsideMethod, InsideCors, InsideExposure
  <1>1. /\ verdict \in {"accepted", "exempt"}
        /\ ~OverBudget(scope.headers) /\ request.method \in AllowedMethods
    BY DEF Inv, StageInv
  <1>2. /\ ~Dirty(scope.headers)
        /\ Values(scope.headers, "origin") = Values(request.headers, "origin")
        /\ DOMAIN scope.headers \subseteq DOMAIN request.headers
    BY DEF Inv, HeaderInv, Kept
  <1>3. DOMAIN scope.headers \subseteq Nat
    BY <1>2, HeadersAreIndexed DEF Inv, TypeInv
  <1>4. \A v, w \in Values(scope.headers, "origin") : v = w
    BY <1>2, <1>3, CleanMeansOnce
  <1>5. "known" \in Values(scope.headers, "origin")
    BY DEF Origin
  <1> QED BY <1>1, <1>2, <1>4, <1>5

\* A reply of a layer inside the limiter is judged by where it is made.
LEMMA Judged ==
    ASSUME Inv, at \in InsideRate, NEW from \in InsideRate,
           from \in InsideCors => at \in InsideCors,
           NEW own \in SUBSET {"vary", "allow-origin", "policy"},
           "allow-origin" \in own => Origin = {"known"} /\ at \in InsideMethod,
           response'.fields = own \cup Fields(from),
           UNCHANGED <<request, scope, verdict>>,
           response'.status \in {400, 405, 415, 429, 431, 501, 503} =>
               routed' \/ (from \notin InsideCors /\ own = {}),
           response'.status \in {200, 408, 500} /\ Origin = {"known"} =>
               "allow-origin" \in own \/ from \in InsideCors
    PROVE  PermissionFollowsPolicy' /\ ReplyIsWrapped'
  <1>1. /\ at \in Running /\ from \in Running
        /\ from \in Running \ {"proxy", "context", "logging", "metrics", "security"}
        /\ from # "rate" /\ InsideCors \subseteq InsideMethod
    BY DEF Running, InsideContext, InsideRate, InsideSanitize, InsideLimits,
           InsideContent, InsideMethod, InsideCors, InsideExposure
  <1>2. /\ verdict \in {"accepted", "exempt"}
        /\ verdict = "exempt" => request.family = "favicon"
    BY DEF Inv, StageInv
  <1>3. /\ "x-request-id" \in Fields(from)
        /\ "security" \in Fields(from) \/ request.family = "docs"
        /\ "accepted" \in Fields(from) <=> verdict = "accepted"
        /\ "rejected" \notin Fields(from)
        /\ from \in InsideCors => \A x \in {"vary", "allow-origin", "policy"} :
                                      x \in Fields(from) <=> x \in cors
        /\ from \notin InsideCors => Fields(from) \cap {"vary", "allow-origin", "policy"} = {}
    BY <1>1, FieldSet DEF Inv, TypeInv
  <1>4. ReplyIsWrapped'
    <2>1. "x-request-id" \in response'.fields
      BY <1>3
    <2>2. "security" \in response'.fields \/ request'.family = "docs"
      BY <1>3
    <2>3. ("accepted" \in response'.fields) = (verdict' = "accepted")
      BY <1>3
    <2>4. ("rejected" \in response'.fields) = (verdict' = "rejected")
      BY <1>2, <1>3
    <2> QED BY <1>2, <2>1, <2>2, <2>3, <2>4 DEF ReplyIsWrapped
  <1>5. from \in InsideCors => cors = {"vary", "policy"} \cup Permission
    BY DEF Inv, CorsInv
  <1>6. ASSUME "allow-origin" \in response'.fields
        PROVE  Origin = {"known"} /\ at \in InsideMethod
    <2>1. CASE "allow-origin" \in own
      BY <2>1
    <2>2. CASE "allow-origin" \notin own
      <3>1. "allow-origin" \in Fields(from)
        BY <1>6, <2>2
      <3>2. from \in InsideCors /\ "allow-origin" \in cors
        BY <1>3, <3>1
      <3>3. "allow-origin" \in Permission
        BY <1>5, <3>2
      <3> QED BY <1>1, <3>2, <3>3 DEF Permission
    <2> QED BY <2>1, <2>2
  <1>7. ASSUME "allow-origin" \in response'.fields
        PROVE  /\ Values(request'.headers, "origin") = {"known"}
               /\ verdict' \in {"accepted", "exempt"}
               /\ ~Dirty(scope'.headers) /\ ~OverBudget(scope'.headers)
               /\ request'.method \in AllowedMethods
    BY <1>6, <1>7, Granted
  <1>8. ASSUME response'.status \in {400, 405, 415, 429, 431, 501, 503}, ~routed'
        PROVE  response'.fields \cap {"allow-origin", "policy", "vary"} = {}
    BY <1>3, <1>8
  <1>9. ASSUME response'.status \in {200, 408, 500}, Origin = {"known"}
        PROVE  "allow-origin" \in response'.fields
    <2>1. CASE "allow-origin" \in own
      BY <2>1
    <2>2. CASE from \in InsideCors
      BY <1>3, <1>5, <1>9, <2>2 DEF Permission
    <2> QED BY <1>9, <2>1, <2>2
  <1>10. PermissionFollowsPolicy'
    <2>1. Origin' = Origin
      BY SameReading
    <2>2. Dirty(scope.headers)' = Dirty(scope'.headers)
      BY DEF Dirty
    <2>3. OverBudget(scope.headers)' = OverBudget(scope'.headers)
      BY DEF OverBudget
    <2>4. Values(request.headers, "origin")' = Values(request'.headers, "origin")
      BY DEF Values
    <2> QED BY <1>7, <1>8, <1>9, <2>1, <2>2, <2>3, <2>4 DEF PermissionFollowsPolicy
  <1> QED BY <1>4, <1>10

\* A refusal of a layer that leaves everything else as it was.
LEMMA Refusal ==
    ASSUME Inv, NEW l \in InsideRate \ {"handler"}, at = l,
           NEW status \in 400 .. 504, status \notin {408, 500},
           Reply(l, status, {}), routed' \in BOOLEAN,
           l # "route" => UNCHANGED routed,
           status \in {400, 405, 415, 429, 431, 501, 503} => l \notin InsideCors \/ routed',
           UNCHANGED <<request, scope, cors, context, limiter, total, unread, given, observed>>
    PROVE  Inv'
  <1>1. /\ at' = "starting" /\ response'.status = status /\ response'.from = l
        /\ response'.fields = {} \cup Fields(l)
    BY DEF Reply, Respond
  <1>2. PermissionFollowsPolicy' /\ ReplyIsWrapped'
    BY <1>1, Judged DEF limiter
  <1>3. BodyStaysBounded'
    BY <1>1 DEF Inv, BodyStaysBounded
  <1>4. at \in Running
    BY DEF Running, InsideContext, InsideRate, InsideSanitize, InsideLimits,
           InsideContent, InsideMethod, InsideCors, InsideExposure
  <1>5. response'.from \in Refusing => ~routed'
    BY <1>1, <1>4 DEF Inv, StageInv, Refusing
  <1>6. /\ cors' \in {{"unset"}} \cup SUBSET {"vary", "allow-origin", "policy"}
        /\ verdict' \in {"none", "exempt", "accepted", "rejected"}
        /\ total' \in Nat /\ response'.status \in 1..504
    BY <1>1 DEF Inv, TypeInv, limiter
  <1> QED BY <1>1, <1>2, <1>3, <1>4, <1>5, <1>6, ReplyFrame DEF limiter

LEMMA RejectStep ==
    ASSUME Inv, NEW status \in {429, 503}, RateReject(status) PROVE Inv'
  <1>1. at = "rate"
    BY DEF RateReject
  <1>2. /\ at' = "starting" /\ response'.status = status /\ response'.from = "rate"
        /\ response'.fields = {"rejected", "retry-after"} \cup Fields("rate")
    BY DEF RateReject, Reply, Respond
  <1>3. /\ verdict' = "rejected"
        /\ UNCHANGED <<request, scope, cors, context, charged, routed, total, unread, given,
                       observed>>
    BY DEF RateReject, route
  <1> USE DEF Running, InsideContext, InsideRate, InsideSanitize, InsideLimits,
              InsideContent, InsideMethod, InsideCors, InsideExposure
  <1>4. verdict = "none" /\ ~routed
    BY <1>1 DEF Inv, StageInv
  <1>5. /\ "x-request-id" \in Fields("rate")
        /\ "security" \in Fields("rate") \/ request.family = "docs"
        /\ "accepted" \notin Fields("rate")
        /\ Fields("rate") \cap {"vary", "allow-origin", "policy"} = {}
    BY FieldSet DEF Inv, TypeInv
  <1>6. ReplyIsWrapped'
    BY <1>2, <1>3, <1>5 DEF ReplyIsWrapped
  <1>7. response'.fields \cap {"vary", "allow-origin", "policy"} = {}
    BY <1>2, <1>5
  <1>8. PermissionFollowsPolicy'
    BY <1>2, <1>7 DEF PermissionFollowsPolicy
  <1>9. BodyStaysBounded'
    BY <1>2, <1>3 DEF Inv, BodyStaysBounded
  <1>10. /\ cors' \in {{"unset"}} \cup SUBSET {"vary", "allow-origin", "policy"}
         /\ verdict' \in {"none", "exempt", "accepted", "rejected"}
         /\ total' \in Nat /\ response'.status \in 1..504 /\ routed' \in BOOLEAN
    BY <1>2, <1>3 DEF Inv, TypeInv
  <1>11. at \in Running /\ (response'.from \in Refusing => ~routed')
    BY <1>1, <1>3, <1>4
  <1> QED BY <1>2, <1>3, <1>6, <1>8, <1>9, <1>10, <1>11, ReplyFrame

-----------------------------------------------------------------------------
(* The policies. *)

\* Sanitizing keeps the headers the inner layers may see, one of each name.
LEMMA SanitizeStep == Inv /\ Sanitize => Inv'
  <1> SUFFICES ASSUME Inv, Sanitize PROVE Inv'
    OBVIOUS
  <1>1. at = "sanitize" /\ UNCHANGED <<request, cors, context, limiter, route, observed>>
    BY DEF Sanitize, Gate
  <1>2. CASE Dirty(scope.headers)
    <2>1. Reply("sanitize", 400, {}) /\ scope' = scope
      BY <1>2 DEF Sanitize, Gate
    <2>2. "sanitize" \in InsideRate \ {"handler"} /\ routed' \in BOOLEAN
      BY <1>1 DEF InsideRate, Inv, TypeInv, route
    <2>3. "sanitize" \notin InsideCors
      BY DEF InsideCors, InsideExposure
    <2> QED BY <1>1, <2>1, <2>2, <2>3, Refusal DEF route
  <1>3. CASE ~Dirty(scope.headers)
    <2> USE DEF Running, InsideContext, InsideRate, InsideSanitize, InsideLimits,
                InsideContent, InsideMethod, InsideCors, InsideExposure
    <2> DEFINE hs == scope.headers
               S == {i \in DOMAIN hs : hs[i].name \in Kept}
    <2>1. at' = "limits" /\ UNCHANGED response
      BY <1>3, Passes DEF Sanitize, Gate, Pass
    <2>2. /\ scope' = [scope EXCEPT !.headers = Restrict(hs, S)]
          /\ DOMAIN scope = {"headers", "client", "scheme"}
      BY <1>3 DEF Sanitize, Inv, TypeInv
    <2>3. /\ DOMAIN scope' = {"headers", "client", "scheme"}
          /\ scope'.headers = Restrict(hs, S)
          /\ scope'.client = scope.client /\ scope'.scheme = scope.scheme
      BY <2>2
    <2>4. DOMAIN Restrict(hs, S) = S /\ \A i \in S : Restrict(hs, S)[i] = hs[i]
      BY RestrictIsPart
    <2>5. ~Dirty(Restrict(hs, S))
      BY <1>3, <2>4 DEF Dirty
    <2>6. TypeInv'
      BY <1>1, <2>1, <2>3 DEF Inv, TypeInv, limiter, route, observed, sent, told
    <2>7. StageInv' /\ CorsInv'
      BY <1>1, <2>1, <2>3 DEF Inv, StageInv, CorsInv, limiter, route
    <2>8. HeaderInv'
      <3>1. ASSUME NEW n \in Kept PROVE Values(Restrict(hs, S), n) = Values(hs, n)
        BY KeptValues
      <3>2. /\ \A n \in Kept : Values(hs, n) = Values(request.headers, n)
            /\ DOMAIN hs \subseteq DOMAIN request.headers
            /\ \A i \in DOMAIN hs : hs[i] = request.headers[i]
        BY <1>1 DEF Inv, HeaderInv
      <3>3. /\ \A n : Values(scope.headers, n)' = Values(Restrict(hs, S), n)
            /\ \A n : Values(request.headers, n)' = Values(request.headers, n)
        BY <1>1, <2>3 DEF Values
      <3>4. Dirty(scope.headers)' = Dirty(Restrict(hs, S))
        BY <2>3 DEF Dirty
      <3> HIDE DEF S, hs
      <3>5. \A n \in Kept : Values(scope.headers, n)' = Values(request.headers, n)'
        BY <3>1, <3>2, <3>3
      <3>6. /\ DOMAIN scope'.headers \subseteq DOMAIN request'.headers
            /\ \A i \in DOMAIN scope'.headers : scope'.headers[i] = request'.headers[i]
        BY <1>1, <2>3, <2>4, <3>2 DEF S
      <3> QED BY <2>5, <3>4, <3>5, <3>6 DEF HeaderInv
    <2>9. ReplyInv' /\ RecordInv'
      <3>1. ReplyInv'
        BY <1>1, <2>1 DEF Inv, ReplyInv, Refusing, route
      <3>2. RecordInv'
        BY <1>1, <2>1, NothingTold DEF observed
      <3> QED BY <3>1, <3>2
    <2>10. IdentityIsEarned'
      BY <1>1, <2>3 DEF Inv, IdentityIsEarned, limiter
    <2>11. PermissionFollowsPolicy' /\ ReplyIsWrapped' /\ BodyStaysBounded'
      BY <1>1, <2>1, NoReplyYet DEF Inv, ReplyInv, BodyStaysBounded, route
    <2> QED BY <2>6, <2>7, <2>8, <2>9, <2>10, <2>11 DEF Inv
  <1> QED BY <1>2, <1>3

\* The layers that refuse or pass, and rewrite nothing.
LEMMA GateSteps ==
    Inv /\ (HeaderLimit \/ Timeout \/ ContentType \/ MethodCheck \/ BodyLimit
              \/ ErrorBoundary \/ Exposure) => Inv'
  <1> SUFFICES ASSUME Inv, HeaderLimit \/ Timeout \/ ContentType \/ MethodCheck \/ BodyLimit
                             \/ ErrorBoundary \/ Exposure
               PROVE  Inv'
    OBVIOUS
  <1>1. /\ UNCHANGED <<request, scope, cors, context, limiter, total, unread, given, observed>>
        /\ UNCHANGED routed /\ routed' \in BOOLEAN
    BY DEF HeaderLimit, Timeout, ContentType, MethodCheck, BodyLimit, ErrorBoundary, Exposure,
           route, Inv, TypeInv
  <1>2. \/ at = "limits" /\ (\E c \in {431, 501} : Reply("limits", c, {}))
        \/ at = "content" /\ Reply("content", 415, {})
        \/ at = "method" /\ Reply("method", 405, {})
        \/ at = "body" /\ Reply("body", 413, {})
        \/ at = "exposure" /\ Reply("exposure", 404, {})
        \/ at = "limits" /\ at' = "timeout" /\ UNCHANGED response /\ ~OverBudget(scope.headers)
        \/ at = "timeout" /\ at' = "content" /\ UNCHANGED response
        \/ at = "content" /\ at' = "method" /\ UNCHANGED response /\ ~WrongType(scope.headers)
        \/ at = "method" /\ at' = "cors" /\ UNCHANGED response /\ request.method \in AllowedMethods
        \/ at = "body" /\ at' = "error" /\ UNCHANGED response
        \/ at = "error" /\ at' = "exposure" /\ UNCHANGED response
        \/ at = "exposure" /\ at' = "route" /\ UNCHANGED response /\ ~Hidden
    <2>1. CASE HeaderLimit
      BY <2>1, Passes DEF HeaderLimit, Gate, Pass
    <2>2. CASE Timeout
      BY <2>2, Passes DEF Timeout, Gate, Pass
    <2>3. CASE ContentType
      BY <2>3, Passes DEF ContentType, Gate, Pass
    <2>4. CASE MethodCheck
      BY <2>4, Passes DEF MethodCheck, Gate, Pass
    <2>5. CASE BodyLimit
      BY <2>5, Passes DEF BodyLimit, Gate, Pass
    <2>6. CASE ErrorBoundary
      BY <2>6, Passes DEF ErrorBoundary, Gate, Pass
    <2>7. CASE Exposure
      BY <2>7, Passes DEF Exposure, Gate, Pass
    <2> QED BY <2>1, <2>2, <2>3, <2>4, <2>5, <2>6, <2>7
  <1> USE DEF Running, InsideContext, InsideRate, InsideSanitize, InsideLimits,
              InsideContent, InsideMethod, InsideCors, InsideExposure
  <1>3. CASE \E c \in 400 .. 504 : /\ c \notin {408, 500} /\ Reply(at, c, {})
                                   /\ at \in InsideRate \ {"handler", "route"}
                                   /\ c \in {400, 405, 415, 429, 431, 501, 503} => at \notin InsideCors
    BY <1>1, <1>3, Refusal
  <1>4. CASE /\ UNCHANGED response
             /\ \/ at = "limits" /\ at' = "timeout" /\ ~OverBudget(scope.headers)
                \/ at = "timeout" /\ at' = "content"
                \/ at = "content" /\ at' = "method" /\ ~WrongType(scope.headers)
                \/ at = "method" /\ at' = "cors" /\ request.method \in AllowedMethods
                \/ at = "body" /\ at' = "error"
                \/ at = "error" /\ at' = "exposure"
                \/ at = "exposure" /\ at' = "route" /\ ~Hidden
    <2>1. StageInv'
      BY <1>1, <1>4, SameReading DEF Inv, StageInv, limiter
    <2>2. /\ at \in Running /\ at' \in Running
          /\ verdict' \in {"none", "exempt", "accepted", "rejected"}
          /\ subscribers' \subseteq {"logging", "metrics"}
          /\ at' \in InsideSanitize <=> at \in InsideSanitize
          /\ at' \in InsideCors <=> at \in InsideCors
      BY <1>1, <1>4 DEF Inv, TypeInv, limiter, observed, sent, told
    <2> QED BY <1>1, <1>4, <2>1, <2>2, PassFrame DEF limiter, observed, sent, told
  <1> QED BY <1>2, <1>3, <1>4

\* The browser policy: an unknown origin goes no further.
LEMMA CorsStep == Inv /\ Cors => Inv'
  <1> SUFFICES ASSUME Inv, Cors PROVE Inv'
    OBVIOUS
  <1> USE DEF Running, InsideContext, InsideRate, InsideSanitize, InsideLimits,
              InsideContent, InsideMethod, InsideCors, InsideExposure
  <1>1. /\ at = "cors"
        /\ UNCHANGED <<request, scope, context, charged, verdict, routed, total, unread, given,
                       sent, told, subscribers>>
        /\ cors' = {"vary"} \cup Permission \cup (IF CorsRefuses THEN {} ELSE {"policy"})
    BY DEF Cors, limiter, route, observed, sent, told
  <1>2. Permission \subseteq {"allow-origin"} /\ ("allow-origin" \in Permission => Origin = {"known"})
    BY DEF Permission
  <1>3. /\ cors' \in SUBSET {"vary", "allow-origin", "policy"}
        /\ "allow-origin" \in cors' => Origin = {"known"}
    BY <1>1, <1>2
  <1>4. CASE CorsRefuses \/ request.method = "OPTIONS"
    <2>1. PICK status \in {403, 204} : Reply("cors", status, cors')
      BY <1>4 DEF Cors
    <2>2. /\ at' = "starting" /\ response'.status \in {403, 204} /\ response'.from = "cors"
          /\ response'.fields = cors' \cup Fields("cors")
      BY <2>1 DEF Reply, Respond
    <2>3. PermissionFollowsPolicy' /\ ReplyIsWrapped'
      <3>1. PICK own \in SUBSET {"vary", "allow-origin", "policy"} : own = cors'
        BY <1>3
      <3>2. /\ "cors" \in InsideRate /\ "cors" \notin InsideCors
            /\ at \in InsideRate /\ at \in InsideMethod
        BY <1>1
      <3>3. response'.fields = own \cup Fields("cors")
        BY <2>2, <3>1
      <3>4. "allow-origin" \in own => Origin = {"known"} /\ at \in InsideMethod
        BY <1>3, <3>1, <3>2
      <3>5. response'.status \notin {400, 405, 415, 429, 431, 501, 503, 200, 408, 500}
        BY <2>2
      <3> QED BY <1>1, <3>2, <3>3, <3>4, <3>5, Judged
    <2>4. BodyStaysBounded'
      BY <1>1, <2>2 DEF Inv, BodyStaysBounded
    <2>5. ~routed'
      BY <1>1 DEF Inv, StageInv
    <2>6. /\ cors' \in {{"unset"}} \cup SUBSET {"vary", "allow-origin", "policy"}
          /\ verdict' \in {"none", "exempt", "accepted", "rejected"}
          /\ total' \in Nat /\ response'.status \in 1..504 /\ routed' \in BOOLEAN
      BY <1>1, <1>3, <2>2 DEF Inv, TypeInv
    <2> QED BY <1>1, <2>2, <2>3, <2>4, <2>5, <2>6, ReplyFrame DEF observed, sent, told
  <1>5. CASE ~CorsRefuses /\ request.method # "OPTIONS"
    <2>1. at' = "body" /\ UNCHANGED response
      BY <1>5, Passes DEF Cors, Pass
    <2>2. Origin \subseteq {"known"}
      BY <1>5 DEF CorsRefuses
    <2>3. cors' = {"vary", "policy"} \cup Permission
      BY <1>1, <1>5
    <2>4. TypeInv'
      BY <1>1, <1>3, <2>1 DEF Inv, TypeInv, sent, told
    <2>5. StageInv'
      BY <1>1, <2>1, SameReading DEF Inv, StageInv
    <2>6. HeaderInv'
      <3>1. at \in Running /\ at \in InsideSanitize
        BY <1>1
      <3> QED BY ONLY Inv, <1>1, <3>1, SameReading DEF Inv, HeaderInv, Values
    <2>7. CorsInv'
      BY <1>1, <2>1, <2>2, <2>3, SameReading DEF CorsInv
    <2>8. ReplyInv' /\ RecordInv'
      <3>1. ReplyInv'
        BY <1>1, <2>1 DEF Inv, ReplyInv, Refusing
      <3>2. RecordInv'
        BY <1>1, <2>1, NothingTold
      <3> QED BY <3>1, <3>2
    <2>9. IdentityIsEarned'
      BY <1>1, SameIdentity DEF Inv
    <2>10. PermissionFollowsPolicy' /\ ReplyIsWrapped' /\ BodyStaysBounded'
      BY <1>1, <2>1, NoReplyYet DEF Inv, ReplyInv, BodyStaysBounded
    <2> QED BY <2>4, <2>5, <2>6, <2>7, <2>8, <2>9, <2>10 DEF Inv
  <1> QED BY <1>4, <1>5

\* The router refuses before it has a route, or with one.
LEMMA RouteStep == Inv /\ Route => Inv'
  <1> SUFFICES ASSUME Inv, Route PROVE Inv'
    OBVIOUS
  <1> USE DEF Running, InsideContext, InsideRate, InsideSanitize, InsideLimits,
              InsideContent, InsideMethod, InsideCors, InsideExposure
  <1>1. /\ at = "route" /\ routed' = Matches
        /\ UNCHANGED <<request, scope, cors, context, limiter, total, unread, given, observed>>
    BY DEF Route, Gate
  <1>2. routed' \in BOOLEAN
    BY <1>1 DEF Matches
  <1>3. CASE ~Matches \/ ~Serves
    <2>1. PICK status \in {404, 405} : Reply("route", status, {}) /\ (status = 405 => Matches)
      BY <1>3 DEF Route, Gate
    <2>2. status \in 400 .. 504 /\ status \notin {408, 500}
          /\ (status \in {400, 405, 415, 429, 431, 501, 503} => routed')
      BY <1>1, <2>1
    <2> QED BY <1>1, <1>2, <2>1, <2>2, Refusal
  <1>4. CASE Matches /\ Serves
    <2>1. at' = "handler" /\ UNCHANGED response
      BY <1>4, Passes DEF Route, Gate, Pass
    <2>2. StageInv'
      BY <1>1, <2>1, SameReading DEF Inv, StageInv, limiter
    <2>3. /\ verdict' \in {"none", "exempt", "accepted", "rejected"}
          /\ subscribers' \subseteq {"logging", "metrics"}
      BY <1>1 DEF Inv, TypeInv, limiter, observed, sent, told
    <2> QED BY <1>1, <1>2, <2>1, <2>2, <2>3, PassFrame DEF limiter, observed, sent, told
  <1> QED BY <1>3, <1>4

-----------------------------------------------------------------------------
(* The handler. *)

\* A reply to a request that has reached its handler.
LEMMA LateReply ==
    ASSUME Inv, at = "handler", at' = "starting",
           NEW from \in {"handler", "error", "timeout"},
           NEW own \in {{}, cors \ {"unset"}}, from = "timeout" => own = cors \ {"unset"},
           response'.from = from, response'.fields = own \cup Fields(from),
           response'.status \in {200, 413, 500, 408},
           response'.from = "handler" =>
               response'.remaining = IF response'.status = 413 THEN 0 ELSE MaxBody - given,
           total' \in Nat,
           UNCHANGED <<request, scope, cors, context, limiter, routed, unread, given, observed>>
    PROVE  Inv'
  <1> USE DEF Running, InsideContext, InsideRate, InsideSanitize, InsideLimits,
              InsideContent, InsideMethod, InsideCors, InsideExposure
  <1>1. cors = {"vary", "policy"} \cup Permission
    BY DEF Inv, CorsInv
  <1>2. cors \ {"unset"} = {"vary", "policy"} \cup Permission
    BY <1>1 DEF Permission
  <1>3. own \in SUBSET {"vary", "allow-origin", "policy"}
    BY <1>2 DEF Permission
  <1>4. "allow-origin" \in own => Origin = {"known"}
    BY <1>2 DEF Permission
  <1>5. Origin = {"known"} => "allow-origin" \in own \/ from \in InsideCors
    BY <1>2 DEF Permission
  <1>6. PermissionFollowsPolicy' /\ ReplyIsWrapped'
    BY <1>3, <1>4, <1>5, Judged DEF limiter
  <1>7. BodyStaysBounded'
    BY DEF Inv, BodyStaysBounded
  <1>8. /\ cors' \in {{"unset"}} \cup SUBSET {"vary", "allow-origin", "policy"}
        /\ verdict' \in {"none", "exempt", "accepted", "rejected"}
        /\ response'.status \in 1..504 /\ routed' \in BOOLEAN
    BY DEF Inv, TypeInv, limiter
  <1>9. response'.from \notin Refusing
    BY DEF Refusing
  <1> QED BY <1>6, <1>7, <1>8, <1>9, ReplyFrame DEF limiter

\* What a reply advertises that the handler could still have read.
LEMMA Advertised ==
    ASSUME NEW a \in Int
    PROVE  Max({a, 0}) = IF a >= 0 THEN a ELSE 0
  <1>1. PICK m : m = IF a >= 0 THEN a ELSE 0
    OBVIOUS
  <1>2. m \in {a, 0} /\ \A y \in {a, 0} : m >= y
    BY <1>1
  <1>3. \A x \in {a, 0} : (\A y \in {a, 0} : x >= y) => x = m
    BY <1>1
  <1> QED BY <1>1, <1>2, <1>3 DEF Max

LEMMA HandlerReplies == Inv /\ (HandlerResponds \/ HandlerRaises \/ Deadline) => Inv'
  <1> SUFFICES ASSUME Inv, HandlerResponds \/ HandlerRaises \/ Deadline PROVE Inv'
    OBVIOUS
  <1>1. /\ at = "handler" /\ at' = "starting"
        /\ UNCHANGED <<request, scope, cors, context, limiter, routed, total, unread, given,
                       observed>>
    BY DEF HandlerResponds, HandlerRaises, Deadline, Reply, Respond, route
  <1>2. \/ /\ response'.from = "handler" /\ response'.status = 200
           /\ response'.fields = {} \cup Fields("handler")
           /\ response'.remaining = Max({MaxBody - total, 0})
        \/ /\ response'.from = "error" /\ response'.status = 500
           /\ response'.fields = {} \cup Fields("error")
        \/ /\ response'.from = "timeout" /\ response'.status = 408
           /\ response'.fields = (cors \ {"unset"}) \cup Fields("timeout")
    BY DEF HandlerResponds, HandlerRaises, Deadline, Reply, Respond, DeadlineFields
  <1>3. Max({MaxBody - total, 0}) = MaxBody - given
    <2>1. total = given /\ given \in Nat /\ given =< MaxBody /\ MaxBody \in Nat
      BY <1>1, BudgetAssumption
      DEF Inv, ReplyInv, BodyStaysBounded, Running, InsideContext, InsideRate, InsideSanitize,
          InsideLimits, InsideContent, InsideMethod, InsideCors, InsideExposure
    <2>2. MaxBody - total \in Int /\ MaxBody - total >= 0
      BY <2>1
    <2> QED BY <2>1, <2>2, Advertised
  <1>4. total' \in Nat
    BY <1>1 DEF Inv, TypeInv
  <1>5. CASE response'.from = "handler"
    BY <1>1, <1>2, <1>3, <1>4, <1>5, LateReply
  <1>6. CASE response'.from = "error"
    BY <1>1, <1>2, <1>4, <1>6, LateReply
  <1>7. CASE response'.from = "timeout"
    <2>1. PICK own \in {{}, cors \ {"unset"}} : own = cors \ {"unset"}
      OBVIOUS
    <2> QED BY <1>1, <1>2, <1>4, <1>7, <2>1, LateReply
  <1> QED BY <1>2, <1>5, <1>6, <1>7

\* The chunk that crosses the limit is counted and not handed over.
LEMMA ReadStep == Inv /\ ReadChunk => Inv'
  <1> SUFFICES ASSUME Inv, ReadChunk PROVE Inv'
    OBVIOUS
  <1>1. /\ at = "handler" /\ unread # <<>> /\ total' = total + Head(unread)
        /\ UNCHANGED <<request, scope, cors, context, limiter, routed, observed>>
    BY DEF ReadChunk
  <1>2. /\ total = given /\ given \in Nat /\ given =< MaxBody /\ MaxBody \in Nat
        /\ unread \in Seq(Nat) /\ response.status = 0 /\ response.from = "none"
    BY <1>1, BudgetAssumption
    DEF Inv, ReplyInv, BodyStaysBounded, Running, InsideContext, InsideRate, InsideSanitize,
        InsideLimits, InsideContent, InsideMethod, InsideCors, InsideExposure
  <1>3. Head(unread) \in Nat /\ Tail(unread) \in Seq(Nat) /\ total' \in Nat
    BY <1>1, <1>2
  <1>4. CASE TooLong
    <2>1. /\ at' = "starting" /\ response'.from = "handler" /\ response'.status = 413
          /\ response'.fields = {} \cup Fields("handler")
          /\ response'.remaining = Max({MaxBody - (total + Head(unread)), 0})
          /\ UNCHANGED <<unread, given>>
      BY <1>4 DEF ReadChunk, Respond
    <2>2. MaxBody - (total + Head(unread)) \in Int /\ ~(MaxBody - (total + Head(unread)) >= 0)
      BY <1>2, <1>3, <1>4 DEF TooLong
    <2>3. response'.remaining = 0
      BY <2>1, <2>2, Advertised
    <2> QED BY <1>1, <1>3, <2>1, <2>3, LateReply
  <1>5. CASE ~TooLong
    <2>1. /\ UNCHANGED <<at, response>> /\ unread' = Tail(unread)
          /\ given' = given + Head(unread)
      BY <1>5 DEF ReadChunk
    <2>2. given' = total' /\ given' \in Nat /\ given' =< MaxBody
      BY <1>1, <1>2, <1>3, <1>5, <2>1 DEF TooLong
    <2>3. TypeInv'
      BY <1>1, <1>3, <2>1 DEF Inv, TypeInv, limiter, observed, sent, told
    <2>4. StageInv'
      BY <1>1, <2>1, SameReading DEF Inv, StageInv, limiter
    <2>5. HeaderInv'
      <3>1. UNCHANGED <<request, scope, at>>
        BY <1>1, <2>1
      <3>2. /\ \A n : Values(scope.headers, n)' = Values(scope.headers, n)
            /\ \A n : Values(request.headers, n)' = Values(request.headers, n)
        BY <3>1 DEF Values
      <3>3. Dirty(scope.headers)' = Dirty(scope.headers)
        BY <3>1, SameReading
      <3> QED BY <3>1, <3>2, <3>3 DEF Inv, HeaderInv
    <2>6. CorsInv'
      BY <1>1, <2>1, SameReading DEF Inv, CorsInv
    <2>7. ReplyInv'
      BY <1>1, <1>3, <2>1, <2>2 DEF Inv, ReplyInv
    <2>8. RecordInv'
      <3>1. at \in Running
        BY <1>1 DEF Running, InsideContext, InsideRate, InsideSanitize, InsideLimits,
                    InsideContent, InsideMethod, InsideCors, InsideExposure
      <3> QED BY <1>1, <2>1, <3>1, NothingTold DEF observed
    <2>9. IdentityIsEarned'
      BY <1>1, SameIdentity DEF Inv, limiter
    <2>10. PermissionFollowsPolicy' /\ ReplyIsWrapped' /\ BodyStaysBounded'
      BY <1>2, <2>1, <2>2, NoReplyYet
    <2> QED BY <2>3, <2>4, <2>5, <2>6, <2>7, <2>8, <2>9, <2>10 DEF Inv
  <1> QED BY <1>4, <1>5

-----------------------------------------------------------------------------
(* The theorems. *)

LEMMA Stuttering == Inv /\ UNCHANGED vars => Inv'
  <1> SUFFICES ASSUME Inv, UNCHANGED vars PROVE Inv'
    OBVIOUS
  <1>1. UNCHANGED <<request, at, scope, cors, context, charged, verdict, routed, total,
                    unread, given, response, sent, told, subscribers>>
    BY DEF vars, sent, told
  <1>2. TypeInv' /\ ReplyInv'
    BY <1>1 DEF Inv, TypeInv, ReplyInv, sent, told
  <1>3. StageInv'
    BY <1>1, SameReading DEF Inv, StageInv
  <1>4. HeaderInv'
    BY <1>1 DEF Inv, HeaderInv, Values, Dirty
  <1>5. CorsInv'
    BY <1>1, SameReading DEF Inv, CorsInv
  <1>6. RecordInv'
    <2>1. outcome # "none" => \E code \in 0..504 : ToldStatus(code)'
      BY <1>1, ToldBefore DEF sent
    <2>2. SentInv'
      BY <1>1 DEF Inv, RecordInv, SentInv, sent, told
    <2> QED BY <1>1, <2>1, <2>2 DEF Inv, RecordInv, told
  <1>7. IdentityIsEarned'
    BY <1>1, SameIdentity DEF Inv
  <1>8. BodyStaysBounded' /\ ReplyIsWrapped'
    BY <1>1 DEF Inv, BodyStaysBounded, ReplyIsWrapped
  <1>9. PermissionFollowsPolicy'
    BY <1>1, SameReading DEF Inv, PermissionFollowsPolicy, Values
  <1> QED BY <1>2, <1>3, <1>4, <1>5, <1>6, <1>7, <1>8, <1>9 DEF Inv

LEMMA InductiveStep == Inv /\ [Next]_vars => Inv'
  <1> SUFFICES ASSUME Inv, [Next]_vars PROVE Inv'
    OBVIOUS
  <1>1. CASE Stack
    BY <1>1, ProxyStep, ContextStep, FallbackStep, ObserverSteps, RatePassSteps, RejectStep,
       SanitizeStep, GateSteps, CorsStep, RouteStep, SettlingSteps DEF Stack
  <1>2. CASE ReadChunk \/ HandlerResponds \/ HandlerRaises \/ Deadline
    BY <1>2, ReadStep, HandlerReplies
  <1>3. CASE \/ StartAccepted \/ SendEnds \/ SendBreaks \/ SendRaises \/ StreamDeadline
           \/ Disconnect \/ LateDisconnect \/ WorkEnds
    BY <1>3, SendSteps, SettlingSteps, DisconnectStep
  <1>4. CASE UNCHANGED vars
    BY <1>4, Stuttering
  <1> QED BY <1>1, <1>2, <1>3, <1>4 DEF Next

\* The invariant of the stack.
THEOREM Invariance == Spec => []Inv
  BY Initial, InductiveStep, PTL DEF Spec

\* Whoever calls and whatever is in the request, the handler is reached under
\* an identity that its peer has earned, with clean headers within every
\* budget, an open route, an allowed method, and never more body than the
\* limit (the guards of the middlewares that create_app() installs).
THEOREM GuardedHandler == Spec => []GuardsHold
  <1>1. Inv => GuardsHold
    <2> SUFFICES ASSUME Inv PROVE GuardsHold
      OBVIOUS
    <2>1. TypeOK
      <3>1. Len(records) =< 2
        <4>1. CASE outcome = "none"
          BY <4>1 DEF Inv, RecordInv
        <4>2. CASE outcome # "none"
          <5>0. PICK code \in 0..504 : ToldStatus(code)
            BY <4>2 DEF Inv, RecordInv
          <5> DEFINE news == {Telling(k, outcome, code) : k \in subscribers}
          <5>1. records = SetToSeq(news)
            BY <5>0 DEF ToldStatus
          <5>2. IsFiniteSet(news) /\ Cardinality(news) =< 2
            BY FiniteNews DEF Inv, TypeInv
          <5> HIDE DEF news
          <5>3. Len(SetToSeq(news)) = Cardinality(news)
            BY <5>2, Listed
          <5> QED BY <5>1, <5>2, <5>3
        <4> QED BY <4>1, <4>2
      <3> QED BY <3>1, LayerSet DEF Inv, TypeInv, TypeOK
    <2>2. HandlerIsGuarded
      <3> SUFFICES ASSUME at = "handler" PROVE HandlerIsGuarded
        BY DEF HandlerIsGuarded
      <3> USE DEF Running, InsideContext, InsideRate, InsideSanitize, InsideLimits,
                  InsideContent, InsideMethod, InsideCors, InsideExposure
      <3>1. DOMAIN scope.headers \subseteq Nat /\ ~Dirty(scope.headers)
        BY HeadersAreIndexed DEF Inv, TypeInv, HeaderInv
      <3>2. Values(scope.headers, "content-type") = Values(request.headers, "content-type")
        BY DEF Inv, HeaderInv, Kept
      <3>3. /\ ~OverBudget(scope.headers) /\ ~Hidden /\ request.method \in AllowedMethods
            /\ ~WrongType(scope.headers)
            /\ charged # "nobody" \/ request.family = "favicon"
        BY DEF Inv, StageInv
      <3>4. Reads => Values(request.headers, "content-type") = {"json"}
        BY <3>2, <3>3 DEF Reads, WrongType
      <3> QED BY <3>1, <3>3, <3>4, CleanMeansOnce DEF HandlerIsGuarded, Hidden
    <2> QED BY <2>1, <2>2 DEF Inv, GuardsHold
  <1> QED BY <1>1, Invariance, PTL

\* Whichever layer replies, the reply is correlated, hardened and tells the
\* limiter's verdict, and only a known origin that passed every policy before
\* the browser's is given access (the wrappers of create_app()).
THEOREM FaithfulReply == Spec => []ReplyFollowsPolicy
  <1>1. Inv => ReplyFollowsPolicy
    BY DEF Inv, ReplyFollowsPolicy
  <1> QED BY <1>1, Invariance, PTL

\* As soon as a request is settled, its logger and its metrics have each been
\* told once and the same: completed for a reply the server took to its last
\* message, and otherwise an abort, with the status of the start the server
\* accepted or with none (RequestObservation.settle, send_observed).
THEOREM OneRecordEach == Spec => []RecordsAgree
  <1>1. Inv => RecordsAgree
    <2> SUFFICES ASSUME Inv, outcome # "none" PROVE RecordsAgree
      BY DEF RecordsAgree, Inv, RecordInv, SentInv
    <2>0. PICK code \in 0..504 : ToldStatus(code)
      BY DEF Inv, RecordInv
    <2> DEFINE news == {Telling(k, outcome, code) : k \in subscribers}
    <2>1. records = SetToSeq(news)
      BY <2>0 DEF ToldStatus
    <2>2. IsFiniteSet(news) /\ Cardinality(news) = Cardinality(subscribers)
      BY FiniteNews DEF Inv, TypeInv
    <2>3. \A x \in news : x.key \in subscribers /\ x = Telling(x.key, outcome, code)
      BY DEF Telling
    <2>4. ASSUME NEW k \in subscribers PROVE \E x \in news : x.key = k
      <3>1. Telling(k, outcome, code) \in news
        OBVIOUS
      <3>2. Telling(k, outcome, code).key = k
        BY DEF Telling
      <3> QED BY <3>1, <3>2
    <2> HIDE DEF news
    <2>5. /\ records \in Seq(news) /\ Len(records) = Cardinality(news)
          /\ \A x \in news : \E i \in DOMAIN records : records[i] = x
      BY <2>1, <2>2, Listed
    <2>6. \A i \in DOMAIN records : records[i] \in news
      BY <2>5
    <2>7. {records[i].key : i \in DOMAIN records} = subscribers
      <3>1. \A i \in DOMAIN records : records[i].key \in subscribers
        BY <2>3, <2>6
      <3>2. ASSUME NEW k \in subscribers PROVE \E i \in DOMAIN records : records[i].key = k
        <4>1. PICK x \in news : x.key = k
          BY <2>4
        <4>2. PICK i \in DOMAIN records : records[i] = x
          BY <2>5
        <4> QED BY <4>1, <4>2
      <3> QED BY <3>1, <3>2
    <2>8. ASSUME NEW i \in DOMAIN records
          PROVE  /\ records[i].outcome = outcome
                 /\ outcome = "aborted" => records[i].level # "debug"
                 /\ outcome = "completed" =>
                        finished /\ records[i].status = response.status /\ response.status # 0
                 /\ records[i].status # accepted => left /\ records[i].status = 0
                 /\ ~routed => records[i].route = "<unmatched>"
      <3>1. PICK k : records[i] = Telling(k, outcome, code)
        BY <2>3, <2>6
      <3>2. /\ records[i].outcome = outcome /\ records[i].status = code
            /\ outcome = "aborted" => records[i].level # "debug"
            /\ ~routed => records[i].route = "<unmatched>"
        BY <3>1 DEF Telling, Level, Label
      <3>3. /\ code = accepted \/ (left /\ code = 0)
            /\ outcome = "completed" => code = accepted
        BY <2>0 DEF ToldStatus
      <3>4. outcome = "completed" => finished /\ accepted = response.status /\ response.status # 0
        BY DEF Inv, RecordInv, SentInv
      <3> QED BY <3>2, <3>3, <3>4
    <2>9. {Layers[k] : k \in 1..Index("exposure")} \ {"error", "timeout"} \subseteq Refusing
      <3>1. Index("exposure") = 15 /\ DOMAIN Layers = 1 .. 17
        BY Places DEF Place
      <3>2. ASSUME NEW k \in 1 .. 15 PROVE Layers[k] \in Running \ {"route", "handler"}
        <4>1. k \in DOMAIN Layers /\ 16 \in DOMAIN Layers /\ 17 \in DOMAIN Layers
          BY <3>1
        <4>2. Layers[k] \in Running
          BY <4>1, LayerSet
        <4>3. Layers[k] # "route" /\ Layers[k] # "handler"
          <5>1. \/ k = 1 \/ k = 2 \/ k = 3 \/ k = 4 \/ k = 5 \/ k = 6 \/ k = 7 \/ k = 8
                \/ k = 9 \/ k = 10 \/ k = 11 \/ k = 12 \/ k = 13 \/ k = 14 \/ k = 15
            OBVIOUS
          <5> QED BY <5>1, Places DEF Place
        <4> QED BY <4>2, <4>3
      <3> QED BY <3>1, <3>2 DEF Refusing
    <2>10. response.from \in Refusing => ~routed
      BY DEF Inv, ReplyInv
    <2>11. finished /\ outcome # "completed" => left
      BY DEF Inv, RecordInv, SentInv
    <2> QED BY <2>2, <2>5, <2>7, <2>8, <2>9, <2>10, <2>11 DEF RecordsAgree
  <1> QED BY <1>1, Invariance, PTL

=============================================================================
