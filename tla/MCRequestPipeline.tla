------------------------- MODULE MCRequestPipeline -------------------------
(* Requests for the pipeline: one group per policy, so that every pair of   *)
(* decisions that meet in the code is met in some request.                  *)
EXTENDS RequestPipeline

H(n, v, s) == [name |-> n, value |-> v, hosts |-> <<>>, size |-> s]
For(hosts) == [name |-> "x-forwarded-for", value |-> "chain", hosts |-> hosts, size |-> 1]
R(peer, method, family, spelling, headers, chunks) ==
    [peer |-> peer, method |-> method, family |-> family, spelling |-> spelling,
     headers |-> headers, chunks |-> chunks]

Peers == {"proxy", "stranger"}
Chains == UNION {[1..n -> {"proxy", "inner", "client", "bad"}] : n \in 1..2}
            \cup {<<"stranger", "client", "inner">>, <<"client", "inner", "proxy">>}

\* Who the client is.
ForwardingRequests ==
    {R(p, "GET", "items", "exact", hs, <<>>) : p \in Peers,
        hs \in {<<For(c)>> : c \in Chains}
          \cup {<<For(c), h>> : c \in {<<"client">>, <<"proxy">>},
                  h \in {For(<<"client">>), H("x-forwarded-proto", "https", 1),
                         H("x-forwarded-proto", "ftp", 1), H("x-forwarded-proto", "crlf", 1),
                         H("forwarded", "ok", 1), H("x-extra", "ok", 4), H("x-extra", "ok", 1)}}
          \cup {<<H("x-forwarded-proto", "https", 1)>>,
                <<For(<<"client">>), H("x-extra", "ok", 1), H("x-more", "ok", 1),
                  H("x-other", "ok", 1)>>}}

\* What the header, content, method and origin policies do, in any order.
PolicyHeaders ==
    {H("origin", v, 1) : v \in {"known", "evil", "empty"}}
      \cup {H("content-type", v, 1) : v \in {"json", "text"}}
      \cup {H("content-length", v, 1) : v \in {"fits", "over"}}
      \cup {H("x-extra", "ok", 4), H("bad_name", "ok", 1), H("x-extra", "nonascii", 1),
            H("idempotency-key", "ok", 3), H("idempotency-key", "ok", 4),
            H("transfer-encoding", "ok", 1)}
PolicyRequests ==
    {R("stranger", m, "items", "exact", hs, chunks) :
        m \in {"GET", "POST", "OPTIONS", "TRACE"},
        hs \in UNION {[1..n -> PolicyHeaders] : n \in 0..2}
                 \cup {<<H("content-type", "json", 1), H("idempotency-key", "ok", 3), h>> :
                          h \in PolicyHeaders},
        chunks \in {<<>>, <<2>>, <<1, 1>>, <<2, 1>>}}
PreflightRequests ==
    {R("stranger", "OPTIONS", "items", "exact",
       <<H("origin", o, 1), H("access-control-request-method", m, 1)>> \o extra, <<>>) :
        o \in {"known", "evil", "empty"}, m \in {"POST", "HEAD", "TRACE"},
        extra \in {<<>>, <<H("access-control-request-headers", "allowed", 1)>>,
                   <<H("access-control-request-headers", "other", 1)>>}}

\* Which paths are served, hidden, exempt or counted.
PathRequests ==
    {R("stranger", m, f, s, hs, <<>>) :
        m \in {"GET", "HEAD", "POST"}, f \in DOMAIN Routes \cup {"missing"},
        s \in {"exact", "alias", "below"},
        hs \in {<<>>, <<H("content-type", "json", 1)>>, <<H("origin", "known", 1)>>}}
      \cup {R("none", "GET", "items", "exact", <<>>, <<>>)}

MCRequests == ForwardingRequests \cup PolicyRequests \cup PreflightRequests
                \cup PathRequests
=============================================================================
