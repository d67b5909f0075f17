---------------------------- MODULE MCGatewayProcess ----------------------------
(* GatewayProcess for TLC: documents that vary one part of the configuration
   at a time. *)
EXTENDS GatewayProcess

MCUnescape(segment) ==
  CASE segment = "a%2Fb" -> <<"a", "b">>
    [] segment = "%2E%2E" -> <<"..">>
    [] segment = "x%2F..%2F..%2Fb" -> <<"x", "..", "..", "b">>
    [] OTHER -> <<segment>>

MCFingerprint(key) == <<"sha256", key>>

\* Every path of up to three segments over the alphabet, and those without a
\* leading slash.
MCPaths ==
  {<<"*">>, <<"">>}
    \cup {<<"">> \o p : p \in BoundedSeq({"", "a", "b", "ab", "..", "a%2Fb", "%2E%2E",
                                        "x%2F..%2F..%2Fb"}, 3) \ {<< >>}}

\* k1 has an override; so has 10.0.0.1, which is a key and an address.
MCClients ==
  [key : {"", "k1", "k2", "10.0.0.1"}, host : {"10.0.0.1", "10.0.0.2"}, port : {1, 2}]

Limit(algorithm, rate, burst, window) ==
  [algorithm |-> algorithm, rate |-> rate, burst |-> burst, window |-> window]

Fixed == Limit("fixed_window", 2, 0, 1)

RouteTo(prefix, upstream) ==
  [prefix |-> prefix, upstream |-> upstream, limit |-> Fixed, overrides |-> << >>]

NoTimeouts == [t \in DOMAIN DefaultSeconds |-> 0]

Document ==
  [timeouts |-> NoTimeouts, backend |-> "memory", addr |-> "", onError |-> "",
   routes |-> <<RouteTo(<<"", "a">>, "u1")>>]

\* The limiter section and the timeouts.
LimiterDocuments ==
  {[Document EXCEPT !.backend = b, !.addr = a, !.onError = e, !.timeouts["shutdown"] = t] :
     b \in {"", "redis", "etcd"}, a \in {"", "redis.sock"},
     e \in {"", "fail_closed", "fail_shut"}, t \in {0, -1}}

\* A limit and an override of it, for two keys.
LimitDocuments ==
  {[Document EXCEPT !.routes[1].limit = base,
                    !.routes[1].overrides = ("k1" :> own @@ "10.0.0.1" :> own)] :
     base \in {Limit(a, r, b, w) : a \in {"fixed_window", "token_bucket", "leaky"},
                                   r \in {0, 2}, b \in {0, 1}, w \in {0, 1}},
     own \in {Limit(a, r, b, w) : a \in {"", "sliding_window", "token_bucket"},
                                  r \in {-1, 0, 1}, b \in {0, 1}, w \in {0, 1}}}

RoutePrefixes == {<<"", "">>, <<"", "a">>, <<"", "a", "">>, <<"", "a", "b">>, <<"", "b">>,
                  <<"", "a", "", "b">>}

\* Lists of up to three routes, and routes that cannot be served.
RouteDocuments ==
  {[Document EXCEPT !.routes = [i \in DOMAIN list |-> RouteTo(list[i], <<"u1", "u2", "u3">>[i])]] :
     list \in BoundedSeq(RoutePrefixes, 3)}
  \cup {[Document EXCEPT !.routes[1] = RouteTo(p, u)] :
          p \in {<<"a">>, <<"", "a">>}, u \in {"u1", "relative", "unparseable"}}

MCDocuments == LimiterDocuments \cup LimitDocuments \cup RouteDocuments
================================================================================
