------------------------------- MODULE RouteTable -------------------------------
(***************************************************************************)
(* The route table (internal/proxy/table.go) and the request's path and    *)
(* identity as the gateway reads them (internal/proxy/gateway.go,          *)
(* identity.go).                                                           *)
(*                                                                         *)
(* Paths are split at their slashes, as in Config; "*" is the path of      *)
(* OPTIONS *, and <<"">> that of a request line without one.  Go orders    *)
(* entries by the length of the prefix in bytes, the model by its length   *)
(* in segments: of two prefixes of one path the longer is longer in both.  *)
(***************************************************************************)
EXTENDS Config

CONSTANTS
  Unescape(_),    \* the segments that an escaped segment decodes to
  Fingerprint(_)  \* the first bytes of an API key's SHA-256

\* The table's entry of a route.
Entry(route) == [prefix |-> TrimRight(route.prefix), route |-> route]

mut_NewTable(routes) == [i \in DOMAIN routes |-> Entry(routes[i])]

\* Does sort.SliceStable put the i-th route before the j-th?
Before(routes, i, j) ==
  LET length(k) == Len(Entry(routes[k]).prefix)
  IN  length(i) > length(j) \/ (length(i) = length(j) /\ i < j)

\* The routes in the order of the table.
Order(routes) ==
  CHOOSE f \in Bijection(DOMAIN routes, DOMAIN routes) :
    \A i, j \in DOMAIN routes : i < j => Before(routes, f[i], f[j])

\* Longest prefix first, in the order of the configuration otherwise.
NewTable(routes) == [i \in DOMAIN routes |-> Entry(routes[Order(routes)[i]])]

\* What path.Clean does with the next segment.
CleanStep(acc, segment) ==
  IF segment \in {"", "."} THEN acc
  ELSE IF segment # ".." THEN Append(acc, segment)
  ELSE IF acc = << >> THEN acc ELSE Front(acc)

\* path.Clean
Clean(path) ==
  LET cleaned[i \in 0 .. Len(path)] ==
        IF i = 0 THEN << >> ELSE CleanStep(cleaned[i - 1], path[i])
      all == cleaned[Len(path)]
  IN  IF Rooted(path) THEN <<"">> \o (IF all = << >> THEN <<"">> ELSE all)
      ELSE IF path = <<"">> THEN <<".">> ELSE path

\* The entry's prefix is the path, or is followed by "/" in it.
Matches(entry, clean) == entry.prefix = clean \/ IsStrictPrefix(entry.prefix, clean)

\* Table.Match: the place of the path's entry, or 0.
Match(table, escapedPath) ==
  LET clean == Clean(escapedPath)
  IN  SelectInSeq(table, LAMBDA entry : Matches(entry, clean))

\* r.URL.Path of a request with this escaped path
Decoded(escapedPath) ==
  LET decoded[i \in 0 .. Len(escapedPath)] ==
        IF i = 0 THEN << >> ELSE decoded[i - 1] \o Unescape(escapedPath[i])
  IN  decoded[Len(escapedPath)]

hasDotSegments(path) == \E i \in DOMAIN path : path[i] \in {".", ".."}

mut_Route(table, escapedPath) ==
  IF hasDotSegments(escapedPath) THEN 0 ELSE Match(table, escapedPath)

\* Where ServeHTTP finds the request's entry, 0 for a 404.
Route(table, escapedPath) ==
  IF hasDotSegments(Decoded(escapedPath)) THEN 0 ELSE Match(table, escapedPath)

-------------------------------------------------------------------------------
\* The key if the client sends one, or its address without the port.
IdentityFor(client) ==
  IF client.key # "" THEN [kind |-> "key", value |-> client.key]
  ELSE [kind |-> "ip", value |-> client.host]

\* Identity.String
IdentityString(id) ==
  <<id.kind, IF id.kind = "key" THEN Fingerprint(id.value) ELSE id.value>>

\* The limit a client gets on an entry, and where its state is kept.
EffectiveLimit(entry, client) == LimitFor(entry.route, IdentityFor(client).value)

StateKey(entry, client) ==
  <<EffectiveLimit(entry, client).algorithm, entry.prefix, IdentityString(IdentityFor(client))>>

\* NewGateway's proxies: one upstream for each normalised prefix, the last
\* entry's.
Proxies(table) ==
  [prefix \in {table[i].prefix : i \in DOMAIN table} |->
     table[Max({i \in DOMAIN table : table[i].prefix = prefix})].route.upstream]
================================================================================
